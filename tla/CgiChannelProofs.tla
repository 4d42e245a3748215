-------------------------- MODULE CgiChannelProofs --------------------------
(***************************************************************************)
(* Proofs about CgiChannel, for every finite set of CGIs and any number of *)
(* requests and stops: the account of the tokens, that a CGI with the      *)
(* segment to itself reads its own answer, and that its alarm settings are *)
(* in the file by then.                                                    *)
(***************************************************************************)
EXTENDS CgiChannel, FiniteSetTheorems, TLAPS

(* A CGI posts and waits on semaphores that are there.                     *)
ChannelIsThere == \A c \in Cgis : cpc[c] \in {"post", "wait"} => exists

(* Where nothing is mixed, there is one CGI, and the request is its own.   *)
Alone == ~mixed => \A c \in Cgis : cpc[c] # "idle" => shm.by = c

(* The answer is there before the token that lets the CGI read it.         *)
AnswerBeforeToken ==
  ~mixed /\ ~lost =>
     \A c \in Cgis :
        \/ cpc[c] = "wait" /\ (tpc \in {"save", "reply"} \/ sem_id_cgi > 0)
        \/ cpc[c] = "read"
        => shm.answer = c

(* Where nothing is mixed and nothing lost, the handler is that of the     *)
(* request, it has set the schedule before the file is written, and the    *)
(* file is written before a page that saves is answered.                   *)
SavedOnTheWay ==
  ~mixed /\ ~lost =>
     /\ tpc = "handle" => handler = shm.page
     /\ tpc = "save" => g_config["schedule"] = shm.data
     /\ (tpc = "reply" \/ sem_id_cgi > 0 \/ Reading)
        /\ shm.page \in SavingPages /\ shm.send_rev = 0
        => file["schedule"] = shm.data

ChannelInv ==
  /\ TypeOK /\ ChannelIsThere /\ TokenAccount
  /\ Alone /\ AnswerBeforeToken /\ SavedOnTheWay

LEMMA InitChannelInv == Init => ChannelInv
<1> SUFFICES ASSUME Init PROVE ChannelInv
  OBVIOUS
<1> USE CgiAssumption DEF Init
<1>1. TypeOK
  <2>1. shm \in [page : Pages, send_rev : {0, 1}, data : Values \cup (0 .. 4),
                 result : {"suc", "err"}, by : Cgis \cup {NoCgi},
                 answer : Cgis \cup {NoCgi}]
    BY DEF Zeroed, Pages, HandledPages, ReadingPages
  <2>2. g_config \in Settings /\ file \in Settings
    BY DEF Settings, Factory
  <2>3. tpc \in ThreadPC /\ cpc \in [Cgis -> CgiPC]
    BY DEF ThreadPC, CgiPC
  <2>4. sem_id \in Nat /\ sem_id_cgi \in Nat
    OBVIOUS
  <2>5. asks \in 0 .. MaxRequests /\ stops \in 0 .. MaxStops
    OBVIOUS
  <2>6. /\ exists \in BOOLEAN /\ quit \in BOOLEAN
        /\ mixed \in BOOLEAN /\ lost \in BOOLEAN
    OBVIOUS
  <2>7. handler \in HandledPages \cup {"none"} /\ card \in {"photos", "blank"}
    OBVIOUS
  <2> QED
    BY <2>1, <2>2, <2>3, <2>4, <2>5, <2>6, <2>7, Zenon DEF TypeOK
<1>2. ChannelIsThere /\ Alone /\ AnswerBeforeToken /\ SavedOnTheWay
  BY DEF ChannelIsThere, Alone, AnswerBeforeToken, SavedOnTheWay, Reading
<1>3. TokenAccount
  <2>1. Waiting = {}
    BY DEF Waiting
  <2> QED
    BY <2>1, FS_EmptySet DEF TokenAccount, Busy
<1> QED
  BY <1>1, <1>2, <1>3 DEF ChannelInv

-----------------------------------------------------------------------------
(* What a handler leaves in the segment has the segment's type.            *)
LEMMA AnswerType ==
  ASSUME TypeOK, NEW ret \in {"suc", "err"},
         \/ AnswerWith(shm, ret)
         \/ AnswerWith([Zeroed EXCEPT !.by = shm.by], ret)
  PROVE  /\ shm' \in [page : Pages, send_rev : {0, 1}, data : Values \cup (0 .. 4),
                      result : {"suc", "err"}, by : Cgis \cup {NoCgi},
                      answer : Cgis \cup {NoCgi}]
         /\ shm'.by = shm.by /\ shm'.answer = shm.by
         /\ handler' = "none"
<1>1. PICK segment \in {shm, [Zeroed EXCEPT !.by = shm.by]} :
        AnswerWith(segment, ret)
  OBVIOUS
<1>2. /\ segment \in [page : Pages, send_rev : {0, 1}, data : Values \cup (0 .. 4),
                       result : {"suc", "err"}, by : Cgis \cup {NoCgi},
                       answer : Cgis \cup {NoCgi}]
      /\ segment.by = shm.by /\ shm.by \in Cgis \cup {NoCgi}
  BY DEF TypeOK, Zeroed, Pages, HandledPages, ReadingPages
<1>3. shm' = [segment EXCEPT !.result = ret, !.answer = shm.by] /\ handler' = "none"
  BY <1>1 DEF AnswerWith
<1> HIDE DEF TypeOK
<1> QED
  BY <1>2, <1>3

(* The steps of the handlers, as far as the invariant sees them.           *)
LEMMA HandleStep ==
  ASSUME TypeOK,
         \/ HandleSetting \/ HandleReading \/ HandleLogin \/ HandleSdcrtl
         \/ HandleRestore
  PROVE  /\ tpc = "handle" /\ tpc' \in {"save", "reply"}
         /\ shm'.by = shm.by /\ shm'.answer = shm.by
         /\ UNCHANGED <<sems, cgi, lost, stops>>
         /\ TypeOK'
<1> USE DEF ThreadGoes, config, sems, cgi
<1>1. ASSUME NEW ret \in {"suc", "err"},
             \/ AnswerWith(shm, ret)
             \/ AnswerWith([Zeroed EXCEPT !.by = shm.by], ret),
             tpc' \in {"save", "reply"}, UNCHANGED <<sems, cgi, lost, stops>>,
             quit' \in BOOLEAN, g_config' \in Settings, file' \in Settings,
             card' \in {"photos", "blank"}
      PROVE  shm'.by = shm.by /\ shm'.answer = shm.by /\ TypeOK'
  <2>1. /\ shm' \in [page : Pages, send_rev : {0, 1}, data : Values \cup (0 .. 4),
                     result : {"suc", "err"}, by : Cgis \cup {NoCgi},
                     answer : Cgis \cup {NoCgi}]
        /\ shm'.by = shm.by /\ shm'.answer = shm.by
        /\ handler' = "none"
    BY <1>1, AnswerType
  <2> QED
    BY <1>1, <2>1 DEF TypeOK, ThreadPC
<1>2. CASE HandleSetting
  <2>1. AnswerWith(shm, "suc") /\ tpc = "handle" /\ tpc' \in {"save", "reply"}
    BY <1>2 DEF HandleSetting
  <2>2. g_config' \in Settings
    BY <1>2 DEF HandleSetting, TypeOK, Settings
  <2>3. /\ quit' \in BOOLEAN /\ file' \in Settings /\ card' \in {"photos", "blank"}
        /\ UNCHANGED <<sems, cgi, lost, stops>>
    BY <1>2 DEF HandleSetting, TypeOK
  <2> QED
    BY <1>1, <2>1, <2>2, <2>3
<1>3. CASE HandleReading
  <2>1. \/ AnswerWith(shm, "suc")
        \/ AnswerWith([Zeroed EXCEPT !.by = shm.by], "suc")
    BY <1>3 DEF HandleReading
  <2>2. /\ tpc = "handle" /\ tpc' = "reply"
        /\ UNCHANGED <<sems, cgi, lost, stops, quit, g_config, file, card>>
    BY <1>3 DEF HandleReading
  <2> QED
    BY <1>1, <2>1, <2>2 DEF TypeOK
<1>4. CASE HandleLogin
  <2>1. PICK ret \in {"suc", "err"} : AnswerWith(shm, ret)
    BY <1>4 DEF HandleLogin
  <2>2. /\ tpc = "handle" /\ tpc' = "reply"
        /\ UNCHANGED <<sems, cgi, lost, stops, quit, g_config, file, card>>
    BY <1>4 DEF HandleLogin
  <2> QED
    BY <1>1, <2>1, <2>2 DEF TypeOK
<1>5. CASE HandleSdcrtl
  <2>1. AnswerWith(shm, "suc") /\ tpc = "handle" /\ tpc' = "reply"
    BY <1>5 DEF HandleSdcrtl
  <2>2. /\ card' \in {"photos", "blank"}
        /\ UNCHANGED <<sems, cgi, lost, stops, quit, g_config, file>>
    BY <1>5 DEF HandleSdcrtl, TypeOK
  <2> QED
    BY <1>1, <2>1, <2>2 DEF TypeOK
<1>6. CASE HandleRestore
  <2>1. AnswerWith(shm, "suc") /\ tpc = "handle" /\ tpc' = "reply"
    BY <1>6 DEF HandleRestore
  <2>2. file' \in Settings
    BY <1>6 DEF HandleRestore, Settings, Factory
  <2>3. /\ quit' = TRUE
        /\ UNCHANGED <<sems, cgi, lost, stops, g_config, card>>
    BY <1>6 DEF HandleRestore
  <2> QED
    BY <1>1, <2>1, <2>2, <2>3 DEF TypeOK
<1> QED
  BY <1>2, <1>3, <1>4, <1>5, <1>6

-----------------------------------------------------------------------------
(* The types are kept by the steps that are not handlers'.                 *)
LEMMA ThreadTypes == TypeOK /\ Thread => TypeOK'
<1> SUFFICES ASSUME TypeOK, Thread PROVE TypeOK'
  OBVIOUS
<1> USE CgiAssumption DEF ThreadGoes, config, sems, cgi, ThreadPC
<1> DEFINE Segments == [page : Pages, send_rev : {0, 1}, data : Values \cup (0 .. 4),
                        result : {"suc", "err"}, by : Cgis \cup {NoCgi},
                        answer : Cgis \cup {NoCgi}]
<1>0. shm \in Segments /\ Zeroed \in Segments /\ Factory \in Settings
  BY DEF TypeOK, Zeroed, Pages, HandledPages, ReadingPages, Settings, Factory
<1> HIDE DEF Segments
<1>1. CASE Start
  <2>1. shm' \in Segments /\ g_config' \in Settings /\ mixed' \in BOOLEAN
        /\ lost' \in BOOLEAN
    BY <1>0, <1>1 DEF Start, TypeOK
  <2> QED
    BY <1>1, <2>1 DEF Start, TypeOK, Segments
<1>2. CASE P
  BY <1>2 DEF P, TypeOK
<1>3. CASE Match
  BY <1>3 DEF Match, TypeOK
<1>4. CASE NoMatch
  BY <1>0, <1>4 DEF NoMatch, DaemonEnds, TypeOK
<1>5. CASE \/ HandleSetting \/ HandleReading \/ HandleLogin \/ HandleSdcrtl
           \/ HandleRestore
  BY <1>5, HandleStep
<1>6. CASE Save
  <2>1. file' \in Settings
    <3>1. file' = [g_config EXCEPT !["week_plan"] = 0]
      BY <1>6 DEF Save, Written
    <3>2. g_config \in [Params -> Values \cup 0 .. 4] /\ 0 \in Values \cup 0 .. 4
      BY DEF TypeOK, Settings
    <3> QED
      BY <3>1, <3>2 DEF Settings
  <2> QED
    BY <1>6, <2>1 DEF Save, TypeOK
<1>7. CASE Reply
  BY <1>7 DEF Reply, TypeOK
<1>8. CASE Teardown
  <2>1. cpc' \in [Cgis -> CgiPC]
    BY <1>8 DEF Teardown, TypeOK, CgiPC
  <2>2. mixed' \in BOOLEAN
    BY <1>8, Zenon DEF Teardown
  <2> QED
    BY <1>0, <1>8, <2>1, <2>2 DEF Teardown, DaemonEnds, TypeOK
<1> QED
  BY <1>1, <1>2, <1>3, <1>4, <1>5, <1>6, <1>7, <1>8 DEF Thread

LEMMA StopTypes == TypeOK /\ (Crash \/ PowerLoss) => TypeOK'
<1> SUFFICES ASSUME TypeOK, Crash \/ PowerLoss PROVE TypeOK'
  OBVIOUS
<1> USE CgiAssumption DEF ThreadPC, DaemonEnds
<1>1. Factory \in Settings
  BY DEF Settings, Factory
<1>2. CASE Crash
  <2>1. lost' \in BOOLEAN
    BY <1>2, Zenon DEF Crash
  <2>2. /\ stops' \in 0 .. MaxStops
        /\ tpc' = "down" /\ handler' = "none" /\ quit' = FALSE
        /\ g_config' = Factory /\ file' = file
        /\ UNCHANGED <<exists, sem_id, sem_id_cgi, shm, card, cpc, mixed, asks>>
    BY <1>2 DEF Crash, TypeOK, sems, cgi
  <2> QED
    BY <1>1, <2>1, <2>2 DEF TypeOK
<1>3. CASE PowerLoss
  <2>1. shm' \in [page : Pages, send_rev : {0, 1}, data : Values \cup (0 .. 4),
                  result : {"suc", "err"}, by : Cgis \cup {NoCgi},
                  answer : Cgis \cup {NoCgi}]
    BY <1>3 DEF PowerLoss, Zeroed, Pages, HandledPages, ReadingPages
  <2>2. cpc' \in [Cgis -> CgiPC]
    BY <1>3 DEF PowerLoss, CgiPC
  <2>3. /\ stops' \in 0 .. MaxStops
        /\ tpc' = "down" /\ handler' = "none" /\ quit' = FALSE
        /\ g_config' = Factory /\ file' = file /\ exists' = FALSE
        /\ sem_id' = 0 /\ sem_id_cgi' = 0 /\ mixed' = FALSE /\ lost' = FALSE
        /\ UNCHANGED <<card, asks>>
    BY <1>3 DEF PowerLoss, TypeOK
  <2> QED
    BY <1>1, <2>1, <2>2, <2>3 DEF TypeOK
<1> QED
  BY <1>2, <1>3

LEMMA CgiTypes == ASSUME TypeOK, NEW c \in Cgis, Cgi(c) PROVE TypeOK'
<1> USE CgiAssumption DEF CgiGoes, config, sems, CgiPC
<1>1. CASE Ask(c)
  <2>1. PICK r \in AskedRequests :
          shm' = [shm EXCEPT !.page = r.page, !.send_rev = r.send_rev,
                             !.data = r.data, !.by = c, !.answer = NoCgi]
    BY <1>1 DEF Ask
  <2>2. r \in Requests
    BY AskedAssumption
  <2>3. /\ r.page \in Pages /\ r.send_rev \in {0, 1}
        /\ r.data \in Values \cup (0 .. 4)
    BY <2>2 DEF Requests, Pages, HandledPages, ControlPages
  <2>4. shm' \in [page : Pages, send_rev : {0, 1}, data : Values \cup (0 .. 4),
                  result : {"suc", "err"}, by : Cgis \cup {NoCgi},
                  answer : Cgis \cup {NoCgi}]
    BY <2>1, <2>3 DEF TypeOK
  <2>5. mixed' \in BOOLEAN
    BY <1>1, Zenon DEF Ask
  <2> QED
    BY <1>1, <2>4, <2>5 DEF Ask, TypeOK
<1>2. CASE Post(c)
  BY <1>2 DEF Post, TypeOK
<1>3. CASE Take(c)
  BY <1>3 DEF Take, TypeOK
<1>4. CASE Leave(c)
  BY <1>4 DEF Leave, TypeOK
<1>5. CASE Kill(c)
  <2>1. lost' \in BOOLEAN
    BY <1>5, Zenon DEF Kill
  <2> QED
    BY <1>5, <2>1 DEF Kill, TypeOK
<1> QED
  BY <1>1, <1>2, <1>3, <1>4, <1>5 DEF Cgi

-----------------------------------------------------------------------------
(* Counting the CGIs that wait.                                            *)
LEMMA WaitingCount ==
  /\ IsFiniteSet(Waiting) /\ Cardinality(Waiting) \in Nat
  /\ Cardinality(Waiting) = 0 <=> Waiting = {}
<1>1. IsFiniteSet(Waiting)
  BY CgiAssumption, FS_Subset DEF Waiting
<1> QED
  BY <1>1, FS_CardinalityType, FS_EmptySet

(* The set of those that wait after a step of a CGI.                       *)
LEMMA WaitingAfter ==
  ASSUME TypeOK, NEW c \in Cgis, NEW to, cpc' = [cpc EXCEPT ![c] = to]
  PROVE  Waiting' = IF to = "wait" THEN Waiting \cup {c} ELSE Waiting \ {c}
BY DEF TypeOK, Waiting

(* Every step keeps the account of the tokens.                             *)
LEMMA AccountStep ==
  ASSUME ChannelInv, [Next]_vars PROVE TokenAccount'
<1> DEFINE N == Cardinality(Waiting)
<1>0. /\ sem_id \in Nat /\ sem_id_cgi \in Nat /\ N \in Nat
      /\ ~lost => sem_id + sem_id_cgi + Busy = N
      /\ N = 0 <=> Waiting = {}
  BY WaitingCount DEF ChannelInv, TypeOK, TokenAccount
<1>1. ASSUME UNCHANGED cpc PROVE Waiting' = Waiting /\ N' = N
  BY <1>1 DEF Waiting
<1> HIDE DEF N
<1> USE DEF ThreadGoes, Busy, config, sems, cgi
<1>2. CASE Thread
  <2>1. CASE Start
    <3>1. sem_id' = 0 /\ sem_id_cgi' = 0 /\ tpc' = "p" /\ N' = N
      BY <1>1, <2>1 DEF Start
    <3>2. ~lost' => N = 0
      BY <1>0, <2>1 DEF Start
    <3> QED
      BY <3>1, <3>2 DEF TokenAccount, N
  <2>2. CASE P
    <3>1. sem_id' = sem_id - 1 /\ sem_id_cgi' = sem_id_cgi /\ Busy = 0
          /\ Busy' = 1 /\ lost' = lost /\ N' = N
      BY <1>1, <2>2 DEF P
    <3> QED
      BY <1>0, <3>1 DEF TokenAccount, N
  <2>3. CASE Match
    <3>1. sem_id' = sem_id /\ sem_id_cgi' = sem_id_cgi /\ Busy' = Busy
          /\ lost' = lost /\ N' = N
      BY <1>1, <2>3 DEF Match
    <3> QED
      BY <1>0, <3>1 DEF TokenAccount, N
  <2>4. CASE NoMatch
    BY <2>4 DEF NoMatch, TokenAccount
  <2>5. CASE \/ HandleSetting \/ HandleReading \/ HandleLogin \/ HandleSdcrtl
             \/ HandleRestore
    <3>1. sem_id' = sem_id /\ sem_id_cgi' = sem_id_cgi /\ Busy' = Busy
          /\ lost' = lost /\ N' = N
      BY <1>1, <2>5, HandleStep DEF ChannelInv
    <3> QED
      BY <1>0, <3>1 DEF TokenAccount, N
  <2>6. CASE Save
    <3>1. sem_id' = sem_id /\ sem_id_cgi' = sem_id_cgi /\ Busy' = Busy
          /\ lost' = lost /\ N' = N
      BY <1>1, <2>6 DEF Save
    <3> QED
      BY <1>0, <3>1 DEF TokenAccount, N
  <2>7. CASE Reply
    <3>1. sem_id' = sem_id /\ sem_id_cgi' = sem_id_cgi + 1 /\ Busy = 1
          /\ Busy' = 0 /\ lost' = lost /\ N' = N
      BY <1>1, <2>7 DEF Reply
    <3> QED
      BY <1>0, <3>1 DEF TokenAccount, N
  <2>8. CASE Teardown
    <3>1. Waiting' = {}
      BY <2>8 DEF Teardown, Waiting
    <3>2. sem_id' = 0 /\ sem_id_cgi' = 0 /\ Busy' = 0
      BY <2>8 DEF Teardown, DaemonEnds
    <3> QED
      BY <3>1, <3>2, FS_EmptySet DEF TokenAccount
  <2> QED
    BY <1>2, <2>1, <2>2, <2>3, <2>4, <2>5, <2>6, <2>7, <2>8 DEF Thread
<1>3. CASE Crash
  <2>1. sem_id' = sem_id /\ sem_id_cgi' = sem_id_cgi /\ Busy' = 0 /\ N' = N
    BY <1>1, <1>3 DEF Crash, DaemonEnds
  <2>2. ~lost' => ~lost /\ Busy = 0
    BY <1>3 DEF Crash
  <2> QED
    BY <1>0, <2>1, <2>2 DEF TokenAccount, N
<1>4. CASE PowerLoss
  <2>1. Waiting' = {}
    BY <1>4 DEF PowerLoss, Waiting
  <2>2. sem_id' = 0 /\ sem_id_cgi' = 0 /\ Busy' = 0
    BY <1>4 DEF PowerLoss, DaemonEnds
  <2> QED
    BY <2>1, <2>2, FS_EmptySet DEF TokenAccount
<1>5. ASSUME NEW c \in Cgis, Cgi(c) PROVE TokenAccount'
  <2>0. TypeOK /\ IsFiniteSet(Waiting)
    BY WaitingCount DEF ChannelInv
  <2> USE DEF CgiGoes
  <2>1. CASE Ask(c)
    <3>1. Waiting' = Waiting
      BY <2>0, <2>1, WaitingAfter DEF Ask, Waiting
    <3>2. sem_id' = sem_id /\ sem_id_cgi' = sem_id_cgi /\ Busy' = Busy
          /\ lost' = lost
      BY <2>1 DEF Ask
    <3> QED
      BY <1>0, <3>1, <3>2 DEF TokenAccount, N
  <2>2. CASE Post(c)
    <3>1. Waiting' = Waiting \cup {c} /\ c \notin Waiting
      BY <2>0, <2>2, WaitingAfter DEF Post, Waiting
    <3>2. Cardinality(Waiting') = N + 1
      BY <2>0, <3>1, FS_AddElement DEF N
    <3>3. sem_id' = sem_id + 1 /\ sem_id_cgi' = sem_id_cgi /\ Busy' = Busy
          /\ lost' = lost
      BY <2>2 DEF Post
    <3> QED
      BY <1>0, <3>2, <3>3 DEF TokenAccount
  <2>3. CASE Take(c)
    <3>0. cpc' = [cpc EXCEPT ![c] = "read"] /\ c \in Waiting
      BY <2>3 DEF Take, Waiting
    <3>1. Waiting' = Waiting \ {c} /\ c \in Waiting
      BY <2>0, <3>0 DEF Waiting, TypeOK
    <3>2. Cardinality(Waiting') = N - 1
      BY <2>0, <3>1, FS_RemoveElement DEF N
    <3>3. sem_id' = sem_id /\ sem_id_cgi' = sem_id_cgi - 1 /\ Busy' = Busy
          /\ lost' = lost
      BY <2>3 DEF Take
    <3> QED
      BY <1>0, <3>2, <3>3 DEF TokenAccount
  <2>4. CASE Leave(c)
    <3>1. Waiting' = Waiting
      BY <2>0, <2>4, WaitingAfter DEF Leave, Waiting
    <3>2. sem_id' = sem_id /\ sem_id_cgi' = sem_id_cgi /\ Busy' = Busy
          /\ lost' = lost
      BY <2>4 DEF Leave
    <3> QED
      BY <1>0, <3>1, <3>2 DEF TokenAccount, N
  <2>5. CASE Kill(c)
    <3>1. ~lost' => ~lost /\ cpc[c] # "wait"
      BY <2>5 DEF Kill
    <3>2. cpc[c] # "wait" => Waiting' = Waiting
      BY <2>0, <2>5, WaitingAfter DEF Kill, Waiting
    <3>3. sem_id' = sem_id /\ sem_id_cgi' = sem_id_cgi /\ Busy' = Busy
      BY <2>5 DEF Kill
    <3> QED
      BY <1>0, <3>1, <3>2, <3>3 DEF TokenAccount, N
  <2> QED
    BY <1>5, <2>1, <2>2, <2>3, <2>4, <2>5 DEF Cgi
<1>6. CASE UNCHANGED vars
  <2>1. sem_id' = sem_id /\ sem_id_cgi' = sem_id_cgi /\ Busy' = Busy
        /\ lost' = lost /\ N' = N
    BY <1>1, <1>6 DEF vars
  <2> QED
    BY <1>0, <2>1 DEF TokenAccount, N
<1> QED
  BY <1>2, <1>3, <1>4, <1>5, <1>6 DEF Next, Done

-----------------------------------------------------------------------------
(* What the invariant says of the segment, put as one formula.             *)
SegmentInv == ChannelIsThere /\ Alone /\ AnswerBeforeToken

LEMMA ThreadSegment == ASSUME ChannelInv, Thread PROVE SegmentInv'
<1> USE DEF ThreadGoes, config, sems, cgi, ChannelIsThere, Alone,
        AnswerBeforeToken, SegmentInv
<1>0. TypeOK /\ SegmentInv
  BY DEF ChannelInv
<1>1. CASE Start
  BY <1>0, <1>1 DEF Start, Waiting, Reading, TypeOK, CgiPC
<1>2. CASE P
  BY <1>0, <1>2 DEF P
<1>3. CASE Match
  BY <1>0, <1>3 DEF Match
<1>4. CASE NoMatch
  BY <1>0, <1>4 DEF NoMatch
<1>5. CASE \/ HandleSetting \/ HandleReading \/ HandleLogin \/ HandleSdcrtl
           \/ HandleRestore
  <2>1. /\ shm'.by = shm.by /\ shm'.answer = shm.by
        /\ UNCHANGED <<exists, cpc, mixed, lost>>
    BY <1>0, <1>5, HandleStep
  <2> QED
    BY <1>0, <2>1
<1>6. CASE Save
  BY <1>0, <1>6 DEF Save
<1>7. CASE Reply
  BY <1>0, <1>7 DEF Reply
<1>8. CASE Teardown
  <2>1. \A c \in Cgis : cpc'[c] = IF cpc[c] \in {"post", "wait"} THEN "idle"
                                                                 ELSE cpc[c]
    BY <1>8 DEF Teardown
  <2>2. ~mixed' => ~mixed /\ ~(Reading /\ lost)
    BY <1>8 DEF Teardown
  <2>3. shm' = shm
    BY <1>8 DEF Teardown
  <2> QED
    BY <1>0, <2>1, <2>2, <2>3 DEF Reading
<1> QED
  BY <1>1, <1>2, <1>3, <1>4, <1>5, <1>6, <1>7, <1>8 DEF Thread

LEMMA StopSegment == ASSUME ChannelInv, Crash \/ PowerLoss PROVE SegmentInv'
<1> USE DEF ChannelIsThere, Alone, AnswerBeforeToken, SegmentInv, DaemonEnds
<1>0. TypeOK /\ SegmentInv
  BY DEF ChannelInv
<1>1. CASE Crash
  <2>1. /\ UNCHANGED <<exists, sem_id_cgi, shm, cpc, mixed>>
        /\ tpc' = "down" /\ (~lost' => ~lost)
    BY <1>1 DEF Crash, sems, cgi
  <2> QED
    BY <1>0, <2>1
<1>2. CASE PowerLoss
  <2>1. \A c \in Cgis : cpc'[c] = "idle"
    BY <1>2 DEF PowerLoss
  <2> QED
    BY <2>1
<1> QED
  BY <1>1, <1>2

LEMMA CgiSegment ==
  ASSUME ChannelInv, NEW c \in Cgis, Cgi(c) PROVE SegmentInv'
<1> USE DEF CgiGoes, config, sems, ChannelIsThere, Alone, AnswerBeforeToken,
        SegmentInv
<1>0. TypeOK /\ SegmentInv /\ cpc \in [Cgis -> CgiPC]
  BY DEF ChannelInv, TypeOK
<1>1. CASE Ask(c)
  <2>1. shm'.by = c
    BY <1>0, <1>1 DEF Ask, TypeOK
  <2>2. ~mixed' => \A d \in Cgis \ {c} : cpc[d] = "idle"
    BY <1>1 DEF Ask
  <2>3. exists /\ exists' /\ cpc' = [cpc EXCEPT ![c] = "post"]
    BY <1>1 DEF Ask
  <2> QED
    BY <1>0, <2>1, <2>2, <2>3
<1>2. CASE Post(c)
  <2>1. ASSUME ~mixed, ~lost PROVE tpc \notin {"save", "reply"} /\ sem_id_cgi = 0
    <3>1. \A d \in Cgis : cpc[d] # "idle" => d = c
      BY <1>0, <1>2, <2>1 DEF Post
    <3>2. Waiting = {}
      BY <3>1, <1>2 DEF Waiting, Post
    <3>3. sem_id + sem_id_cgi + Busy = 0 /\ sem_id \in Nat /\ sem_id_cgi \in Nat
      BY <2>1, <3>2, FS_EmptySet DEF ChannelInv, TypeOK, TokenAccount
    <3> QED
      BY <3>3 DEF Busy
  <2>2. exists /\ UNCHANGED <<exists, sem_id_cgi, shm, tpc, mixed, lost>>
        /\ cpc[c] = "post" /\ cpc' = [cpc EXCEPT ![c] = "wait"]
    BY <1>0, <1>2 DEF Post
  <2>3. ChannelIsThere' /\ Alone'
    BY <1>0, <2>2
  <2>4. ASSUME ~mixed, ~lost, NEW d \in Cgis,
               \/ cpc'[d] = "wait" /\ (tpc' \in {"save", "reply"} \/ sem_id_cgi' > 0)
               \/ cpc'[d] = "read"
        PROVE  shm'.answer = d
    BY <1>0, <2>1, <2>2, <2>4
  <2> QED
    BY <2>2, <2>3, <2>4
<1>3. CASE Take(c)
  <2>1. UNCHANGED <<exists, shm, tpc, mixed, lost>> /\ cpc[c] = "wait"
        /\ cpc' = [cpc EXCEPT ![c] = "read"] /\ sem_id_cgi > 0
        /\ sem_id_cgi' = sem_id_cgi - 1
    BY <1>3 DEF Take
  <2>2. sem_id_cgi' > 0 => sem_id_cgi > 0
    BY <2>1
  <2> QED
    BY <1>0, <2>1, <2>2
<1>4. CASE Leave(c)
  BY <1>0, <1>4 DEF Leave
<1>5. CASE Kill(c)
  <2>1. UNCHANGED <<exists, sem_id_cgi, shm, tpc, mixed>> /\ (~lost' => ~lost)
        /\ cpc' = [cpc EXCEPT ![c] = "idle"]
    BY <1>5 DEF Kill
  <2> QED
    BY <1>0, <2>1
<1> QED
  BY <1>1, <1>2, <1>3, <1>4, <1>5 DEF Cgi

-----------------------------------------------------------------------------
(* A CGI that has the segment to itself, with nothing lost, is the only    *)
(* one that waits: there is one token for it or the thread works on its    *)
(* request, and neither once it reads, or before it has posted.            *)
LEMMA OneRequest ==
  ASSUME ChannelInv, ~mixed, ~lost
  PROVE  /\ sem_id \in Nat /\ sem_id_cgi \in Nat /\ sem_id + sem_id_cgi + Busy <= 1
         /\ Waiting = {} \/ Reading => sem_id + sem_id_cgi + Busy = 0
<1>0. /\ sem_id \in Nat /\ sem_id_cgi \in Nat /\ Busy \in {0, 1}
      /\ sem_id + sem_id_cgi + Busy = Cardinality(Waiting)
      /\ \A c \in Cgis : cpc[c] # "idle" => shm.by = c
  BY DEF ChannelInv, TypeOK, TokenAccount, Alone, Busy
<1>1. Waiting \subseteq {shm.by} /\ (Reading => Waiting = {})
  BY <1>0 DEF Waiting, Reading
<1>2. Waiting = {} \/ Waiting = {shm.by}
  BY <1>1
<1>3. CASE Waiting = {}
  <2>1. sem_id + sem_id_cgi + Busy = 0
    BY <1>0, <1>3, FS_EmptySet
  <2> QED
    BY <1>0, <2>1
<1>4. CASE Waiting = {shm.by}
  <2>1. sem_id + sem_id_cgi + Busy = 1
    BY <1>0, <1>4, FS_Singleton
  <2> QED
    BY <1>0, <1>1, <1>4, <2>1
<1> QED
  BY <1>2, <1>3, <1>4

(* Every step keeps the order: setting, file, answer.                      *)
LEMMA SavedStep ==
  ASSUME ChannelInv, [Next]_vars PROVE SavedOnTheWay'
<1> SUFFICES ASSUME ~mixed', ~lost' PROVE SavedOnTheWay'
  BY DEF SavedOnTheWay
<1> USE DEF ThreadGoes, config, sems, cgi, SavedOnTheWay
<1>0. TypeOK /\ SavedOnTheWay
  BY DEF ChannelInv
<1>1. ASSUME ~mixed, ~lost
      PROVE  /\ tpc \in {"match", "handle", "save", "reply"} => sem_id_cgi = 0 /\ ~Reading
             /\ sem_id > 0 => sem_id_cgi = 0 /\ ~Reading
  <2>1. /\ sem_id \in Nat /\ sem_id_cgi \in Nat /\ sem_id + sem_id_cgi + Busy <= 1
        /\ Reading => sem_id + sem_id_cgi + Busy = 0
    BY <1>1, OneRequest
  <2> QED
    BY <2>1 DEF Busy
<1>2. CASE Thread
  <2>1. CASE Start
    <3>1. Reading' = Reading
      BY <2>1 DEF Start, Reading
    <3>2. ~mixed /\ ~(Reading /\ (lost \/ ~exists))
      BY <2>1 DEF Start
    <3>3. /\ tpc' = "p" /\ sem_id_cgi' = 0 /\ file' = file
          /\ exists => shm' = shm
      BY <2>1 DEF Start
    <3> QED
      BY <1>0, <3>1, <3>2, <3>3
  <2>2. CASE P
    <3>1. Reading' = Reading
      BY <2>2 DEF P, Reading
    <3> QED
      BY <1>0, <2>2, <3>1 DEF P
  <2>3. CASE Match
    <3>1. Reading' = Reading
      BY <2>3 DEF Match, Reading
    <3> QED
      BY <1>0, <2>3, <3>1 DEF Match
  <2>4. CASE NoMatch
    BY <2>4 DEF NoMatch
  <2>5. CASE \/ HandleSetting \/ HandleReading \/ HandleLogin \/ HandleSdcrtl
             \/ HandleRestore
    <3>1. /\ tpc = "handle" /\ UNCHANGED <<sem_id_cgi, cpc, mixed, lost>>
      BY <1>0, <2>5, HandleStep
    <3>2. handler = shm.page /\ sem_id_cgi' = 0 /\ ~Reading'
      BY <1>0, <1>1, <3>1 DEF Reading
    <3>3. CASE HandleSetting
      <4>1. g_config'["schedule"] = IF "schedule" \in SetsOf(handler) THEN shm.data
                                                                       ELSE g_config["schedule"]
        BY <3>3 DEF HandleSetting, Params
      <4>2. handler \in SavingPages => "schedule" \in SetsOf(handler)
        BY DEF SavingPages, SetsOf
      <4>3. shm'.data = shm.data /\ shm'.page = shm.page
        BY <1>0, <3>3 DEF HandleSetting, AnswerWith, TypeOK
      <4> QED
        BY <3>2, <3>3, <4>1, <4>2, <4>3 DEF HandleSetting
    <3>4. CASE HandleReading
      <4>1. handler \in SavingPages => handler \in TwoWayPages /\ shm.send_rev = 1
        BY <3>4 DEF HandleReading, SavingPages, TwoWayPages, ReadingPages
      <4>2. \/ shm'.page = shm.page /\ shm'.send_rev = shm.send_rev
            \/ shm'.page = "login_action"
        BY <1>0, <3>4 DEF HandleReading, AnswerWith, Zeroed, TypeOK
      <4> QED
        BY <3>2, <3>4, <4>1, <4>2 DEF HandleReading, SavingPages
    <3>5. CASE HandleLogin \/ HandleSdcrtl \/ HandleRestore
      <4>1. handler \notin SavingPages /\ tpc' = "reply"
        BY <3>5 DEF HandleLogin, HandleSdcrtl, HandleRestore, SavingPages
      <4>2. shm'.page = shm.page
        BY <1>0, <3>5 DEF HandleLogin, HandleSdcrtl, HandleRestore, AnswerWith, TypeOK
      <4> QED
        BY <3>2, <4>1, <4>2
    <3> QED
      BY <2>5, <3>3, <3>4, <3>5
  <2>6. CASE Save
    <3>1. file'["schedule"] = g_config["schedule"]
      BY <1>0, <2>6 DEF Save, Written, TypeOK, Settings, Params
    <3> QED
      BY <1>0, <2>6, <3>1 DEF Save
  <2>7. CASE Reply
    <3>1. Reading' = Reading
      BY <2>7 DEF Reply, Reading
    <3> QED
      BY <1>0, <2>7, <3>1 DEF Reply
  <2>8. CASE Teardown
    <3>1. Reading' => Reading
      BY <2>8 DEF Teardown, Reading
    <3>2. sem_id_cgi' = 0 /\ tpc' = "down" /\ UNCHANGED <<shm, file>>
      BY <2>8 DEF Teardown, DaemonEnds
    <3>3. ~mixed /\ ~(Reading /\ lost)
      BY <2>8 DEF Teardown
    <3> QED
      BY <1>0, <3>1, <3>2, <3>3
  <2> QED
    BY <1>2, <2>1, <2>2, <2>3, <2>4, <2>5, <2>6, <2>7, <2>8 DEF Thread
<1>3. CASE Crash
  <2>1. Reading' = Reading
    BY <1>3 DEF Crash, Reading
  <2>2. tpc' = "down" /\ ~lost /\ UNCHANGED <<sem_id_cgi, shm, file, mixed>>
    BY <1>3 DEF Crash, DaemonEnds
  <2> QED
    BY <1>0, <2>1, <2>2
<1>4. CASE PowerLoss
  <2>1. ~Reading'
    BY <1>4 DEF PowerLoss, Reading
  <2> QED
    BY <1>4, <2>1 DEF PowerLoss, DaemonEnds
<1>5. ASSUME NEW c \in Cgis, Cgi(c) PROVE SavedOnTheWay'
  <2> USE DEF CgiGoes
  <2>0. cpc \in [Cgis -> CgiPC]
    BY <1>0 DEF TypeOK
  <2>1. CASE Ask(c)
    <3>1. cpc[c] = "idle" /\ cpc' = [cpc EXCEPT ![c] = "post"]
          /\ \A d \in Cgis \ {c} : cpc[d] = "idle"
      BY <2>1 DEF Ask
    <3>2. Waiting = {} /\ ~Reading'
      BY <2>0, <3>1 DEF Waiting, Reading
    <3>3. sem_id + sem_id_cgi + Busy = 0 /\ sem_id \in Nat /\ sem_id_cgi \in Nat
      BY <2>1, <3>2, FS_EmptySet DEF Ask, ChannelInv, TypeOK, TokenAccount
    <3> QED
      BY <2>1, <3>2, <3>3 DEF Ask, Busy
  <2>2. CASE Post(c)
    <3>1. Reading' = Reading
      BY <2>0, <2>2 DEF Post, Reading
    <3> QED
      BY <1>0, <2>2, <3>1 DEF Post
  <2>3. CASE Take(c)
    BY <1>0, <2>3 DEF Take
  <2>4. CASE Leave(c)
    <3>1. Reading' => Reading
      BY <2>0, <2>4 DEF Leave, Reading
    <3> QED
      BY <1>0, <2>4, <3>1 DEF Leave
  <2>5. CASE Kill(c)
    <3>1. Reading' => Reading
      BY <2>0, <2>5 DEF Kill, Reading
    <3> QED
      BY <1>0, <2>5, <3>1 DEF Kill
  <2> QED
    BY <1>5, <2>1, <2>2, <2>3, <2>4, <2>5 DEF Cgi
<1>6. CASE UNCHANGED vars
  BY <1>0, <1>6 DEF vars, Reading
<1> QED
  BY <1>2, <1>3, <1>4, <1>5, <1>6 DEF Next, Done

-----------------------------------------------------------------------------
LEMMA ChannelStep == ChannelInv /\ [Next]_vars => ChannelInv'
<1> SUFFICES ASSUME ChannelInv, [Next]_vars PROVE ChannelInv'
  OBVIOUS
<1>1. TypeOK /\ SegmentInv
  BY DEF ChannelInv, SegmentInv
<1>2. TokenAccount'
  BY AccountStep
<1>3. TypeOK' /\ SegmentInv'
  <2>1. CASE Thread
    BY <1>1, <2>1, ThreadTypes, ThreadSegment
  <2>2. CASE Crash \/ PowerLoss
    BY <1>1, <2>2, StopTypes, StopSegment
  <2>3. ASSUME NEW c \in Cgis, Cgi(c) PROVE TypeOK' /\ SegmentInv'
    BY <1>1, <2>3, CgiTypes, CgiSegment
  <2>4. CASE UNCHANGED vars
    BY <1>1, <2>4 DEF vars, sems, config, cgi, TypeOK, SegmentInv, ChannelIsThere,
                      Alone, AnswerBeforeToken
  <2> QED
    BY <2>1, <2>2, <2>3, <2>4 DEF Next, Done
<1> QED
  BY <1>2, <1>3, SavedStep DEF ChannelInv, SegmentInv

(* The inductive invariant: the account of the tokens, and the way of an   *)
(* answer through the segment.                                             *)
THEOREM ChannelInvariant == Spec => []ChannelInv
<1> QED
  BY InitChannelInv, ChannelStep, PTL DEF Spec

(* No semaphore goes below zero, and no handler leaves anything in the     *)
(* segment or in g_config that is not a request's.                         *)
THEOREM ChannelTypes == Spec => []TypeOK
<1>1. ChannelInv => TypeOK
  BY DEF ChannelInv
<1> QED
  BY <1>1, ChannelInvariant, PTL

(* Unless one was lost, tokens and thread account for the CGIs that wait.  *)
THEOREM TokensAccounted == Spec => []TokenAccount
<1>1. ChannelInv => TokenAccount
  BY DEF ChannelInv
<1> QED
  BY <1>1, ChannelInvariant, PTL

(* An undisturbed CGI reads the answer to its own request.                 *)
THEOREM AnswerIsOwn == Spec => []OwnAnswer
<1>1. ChannelInv => OwnAnswer
  BY DEF ChannelInv, AnswerBeforeToken, OwnAnswer
<1> QED
  BY <1>1, ChannelInvariant, PTL

(* An undisturbed CGI that reads success has its schedule in config.txt.   *)
THEOREM AnswerMeansSaved == Spec => []SavedBeforeAnswered
<1>1. ChannelInv => SavedBeforeAnswered
  BY DEF ChannelInv, SavedOnTheWay, SavedBeforeAnswered, Reading
<1> QED
  BY <1>1, ChannelInvariant, PTL

=============================================================================
