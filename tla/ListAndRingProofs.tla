-------------------------- MODULE ListAndRingProofs --------------------------
(***************************************************************************)
(* Proofs about FrameList and BusyRing.  The two share nothing: each       *)
(* theorem is about the specification that it names.                       *)
(*                                                                         *)
(* The list, for every number of frames: what it keeps while producer_list *)
(* and print_list race on tmp_list, and what it keeps as long as they do   *)
(* not.                                                                    *)
(*                                                                         *)
(* The ring of version v0, for any number of slots and of frames: put and  *)
(* get alone, with no count and no semaphore, keep the producer off the    *)
(* frames that are still to be written.  The argument is an account.  The  *)
(* frames stored and not yet passed are as many as put is ahead of get     *)
(* around the ring, and lie behind get in the order of the file; the test  *)
(* of list_is_full leaves one slot free, without which a full ring could   *)
(* not be told from an empty one.                                          *)
(***************************************************************************)
EXTENDS FrameList, BusyRing, SequenceTheorems, TLAPS

-----------------------------------------------------------------------------
(* The list of frames. *)

(* The first malloc sees an empty list with only the head initialised.     *)
LEMMA InitListInv == Init => ListInv
<1> SUFFICES ASSUME Init PROVE ListInv
  OBVIOUS
<1> USE FrameListAssumption DEF Init, Nodes, Places, frame_head, NoLine
<1>1. TypeOK
  <2>1. printed \in Seq((Nodes \cup {Junk}) \X (Nodes \cup {Junk}))
    OBVIOUS
  <2>2. line \in [data : Nodes \cup {Junk}, len : Nodes \cup {Junk},
                 read : SUBSET {"data", "len"}]
    OBVIOUS
  <2>3. raced \in BOOLEAN
    OBVIOUS
  <2>4. /\ next \in [Places -> Places \cup {Junk}]
        /\ prev \in [Places -> Places \cup {Junk}]
        /\ data \in [Nodes -> Nodes \cup {Junk}]
        /\ len \in [Nodes -> Nodes \cup {Junk}]
    OBVIOUS
  <2>5. /\ tmp_list \in Nodes \cup {Junk}
        /\ ppc \in ProducerPC /\ nread \in 0 .. MaxFrames
        /\ new \in Places /\ tail \in Places
        /\ mpc \in MainPC /\ pos \in Places
    BY DEF ProducerPC, MainPC
  <2> QED
    BY <2>1, <2>2, <2>3, <2>4, <2>5, Zenon DEF TypeOK
<1>2. Control
  BY DEF Control, ProducerUses
<1>3. SafeWalk
  BY DEF SafeWalk
<1>4. IntactUnlessRaced
  <2>1. Intact /\ InHand
    BY DEF Intact, InHand, Linked, ProducerUses
  <2>2. Printing
    BY DEF Printing, PrintedUpTo, Linked
  <2> QED
    BY <2>1, <2>2 DEF IntactUnlessRaced
<1> QED
  BY <1>1, <1>2, <1>3, <1>4 DEF ListInv

-----------------------------------------------------------------------------
(* The types and the walk, which the race does not disturb.                *)
LEMMA ProducerTypes == TypeOK /\ Control /\ SafeWalk /\ Producer => TypeOK' /\ Control'
<1> SUFFICES ASSUME TypeOK, Control, SafeWalk, Producer PROVE TypeOK' /\ Control'
  OBVIOUS
<1> USE FrameListAssumption DEF TypeOK, Control, Nodes, Places, frame_head,
        ProducerPC, MainPC, ProducerGoes, ProducerUses, heap, main
<1>1. CASE Malloc
  BY <1>1 DEF Malloc
<1>2. CASE FillData
  BY <1>2 DEF FillData
<1>3. CASE FillLen
  BY <1>3 DEF FillLen
<1>4. CASE CallAddTail
  BY <1>4 DEF CallAddTail, SafeWalk
<1>5. CASE SetNextPrev
  BY <1>5 DEF SetNextPrev
<1>6. CASE SetNewNext
  BY <1>6 DEF SetNewNext
<1>7. CASE SetNewPrev
  BY <1>7 DEF SetNewPrev
<1>8. CASE SetPrevNext
  BY <1>8 DEF SetPrevNext
<1>9. CASE EndOfFile
  BY <1>9 DEF EndOfFile
<1> QED
  BY <1>1, <1>2, <1>3, <1>4, <1>5, <1>6, <1>7, <1>8, <1>9 DEF Producer

(* The same for the steps of print_list.                                   *)
LEMMA PrintTypes ==
  TypeOK /\ Control /\ SafeWalk /\ (StartPrint \/ PrintList) => TypeOK' /\ Control'
<1> SUFFICES ASSUME TypeOK, Control, SafeWalk, StartPrint \/ PrintList
             PROVE TypeOK' /\ Control'
  OBVIOUS
<1> USE FrameListAssumption DEF TypeOK, Control, Nodes, Places, frame_head,
        MainPC, MainGoes, ProducerUses, heap, producer, NoLine
<1>1. CASE StartPrint
  BY <1>1 DEF StartPrint
<1>2. CASE FollowNext
  BY <1>2 DEF FollowNext, SafeWalk
<1>3. CASE AssignTmp
  BY <1>3 DEF AssignTmp
<1>4. CASE LoadField
  <2>1. line' \in [data : Nodes \cup {Junk}, len : Nodes \cup {Junk},
                  read : SUBSET {"data", "len"}]
    <3>1. PICK f \in {"data", "len"} :
            line' = [line EXCEPT ![f] = IF f = "data" THEN data[tmp_list]
                                                      ELSE len[tmp_list],
                                 !.read = @ \cup {f}]
      BY <1>4 DEF LoadField
    <3>2. data[tmp_list] \in Nodes \cup {Junk} /\ len[tmp_list] \in Nodes \cup {Junk}
      BY <1>4 DEF LoadField
    <3>3. line.read \cup {f} \in SUBSET {"data", "len"}
      OBVIOUS
    <3>4. CASE f = "data"
      BY <3>1, <3>2, <3>3, <3>4
    <3>5. CASE f = "len"
      BY <3>1, <3>2, <3>3, <3>5
    <3> QED
      BY <3>4, <3>5
  <2> QED
    BY <1>4, <2>1 DEF LoadField
<1>5. CASE PrintLine
  BY <1>5 DEF PrintLine
<1> QED
  BY <1>1, <1>2, <1>3, <1>4, <1>5 DEF PrintList

(* However the threads interleave, no step of list_add_tail cuts the chain *)
(* of set pointers that print_list follows.                                *)
LEMMA WalkStep == TypeOK /\ Control /\ SafeWalk /\ [Next]_vars => SafeWalk'
<1> SUFFICES ASSUME TypeOK, Control, SafeWalk, [Next]_vars PROVE SafeWalk'
  OBVIOUS
<1> USE FrameListAssumption DEF TypeOK, Control, SafeWalk, Nodes, Places,
        frame_head, ProducerGoes, MainGoes, heap, producer, main
<1>1. CASE Malloc
  BY <1>1 DEF Malloc
<1>2. CASE FillData \/ FillLen
  BY <1>2 DEF FillData, FillLen
<1>3. CASE CallAddTail
  BY <1>3 DEF CallAddTail, ProducerUses
<1>4. CASE SetNextPrev
  BY <1>4 DEF SetNextPrev
<1>5. CASE SetNewNext
  BY <1>5 DEF SetNewNext
<1>6. CASE SetNewPrev
  BY <1>6 DEF SetNewPrev
<1>7. CASE SetPrevNext
  BY <1>7 DEF SetPrevNext
<1>8. CASE EndOfFile
  BY <1>8 DEF EndOfFile
<1>9. CASE StartPrint
  BY <1>9 DEF StartPrint
<1>10. CASE FollowNext
  BY <1>10 DEF FollowNext
<1>11. CASE AssignTmp \/ LoadField \/ PrintLine
  BY <1>11 DEF AssignTmp, LoadField, PrintLine
<1>12. CASE UNCHANGED vars
  BY <1>12 DEF vars
<1> QED
  BY <1>1, <1>2, <1>3, <1>4, <1>5, <1>6, <1>7, <1>8, <1>9, <1>10, <1>11, <1>12
  DEF Next, Producer, PrintList

-----------------------------------------------------------------------------
(* The list as long as nobody has raced.                                   *)

(* A step of the producer keeps the list whole, and what it has in hand.   *)
LEMMA ProducerKeepsList ==
  TypeOK /\ Control /\ Producer /\ ~raced' /\ Intact /\ InHand
     => Intact' /\ InHand'
<1> SUFFICES ASSUME TypeOK, Control, Producer, ~raced', Intact, InHand
             PROVE Intact' /\ InHand'
  OBVIOUS
<1> USE FrameListAssumption DEF TypeOK, Control, Nodes, Places, frame_head,
        ProducerGoes, ProducerUses, Intact, InHand, Linked, heap, main
<1>1. CASE Malloc
  BY <1>1 DEF Malloc
<1>2. CASE FillData
  BY <1>2 DEF FillData
<1>3. CASE FillLen
  BY <1>3 DEF FillLen
<1>4. CASE CallAddTail
  BY <1>4 DEF CallAddTail
<1>5. CASE SetNextPrev
  BY <1>5 DEF SetNextPrev
<1>6. CASE SetNewNext
  BY <1>6 DEF SetNewNext
<1>7. CASE SetNewPrev
  BY <1>7 DEF SetNewPrev
<1>8. CASE SetPrevNext
  BY <1>8 DEF SetPrevNext
<1>9. CASE EndOfFile
  BY <1>9 DEF EndOfFile
<1> QED
  BY <1>1, <1>2, <1>3, <1>4, <1>5, <1>6, <1>7, <1>8, <1>9 DEF Producer

(* A step of the producer that does not race leaves print_list where it is *)
(* and the nodes it has passed as they are.                                *)
LEMMA ProducerKeepsPrinting ==
  TypeOK /\ Control /\ Producer /\ ~raced' /\ Printing => Printing'
<1> SUFFICES ASSUME TypeOK, Control, Producer, ~raced', Printing PROVE Printing'
  OBVIOUS
<1>1. UNCHANGED main /\ Linked' \in Nat /\ Linked <= Linked' /\ Linked \in Int
  BY FrameListAssumption DEF Producer, Malloc, FillData, FillLen, CallAddTail, SetNextPrev,
     SetNewNext, SetNewPrev, SetPrevNext, EndOfFile, ProducerGoes, Linked,
     TypeOK, Control, ProducerPC
<1>2. mpc = "print" => tmp_list' = tmp_list
  BY DEF Producer, Malloc, FillData, FillLen, CallAddTail, SetNextPrev,
     SetNewNext, SetNewPrev, SetPrevNext, EndOfFile, PrinterUses
<1> QED
  BY <1>1, <1>2 DEF main, Printing, PrintedUpTo, TypeOK, Places, Nodes, frame_head

(* A step of print_list moves along the whole list.                        *)
LEMMA PrintKeepsList ==
  ASSUME TypeOK, Control, StartPrint \/ PrintList,
         ~raced', Intact, InHand, Printing
  PROVE  Intact' /\ InHand' /\ Printing'
<1>1. UNCHANGED heap /\ UNCHANGED producer /\ Linked' = Linked /\ Linked \in Int
  <2>1. UNCHANGED heap /\ UNCHANGED producer
    BY DEF StartPrint, PrintList, FollowNext, AssignTmp, LoadField, PrintLine
  <2>2. ppc' = ppc /\ nread' = nread
    BY <2>1 DEF producer
  <2> QED
    BY <2>1, <2>2, FrameListAssumption DEF Linked, TypeOK
<1>2. Intact'
  BY <1>1 DEF Intact, heap, producer
<1>3. ProducerUses => tmp_list' = tmp_list
  BY DEF StartPrint, PrintList, FollowNext, AssignTmp, LoadField, PrintLine,
     ProducerUses
<1>4. InHand'
  BY <1>1, <1>3 DEF InHand, ProducerUses, heap, producer
<1>5. Printing'
  <2> USE DEF MainGoes
  <2>1. CASE StartPrint
    BY <1>1, <2>1 DEF StartPrint, Printing, PrintedUpTo, frame_head
  <2>2. CASE FollowNext
    BY <1>1, <2>2 DEF FollowNext, Printing, PrintedUpTo, Intact, TypeOK,
       frame_head, Places, Nodes
  <2>3. CASE AssignTmp
    BY <1>1, <2>3 DEF AssignTmp, Printing, PrintedUpTo
  <2>4. CASE LoadField
    <3>1. PICK f \in {"data", "len"} :
            line' = [line EXCEPT ![f] = IF f = "data" THEN data[tmp_list]
                                                      ELSE len[tmp_list],
                                 !.read = @ \cup {f}]
      BY <2>4 DEF LoadField
    <3>2. data[tmp_list] = pos /\ len[tmp_list] = pos
      BY <2>4 DEF LoadField, Printing, Intact
    <3>3. /\ line'.read = line.read \cup {f}
          /\ line'.data = IF f = "data" THEN pos ELSE line.data
          /\ line'.len = IF f = "len" THEN pos ELSE line.len
      <4>1. CASE f = "data"
        BY <3>1, <3>2, <4>1 DEF TypeOK
      <4>2. CASE f = "len"
        BY <3>1, <3>2, <4>2 DEF TypeOK
      <4> QED
        BY <4>1, <4>2
    <3>4. /\ "data" \in line'.read => line'.data = pos
          /\ "len" \in line'.read => line'.len = pos
      BY <3>3 DEF Printing
    <3> QED
      BY <1>1, <2>4, <3>4 DEF LoadField, Printing, PrintedUpTo
  <2>5. CASE PrintLine
    <3>1. line.data = pos /\ line.len = pos
      BY <2>5 DEF PrintLine, Printing
    <3>2. pos \in 1 .. Linked /\ printed = [i \in 1 .. pos - 1 |-> <<i, i>>]
      BY <2>5 DEF PrintLine, Printing, PrintedUpTo
    <3>3. Len(printed) = pos - 1 /\ pos <= MaxFrames
      BY <1>1, <3>2, FrameListAssumption DEF TypeOK, Places, Nodes, frame_head
    <3>4. printed' = Append(printed, <<pos, pos>>)
      BY <2>5, <3>1, <3>3, FrameListAssumption DEF PrintLine, TypeOK, Places, Nodes,
         frame_head
    <3>5. printed' = [i \in 1 .. pos |-> <<i, i>>]
      BY <3>2, <3>4
    <3>6. line'.read = {}
      BY <2>5 DEF PrintLine, NoLine
    <3>7. mpc' = "next" /\ pos' = pos /\ Linked' = Linked
      BY <1>1, <2>5 DEF PrintLine
    <3>8. pos' \in 1 .. Linked' /\ printed' = [i \in 1 .. pos' |-> <<i, i>>]
      BY <3>2, <3>5, <3>7
    <3>9. pos' \in 0 .. Linked'
      BY <1>1, <3>7, <3>8
    <3> QED
      BY <3>6, <3>7, <3>8, <3>9 DEF Printing, PrintedUpTo
  <2> QED
    BY <2>1, <2>2, <2>3, <2>4, <2>5 DEF PrintList
<1> QED
  BY <1>2, <1>4, <1>5

-----------------------------------------------------------------------------
(* Every step of the specification preserves the invariant.                *)
LEMMA NextKeepsListInv == ListInv /\ [Next]_vars => ListInv'
<1> SUFFICES ASSUME ListInv, [Next]_vars PROVE ListInv'
  OBVIOUS
<1>1. TypeOK /\ Control /\ SafeWalk /\ IntactUnlessRaced
  BY DEF ListInv
<1>2. TypeOK' /\ Control'
  <2>1. CASE UNCHANGED vars
    BY <1>1, <2>1 DEF vars, heap, producer, main, TypeOK, Control, ProducerUses
  <2> QED
    BY <1>1, <2>1, ProducerTypes, PrintTypes DEF Next
<1>3. SafeWalk'
  BY <1>1, WalkStep
<1>4. ASSUME ~raced' PROVE Intact' /\ InHand' /\ Printing'
  <2>1. ~raced
    BY <1>4 DEF Next, Producer, StartPrint, PrintList, Malloc, FillData, FillLen,
       CallAddTail, SetNextPrev, SetNewNext, SetNewPrev, SetPrevNext, EndOfFile,
       FollowNext, AssignTmp, LoadField, PrintLine, vars
  <2>2. Intact /\ InHand /\ Printing
    BY <1>1, <2>1 DEF IntactUnlessRaced
  <2>3. CASE Producer
    BY <1>1, <1>4, <2>2, <2>3, ProducerKeepsList, ProducerKeepsPrinting
  <2>4. CASE StartPrint \/ PrintList
    BY <1>1, <1>4, <2>2, <2>4, PrintKeepsList
  <2>5. CASE UNCHANGED vars
    BY <2>2, <2>5 DEF vars, heap, producer, main, Intact, InHand, Printing,
       PrintedUpTo, Linked, ProducerUses
  <2> QED
    BY <2>3, <2>4, <2>5 DEF Next
<1> QED
  BY <1>2, <1>3, <1>4 DEF ListInv, IntactUnlessRaced

(* Every reachable state satisfies the inductive invariant.                *)
THEOREM ListInvariantHolds == Spec => []ListInv
<1> QED
  BY InitListInv, NextKeepsListInv, PTL DEF Spec

(* print_list never follows a pointer nobody has set, for any number of    *)
(* frames and any interleaving, the races on tmp_list included.            *)
THEOREM WalkIsSafe == Spec => []WalkStaysInList
<1>1. ListInv => WalkStaysInList
  BY DEF ListInv, TypeOK, SafeWalk, WalkStaysInList
<1> QED
  BY <1>1, ListInvariantHolds, PTL

(* Until the threads meet on tmp_list, the list is the frames in order at  *)
(* every single store, and print_list has printed the first of them.       *)
THEOREM ListIsIntact == Spec => []IntactUnlessRaced
<1>1. ListInv => IntactUnlessRaced
  BY DEF ListInv
<1> QED
  BY <1>1, ListInvariantHolds, PTL

(* When print_list ends, it has printed every frame listed by then.        *)
THEOREM WholeListIsPrinted == Spec => PrintsWholeList
<1> DEFINE Whole ==
      mpc' = "done" /\ mpc # "done" /\ ~raced => PrintedUpTo(Linked)
<1>1. ListInv /\ [Next]_vars => [Whole]_vars
  <2> SUFFICES ASSUME ListInv, Next, mpc' = "done", mpc # "done", ~raced
               PROVE  PrintedUpTo(Linked)
    OBVIOUS
  <2>1. FollowNext /\ next[pos] = frame_head
    BY DEF Next, Producer, StartPrint, PrintList, Malloc, FillData, FillLen,
       CallAddTail, SetNextPrev, SetNewNext, SetNewPrev, SetPrevNext, EndOfFile,
       FollowNext, AssignTmp, LoadField, PrintLine, main, MainGoes
  <2>2. Intact /\ Printing /\ TypeOK
    BY DEF ListInv, IntactUnlessRaced
  <2>3. mpc = "next" /\ pos \in 0 .. Linked /\ PrintedUpTo(pos)
    BY <2>1, <2>2 DEF FollowNext, MainGoes, Printing
  <2>4. pos = Linked
    BY <2>1, <2>2, <2>3 DEF Intact, frame_head, TypeOK, Linked
  <2> QED
    BY <2>3, <2>4
<1> QED
  BY <1>1, ListInvariantHolds, PTL DEF Spec, PrintsWholeList

-----------------------------------------------------------------------------
(* The ring. *)

(* How far slot i is ahead of get, around the ring.                        *)
Ahead(i) == IF i >= get THEN i - get ELSE i - get + Size

(* Frames of which put has been advanced, and of which get has.            *)
Stored == IF producer_pc \in {"full", "store", "advance"} THEN taken - 1 ELSE taken
Passed == IF consumer_pc = "advance" THEN Len(fh264) - 1 ELSE Len(fh264)

RingTypes ==
  /\ total \in Nat /\ taken \in 0 .. total
  /\ frams \in [Slots -> Int] /\ put \in Slots /\ get \in Slots
  /\ fh264 \in Seq(Int) /\ freed \subseteq Int
  /\ producer_pc \in {"read", "full", "store", "advance", "free", "done"}
  /\ consumer_pc \in {"test_fin", "empty", "lock", "write", "advance", "unlock", "done"}

(* put and get tell how many frames wait; one that is about to be stored   *)
(* finds a slot besides the one that stays free, one that is about to be   *)
(* written is there.                                                       *)
Account ==
  /\ Stored \in Nat /\ Passed \in Nat
  /\ Ahead(put) = Stored - Passed
  /\ producer_pc \in {"store", "advance"} => Ahead(put) < Size - 1
  /\ consumer_pc \in {"lock", "write", "advance"} => Ahead(put) > 0

(* The frames that wait lie in file order from get on; the others have     *)
(* been written.                                                           *)
WaitInOrder ==
  \A i \in Slots :
     IF Ahead(i) < Ahead(put) \/ (producer_pc = "advance" /\ i = put)
     THEN frams[i] = Passed + 1 + Ahead(i)
     ELSE frams[i] <= Passed

(* What is freed and not on the list of the early ones has been written.   *)
FreedInTime == \A k \in freed : k \in too_early \/ k <= Len(fh264)

RingInv == RingTypes /\ Account /\ WaitInOrder /\ FreedInTime /\ OutputInFileOrder

-----------------------------------------------------------------------------
(* The slot after another one, without the remainder.                      *)
LEMMA NextSlotIs ==
  ASSUME Size \in Nat \ {0}, NEW i \in Slots
  PROVE  /\ NextSlot(i) \in Slots
         /\ NextSlot(i) = IF i = Size - 1 THEN 0 ELSE i + 1
<1>1. CASE i = Size - 1
  <2>1. (i + 1) % Size = 0
    BY <1>1
  <2> QED
    BY <1>1, <2>1 DEF NextSlot, Slots
<1>2. CASE i # Size - 1
  <2>1. (i + 1) % Size = i + 1
    BY <1>2 DEF Slots
  <2> QED
    BY <1>2, <2>1 DEF NextSlot, Slots
<1> QED
  BY <1>1, <1>2

LEMMA InitRing ==
  ASSUME Size \in Nat \ {0}, RingFrames \in Nat, RingInit PROVE RingInv
BY DEF RingInit, RingInv, RingTypes, Account, WaitInOrder, OutputInFileOrder, Ahead, Stored,
       FreedInTime, Passed, Slots, Empty

-----------------------------------------------------------------------------
LEMMA ProducerStep ==
  ASSUME Size \in Nat \ {0}, RingInv, RingProducer PROVE RingInv'
<1> USE DEF RingInv, Produces, cons, file
<1>freed. freed' \subseteq Int
  <2>1. freed \subseteq Int /\ taken \in Int
    BY DEF RingTypes
  <2>2. freed' = freed \/ freed' = freed \cup {taken}
    BY DEF RingProducer, ReadFrame, FileEnds, TestFull, StoreFrame, AdvancePut, FreeData
  <2> QED
    BY <2>1, <2>2
<1>0. UNCHANGED <<get, consumer_pc, fh264, total>> /\ OutputInFileOrder' /\ FreedInTime'
  <2>1. UNCHANGED <<get, consumer_pc, fh264, total>> /\ too_early \subseteq too_early'
    BY DEF RingProducer, ReadFrame, FileEnds, TestFull, StoreFrame, AdvancePut, FreeData
  <2>2. \A k \in freed' : k \in freed \/ k \in too_early' \/ k <= Len(fh264)
    BY DEF RingProducer, ReadFrame, FileEnds, TestFull, StoreFrame, AdvancePut, FreeData, RingTypes
  <2> QED
    BY <2>1, <2>2 DEF OutputInFileOrder, FreedInTime
<1>same. Passed' = Passed /\ \A i \in Slots : Ahead(i)' = Ahead(i)
  BY <1>0 DEF Passed, Ahead
<1>1. CASE ReadFrame \/ FileEnds \/ FreeData
  <2>1. UNCHANGED <<put, frams>> /\ producer_pc' # "advance" /\ producer_pc # "advance"
    BY <1>1 DEF ReadFrame, FileEnds, FreeData
  <2>2. RingTypes' /\ Stored' = Stored /\ producer_pc' \notin {"store", "advance"}
    BY <1>0, <1>freed, <1>1 DEF ReadFrame, FileEnds, FreeData, RingTypes, Stored
  <2>3. Ahead(put)' = Ahead(put)
    BY <1>0, <2>1 DEF Ahead
  <2>4. Account'
    BY <1>0, <1>same, <2>2, <2>3 DEF Account
  <2>5. WaitInOrder'
    BY <1>same, <2>1, <2>3 DEF WaitInOrder
  <2> QED
    BY <1>0, <2>2, <2>4, <2>5
<1>2. CASE TestFull
  <2>1. /\ producer_pc = "full" /\ producer_pc' = IF get = NextSlot(put) THEN "full" ELSE "store"
        /\ UNCHANGED <<put, frams, taken>>
    BY <1>2 DEF TestFull
  <2>2. get # NextSlot(put) => Ahead(put) < Size - 1
    <3>1. put \in Slots /\ get \in Slots
      BY DEF RingTypes
    <3>2. NextSlot(put) = IF put = Size - 1 THEN 0 ELSE put + 1
      BY <3>1, NextSlotIs
    <3> QED
      BY <3>1, <3>2 DEF Ahead, Slots
  <2> QED
    BY <1>0, <1>freed, <2>1, <2>2 DEF RingTypes, Account, WaitInOrder, Ahead, Stored, Passed
<1>3. CASE StoreFrame
  <2>1. /\ producer_pc = "store" /\ producer_pc' = "advance" /\ frams' = [frams EXCEPT ![put] = taken]
        /\ UNCHANGED <<put, taken>>
    BY <1>3 DEF StoreFrame
  <2>2. Ahead(put)' = Ahead(put) /\ Stored' = Stored
    BY <1>0, <2>1 DEF Ahead, Stored
  <2>type. RingTypes'
    BY <1>0, <1>freed, <2>1 DEF RingTypes
  <2>account. Account'
    BY <1>0, <1>same, <2>1, <2>2 DEF Account
  <2>3. taken = Passed + 1 + Ahead(put)
    BY <2>1 DEF RingTypes, Account, Stored
  <2> QED
    BY <1>0, <1>same, <2>1, <2>2, <2>3, <2>type, <2>account DEF RingTypes, WaitInOrder
<1>4. CASE AdvancePut
  <2>1. /\ producer_pc = "advance" /\ producer_pc' = "free" /\ put' = NextSlot(put)
        /\ UNCHANGED <<frams, taken>>
    BY <1>4 DEF AdvancePut
  <2>2. put' \in Slots /\ put' = IF put = Size - 1 THEN 0 ELSE put + 1
    BY <2>1, NextSlotIs DEF RingTypes
  <2>3. Ahead(put)' = Ahead(put) + 1
    BY <1>0, <2>1, <2>2 DEF RingTypes, Account, Ahead, Slots
  <2>4. RingTypes'
    BY <1>0, <1>freed, <2>1, <2>2 DEF RingTypes
  <2>stored. Stored' = Stored + 1 /\ Stored \in Nat /\ Passed \in Nat
    BY <2>1 DEF RingTypes, Stored, Account
  <2>account. Account'
    BY <1>0, <1>same, <2>1, <2>3, <2>stored DEF Account
  <2>5. ASSUME NEW i \in Slots
        PROVE  /\ Ahead(i)' = Ahead(i)
               /\ Ahead(i) = Ahead(put) <=> i = put
               /\ Ahead(i) \in Int /\ Ahead(put) \in Int
    BY <1>0 DEF RingTypes, Ahead, Slots
  <2>6. WaitInOrder'
    BY <1>0, <2>1, <2>3, <2>5 DEF WaitInOrder, Passed
  <2> QED
    BY <1>0, <2>4, <2>account, <2>6
<1> QED
  BY <1>1, <1>2, <1>3, <1>4 DEF RingProducer

LEMMA ConsumerStep ==
  ASSUME Size \in Nat \ {0}, RingInv, RingConsumer PROVE RingInv'
<1> USE DEF RingInv, Consumes, prod, file
<1>0. UNCHANGED <<put, producer_pc, frams, taken, total>>
  BY DEF RingConsumer, TestFin, TestEmpty, Lock, WriteFrame, AdvanceGet, Unlock
<1>freed. UNCHANGED <<freed, too_early>>
  BY DEF RingConsumer, TestFin, TestEmpty, Lock, WriteFrame, AdvanceGet, Unlock
<1>1. CASE TestFin \/ Lock \/ Unlock
  BY <1>0, <1>1, <1>freed DEF TestFin, Lock, Unlock, RingTypes, Account, WaitInOrder, Ahead, Stored,
                    Passed, FreedInTime, OutputInFileOrder
<1>2. CASE TestEmpty
  <2>1. get # put => Ahead(put) > 0
    BY DEF RingTypes, Ahead, Slots
  <2> QED
    BY <1>0, <1>2, <1>freed, <2>1 DEF TestEmpty, RingTypes, Account, WaitInOrder, Ahead, Stored,
                            Passed, FreedInTime, OutputInFileOrder
<1>3. CASE WriteFrame
  <2>1. PICK content \in {frams[get], Garbage} :
            /\ fh264' = Append(fh264, content)
            /\ content = frams[get] \/ (content = Garbage /\ frams[get] \in freed)
            /\ consumer_pc = "write" /\ consumer_pc' = "advance" /\ get' = get
    BY <1>3 DEF WriteFrame
  <2>2. content \in Int /\ frams[get] \in Int
    BY DEF RingTypes, Garbage
  <2>3. frams[get] = Len(fh264) + 1
    <3>1. Ahead(get) = 0 /\ get \in Slots
      BY DEF Ahead, RingTypes, Slots
    <3> QED
      BY <2>1, <3>1 DEF Account, WaitInOrder, Passed
  <2>4. /\ fh264' \in Seq(Int) /\ Len(fh264') = Len(fh264) + 1
        /\ \A i \in 1 .. Len(fh264) : fh264'[i] = fh264[i]
        /\ fh264'[Len(fh264) + 1] = content
        /\ Len(fh264) \in Nat
    BY <2>1, <2>2, AppendProperties DEF RingTypes
  <2>5. OutputInFileOrder' /\ FreedInTime'
    <3>1. frams[get] \in freed => Len(fh264) + 1 \in too_early
      BY <2>3, <2>4 DEF FreedInTime
    <3> QED
      BY <1>freed, <2>1, <2>3, <2>4, <3>1 DEF OutputInFileOrder, FreedInTime, RingTypes
  <2>6. Passed' = Passed
    BY <2>1, <2>4 DEF Passed
  <2> QED
    BY <1>0, <1>freed, <2>1, <2>4, <2>5, <2>6 DEF RingTypes, Account, WaitInOrder, Ahead, Stored
<1>4. CASE AdvanceGet
  <2>1. /\ consumer_pc = "advance" /\ consumer_pc' = "unlock" /\ get' = NextSlot(get)
        /\ UNCHANGED fh264
    BY <1>4 DEF AdvanceGet
  <2>2. get' \in Slots /\ get' = IF get = Size - 1 THEN 0 ELSE get + 1
    BY <2>1, NextSlotIs DEF RingTypes
  <2>3. Passed' = Passed + 1 /\ Passed \in Nat
    BY <2>1 DEF Passed, Account
  <2>4. ASSUME NEW i \in Slots
        PROVE  /\ Ahead(i) \in 0 .. Size - 1
               /\ Ahead(i)' = IF i = get THEN Size - 1 ELSE Ahead(i) - 1
               /\ i = get <=> Ahead(i) = 0
    BY <2>2 DEF RingTypes, Ahead, Slots
  <2>5. put \in Slots /\ put # get /\ Ahead(put)' = Ahead(put) - 1
    BY <1>0, <2>1, <2>4 DEF RingTypes, Account
  <2>6. RingTypes' /\ Account'
    BY <1>0, <1>freed, <2>1, <2>2, <2>3, <2>4, <2>5 DEF RingTypes, Account, Stored
  <2>7. ASSUME NEW i \in Slots
        PROVE  IF Ahead(i)' < Ahead(put)' \/ (producer_pc' = "advance" /\ i = put')
               THEN frams'[i] = Passed' + 1 + Ahead(i)'
               ELSE frams'[i] <= Passed'
    <3>1. /\ IF Ahead(i) < Ahead(put) \/ (producer_pc = "advance" /\ i = put)
             THEN frams[i] = Passed + 1 + Ahead(i)
             ELSE frams[i] <= Passed
          /\ frams[i] \in Int /\ Ahead(put) \in 1 .. Size - 1
      BY <2>1, <2>4, <2>5 DEF RingTypes, WaitInOrder, Account
    <3>2. CASE i = get
      BY <1>0, <2>3, <2>4, <2>5, <3>1, <3>2
    <3>3. CASE i # get
      BY <1>0, <2>3, <2>4, <2>5, <3>1, <3>3
    <3> QED
      BY <3>2, <3>3
  <2>8. WaitInOrder'
    BY <2>7 DEF WaitInOrder, Slots
  <2> QED
    BY <1>freed, <2>1, <2>6, <2>8 DEF OutputInFileOrder, FreedInTime
<1> QED
  BY <1>1, <1>2, <1>3, <1>4 DEF RingConsumer

LEMMA RingStep ==
  ASSUME Size \in Nat \ {0} PROVE RingInv /\ [RingNext]_ringVars => RingInv'
<1>1. RingInv /\ UNCHANGED ringVars => RingInv'
  BY DEF RingInv, RingTypes, Account, WaitInOrder, FreedInTime, OutputInFileOrder, Ahead, Stored,
         Passed, ringVars, file, prod, cons
<1> QED
  BY <1>1, ProducerStep, ConsumerStep DEF RingNext

-----------------------------------------------------------------------------
(* The inductive invariant: the account of the frames that wait, and where *)
(* in the ring each of them is.                                            *)
THEOREM RingInvariant ==
  ASSUME Size \in Nat \ {0}, RingFrames \in Nat
  PROVE  RingSpec => []RingInv
<1>1. RingInit => RingInv
  BY InitRing
<1>2. RingInv /\ [RingNext]_ringVars => RingInv'
  BY RingStep
<1> QED
  BY <1>1, <1>2, PTL DEF RingSpec

(* The k-th frame written is frame k, with its own data unless its memory  *)
(* was freed before it was written: none is skipped, repeated or moved.    *)
THEOREM FileOrder ==
  ASSUME Size \in Nat \ {0}, RingFrames \in Nat
  PROVE  RingSpec => []OutputInFileOrder
<1>1. RingInv => OutputInFileOrder
  BY DEF RingInv
<1> QED
  BY <1>1, RingInvariant, PTL

(* No step stores over a frame that is still to be written, although the   *)
(* producer asks for room in one step and stores in another.               *)
THEOREM NothingOverwritten ==
  ASSUME Size \in Nat \ {0}, RingFrames \in Nat
  PROVE  RingSpec => NoUnwrittenOverwritten
<1> DEFINE Kept == \A i \in Slots : frams'[i] # frams[i] => frams[i] <= Len(fh264)
<1>1. RingInv /\ [RingNext]_ringVars => [Kept]_ringVars
  <2> SUFFICES ASSUME RingInv, RingNext PROVE Kept
    OBVIOUS
  <2>1. CASE StoreFrame
    <3>1. put \in Slots /\ frams[put] <= Passed
      BY <2>1 DEF StoreFrame, Produces, RingInv, RingTypes, WaitInOrder, Ahead, Slots
    <3>2. Passed <= Len(fh264) /\ Passed \in Int /\ Len(fh264) \in Int /\ frams[put] \in Int
      BY <3>1 DEF RingInv, RingTypes, Passed
    <3>3. \A i \in Slots : i # put => frams'[i] = frams[i]
      BY <2>1 DEF StoreFrame, RingInv, RingTypes
    <3> QED
      BY <3>1, <3>2, <3>3
  <2>2. CASE ~StoreFrame
    <3>1. UNCHANGED frams
      BY <2>2 DEF RingNext, RingProducer, ReadFrame, FileEnds, TestFull, AdvancePut, FreeData,
                  RingConsumer, TestFin, TestEmpty, Lock, WriteFrame, AdvanceGet, Unlock, prod
    <3> QED
      BY <3>1
  <2> QED
    BY <2>1, <2>2
<1> QED
  BY <1>1, RingInvariant, PTL DEF RingSpec, NoUnwrittenOverwritten
=============================================================================
