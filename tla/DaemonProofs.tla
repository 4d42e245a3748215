---------------------------- MODULE DaemonProofs ----------------------------
(***************************************************************************)
(* Proofs about LogFiles, VideoCapture and RequestHandlers, parts of the   *)
(* IP-camera daemon that share nothing: each theorem is about the          *)
(* specification that it names.                                            *)
(*                                                                         *)
(* The log, for any finite set of threads, any number of lines and         *)
(* restarts, and any half of an answer that is more than 1: the files stay *)
(* small, and what log_get sends is in order.  Both need to look at the    *)
(* threads that are under way.  A file grows by the threads that have seen *)
(* room in it, so it is the lines of the file together with these threads  *)
(* that are bounded.  The order of two files that change places holds as   *)
(* long as there is one thread in logger at a time and no restart went on  *)
(* with the older file: then the lines of one file are all older than      *)
(* those of the other, the line under way is newer than both, and it goes  *)
(* to the file in use or to an empty one.                                  *)
(*                                                                         *)
(* The camera, for any number of buffers and of output frames: what        *)
(* videoGrab puts out without an error is new.  It takes the buffers in    *)
(* turn, and the driver fills them in the order in which it was given      *)
(* them; a buffer that is refused drops out of that order.  The invariant  *)
(* counts from the buffer to take next: the filled ones come first, in the *)
(* order of their pictures, then those the driver has, in its order.       *)
(*                                                                         *)
(* The routines of requests, for any accounts, values and numbers of       *)
(* requests and deaths; nothing is assumed of the constants.  The          *)
(* routines, the web thread and a death of the daemon interleave at every  *)
(* step, so RoutineInv says for each place of the parser thread what holds *)
(* of the two copies of the parameters, of the answers and of what the     *)
(* request has changed.                                                    *)
(***************************************************************************)
EXTENDS LogFiles, VideoCapture, RequestHandlers, FiniteSetTheorems, WellFoundedInduction, TLAPS

-----------------------------------------------------------------------------
(* The log.                                                                *)

Files == {LOG_1, LOG_2}

LogFile == [exists : BOOLEAN, which : Nat, lines : Seq(Nat)]
Writer == [at : {"idle", "read", "choose", "unlink", "open", "write"},
           line : Nat, choice : 0 .. 2, file : 0 .. 2, which : Nat]
Reader == [at : {"idle", "older", "newer", "sent", "error"},
           older : 0 .. 2, newer : 0 .. 2, got : Seq(Nat), late : BOOLEAN]

TypeOK ==
  /\ log \in [Files -> LogFile] /\ log_file_select \in 0 .. 2
  /\ writer \in [Threads -> Writer]
  /\ lines \in Nat /\ reader \in Reader
  /\ overlap \in BOOLEAN /\ mixed \in BOOLEAN

-----------------------------------------------------------------------------
(* Files stay small.                                                       *)

(* A file that is missing holds no line.                                   *)
MissingIsEmpty == \A f \in Files : ~log[f].exists => log[f].lines = <<>>

(* Between its reads the reader knows which file is which.                 *)
Other(f) == 3 - f
ReaderFiles ==
  reader.at \in {"older", "newer"} => reader.newer \in Files /\ reader.older = Other(reader.newer)

(* A thread with a file has one of the two.                                *)
HasFile == \A t \in Threads : writer[t].at \in {"unlink", "open", "write"} => writer[t].file \in Files

(* The threads that will add a line to f, if nothing comes between.        *)
Adding(f) ==
  {t \in Threads : /\ writer[t].file = f
                   /\ \/ writer[t].at = "open"
                      \/ writer[t].at = "write" /\ log[f].exists /\ writer[t].which = log[f].which}

LinesAndAdding ==
  \A f \in Files : Len(log[f].lines) + Cardinality(Adding(f)) <= Half - 2 + Cardinality(Threads)

SmallInv == TypeOK /\ MissingIsEmpty /\ ReaderFiles /\ HasFile /\ LinesAndAdding

-----------------------------------------------------------------------------
(* Lines stay in order.                                                    *)

Busy(t) == writer[t].at # "idle"
Ascending(s) == \A j, k \in DOMAIN s : j < k => s[j] < s[k]
AllBefore(s, u) == \A j \in DOMAIN s : \A k \in DOMAIN u : s[j] < u[k]

(* While threads call logger one at a time, one is in it.                  *)
OneWriter == \A t, u \in Threads : Busy(t) /\ Busy(u) => t = u

(* Numbers up to lines are given away.                                     *)
NumbersGiven ==
  /\ \A f \in Files : \A k \in DOMAIN log[f].lines : log[f].lines[k] <= lines
  /\ \A k \in DOMAIN reader.got : reader.got[k] <= lines
  /\ \A t \in Threads : writer[t].line <= lines

(* The line under way is newer than what is written, and what is read.     *)
LineIsNewest ==
  \A t \in Threads : Busy(t) =>
      /\ \A f \in Files : \A k \in DOMAIN log[f].lines : log[f].lines[k] < writer[t].line
      /\ \A k \in DOMAIN reader.got : reader.got[k] < writer[t].line

FilesInOrder == \A f \in Files : Ascending(log[f].lines)

(* It goes to the file in use, or to one that has been emptied for it;     *)
(* after a start no file is in use.                                        *)
WhereItGoes ==
  \A t \in Threads :
      /\ writer[t].at \in {"choose", "unlink"} => writer[t].choice = log_file_select
      /\ writer[t].at = "unlink" /\ log_file_select # 0 => writer[t].file = Other(log_file_select)
      /\ writer[t].at = "open" /\ log_file_select \notin {0, writer[t].file}
            => log[writer[t].file].lines = <<>>
      /\ writer[t].at = "write" => writer[t].file = log_file_select

(* The file in use is the newer one; after a start, one of the two is.     *)
Newer(f) == AllBefore(log[Other(f)].lines, log[f].lines)
OneIsNewer ==
  /\ log_file_select # 0 => Newer(log_file_select)
  /\ log_file_select = 0 => \E f \in Files : Newer(f)

(* Between the two reads: what comes from the older file is older than     *)
(* what the newer holds, also if they change places meanwhile.             *)
BetweenReads ==
  reader.at = "newer" =>
      /\ Ascending(reader.got)
      /\ ~reader.late => AllBefore(reader.got, log[reader.newer].lines)

OrderInv ==
  /\ TypeOK /\ HasFile /\ NumbersGiven /\ ReaderFiles
  /\ ~overlap => OneWriter /\ LineIsNewest /\ FilesInOrder /\ WhereItGoes
  /\ ~overlap /\ ~mixed => OneIsNewer /\ BetweenReads
  /\ SentInOrder

-----------------------------------------------------------------------------
(* Types.                                                                  *)

(* A writer, of which some fields have been set anew.                      *)
LEMMA WriterTypes ==
  ASSUME NEW w \in Writer
  PROVE  /\ \A a \in {"idle", "read", "choose", "unlink", "open", "write"} : [w EXCEPT !.at = a] \in Writer
         /\ \A c \in 0 .. 2 : [w EXCEPT !.at = "choose", !.choice = c] \in Writer
         /\ \A a \in {"unlink", "open"}, f \in Files : [w EXCEPT !.at = a, !.file = f] \in Writer
         /\ \A n \in Nat : [w EXCEPT !.at = "write", !.which = n] \in Writer
         /\ \A n \in Nat : [Idle EXCEPT !.at = "read", !.line = n] \in Writer
         /\ Idle \in Writer
<1>1. \A a \in {"idle", "read", "choose", "unlink", "open", "write"} : [w EXCEPT !.at = a] \in Writer
  BY DEF Writer
<1>2. \A c \in 0 .. 2 : [w EXCEPT !.at = "choose", !.choice = c] \in Writer
  BY DEF Writer
<1>3. \A a \in {"unlink", "open"}, f \in Files : [w EXCEPT !.at = a, !.file = f] \in Writer
  <2>1. \A a \in {"unlink", "open"}, f \in 0 .. 2 : [w EXCEPT !.at = a, !.file = f] \in Writer
    BY DEF Writer
  <2>2. \A f \in Files : f \in 0 .. 2
    BY DEF Files, LOG_1, LOG_2
  <2> QED
    BY <2>1, <2>2
<1>4. \A n \in Nat : [w EXCEPT !.at = "write", !.which = n] \in Writer
  BY DEF Writer
<1>5. Idle \in Writer
  BY DEF Writer, Idle
<1>6. \A n \in Nat : [Idle EXCEPT !.at = "read", !.line = n] \in Writer
  BY <1>5 DEF Writer
<1> QED
  BY <1>1, <1>2, <1>3, <1>4, <1>5, <1>6

(* A log file, of which some fields have been set anew.                    *)
LEMMA FileTypes ==
  ASSUME NEW l \in LogFile
  PROVE  /\ l.exists \in BOOLEAN /\ l.which \in Nat /\ l.lines \in Seq(Nat)
         /\ [l EXCEPT !.exists = FALSE, !.lines = <<>>] \in LogFile
         /\ \A n \in Nat : [l EXCEPT !.exists = TRUE, !.which = n] \in LogFile
         /\ \A n \in Nat : [l EXCEPT !.lines = Append(@, n)] \in LogFile
<1>1. l.exists \in BOOLEAN /\ l.which \in Nat /\ l.lines \in Seq(Nat)
  BY DEF LogFile
<1>2. <<>> \in Seq(Nat) /\ \A n \in Nat : Append(l.lines, n) \in Seq(Nat)
  BY <1>1
<1>3. [l EXCEPT !.exists = FALSE, !.lines = <<>>] \in LogFile
  BY <1>2 DEF LogFile
<1>4. \A n \in Nat : [l EXCEPT !.exists = TRUE, !.which = n] \in LogFile
  BY DEF LogFile
<1>5. \A n \in Nat : [l EXCEPT !.lines = Append(@, n)] \in LogFile
  BY <1>2 DEF LogFile
<1> QED
  BY <1>1, <1>3, <1>4, <1>5

(* The lines of a file.                                                    *)
LEMMA LinesOf == \A l \in LogFile : l.lines \in Seq(Nat) /\ Len(l.lines) \in Nat
  BY DEF LogFile

(* Nothing is logged, and nobody is in logger.                             *)
LEMMA InitTypes ==
  ASSUME LogInit PROVE TypeOK
<1>1. Idle \in Writer
  BY DEF Idle, Writer
<1>2. [exists |-> FALSE, which |-> 0, lines |-> <<>>] \in LogFile
  BY DEF LogFile
<1>3. NoReader \in Reader
  BY DEF NoReader, Reader
<1>4. log \in [Files -> LogFile] /\ writer \in [Threads -> Writer] /\ reader \in Reader
  BY <1>1, <1>2, <1>3 DEF LogInit, Files
<1>5. overlap \in BOOLEAN /\ mixed \in BOOLEAN
  BY Zenon DEF LogInit
<1>6. log_file_select \in 0 .. 2 /\ lines \in Nat
  BY DEF LogInit
<1> QED
  BY <1>4, <1>5, <1>6, Zenon DEF TypeOK

(* No file has a line, and nobody adds one.                                *)
LEMMA InitSmall ==
  ASSUME IsFiniteSet(Threads), Half \in Nat, Half > 1, LogInit
  PROVE  SmallInv
<1>1. TypeOK
  BY InitTypes
<1>2. MissingIsEmpty /\ ReaderFiles /\ HasFile
  BY DEF LogInit, MissingIsEmpty, ReaderFiles, HasFile, Files, Idle, NoReader
<1>3. LinesAndAdding
  <2>1. \A f \in Files : log[f].lines = <<>> /\ Adding(f) = {}
    BY DEF LogInit, Adding, Idle, Files
  <2>2. Cardinality(Threads) \in Nat /\ Cardinality({}) = 0 /\ Len(<<>>) = 0
    BY FS_CardinalityType, FS_EmptySet
  <2>3. 0 + 0 <= Half - 2 + Cardinality(Threads)
    BY <2>2
  <2> QED
    BY <2>1, <2>2, <2>3, Zenon DEF LinesAndAdding
<1> QED
  BY <1>1, <1>2, <1>3 DEF SmallInv

(* What may happen to a file: it is short, so that even with a line of     *)
(* every thread it stays small; no thread turns to it, and it does not     *)
(* grow; or it grows by a line of one of those that had turned to it.      *)
LEMMA StaysSmall ==
  ASSUME IsFiniteSet(Threads), Half \in Nat, Half > 1, SmallInv, TypeOK', NEW f \in Files,
         \/ Len(log'[f].lines) <= Half - 2
         \/ Adding(f)' \subseteq Adding(f) /\ Len(log'[f].lines) <= Len(log[f].lines)
         \/ \E t \in Adding(f) : /\ Adding(f)' \subseteq Adding(f) \ {t}
                                 /\ Len(log'[f].lines) = Len(log[f].lines) + 1
  PROVE  Len(log'[f].lines) + Cardinality(Adding(f)') <= Half - 2 + Cardinality(Threads)
<1>1. /\ Len(log[f].lines) \in Nat /\ Len(log'[f].lines) \in Nat
      /\ Len(log[f].lines) + Cardinality(Adding(f)) <= Half - 2 + Cardinality(Threads)
  <2>1. log[f] \in LogFile /\ log'[f] \in LogFile
    BY DEF SmallInv, TypeOK
  <2>2. log[f].lines \in Seq(Nat) /\ log'[f].lines \in Seq(Nat)
    BY <2>1, FileTypes, Zenon
  <2> QED
    BY <2>2 DEF SmallInv, LinesAndAdding
<1>2. Adding(f) \subseteq Threads /\ Adding(f)' \subseteq Threads
  BY DEF Adding
<1>3. /\ IsFiniteSet(Adding(f)) /\ IsFiniteSet(Adding(f)')
      /\ Cardinality(Adding(f)) \in Nat /\ Cardinality(Adding(f)') \in Nat
      /\ Cardinality(Threads) \in Nat /\ Cardinality(Adding(f)') <= Cardinality(Threads)
  BY <1>2, FS_Subset, FS_CardinalityType
<1>4. CASE Len(log'[f].lines) <= Half - 2
  BY <1>1, <1>3, <1>4
<1>5. CASE Adding(f)' \subseteq Adding(f) /\ Len(log'[f].lines) <= Len(log[f].lines)
  <2>1. Cardinality(Adding(f)') <= Cardinality(Adding(f))
    BY <1>3, <1>5, FS_Subset
  <2> QED
    BY <1>1, <1>3, <1>5, <2>1
<1>6. CASE \E t \in Adding(f) : /\ Adding(f)' \subseteq Adding(f) \ {t}
                                /\ Len(log'[f].lines) = Len(log[f].lines) + 1
  <2>1. PICK t \in Adding(f) : /\ Adding(f)' \subseteq Adding(f) \ {t}
                               /\ Len(log'[f].lines) = Len(log[f].lines) + 1
    BY <1>6
  <2>2. IsFiniteSet(Adding(f) \ {t}) /\ Cardinality(Adding(f) \ {t}) = Cardinality(Adding(f)) - 1
    BY <1>3, FS_RemoveElement
  <2>3. Cardinality(Adding(f)') <= Cardinality(Adding(f)) - 1
    BY <1>3, <2>1, <2>2, FS_Subset
  <2> QED
    BY <1>1, <1>3, <2>1, <2>3
<1> QED
  BY <1>4, <1>5, <1>6

-----------------------------------------------------------------------------
(* The steps of a thread, one by one: what each does to its entry.         *)
LEMMA Moves ==
  ASSUME TypeOK, NEW t \in Threads, NEW from, NEW w \in Writer, Step(t, from, w)
  PROVE  /\ writer[t].at = from /\ writer' \in [Threads -> Writer]
         /\ \A u \in Threads : writer'[u] = IF u = t THEN w ELSE writer[u]
  BY DEF Step, TypeOK

(* Call.                                                                   *)
LEMMA CallStep ==
  ASSUME TypeOK, HasFile, NEW t \in Threads, Call(t)
  PROVE  /\ TypeOK' /\ HasFile' /\ UNCHANGED <<log, log_file_select, reader, mixed>>
         /\ writer[t].at = "idle" /\ lines' = lines + 1
         /\ writer'[t].at = "read" /\ writer'[t].line = lines + 1
         /\ \A u \in Threads \ {t} : writer'[u] = writer[u]
         /\ ~overlap' => ~overlap /\ \A u \in Threads \ {t} : ~Busy(u)
<1>1. PICK w : w = [Idle EXCEPT !.at = "read", !.line = lines + 1]
  OBVIOUS
<1>2. writer[t] \in Writer /\ lines + 1 \in Nat
  BY DEF TypeOK
<1>3. w \in Writer /\ w.at = "read" /\ w.line = lines + 1
  BY <1>1, <1>2, WriterTypes DEF Idle
<1>4. Step(t, "idle", w) /\ lines' = lines + 1 /\ UNCHANGED <<log, log_file_select, reader, mixed>>
  BY <1>1 DEF Call, files
<1>5. /\ writer[t].at = "idle" /\ writer' \in [Threads -> Writer]
      /\ \A u \in Threads : writer'[u] = IF u = t THEN w ELSE writer[u]
  BY <1>3, <1>4, Moves
<1>6. overlap' \in BOOLEAN
  BY Zenon DEF Call
<1>7. TypeOK'
  BY <1>2, <1>4, <1>5, <1>6 DEF TypeOK
<1>8. HasFile'
  BY <1>3, <1>5 DEF HasFile
<1>9. ~overlap' => ~overlap /\ \A u \in Threads \ {t} : ~Busy(u)
  BY Zenon DEF Call, Busy
<1> QED
  BY <1>3, <1>4, <1>5, <1>7, <1>8, <1>9

(* ReadSelect.                                                             *)
LEMMA ReadSelectStep ==
  ASSUME TypeOK, HasFile, NEW t \in Threads, ReadSelect(t)
  PROVE  /\ TypeOK' /\ HasFile' /\ UNCHANGED <<log, log_file_select, lines, reader, overlap, mixed>>
         /\ writer[t].at = "read" /\ writer'[t].at = "choose"
         /\ writer'[t].line = writer[t].line /\ writer'[t].choice = log_file_select
         /\ \A u \in Threads \ {t} : writer'[u] = writer[u]
<1>1. PICK w : w = [writer[t] EXCEPT !.at = "choose", !.choice = log_file_select]
  OBVIOUS
<1>2. writer[t] \in Writer /\ log_file_select \in 0 .. 2
  BY DEF TypeOK
<1>3. w \in Writer /\ w.at = "choose" /\ w.line = writer[t].line /\ w.choice = log_file_select
  <2>1. w \in Writer
    BY <1>1, <1>2, WriterTypes
  <2>2. w.at = "choose" /\ w.line = writer[t].line /\ w.choice = log_file_select
    BY <1>1, <1>2 DEF Writer
  <2> QED
    BY <2>1, <2>2
<1>4. Step(t, "read", w) /\ UNCHANGED <<log, log_file_select, lines, reader, overlap, mixed>>
  BY <1>1 DEF ReadSelect, files, ghosts
<1>5. /\ writer[t].at = "read" /\ writer' \in [Threads -> Writer]
      /\ \A u \in Threads : writer'[u] = IF u = t THEN w ELSE writer[u]
  BY <1>3, <1>4, Moves
<1>6. TypeOK'
  BY <1>4, <1>5 DEF TypeOK
<1>7. HasFile'
  BY <1>3, <1>5 DEF HasFile
<1> QED
  BY <1>3, <1>4, <1>5, <1>6, <1>7

(* Choose: the file, and why it was chosen.                                *)
LEMMA ChooseStep ==
  ASSUME TypeOK, HasFile, NEW t \in Threads, Choose(t)
  PROVE  /\ TypeOK' /\ HasFile' /\ UNCHANGED <<log, log_file_select, lines, reader, overlap, mixed>>
         /\ writer[t].at = "choose" /\ writer'[t].line = writer[t].line
         /\ writer'[t].choice = writer[t].choice /\ writer'[t].file \in Files
         /\ \/ /\ writer'[t].at = "open" /\ Room(writer'[t].file)
               /\ writer[t].choice # 0 => writer'[t].file = writer[t].choice
            \/ /\ writer'[t].at = "unlink"
               /\ writer[t].choice # 0 => writer'[t].file = Other(writer[t].choice)
         /\ \A u \in Threads \ {t} : writer'[u] = writer[u]
<1>1. writer[t] \in Writer /\ writer[t].choice \in 0 .. 2
  BY DEF TypeOK, Writer
<1>2. \E a \in {"unlink", "open"}, f \in Files :
         /\ Step(t, "choose", [writer[t] EXCEPT !.at = a, !.file = f])
         /\ a = "open" => Room(f) /\ (writer[t].choice # 0 => f = writer[t].choice)
         /\ a = "unlink" => (writer[t].choice # 0 => f = Other(writer[t].choice))
  <2>1. writer[t].choice # 0 => writer[t].choice \in Files /\ Other(writer[t].choice) \in Files
    BY <1>1 DEF Files, Other, LOG_1, LOG_2
  <2>2. LOG_1 \in Files /\ LOG_2 \in Files
    BY DEF Files
  <2> QED
    BY <2>1, <2>2 DEF Choose, Other
<1>3. PICK a \in {"unlink", "open"}, f \in Files :
         /\ Step(t, "choose", [writer[t] EXCEPT !.at = a, !.file = f])
         /\ a = "open" => Room(f) /\ (writer[t].choice # 0 => f = writer[t].choice)
         /\ a = "unlink" => (writer[t].choice # 0 => f = Other(writer[t].choice))
  BY <1>2
<1>4. PICK w : w = [writer[t] EXCEPT !.at = a, !.file = f]
  OBVIOUS
<1>5. w \in Writer /\ w.at = a /\ w.file = f /\ w.line = writer[t].line /\ w.choice = writer[t].choice
  <2>1. w \in Writer
    BY <1>1, <1>4, WriterTypes
  <2>2. w.at = a /\ w.file = f /\ w.line = writer[t].line /\ w.choice = writer[t].choice
    BY <1>1, <1>4 DEF Writer
  <2> QED
    BY <2>1, <2>2
<1>6. UNCHANGED <<log, log_file_select, lines, reader, overlap, mixed>>
  BY DEF Choose, files, ghosts
<1>7. /\ writer[t].at = "choose" /\ writer' \in [Threads -> Writer]
      /\ \A u \in Threads : writer'[u] = IF u = t THEN w ELSE writer[u]
  BY <1>3, <1>4, <1>5, Moves
<1>8. TypeOK'
  BY <1>6, <1>7 DEF TypeOK
<1>9. HasFile'
  BY <1>5, <1>7 DEF HasFile
<1> QED
  BY <1>3, <1>5, <1>6, <1>7, <1>8, <1>9

(* Unlink: the file is empty.                                              *)
LEMMA UnlinkStep ==
  ASSUME TypeOK, HasFile, NEW t \in Threads, Unlink(t)
  PROVE  /\ TypeOK' /\ HasFile' /\ UNCHANGED <<log_file_select, lines, reader, overlap, mixed>>
         /\ writer[t].at = "unlink" /\ writer'[t].at = "open"
         /\ writer'[t].line = writer[t].line /\ writer'[t].choice = writer[t].choice
         /\ writer'[t].file = writer[t].file /\ writer[t].file \in Files
         /\ log'[writer[t].file].lines = <<>> /\ ~log'[writer[t].file].exists
         /\ \A f \in Files \ {writer[t].file} : log'[f] = log[f]
         /\ \A u \in Threads \ {t} : writer'[u] = writer[u]
<1>1. PICK w : w = [writer[t] EXCEPT !.at = "open"]
  OBVIOUS
<1>2. writer[t] \in Writer
  BY DEF TypeOK
<1>3. /\ w \in Writer /\ w.at = "open" /\ w.line = writer[t].line /\ w.choice = writer[t].choice
      /\ w.file = writer[t].file
  <2>1. w \in Writer
    BY <1>1, <1>2, WriterTypes
  <2>2. w.at = "open" /\ w.line = writer[t].line /\ w.choice = writer[t].choice /\ w.file = writer[t].file
    BY <1>1, <1>2 DEF Writer
  <2> QED
    BY <2>1, <2>2
<1>4. Step(t, "unlink", w) /\ UNCHANGED <<log_file_select, lines, reader, overlap, mixed>>
  BY <1>1 DEF Unlink, ghosts
<1>5. /\ writer[t].at = "unlink" /\ writer' \in [Threads -> Writer] /\ writer[t].file \in Files
      /\ \A u \in Threads : writer'[u] = IF u = t THEN w ELSE writer[u]
  BY <1>3, <1>4, Moves DEF HasFile
<1>6. PICK l : l = [log[writer[t].file] EXCEPT !.exists = FALSE, !.lines = <<>>]
  OBVIOUS
<1>7. log[writer[t].file] \in LogFile
  BY <1>5 DEF TypeOK
<1>8. l \in LogFile /\ ~l.exists /\ l.lines = <<>>
  <2>1. l \in LogFile
    BY <1>6, <1>7, FileTypes
  <2>2. l.exists = FALSE /\ l.lines = <<>>
    BY <1>6, <1>7 DEF LogFile
  <2> QED
    BY <2>1, <2>2
<1>9. log' = [log EXCEPT ![writer[t].file] = l]
  BY <1>6 DEF Unlink
<1>10. log' \in [Files -> LogFile] /\ \A f \in Files : log'[f] = IF f = writer[t].file THEN l ELSE log[f]
  BY <1>5, <1>8, <1>9 DEF TypeOK
<1>11. TypeOK'
  BY <1>4, <1>5, <1>10 DEF TypeOK
<1>12. HasFile'
  BY <1>3, <1>5 DEF HasFile
<1> QED
  BY <1>3, <1>4, <1>5, <1>8, <1>10, <1>11, <1>12

(* Open: the file exists and is in use; or it cannot be opened and the     *)
(* line is lost.                                                           *)
Opened(t) ==
  LET f == writer[t].file IN
  /\ writer'[t].at = "write" /\ writer'[t].line = writer[t].line /\ writer'[t].file = f
  /\ log'[f].lines = log[f].lines /\ log'[f].exists
  /\ writer'[t].which = log'[f].which /\ (log[f].exists => log'[f].which = log[f].which)
  /\ \A g \in Files \ {f} : log'[g] = log[g]
  /\ log_file_select' = f
  /\ ~mixed' => ~mixed /\ (log_file_select = 0 => ~(Newest(3 - f) > Newest(f)))
NotOpened(t) == writer'[t] = Idle /\ UNCHANGED <<log, log_file_select, mixed>>

LEMMA OpenStep ==
  ASSUME TypeOK, HasFile, NEW t \in Threads, Open(t)
  PROVE  /\ TypeOK' /\ HasFile' /\ UNCHANGED <<lines, reader, overlap>>
         /\ writer[t].at = "open" /\ writer[t].file \in Files
         /\ Opened(t) \/ NotOpened(t)
         /\ \A u \in Threads \ {t} : writer'[u] = writer[u]
<1>1. writer[t].at = "open" /\ UNCHANGED <<lines, reader, overlap>>
  BY DEF Open, Step
<1>2. writer[t].file \in Files /\ writer[t] \in Writer /\ log[writer[t].file] \in LogFile
  BY <1>1 DEF HasFile, TypeOK
<1>3. CASE Step(t, "open", Idle) /\ UNCHANGED <<files, mixed>>
  <2>1. UNCHANGED <<log, log_file_select, mixed>> /\ Idle \in Writer
    BY <1>2, <1>3, WriterTypes DEF files
  <2>2. writer' \in [Threads -> Writer] /\ \A u \in Threads : writer'[u] = IF u = t THEN Idle ELSE writer[u]
    BY <1>3, <2>1, Moves
  <2>3. TypeOK'
    BY <1>1, <2>1, <2>2 DEF TypeOK
  <2>4. HasFile'
    BY <2>2 DEF HasFile, Idle
  <2> QED
    BY <1>1, <1>2, <2>1, <2>2, <2>3, <2>4 DEF NotOpened
<1>4. CASE ~(Step(t, "open", Idle) /\ UNCHANGED <<files, mixed>>)
  <2>1. PICK f : f = writer[t].file
    OBVIOUS
  <2>2. PICK which : which = IF log[f].exists THEN log[f].which ELSE log[f].which + 1
    OBVIOUS
  <2>3. which \in Nat
    BY <1>2, <2>1, <2>2 DEF LogFile
  <2>4. PICK w : w = [writer[t] EXCEPT !.at = "write", !.which = which]
    OBVIOUS
  <2>5. w \in Writer /\ w.at = "write" /\ w.which = which /\ w.line = writer[t].line /\ w.file = f
    <3>1. w \in Writer
      BY <1>2, <2>3, <2>4, WriterTypes
    <3>2. w.at = "write" /\ w.which = which /\ w.line = writer[t].line /\ w.file = f
      BY <1>2, <2>1, <2>4 DEF Writer
    <3> QED
      BY <3>1, <3>2
  <2>6. PICK l : l = [log[f] EXCEPT !.exists = TRUE, !.which = which]
    OBVIOUS
  <2>7. l \in LogFile /\ l.exists /\ l.which = which /\ l.lines = log[f].lines
    <3>1. l \in LogFile
      BY <1>2, <2>1, <2>3, <2>6, FileTypes
    <3>2. l.exists = TRUE /\ l.which = which /\ l.lines = log[f].lines
      BY <1>2, <2>1, <2>6 DEF LogFile
    <3> QED
      BY <3>1, <3>2
  <2>8. Step(t, "open", w) /\ log' = [log EXCEPT ![f] = l] /\ log_file_select' = f
    BY <1>4, <2>1, <2>2, <2>4, <2>6 DEF Open
  <2>9. writer' \in [Threads -> Writer] /\ \A u \in Threads : writer'[u] = IF u = t THEN w ELSE writer[u]
    BY <2>5, <2>8, Moves
  <2>10. log' \in [Files -> LogFile] /\ \A g \in Files : log'[g] = IF g = f THEN l ELSE log[g]
    BY <1>2, <2>1, <2>7, <2>8 DEF TypeOK
  <2>11. mixed' = (mixed \/ (log_file_select = 0 /\ Newest(3 - f) > Newest(f)))
    BY <1>4, <2>1, Zenon DEF Open
  <2>12. mixed' \in BOOLEAN
    BY <2>11, Zenon
  <2>13. ~mixed' => ~mixed /\ (log_file_select = 0 => ~(Newest(3 - f) > Newest(f)))
    BY <2>11, Zenon
  <2>14. f \in 0 .. 2
    BY <1>2, <2>1 DEF Files, LOG_1, LOG_2
  <2>15. TypeOK'
    BY <1>1, <2>8, <2>9, <2>10, <2>12, <2>14 DEF TypeOK
  <2>16. HasFile'
    BY <1>2, <2>1, <2>5, <2>9 DEF HasFile
  <2>17. Opened(t)
    <3>1. writer'[t] = w /\ log'[f] = l /\ \A g \in Files \ {f} : log'[g] = log[g]
      BY <1>2, <2>1, <2>9, <2>10
    <3>2. log[f].exists => which = log[f].which
      BY <2>2
    <3> QED
      BY <2>1, <2>5, <2>7, <2>8, <2>13, <3>1, <3>2, Zenon DEF Opened
  <2> QED
    BY <1>1, <1>2, <2>9, <2>15, <2>16, <2>17
<1> QED
  BY <1>3, <1>4

(* Write: the line is at the end of the file, unless the file is gone.     *)
LEMMA WriteStep ==
  ASSUME TypeOK, HasFile, NEW t \in Threads, Write(t)
  PROVE  /\ TypeOK' /\ HasFile' /\ UNCHANGED <<log_file_select, lines, reader, overlap, mixed>>
         /\ writer[t].at = "write" /\ writer'[t] = Idle /\ writer[t].file \in Files
         /\ \A u \in Threads \ {t} : writer'[u] = writer[u]
         /\ \A f \in Files \ {writer[t].file} : log'[f] = log[f]
         /\ LET f == writer[t].file IN
            \/ ~(log[f].exists /\ log[f].which = writer[t].which) /\ log'[f] = log[f]
            \/ /\ log[f].exists /\ log[f].which = writer[t].which
               /\ log'[f].lines = Append(log[f].lines, writer[t].line)
               /\ log'[f].exists = log[f].exists /\ log'[f].which = log[f].which
<1>1. writer[t].at = "write" /\ UNCHANGED <<log_file_select, lines, reader, overlap, mixed>> /\ Step(t, "write", Idle)
  BY DEF Write, Step, ghosts
<1>2. /\ writer[t].file \in Files /\ writer[t] \in Writer /\ writer[t].line \in Nat
      /\ log[writer[t].file] \in LogFile /\ Idle \in Writer
  <2>1. writer[t].file \in Files /\ writer[t] \in Writer
    BY <1>1 DEF HasFile, TypeOK
  <2>2. writer[t].line \in Nat /\ Idle \in Writer
    BY <2>1, WriterTypes DEF Writer
  <2> QED
    BY <2>1, <2>2 DEF TypeOK
<1>3. writer' \in [Threads -> Writer] /\ \A u \in Threads : writer'[u] = IF u = t THEN Idle ELSE writer[u]
  BY <1>1, <1>2, Moves
<1>4. HasFile'
  BY <1>3 DEF HasFile, Idle
<1>5. PICK f : f = writer[t].file
  OBVIOUS
<1>6. CASE log[f].exists /\ log[f].which = writer[t].which
  <2>1. PICK l : l = [log[f] EXCEPT !.lines = Append(@, writer[t].line)]
    OBVIOUS
  <2>2. /\ l \in LogFile /\ l.lines = Append(log[f].lines, writer[t].line)
        /\ l.exists = log[f].exists /\ l.which = log[f].which
    <3>1. l \in LogFile
      BY <1>2, <1>5, <2>1, FileTypes
    <3>2. /\ l.lines = Append(log[f].lines, writer[t].line)
          /\ l.exists = log[f].exists /\ l.which = log[f].which
      BY <1>2, <1>5, <2>1 DEF LogFile
    <3> QED
      BY <3>1, <3>2
  <2>3. log' = [log EXCEPT ![f] = l]
    BY <1>5, <1>6, <2>1 DEF Write
  <2>4. log' \in [Files -> LogFile] /\ \A g \in Files : log'[g] = IF g = f THEN l ELSE log[g]
    BY <1>2, <1>5, <2>2, <2>3 DEF TypeOK
  <2>5. TypeOK'
    BY <1>1, <1>3, <2>4 DEF TypeOK
  <2> QED
    BY <1>1, <1>2, <1>3, <1>4, <1>5, <1>6, <2>2, <2>4, <2>5
<1>7. CASE ~(log[f].exists /\ log[f].which = writer[t].which)
  <2>1. log' = log
    BY <1>5, <1>7 DEF Write
  <2>2. TypeOK'
    BY <1>1, <1>3, <2>1 DEF TypeOK
  <2> QED
    BY <1>1, <1>2, <1>3, <1>4, <1>5, <1>7, <2>1, <2>2
<1> QED
  BY <1>6, <1>7

(* What is read of a file is the file, or its first half.                  *)
LEMMA ContentsOf ==
  ASSUME TypeOK, Half \in Nat, NEW f \in Files
  PROVE  /\ Contents(f) \in Seq(Nat)
         /\ \A k \in DOMAIN Contents(f) : k \in DOMAIN log[f].lines /\ Contents(f)[k] = log[f].lines[k]
<1>1. log[f].lines \in Seq(Nat)
  BY FileTypes DEF TypeOK
<1>2. CASE Len(log[f].lines) > Half
  BY <1>1, <1>2 DEF Contents
<1>3. CASE ~(Len(log[f].lines) > Half)
  BY <1>1, <1>3 DEF Contents
<1> QED
  BY <1>2, <1>3

(* routine_log_get_req: only the reader moves.                             *)
LEMMA ReaderStep ==
  ASSUME TypeOK, HasFile, ReaderFiles, Half \in Nat, BeginLogGet \/ ReadOlder \/ ReadNewer
  PROVE  /\ TypeOK' /\ HasFile' /\ UNCHANGED <<log, log_file_select, writer, lines, overlap, mixed>>
         /\ \/ /\ reader'.at \in {"idle", "error"} /\ reader'.got = <<>>
            \/ /\ reader'.at = "older" /\ reader'.got = <<>>
               /\ reader'.newer \in Files /\ reader'.older = Other(reader'.newer)
            \/ /\ reader.at = "older" /\ reader'.at = "newer"
               /\ reader'.newer = reader.newer /\ reader'.older = reader.older
               /\ reader.older \in Files /\ reader.newer \in Files
               /\ reader'.got = Contents(reader.older)
               /\ ~reader'.late => log_file_select = reader.newer
            \/ /\ reader.at = "newer" /\ reader'.at = "sent" /\ reader'.late = reader.late
               /\ reader.newer \in Files
               /\ reader'.got = reader.got \o Contents(reader.newer)
<1>1. UNCHANGED <<log, log_file_select, writer, lines, overlap, mixed>>
  BY DEF BeginLogGet, ReadOlder, ReadNewer, files, ghosts
<1>2. reader \in Reader /\ log_file_select \in 0 .. 2 /\ reader.got \in Seq(Nat) /\ reader.newer \in 0 .. 2
  BY DEF TypeOK, Reader
<1>3. <<>> \in Seq(Nat) /\ NoReader \in Reader /\ NoReader.got = <<>>
  BY DEF NoReader, Reader
<1>4. CASE reader' = [NoReader EXCEPT !.at = "error"]
  <2>1. reader' \in Reader /\ reader'.at = "error" /\ reader'.got = <<>>
    BY <1>3, <1>4 DEF Reader
  <2> QED
    BY <1>1, <2>1 DEF TypeOK, HasFile
<1>5. CASE \E f \in Files : reader' = [NoReader EXCEPT !.at = "older", !.older = Other(f), !.newer = f]
  <2>1. PICK f \in Files : reader' = [NoReader EXCEPT !.at = "older", !.older = Other(f), !.newer = f]
    BY <1>5
  <2>2. f \in 0 .. 2 /\ Other(f) \in 0 .. 2
    BY DEF Files, Other, LOG_1, LOG_2
  <2>3. reader' \in Reader
    BY <1>3, <2>1, <2>2 DEF Reader
  <2>4. reader'.at = "older" /\ reader'.got = <<>> /\ reader'.newer = f /\ reader'.older = Other(f)
    BY <1>3, <2>1 DEF Reader
  <2> QED
    BY <1>1, <2>3, <2>4 DEF TypeOK, HasFile
<1>6. CASE BeginLogGet
  <2>1. \/ log_file_select = 0 /\ reader' = [NoReader EXCEPT !.at = "error"]
        \/ log_file_select = 1 /\ reader' = [NoReader EXCEPT !.at = "older", !.older = 2, !.newer = 1]
        \/ log_file_select = 2 /\ reader' = [NoReader EXCEPT !.at = "older", !.older = 1, !.newer = 2]
    BY <1>2, <1>6 DEF BeginLogGet, LOG_1, LOG_2
  <2>2. 1 \in Files /\ 2 \in Files /\ Other(1) = 2 /\ Other(2) = 1
    BY DEF Files, Other, LOG_1, LOG_2
  <2> QED
    BY <1>4, <1>5, <2>1, <2>2
<1>7. CASE ReadOlder /\ reader' # [NoReader EXCEPT !.at = "error"]
  <2>1. /\ reader.at = "older" /\ reader.newer \in Files /\ reader.older \in Files
        /\ reader' = [reader EXCEPT !.at = "newer", !.got = Contents(reader.older),
                                    !.late = (log_file_select # reader.newer)]
    BY <1>7 DEF ReadOlder, ReaderFiles, Files, Other, LOG_1, LOG_2
  <2>2. Contents(reader.older) \in Seq(Nat)
    BY <2>1, ContentsOf
  <2>3. PICK stale \in BOOLEAN : stale = (log_file_select # reader.newer)
    BY Zenon
  <2>4. reader' = [reader EXCEPT !.at = "newer", !.got = Contents(reader.older), !.late = stale]
    BY <2>1, <2>3, Zenon
  <2>5. ~stale => log_file_select = reader.newer
    BY <2>3, Zenon
  <2>6. reader' \in Reader
    BY <1>2, <2>2, <2>4 DEF Reader
  <2>7. /\ reader'.at = "newer" /\ reader'.newer = reader.newer /\ reader'.older = reader.older
        /\ reader'.got = Contents(reader.older) /\ reader'.late = stale
    BY <1>2, <2>4 DEF Reader
  <2>8. TypeOK' /\ HasFile'
    BY <1>1, <2>6 DEF TypeOK, HasFile
  <2> QED
    BY <1>1, <2>1, <2>5, <2>7, <2>8
<1>8. CASE ReadNewer /\ reader' # [NoReader EXCEPT !.at = "error"]
  <2>1. /\ reader.at = "newer" /\ reader.newer \in Files
        /\ reader' = [reader EXCEPT !.at = "sent", !.got = @ \o Contents(reader.newer)]
    BY <1>8 DEF ReadNewer, ReaderFiles
  <2>2. reader.got \o Contents(reader.newer) \in Seq(Nat)
    BY <1>2, <2>1, ContentsOf
  <2>3. reader' \in Reader
    BY <1>2, <2>1, <2>2 DEF Reader
  <2>4. /\ reader'.at = "sent" /\ reader'.late = reader.late
        /\ reader'.got = reader.got \o Contents(reader.newer)
    BY <1>2, <2>1 DEF Reader
  <2>5. TypeOK' /\ HasFile'
    BY <1>1, <2>3 DEF TypeOK, HasFile
  <2> QED
    BY <1>1, <2>1, <2>4, <2>5
<1> QED
  BY <1>4, <1>6, <1>7, <1>8

(* A restart leaves the files.                                             *)
LEMMA RestartStep ==
  ASSUME TypeOK, Restart
  PROVE  /\ TypeOK' /\ HasFile' /\ UNCHANGED <<log, lines, overlap, mixed>> /\ log_file_select' = 0
         /\ \A t \in Threads : writer'[t].at = "idle" /\ writer'[t].line = 0
         /\ reader'.at = "idle" /\ reader'.got = <<>>
<1>1. UNCHANGED <<log, lines, overlap, mixed>> /\ log_file_select' = 0
  BY DEF Restart, ghosts
<1>2. Idle \in Writer /\ Idle.at = "idle" /\ Idle.line = 0
  BY DEF Idle, Writer
<1>3. NoReader \in Reader /\ NoReader.at = "idle" /\ NoReader.got = <<>>
  BY DEF NoReader, Reader
<1>4. writer' \in [Threads -> Writer] /\ reader' = NoReader /\ \A t \in Threads : writer'[t] = Idle
  BY <1>2 DEF Restart
<1>5. TypeOK'
  BY <1>1, <1>3, <1>4 DEF TypeOK
<1>6. HasFile'
  BY <1>2, <1>4 DEF HasFile
<1> QED
  BY <1>1, <1>2, <1>3, <1>4, <1>5, <1>6

-----------------------------------------------------------------------------
(* Files stay small.                                                       *)

(* A step that adds nobody and no line.                                    *)
LEMMA SameFiles ==
  ASSUME IsFiniteSet(Threads), Half \in Nat, Half > 1, SmallInv, TypeOK', UNCHANGED log,
         \A t \in Threads : writer'[t] = writer[t] \/ writer'[t].at \notin {"open", "write"}
  PROVE  MissingIsEmpty' /\ LinesAndAdding'
<1>1. MissingIsEmpty'
  BY DEF SmallInv, MissingIsEmpty
<1>2. \A f \in Files : Adding(f)' \subseteq Adding(f)
  BY DEF Adding
<1>3. \A f \in Files : Len(log'[f].lines) \in Nat /\ Len(log'[f].lines) = Len(log[f].lines)
  BY LinesOf DEF TypeOK
<1> QED
  BY <1>1, <1>2, <1>3, StaysSmall DEF LinesAndAdding

(* No step, of one thread or another, of the reader or a restart, makes a  *)
(* file longer than the threads that add to it allow.                      *)
LEMMA SmallStep ==
  ASSUME IsFiniteSet(Threads), Half \in Nat, Half > 1, SmallInv, [LogNext]_logVars
  PROVE  SmallInv'
<1>1. TypeOK /\ HasFile /\ MissingIsEmpty /\ ReaderFiles
  BY DEF SmallInv
<1>2. \A f \in Files : log[f].lines \in Seq(Nat) /\ Len(log[f].lines) \in Nat
  BY <1>1, LinesOf DEF TypeOK
<1>3. ASSUME NEW t \in Threads, Call(t) \/ ReadSelect(t)
      PROVE  SmallInv'
  <2>1. /\ TypeOK' /\ HasFile' /\ UNCHANGED <<log, reader>> /\ writer'[t].at \in {"read", "choose"}
        /\ \A u \in Threads \ {t} : writer'[u] = writer[u]
    BY <1>1, <1>3, CallStep, ReadSelectStep
  <2> QED
    BY <1>1, <2>1, SameFiles DEF SmallInv, ReaderFiles
<1>4. ASSUME NEW t \in Threads, Choose(t)
      PROVE  SmallInv'
  <2>1. /\ TypeOK' /\ HasFile' /\ UNCHANGED <<log, reader>> /\ writer'[t].file \in Files
        /\ \/ writer'[t].at = "open" /\ Room(writer'[t].file)
           \/ writer'[t].at = "unlink"
        /\ \A u \in Threads \ {t} : writer'[u] = writer[u]
    BY <1>1, <1>4, ChooseStep
  <2>2. CASE writer'[t].at = "unlink"
    BY <1>1, <2>1, <2>2, SameFiles DEF SmallInv, ReaderFiles
  <2>3. CASE writer'[t].at = "open" /\ Room(writer'[t].file)
    <3>1. ASSUME NEW f \in Files
          PROVE  \/ Len(log'[f].lines) <= Half - 2
                 \/ Adding(f)' \subseteq Adding(f) /\ Len(log'[f].lines) <= Len(log[f].lines)
      <4>1. CASE f = writer'[t].file
        BY <1>2, <2>1, <2>3, <4>1 DEF Room
      <4>2. CASE f # writer'[t].file
        BY <1>2, <2>1, <4>2 DEF Adding
      <4> QED
        BY <4>1, <4>2
    <3>2. LinesAndAdding'
      BY <2>1, <3>1, StaysSmall DEF LinesAndAdding
    <3> QED
      BY <1>1, <2>1, <3>2 DEF SmallInv, ReaderFiles, MissingIsEmpty
  <2> QED
    BY <2>1, <2>2, <2>3
<1>5. ASSUME NEW t \in Threads, Unlink(t)
      PROVE  SmallInv'
  <2>1. /\ TypeOK' /\ HasFile' /\ UNCHANGED reader /\ writer'[t].file = writer[t].file
        /\ log'[writer[t].file].lines = <<>> /\ ~log'[writer[t].file].exists
        /\ \A f \in Files \ {writer[t].file} : log'[f] = log[f]
        /\ \A u \in Threads \ {t} : writer'[u] = writer[u]
    BY <1>1, <1>5, UnlinkStep
  <2>2. ASSUME NEW f \in Files
        PROVE  \/ Len(log'[f].lines) <= Half - 2
               \/ Adding(f)' \subseteq Adding(f) /\ Len(log'[f].lines) <= Len(log[f].lines)
    <3>1. CASE f = writer[t].file
      <4>1. Len(<<>>) = 0 /\ 0 <= Half - 2
        OBVIOUS
      <4> QED
        BY <2>1, <3>1, <4>1
    <3>2. CASE f # writer[t].file
      BY <1>2, <2>1, <3>2 DEF Adding
    <3> QED
      BY <3>1, <3>2
  <2>3. LinesAndAdding'
    BY <2>1, <2>2, StaysSmall DEF LinesAndAdding
  <2>4. MissingIsEmpty'
    BY <1>1, <2>1 DEF MissingIsEmpty
  <2> QED
    BY <1>1, <2>1, <2>3, <2>4 DEF SmallInv, ReaderFiles
<1>6. ASSUME NEW t \in Threads, Open(t)
      PROVE  SmallInv'
  <2>1. /\ TypeOK' /\ HasFile' /\ UNCHANGED reader /\ writer[t].at = "open" /\ writer[t].file \in Files
        /\ Opened(t) \/ NotOpened(t)
        /\ \A u \in Threads \ {t} : writer'[u] = writer[u]
    BY <1>1, <1>6, OpenStep
  <2>2. CASE NotOpened(t)
    BY <1>1, <2>1, <2>2, SameFiles DEF SmallInv, ReaderFiles, NotOpened, Idle
  <2>3. CASE Opened(t)
    <3>1. /\ writer'[t].at = "write" /\ writer'[t].file = writer[t].file
          /\ log'[writer[t].file].lines = log[writer[t].file].lines /\ log'[writer[t].file].exists
          /\ log[writer[t].file].exists => log'[writer[t].file].which = log[writer[t].file].which
          /\ \A g \in Files \ {writer[t].file} : log'[g] = log[g]
      BY <2>3, Zenon DEF Opened
    <3>2. ASSUME NEW f \in Files
          PROVE  \/ Len(log'[f].lines) <= Half - 2
                 \/ Adding(f)' \subseteq Adding(f) /\ Len(log'[f].lines) <= Len(log[f].lines)
      <4>1. CASE f = writer[t].file /\ ~log[f].exists
        <5>1. Len(<<>>) = 0 /\ 0 <= Half - 2
          OBVIOUS
        <5> QED
          BY <1>1, <3>1, <4>1, <5>1 DEF MissingIsEmpty
      <4>2. CASE f = writer[t].file /\ log[f].exists
        BY <1>2, <2>1, <3>1, <4>2 DEF Adding
      <4>3. CASE f # writer[t].file
        BY <1>2, <2>1, <3>1, <4>3 DEF Adding
      <4> QED
        BY <4>1, <4>2, <4>3
    <3>3. LinesAndAdding'
      BY <2>1, <3>2, StaysSmall DEF LinesAndAdding
    <3>4. MissingIsEmpty'
      BY <1>1, <2>1, <3>1 DEF MissingIsEmpty
    <3> QED
      BY <1>1, <2>1, <3>3, <3>4 DEF SmallInv, ReaderFiles
  <2> QED
    BY <2>1, <2>2, <2>3
<1>7. ASSUME NEW t \in Threads, Write(t)
      PROVE  SmallInv'
  <2>1. /\ TypeOK' /\ HasFile' /\ UNCHANGED reader
        /\ writer[t].at = "write" /\ writer'[t].at = "idle" /\ writer[t].file \in Files
        /\ \A u \in Threads \ {t} : writer'[u] = writer[u]
        /\ \A f \in Files \ {writer[t].file} : log'[f] = log[f]
    BY <1>1, <1>7, WriteStep DEF Idle
  <2>2. LET f == writer[t].file IN
        \/ log'[f] = log[f]
        \/ /\ log[f].exists /\ log[f].which = writer[t].which
           /\ log'[f].lines = Append(log[f].lines, writer[t].line)
           /\ log'[f].exists = log[f].exists /\ log'[f].which = log[f].which
    BY <1>1, <1>7, WriteStep
  <2>3. ASSUME NEW f \in Files
        PROVE  \/ Adding(f)' \subseteq Adding(f) /\ Len(log'[f].lines) <= Len(log[f].lines)
               \/ \E u \in Adding(f) : /\ Adding(f)' \subseteq Adding(f) \ {u}
                                       /\ Len(log'[f].lines) = Len(log[f].lines) + 1
    <3>1. CASE log'[f] = log[f]
      BY <1>2, <2>1, <3>1 DEF Adding
    <3>2. CASE log'[f] # log[f]
      <4>1. /\ f = writer[t].file /\ log[f].exists /\ log[f].which = writer[t].which
            /\ log'[f].lines = Append(log[f].lines, writer[t].line)
            /\ log'[f].exists = log[f].exists /\ log'[f].which = log[f].which
        BY <2>1, <2>2, <3>2, Zenon
      <4>2. t \in Adding(f)
        BY <2>1, <4>1 DEF Adding
      <4>3. Adding(f)' \subseteq Adding(f) \ {t}
        BY <2>1, <4>1 DEF Adding
      <4>4. Len(log'[f].lines) = Len(log[f].lines) + 1
        BY <1>2, <4>1
      <4> QED
        BY <4>2, <4>3, <4>4
    <3> QED
      BY <3>1, <3>2
  <2>4. LinesAndAdding'
    BY <2>1, <2>3, StaysSmall DEF LinesAndAdding
  <2>5. MissingIsEmpty'
    BY <1>1, <2>1, <2>2 DEF MissingIsEmpty
  <2> QED
    BY <1>1, <2>1, <2>4, <2>5 DEF SmallInv, ReaderFiles
<1>8. CASE BeginLogGet \/ ReadOlder \/ ReadNewer
  <2>1. TypeOK' /\ HasFile' /\ UNCHANGED <<log, writer>> /\ ReaderFiles'
    BY <1>1, <1>8, ReaderStep DEF ReaderFiles
  <2> QED
    BY <2>1, SameFiles DEF SmallInv
<1>9. CASE Restart
  <2>1. /\ TypeOK' /\ HasFile' /\ UNCHANGED log /\ reader'.at = "idle"
        /\ \A t \in Threads : writer'[t].at = "idle"
    BY <1>1, <1>9, RestartStep
  <2> QED
    BY <2>1, SameFiles DEF SmallInv, ReaderFiles
<1>10. CASE UNCHANGED logVars
  <2>1. UNCHANGED <<log, log_file_select, writer, lines, reader, overlap, mixed>>
    BY <1>10 DEF logVars, files, ghosts
  <2>2. TypeOK' /\ HasFile' /\ ReaderFiles'
    BY <1>1, <2>1, Zenon DEF TypeOK, HasFile, ReaderFiles
  <2> QED
    BY <2>1, <2>2, SameFiles DEF SmallInv
<1> QED
  BY <1>3, <1>4, <1>5, <1>6, <1>7, <1>8, <1>9, <1>10 DEF LogNext, Logger

(* A log file is never longer than half of what an answer holds but for    *)
(* the lines of the other threads: logger looks for room without a lock,   *)
(* and the file may be used, deleted and found again before it writes.     *)
THEOREM LogIsBounded ==
  ASSUME IsFiniteSet(Threads), Half \in Nat, Half > 1
  PROVE  LogSpec => []FilesStaySmall
<1>1. LogInit => SmallInv
  BY InitSmall
<1>2. SmallInv /\ [LogNext]_logVars => SmallInv'
  BY SmallStep
<1>3. SmallInv => FilesStaySmall
  <2> SUFFICES ASSUME SmallInv, NEW f \in Files PROVE Len(log[f].lines) < Half + Cardinality(Threads) - 1
    BY DEF FilesStaySmall, Files
  <2>1. Len(log[f].lines) \in Nat
    BY LinesOf DEF SmallInv, TypeOK
  <2>2. IsFiniteSet(Adding(f)) /\ Cardinality(Adding(f)) \in Nat /\ Cardinality(Threads) \in Nat
    <3>1. Adding(f) \subseteq Threads
      BY DEF Adding
    <3> QED
      BY <3>1, FS_Subset, FS_CardinalityType
  <2>3. Len(log[f].lines) + Cardinality(Adding(f)) <= Half - 2 + Cardinality(Threads)
    BY DEF SmallInv, LinesAndAdding
  <2> QED
    BY <2>1, <2>2, <2>3
<1> QED
  BY <1>1, <1>2, <1>3, PTL DEF LogSpec

-----------------------------------------------------------------------------
(* Lines stay in order.                                                    *)

(* What the order is about consists of numbers.                            *)
LEMMA Numbers ==
  ASSUME TypeOK
  PROVE  /\ \A f \in Files : /\ log[f].lines \in Seq(Nat) /\ Len(log[f].lines) \in Nat
                             /\ \A k \in DOMAIN log[f].lines : log[f].lines[k] \in Nat
         /\ \A t \in Threads : writer[t].line \in Nat
         /\ reader.got \in Seq(Nat) /\ \A k \in DOMAIN reader.got : reader.got[k] \in Nat
         /\ lines \in Nat
<1>1. \A s \in Seq(Nat) : \A k \in DOMAIN s : s[k] \in Nat
  OBVIOUS
<1>2. \A f \in Files : log[f].lines \in Seq(Nat) /\ Len(log[f].lines) \in Nat
  BY LinesOf DEF TypeOK
<1>3. (\A t \in Threads : writer[t].line \in Nat) /\ reader.got \in Seq(Nat) /\ lines \in Nat
  BY DEF TypeOK, Writer, Reader
<1> QED
  BY <1>1, <1>2, <1>3

(* There is nothing to be out of order.                                    *)
LEMMA InitOrder ==
  ASSUME LogInit PROVE OrderInv
<1>1. TypeOK
  BY InitTypes
<1>2. HasFile /\ ReaderFiles /\ SentInOrder
  BY DEF LogInit, ReaderFiles, HasFile, Files, Idle, NoReader, SentInOrder
<1>3. NumbersGiven
  BY DEF LogInit, NumbersGiven, Idle, NoReader, Files
<1>4. OneWriter /\ LineIsNewest /\ FilesInOrder /\ WhereItGoes
  BY DEF LogInit, OneWriter, LineIsNewest, FilesInOrder, WhereItGoes, Busy, Idle, Ascending, Files
<1>5. OneIsNewer /\ BetweenReads
  BY DEF LogInit, OneIsNewer, BetweenReads, Newer, AllBefore, Files, NoReader, LOG_1
<1> QED
  BY <1>1, <1>2, <1>3, <1>4, <1>5 DEF OrderInv

(* A step of a thread leaves what was sent, and its order.                 *)
LEMMA SentStays ==
  ASSUME OrderInv, UNCHANGED reader, ~overlap' => ~overlap, ~mixed' => ~mixed
  PROVE  SentInOrder' /\ ReaderFiles'
  BY DEF OrderInv, SentInOrder, ReaderFiles

(* Before a thread writes, the lines in the files stay, but that a file    *)
(* may be emptied.                                                         *)
LEMMA LinesStay ==
  ASSUME OrderInv, UNCHANGED <<reader, lines>>, ~overlap' => ~overlap, ~mixed' => ~mixed,
         NEW t \in Threads, writer[t].at # "idle", writer'[t].line = writer[t].line,
         \A u \in Threads \ {t} : writer'[u] = writer[u],
         \A f \in Files : log'[f].lines = log[f].lines \/ log'[f].lines = <<>>
  PROVE  /\ NumbersGiven' /\ SentInOrder' /\ ReaderFiles'
         /\ ~overlap' => OneWriter' /\ LineIsNewest' /\ FilesInOrder' /\ \A u \in Threads \ {t} : ~Busy(u)
         /\ ~overlap' /\ ~mixed' => BetweenReads'
<1>1. NumbersGiven'
  BY DEF OrderInv, NumbersGiven
<1>2. ~overlap' => OneWriter' /\ \A u \in Threads \ {t} : ~Busy(u)
  BY DEF OrderInv, OneWriter, Busy
<1>3. ~overlap' => LineIsNewest'
  BY DEF OrderInv, LineIsNewest, Busy
<1>4. ~overlap' => FilesInOrder'
  BY DEF OrderInv, FilesInOrder, Ascending
<1>5. ~overlap' /\ ~mixed' => BetweenReads'
  <2>1. reader.at = "newer" => reader.newer \in Files
    BY DEF OrderInv, ReaderFiles
  <2> QED
    BY <2>1 DEF OrderInv, BetweenReads, Ascending, AllBefore
<1> QED
  BY <1>1, <1>2, <1>3, <1>4, <1>5, SentStays

(* Call: the new line has the highest number.                              *)
LEMMA CallInOrder ==
  ASSUME OrderInv, NEW t \in Threads, Call(t) PROVE OrderInv'
<1>1. TypeOK /\ HasFile /\ NumbersGiven
  BY DEF OrderInv
<1>2. /\ TypeOK' /\ HasFile' /\ UNCHANGED <<log, log_file_select, reader, mixed>>
      /\ writer[t].at = "idle" /\ lines' = lines + 1
      /\ writer'[t].at = "read" /\ writer'[t].line = lines + 1
      /\ \A u \in Threads \ {t} : writer'[u] = writer[u]
      /\ ~overlap' => ~overlap /\ \A u \in Threads \ {t} : ~Busy(u)
  BY <1>1, CallStep
<1>3. NumbersGiven'
  <2>1. \A n \in Nat : n <= lines => n <= lines + 1
    BY <1>1, Numbers
  <2>2. lines + 1 <= lines + 1
    BY <1>1, Numbers
  <2> QED
    BY <1>1, <1>2, <2>1, <2>2, Numbers DEF NumbersGiven
<1>4. ~overlap' => OneWriter' /\ FilesInOrder'
  BY <1>2 DEF OrderInv, OneWriter, FilesInOrder, Ascending, Busy
<1>5. ~overlap' => LineIsNewest'
  <2>1. \A n \in Nat : n <= lines => n < lines + 1
    BY <1>1, Numbers
  <2> QED
    BY <1>1, <1>2, <2>1, Numbers DEF LineIsNewest, NumbersGiven, Busy
<1>6. ~overlap' => WhereItGoes'
  BY <1>2 DEF WhereItGoes, Busy
<1>7. ~overlap' /\ ~mixed' => OneIsNewer' /\ BetweenReads'
  BY <1>2 DEF OrderInv, OneIsNewer, BetweenReads, Newer, Ascending, AllBefore
<1> QED
  BY <1>2, <1>3, <1>4, <1>5, <1>6, <1>7, SentStays DEF OrderInv

(* The steps of a thread before it writes.                                 *)
LEMMA BeforeWrite ==
  ASSUME OrderInv, NEW t \in Threads, ReadSelect(t) \/ Choose(t) \/ Unlink(t) PROVE OrderInv'
<1>1. TypeOK /\ HasFile
  BY DEF OrderInv
<1>2. CASE ReadSelect(t)
  <2>1. /\ TypeOK' /\ HasFile' /\ UNCHANGED <<log, log_file_select, lines, reader, overlap, mixed>>
        /\ writer[t].at = "read" /\ writer'[t].at = "choose"
        /\ writer'[t].line = writer[t].line /\ writer'[t].choice = log_file_select
        /\ \A u \in Threads \ {t} : writer'[u] = writer[u]
    BY <1>1, <1>2, ReadSelectStep
  <2>2. (~overlap' => ~overlap) /\ (~mixed' => ~mixed)
    BY <2>1, Zenon
  <2>3. /\ NumbersGiven' /\ SentInOrder' /\ ReaderFiles'
        /\ ~overlap' => OneWriter' /\ LineIsNewest' /\ FilesInOrder' /\ \A u \in Threads \ {t} : ~Busy(u)
        /\ ~overlap' /\ ~mixed' => BetweenReads'
    BY <2>1, <2>2, LinesStay
  <2>4. ~overlap' => WhereItGoes'
    BY <2>1, <2>2, <2>3 DEF WhereItGoes, Busy
  <2>5. ~overlap' /\ ~mixed' => OneIsNewer'
    BY <2>1, <2>2 DEF OrderInv, OneIsNewer, Newer, AllBefore
  <2> QED
    BY <2>1, <2>3, <2>4, <2>5 DEF OrderInv
<1>3. CASE Choose(t)
  <2>1. /\ TypeOK' /\ HasFile' /\ UNCHANGED <<log, log_file_select, lines, reader, overlap, mixed>>
        /\ writer[t].at = "choose" /\ writer'[t].line = writer[t].line
        /\ writer'[t].choice = writer[t].choice
        /\ \/ /\ writer'[t].at = "open"
              /\ writer[t].choice # 0 => writer'[t].file = writer[t].choice
           \/ /\ writer'[t].at = "unlink"
              /\ writer[t].choice # 0 => writer'[t].file = Other(writer[t].choice)
        /\ \A u \in Threads \ {t} : writer'[u] = writer[u]
    BY <1>1, <1>3, ChooseStep
  <2>2. (~overlap' => ~overlap) /\ (~mixed' => ~mixed)
    BY <2>1, Zenon
  <2>3. /\ NumbersGiven' /\ SentInOrder' /\ ReaderFiles'
        /\ ~overlap' => OneWriter' /\ LineIsNewest' /\ FilesInOrder' /\ \A u \in Threads \ {t} : ~Busy(u)
        /\ ~overlap' /\ ~mixed' => BetweenReads'
    BY <2>1, <2>2, LinesStay
  <2>4. ~overlap' => writer[t].choice = log_file_select
    BY <2>1, <2>2 DEF OrderInv, WhereItGoes
  <2>5. ~overlap' => WhereItGoes'
    BY <2>1, <2>2, <2>3, <2>4 DEF WhereItGoes, Busy
  <2>6. ~overlap' /\ ~mixed' => OneIsNewer'
    BY <2>1, <2>2 DEF OrderInv, OneIsNewer, Newer, AllBefore
  <2> QED
    BY <2>1, <2>3, <2>5, <2>6 DEF OrderInv
<1>4. CASE Unlink(t)
  <2>1. /\ TypeOK' /\ HasFile' /\ UNCHANGED <<log_file_select, lines, reader, overlap, mixed>>
        /\ writer[t].at = "unlink" /\ writer'[t].at = "open"
        /\ writer'[t].line = writer[t].line /\ writer'[t].file = writer[t].file /\ writer[t].file \in Files
        /\ log'[writer[t].file].lines = <<>>
        /\ \A f \in Files \ {writer[t].file} : log'[f] = log[f]
        /\ \A u \in Threads \ {t} : writer'[u] = writer[u]
    BY <1>1, <1>4, UnlinkStep
  <2>2. (~overlap' => ~overlap) /\ (~mixed' => ~mixed)
    BY <2>1, Zenon
  <2>3. \A f \in Files : log'[f].lines = log[f].lines \/ log'[f].lines = <<>>
    BY <2>1
  <2>4. /\ NumbersGiven' /\ SentInOrder' /\ ReaderFiles'
        /\ ~overlap' => OneWriter' /\ LineIsNewest' /\ FilesInOrder' /\ \A u \in Threads \ {t} : ~Busy(u)
        /\ ~overlap' /\ ~mixed' => BetweenReads'
    BY <2>1, <2>2, <2>3, LinesStay
  <2>5. ~overlap' => WhereItGoes'
    BY <2>1, <2>2, <2>4 DEF WhereItGoes, Busy
  <2>6. ~overlap' /\ ~mixed' => OneIsNewer'
    <3>1. \A f \in Files : Other(f) \in Files
      BY DEF Files, Other, LOG_1, LOG_2
    <3>2. log_file_select # 0 => log_file_select \in Files
      BY <1>1 DEF TypeOK, Files, LOG_1, LOG_2
    <3>3. \A f \in Files : Newer(f) => Newer(f)'
      BY <2>3, <3>1 DEF Newer, AllBefore
    <3> QED
      BY <2>1, <2>2, <3>2, <3>3 DEF OrderInv, OneIsNewer, Newer
  <2> QED
    BY <2>1, <2>4, <2>5, <2>6 DEF OrderInv
<1> QED
  BY <1>2, <1>3, <1>4

(* Open: the file that is now in use is the newer one, unless mixed says   *)
(* otherwise.                                                              *)
LEMMA OpenInOrder ==
  ASSUME OrderInv, NEW t \in Threads, Open(t) PROVE OrderInv'
<1>1. TypeOK /\ HasFile
  BY DEF OrderInv
<1>2. /\ TypeOK' /\ HasFile' /\ UNCHANGED <<lines, reader, overlap>>
      /\ writer[t].at = "open" /\ writer[t].file \in Files
      /\ Opened(t) \/ NotOpened(t)
      /\ \A u \in Threads \ {t} : writer'[u] = writer[u]
  BY <1>1, OpenStep
<1>3. ~overlap' => ~overlap
  BY <1>2, Zenon
<1>4. CASE NotOpened(t)
  <2>1. /\ writer'[t].at = "idle" /\ writer'[t].line = 0
        /\ UNCHANGED <<log, log_file_select>> /\ (~mixed' => ~mixed)
    <3>1. Idle.at = "idle" /\ Idle.line = 0
      BY DEF Idle
    <3>2. (~mixed' => ~mixed) /\ writer'[t] = Idle /\ UNCHANGED <<log, log_file_select>>
      BY <1>4, Zenon DEF NotOpened
    <3> QED
      BY <3>1, <3>2
  <2>2. SentInOrder' /\ ReaderFiles'
    BY <1>2, <1>3, <2>1, SentStays
  <2>3. NumbersGiven'
    BY <1>1, <1>2, <2>1, Numbers DEF OrderInv, NumbersGiven
  <2>4. ~overlap' => OneWriter' /\ LineIsNewest' /\ FilesInOrder' /\ WhereItGoes'
    BY <1>2, <1>3, <2>1 DEF OrderInv, OneWriter, LineIsNewest, FilesInOrder, WhereItGoes, Ascending, Busy
  <2>5. ~overlap' /\ ~mixed' => OneIsNewer' /\ BetweenReads'
    BY <1>2, <1>3, <2>1 DEF OrderInv, OneIsNewer, BetweenReads, Newer, Ascending, AllBefore
  <2> QED
    BY <1>2, <2>2, <2>3, <2>4, <2>5 DEF OrderInv
<1>5. CASE Opened(t)
  <2>1. PICK f \in Files : f = writer[t].file
    BY <1>2
  <2>2. /\ writer'[t].at = "write" /\ writer'[t].line = writer[t].line /\ writer'[t].file = f
        /\ log'[f].lines = log[f].lines /\ \A g \in Files \ {f} : log'[g] = log[g]
        /\ log_file_select' = f
        /\ ~mixed' => ~mixed /\ (log_file_select = 0 => ~(Newest(3 - f) > Newest(f)))
    BY <1>5, <2>1, Zenon DEF Opened
  <2>3. \A g \in Files : log'[g].lines = log[g].lines
    BY <2>2
  <2>4. /\ NumbersGiven' /\ SentInOrder' /\ ReaderFiles'
        /\ ~overlap' => OneWriter' /\ LineIsNewest' /\ FilesInOrder' /\ \A u \in Threads \ {t} : ~Busy(u)
        /\ ~overlap' /\ ~mixed' => BetweenReads'
    BY <1>2, <1>3, <2>2, <2>3, LinesStay
  <2>5. ~overlap' => WhereItGoes'
    BY <1>2, <1>3, <2>2, <2>4 DEF WhereItGoes, Busy
  <2>6. Other(f) \in Files /\ Other(Other(f)) = f /\ f # 0 /\ Other(f) \notin {0, f}
        /\ (log_file_select = 0 \/ log_file_select = f \/ log_file_select = Other(f))
        /\ \A g \in Files : g = f \/ g = Other(f)
    BY <1>1 DEF TypeOK, Files, Other, LOG_1, LOG_2
  <2>7. ~overlap' /\ ~mixed' => Newer(f)
    <3> SUFFICES ASSUME ~overlap', ~mixed' PROVE Newer(f)
      OBVIOUS
    <3>1. OneIsNewer /\ WhereItGoes
      BY <1>3, <2>2 DEF OrderInv
    <3>2. CASE log_file_select = f
      BY <2>6, <3>1, <3>2 DEF OneIsNewer
    <3>3. CASE log_file_select = Other(f)
      <4>1. log[f].lines = <<>>
        BY <1>2, <2>1, <2>6, <3>1, <3>3 DEF WhereItGoes
      <4> QED
        BY <4>1 DEF Newer, AllBefore
    <3>4. CASE log_file_select = 0
      <4>1. Newer(f) \/ Newer(Other(f))
        BY <2>6, <3>1, <3>4 DEF OneIsNewer
      <4>2. CASE Newer(Other(f)) /\ log[f].lines # <<>> /\ log[Other(f)].lines # <<>>
        <5>1. /\ Len(log[f].lines) \in DOMAIN log[f].lines
              /\ Len(log[Other(f)].lines) \in DOMAIN log[Other(f)].lines
          BY <1>1, <2>6, <4>2, Numbers
        <5>2. Newest(f) < Newest(Other(f))
          BY <2>6, <4>2, <5>1 DEF Newer, AllBefore, Newest
        <5>3. ~(Newest(Other(f)) > Newest(f))
          BY <2>2, <3>4 DEF Other
        <5>4. Newest(f) \in Nat /\ Newest(Other(f)) \in Nat
          BY <1>1, <2>6, <4>2, <5>1, Numbers DEF Newest
        <5> QED
          BY <5>2, <5>3, <5>4
      <4>3. CASE log[f].lines = <<>> \/ log[Other(f)].lines = <<>>
        BY <4>3 DEF Newer, AllBefore
      <4> QED
        BY <4>1, <4>2, <4>3
    <3> QED
      BY <2>6, <3>2, <3>3, <3>4
  <2>8. Newer(f) => Newer(f)'
    BY <2>3, <2>6 DEF Newer, AllBefore
  <2>9. ~overlap' /\ ~mixed' => OneIsNewer'
    BY <2>2, <2>6, <2>7, <2>8 DEF OneIsNewer, Newer
  <2> QED
    BY <1>2, <2>4, <2>5, <2>9 DEF OrderInv
<1> QED
  BY <1>2, <1>4, <1>5

(* Write: a line at the end of the file in use.                            *)
LEMMA WriteInOrder ==
  ASSUME OrderInv, NEW t \in Threads, Write(t) PROVE OrderInv'
<1>1. TypeOK /\ HasFile /\ NumbersGiven /\ ReaderFiles
  BY DEF OrderInv
<1>2. /\ TypeOK' /\ HasFile' /\ UNCHANGED <<log_file_select, lines, reader, overlap, mixed>>
      /\ writer[t].at = "write" /\ writer'[t] = Idle /\ writer[t].file \in Files
      /\ \A u \in Threads \ {t} : writer'[u] = writer[u]
      /\ \A f \in Files \ {writer[t].file} : log'[f] = log[f]
  BY <1>1, WriteStep
<1>3. (~overlap' => ~overlap) /\ (~mixed' => ~mixed)
  BY <1>2, Zenon
<1>4. writer'[t].at = "idle" /\ writer'[t].line = 0
  BY <1>2 DEF Idle
<1>5. PICK f \in Files : f = writer[t].file
  BY <1>2
<1>6. PICK n \in Nat : n = writer[t].line /\ n <= lines
  BY <1>1, Numbers DEF NumbersGiven
<1>7. log'[f].lines = log[f].lines \/ log'[f].lines = Append(log[f].lines, n)
  <2>1. LET g == writer[t].file IN log'[g] = log[g] \/ log'[g].lines = Append(log[g].lines, writer[t].line)
    BY <1>1, WriteStep, Zenon
  <2> QED
    BY <1>5, <1>6, <2>1
<1>8. \A s \in Seq(Nat) : /\ \A k \in DOMAIN Append(s, n) : \/ k \in DOMAIN s /\ Append(s, n)[k] = s[k]
                                                            \/ k = Len(s) + 1 /\ Append(s, n)[k] = n
                          /\ \A k \in DOMAIN s : k < Len(s) + 1 /\ ~(Len(s) + 1 < k)
                          /\ ~(Len(s) + 1 < Len(s) + 1)
  OBVIOUS
<1>9. \A k \in DOMAIN log'[f].lines :
         \/ k \in DOMAIN log[f].lines /\ log'[f].lines[k] = log[f].lines[k]
         \/ k = Len(log[f].lines) + 1 /\ log'[f].lines[k] = n
  <2>1. PICK s \in Seq(Nat) : s = log[f].lines
    BY <1>1, Numbers
  <2>2. CASE log'[f].lines = s
    BY <2>1, <2>2
  <2>3. CASE log'[f].lines = Append(s, n)
    BY <1>8, <2>1, <2>3
  <2> QED
    BY <1>7, <2>1, <2>2, <2>3
<1>10. \A g \in Files \ {f} : log'[g] = log[g]
  BY <1>2, <1>5
<1>11. SentInOrder' /\ ReaderFiles'
  BY <1>2, <1>3, SentStays
<1>12. NumbersGiven'
  <2>1. \A g \in Files : \A k \in DOMAIN log'[g].lines : log'[g].lines[k] <= lines
    <3>1. \A k \in DOMAIN log'[f].lines : log'[f].lines[k] <= lines
      BY <1>1, <1>6, <1>9 DEF NumbersGiven
    <3> QED
      BY <1>1, <1>10, <3>1 DEF NumbersGiven
  <2>2. \A u \in Threads : writer'[u].line <= lines
    BY <1>1, <1>2, <1>4, Numbers DEF NumbersGiven
  <2> QED
    BY <1>1, <1>2, <2>1, <2>2 DEF NumbersGiven
<1>13. ~overlap' => /\ \A u \in Threads \ {t} : ~Busy(u)
                    /\ \A g \in Files : \A k \in DOMAIN log[g].lines : log[g].lines[k] < n
                    /\ \A k \in DOMAIN reader.got : reader.got[k] < n
                    /\ log_file_select = f
  BY <1>2, <1>3, <1>5, <1>6 DEF OrderInv, OneWriter, LineIsNewest, WhereItGoes, Busy
<1>14. ~overlap' => OneWriter' /\ LineIsNewest' /\ WhereItGoes'
  BY <1>2, <1>4, <1>13 DEF OneWriter, LineIsNewest, WhereItGoes, Busy
<1>15. ~overlap' => FilesInOrder'
  <2> SUFFICES ASSUME ~overlap', NEW g \in Files PROVE Ascending(log'[g].lines)
    BY DEF FilesInOrder, Ascending
  <2>1. Ascending(log[g].lines)
    BY <1>3 DEF OrderInv, FilesInOrder
  <2>2. CASE g # f
    BY <1>10, <2>1, <2>2
  <2>3. CASE g = f
    <3>1. \A j, k \in DOMAIN log[f].lines : j < k => log[f].lines[j] < log[f].lines[k]
      BY <2>1, <2>3 DEF Ascending
    <3>2. \A k \in DOMAIN log[f].lines : ~(Len(log[f].lines) + 1 < k)
      BY <1>1, <1>8, Numbers
    <3>3. ~(Len(log[f].lines) + 1 < Len(log[f].lines) + 1)
      BY <1>1, <1>8, Numbers
    <3> QED
      BY <1>9, <1>13, <2>3, <3>1, <3>2, <3>3 DEF Ascending
  <2> QED
    BY <2>2, <2>3
<1>16. ~overlap' /\ ~mixed' => OneIsNewer'
  <2> SUFFICES ASSUME ~overlap', ~mixed' PROVE OneIsNewer'
    OBVIOUS
  <2>1. f # 0 /\ Other(f) # f /\ Other(f) \in Files
    BY DEF Files, Other, LOG_1, LOG_2
  <2>2. Newer(f)
    BY <1>3, <1>13, <2>1 DEF OrderInv, OneIsNewer
  <2>3. Newer(f)'
    BY <1>9, <1>10, <1>13, <2>1, <2>2 DEF Newer, AllBefore
  <2> QED
    BY <1>2, <1>13, <2>1, <2>3 DEF OneIsNewer, Newer
<1>17. ~overlap' /\ ~mixed' => BetweenReads'
  <2> SUFFICES ASSUME ~overlap', ~mixed', reader.at = "newer"
               PROVE  /\ Ascending(reader.got)
                      /\ ~reader.late => AllBefore(reader.got, log'[reader.newer].lines)
    BY <1>2 DEF BetweenReads, Ascending, AllBefore
  <2>1. /\ Ascending(reader.got) /\ reader.newer \in Files
        /\ ~reader.late => AllBefore(reader.got, log[reader.newer].lines)
    BY <1>1, <1>3 DEF OrderInv, BetweenReads, ReaderFiles
  <2> QED
    BY <1>9, <1>10, <1>13, <2>1 DEF AllBefore
<1> QED
  BY <1>2, <1>11, <1>12, <1>14, <1>15, <1>16, <1>17 DEF OrderInv

(* The reader: the older file is older than the newer, if the files have   *)
(* not changed places before it is read.                                   *)
LEMMA ReaderInOrder ==
  ASSUME OrderInv, Half \in Nat, BeginLogGet \/ ReadOlder \/ ReadNewer PROVE OrderInv'
<1>1. TypeOK /\ HasFile /\ NumbersGiven /\ ReaderFiles
  BY DEF OrderInv
<1>2. /\ TypeOK' /\ HasFile' /\ UNCHANGED <<log, log_file_select, writer, lines, overlap, mixed>>
  BY <1>1, ReaderStep
<1>3. (~overlap' => ~overlap) /\ (~mixed' => ~mixed)
  BY <1>2, Zenon
<1>4. /\ ~overlap' => OneWriter' /\ FilesInOrder' /\ WhereItGoes'
      /\ ~overlap' /\ ~mixed' => OneIsNewer'
  BY <1>2, <1>3 DEF OrderInv, OneWriter, FilesInOrder, WhereItGoes, Ascending, Busy, OneIsNewer, Newer, AllBefore
<1>5. ASSUME \/ reader'.got = <<>>
             \/ \A k \in DOMAIN reader'.got :
                   \/ \E j \in DOMAIN reader.got : reader'.got[k] = reader.got[j]
                   \/ \E f \in Files : \E j \in DOMAIN log[f].lines : reader'.got[k] = log[f].lines[j]
      PROVE  NumbersGiven' /\ (~overlap' => LineIsNewest')
  BY <1>1, <1>2, <1>3, <1>5 DEF OrderInv, NumbersGiven, LineIsNewest, Busy
<1>6. CASE reader'.at \in {"idle", "error", "older"} /\ reader'.got = <<>> /\ ReaderFiles'
  BY <1>2, <1>4, <1>5, <1>6 DEF OrderInv, SentInOrder, BetweenReads
<1>7. CASE /\ reader'.at = "newer" /\ reader'.newer = reader.newer
           /\ reader.at = "older" /\ reader'.older = reader.older
           /\ reader.older \in Files /\ reader.newer \in Files
           /\ reader'.got = Contents(reader.older)
           /\ ~reader'.late => log_file_select = reader.newer
  <2>1. \A k \in DOMAIN reader'.got : /\ k \in DOMAIN log[reader.older].lines
                                      /\ reader'.got[k] = log[reader.older].lines[k]
    BY <1>1, <1>7, ContentsOf
  <2>2. NumbersGiven' /\ (~overlap' => LineIsNewest')
    BY <1>5, <1>7, <2>1
  <2>3. ReaderFiles' /\ reader.older = Other(reader.newer) /\ reader.newer # 0
    BY <1>1, <1>7 DEF ReaderFiles, Other, Files, LOG_1, LOG_2
  <2>4. ~overlap' => Ascending(reader'.got)
    BY <1>3, <1>7, <2>1 DEF OrderInv, FilesInOrder, Ascending
  <2>5. ~overlap' /\ ~mixed' /\ ~reader'.late => AllBefore(reader'.got, log[reader.newer].lines)
    BY <1>3, <1>7, <2>1, <2>3 DEF OrderInv, OneIsNewer, Newer, AllBefore
  <2>6. ~overlap' /\ ~mixed' => BetweenReads'
    BY <1>2, <1>7, <2>4, <2>5 DEF BetweenReads, Ascending, AllBefore
  <2> QED
    BY <1>2, <1>4, <1>7, <2>2, <2>3, <2>6 DEF OrderInv, SentInOrder
<1>8. CASE /\ reader.at = "newer" /\ reader'.at = "sent" /\ reader'.late = reader.late
           /\ reader.newer \in Files
           /\ reader'.got = reader.got \o Contents(reader.newer)
  <2>1. PICK g \in Seq(Nat) : g = reader.got
    BY <1>1, Numbers
  <2>2. PICK c \in Seq(Nat) :
           /\ c = Contents(reader.newer)
           /\ \A k \in DOMAIN c : k \in DOMAIN log[reader.newer].lines /\ c[k] = log[reader.newer].lines[k]
    BY <1>1, <1>8, ContentsOf
  <2>3. reader'.got = g \o c
    BY <1>8, <2>1, <2>2
  <2>4. \A k \in DOMAIN (g \o c) : \/ k \in DOMAIN g /\ (g \o c)[k] = g[k]
                                   \/ k - Len(g) \in DOMAIN c /\ ~(k <= Len(g)) /\ (g \o c)[k] = c[k - Len(g)]
    OBVIOUS
  <2>5. NumbersGiven' /\ (~overlap' => LineIsNewest')
    <3>1. \A k \in DOMAIN reader'.got :
             \/ \E j \in DOMAIN reader.got : reader'.got[k] = reader.got[j]
             \/ \E j \in DOMAIN log[reader.newer].lines : reader'.got[k] = log[reader.newer].lines[j]
      BY <2>1, <2>2, <2>3, <2>4
    <3> QED
      BY <1>5, <1>8, <3>1
  <2>6. SentInOrder'
    <3> SUFFICES ASSUME ~overlap', ~mixed', ~reader'.late, NEW j \in DOMAIN (g \o c), NEW k \in DOMAIN (g \o c), j < k
                 PROVE  (g \o c)[j] < (g \o c)[k]
      BY <2>3 DEF SentInOrder
    <3>1. Ascending(g) /\ AllBefore(g, log[reader.newer].lines) /\ Ascending(log[reader.newer].lines)
      BY <1>3, <1>8, <2>1 DEF OrderInv, BetweenReads, FilesInOrder
    <3>2. Ascending(c) /\ AllBefore(g, c)
      BY <2>2, <3>1 DEF Ascending, AllBefore
    <3>3. j \in Nat /\ k \in Nat /\ Len(g) \in Nat
      OBVIOUS
    <3>4. j - Len(g) < k - Len(g)
      BY <3>3
    <3>5. \A i \in DOMAIN g : i <= Len(g)
      OBVIOUS
    <3>6. CASE j \in DOMAIN g /\ k \in DOMAIN g /\ (g \o c)[j] = g[j] /\ (g \o c)[k] = g[k]
      BY <3>1, <3>6 DEF Ascending
    <3>7. CASE j \in DOMAIN g /\ k - Len(g) \in DOMAIN c /\ (g \o c)[j] = g[j] /\ (g \o c)[k] = c[k - Len(g)]
      BY <3>2, <3>7 DEF AllBefore
    <3>8. CASE /\ j - Len(g) \in DOMAIN c /\ k - Len(g) \in DOMAIN c
               /\ (g \o c)[j] = c[j - Len(g)] /\ (g \o c)[k] = c[k - Len(g)]
      BY <3>2, <3>4, <3>8 DEF Ascending
    <3>9. ~(~(j <= Len(g)) /\ k <= Len(g))
      BY <3>3
    <3> QED
      BY <2>4, <3>5, <3>6, <3>7, <3>8, <3>9
  <2>7. ReaderFiles' /\ BetweenReads'
    BY <1>8 DEF ReaderFiles, BetweenReads
  <2> QED
    BY <1>2, <1>4, <2>5, <2>6, <2>7 DEF OrderInv
<1> QED
  BY <1>1, <1>6, <1>7, <1>8, ReaderStep DEF ReaderFiles

(* A restart: no file is in use, nobody is in logger, and nothing is read. *)
LEMMA RestartInOrder ==
  ASSUME OrderInv, Restart PROVE OrderInv'
<1>1. TypeOK
  BY DEF OrderInv
<1>2. /\ TypeOK' /\ HasFile' /\ UNCHANGED <<log, lines, overlap, mixed>> /\ log_file_select' = 0
      /\ \A t \in Threads : writer'[t].at = "idle" /\ writer'[t].line = 0
      /\ reader'.at = "idle" /\ reader'.got = <<>>
  BY <1>1, RestartStep
<1>3. (~overlap' => ~overlap) /\ (~mixed' => ~mixed)
  BY <1>2, Zenon
<1>4. NumbersGiven'
  BY <1>1, <1>2, Numbers DEF OrderInv, NumbersGiven
<1>5. ~overlap' => OneWriter' /\ LineIsNewest' /\ FilesInOrder' /\ WhereItGoes'
  BY <1>2, <1>3 DEF OrderInv, OneWriter, LineIsNewest, FilesInOrder, WhereItGoes, Busy, Ascending
<1>6. ~overlap' /\ ~mixed' => OneIsNewer'
  <2>1. log_file_select # 0 => log_file_select \in Files
    BY <1>1 DEF TypeOK, Files, LOG_1, LOG_2
  <2>2. \A f \in Files : Newer(f) => Newer(f)'
    BY <1>2 DEF Newer, AllBefore
  <2> QED
    BY <1>2, <1>3, <2>1, <2>2 DEF OrderInv, OneIsNewer, Newer
<1>7. SentInOrder' /\ ReaderFiles' /\ BetweenReads'
  BY <1>2 DEF SentInOrder, ReaderFiles, BetweenReads
<1> QED
  BY <1>2, <1>4, <1>5, <1>6, <1>7 DEF OrderInv

(* What log_get sends is in the order of the calls of logger, and holds no *)
(* line twice, even if the files change places between its two reads, as   *)
(* long as no two threads were in logger at a time, no restart went on     *)
(* with the older file, and the files were in place at the first read.     *)
THEOREM LogInOrder ==
  ASSUME Half \in Nat PROVE LogSpec => []SentInOrder
<1>1. LogInit => OrderInv
  BY InitOrder
<1>2. OrderInv /\ [LogNext]_logVars => OrderInv'
  <2> SUFFICES ASSUME OrderInv, [LogNext]_logVars PROVE OrderInv'
    OBVIOUS
  <2>1. CASE \E t \in Threads : Logger(t)
    BY <2>1, CallInOrder, BeforeWrite, OpenInOrder, WriteInOrder DEF Logger
  <2>2. CASE BeginLogGet \/ ReadOlder \/ ReadNewer
    BY <2>2, ReaderInOrder
  <2>3. CASE Restart
    BY <2>3, RestartInOrder
  <2>4. CASE UNCHANGED logVars
    <3>1. UNCHANGED <<log, log_file_select, writer, lines, reader, overlap, mixed>>
      BY <2>4 DEF logVars, files, ghosts
    <3> QED
      BY <3>1, Zenon DEF OrderInv, TypeOK, HasFile, NumbersGiven, ReaderFiles, OneWriter, LineIsNewest,
         FilesInOrder, WhereItGoes, OneIsNewer, BetweenReads, SentInOrder, Busy, Ascending, AllBefore, Newer
  <2> QED
    BY <2>1, <2>2, <2>3, <2>4 DEF LogNext
<1>3. OrderInv => SentInOrder
  BY DEF OrderInv
<1> QED
  BY <1>1, <1>2, <1>3, PTL DEF LogSpec

-----------------------------------------------------------------------------
(* The camera.                                                             *)

CameraAssumption == Buffers \in Nat \ {0} /\ Frames \in Nat \ {0}

Indices == 0 .. Buffers - 1
OutFrames == 0 .. Frames - 1
Buffer == [done : BOOLEAN, picture : Nat]
OutFrame == [picture : Nat, full : BOOLEAN]

CameraTypes ==
  /\ at \in {"init", "mbuf", "grab", "sync", "read", "convert", "capture", "advance", "grabbed",
             "failed", "dead"}
  /\ grabMethod \in {"mmap", "read"} /\ frames \in {0, Buffers}
  /\ given \in Seq(Indices) /\ buffer \in [Indices -> Buffer] /\ pictures \in Nat
  /\ frame \in Indices /\ frame_cour \in OutFrames /\ ptframe \in [OutFrames -> OutFrame]
  /\ erreur \in {0, -1} /\ shown \in OutFrames \cup {None} /\ newest \in Nat

(* Buffers are used by one of the two methods, and only when there are     *)
(* some.                                                                   *)
OneMethod ==
  /\ at \in {"mbuf", "sync", "capture"} => grabMethod = "mmap"
  /\ at \in {"read", "advance"} => grabMethod = "read"
  /\ grabMethod = "read" \/ at \in {"init", "mbuf"} => frames = 0
  /\ frames = 0 => frame = 0 /\ given = <<>> /\ \A b \in Indices : ~buffer[b].done
  /\ at = "read" => shown = None

(* Pictures have the numbers of the captures so far.                       *)
PicturesTaken ==
  /\ \A b \in Indices : buffer[b].picture <= pictures
  /\ \A f \in OutFrames : ptframe[f].picture <= pictures
  /\ newest <= pictures

(* How far buffer b is ahead of the one to take next, around the buffers.  *)
Ahead(b) == IF b >= frame THEN b - frame ELSE b - frame + Buffers

(* Around the buffers, from frame on, come those that are filled, in the   *)
(* order of their pictures, then those the driver has, in its order; those *)
(* it has refused lie in between.                                          *)
GivenInOrder == \A j, k \in DOMAIN given : j < k => Ahead(given[j]) < Ahead(given[k])
FilledFirst ==
  \A b \in Indices : buffer[b].done => \A k \in DOMAIN given : Ahead(b) < Ahead(given[k])
FilledInOrder ==
  \A b, c \in Indices : buffer[b].done /\ buffer[c].done /\ Ahead(b) < Ahead(c) =>
      buffer[b].picture < buffer[c].picture

(* What is filled is newer than what is not, and than what was put out.    *)
FilledIsNew ==
  \A b \in Indices : buffer[b].done =>
      /\ \A c \in Indices : ~buffer[c].done => buffer[c].picture < buffer[b].picture
      /\ \A f \in OutFrames : ptframe[f].picture < buffer[b].picture
      /\ at = "sync" => newest < buffer[b].picture

(* The buffer that is converted is neither filled nor the driver's.        *)
InHand ==
  at \in {"convert", "capture"} => ~buffer[frame].done /\ \A k \in DOMAIN given : given[k] # frame

(* Without an error it holds a new picture, and so does then the frame.    *)
Fresh ==
  /\ at = "convert" /\ erreur = 0 => buffer[frame].picture > newest
  /\ at \in {"capture", "advance", "grabbed"} /\ erreur = 0 /\ shown # None /\ ptframe[shown].full =>
         ptframe[shown].picture > newest

CameraInv ==
  /\ CameraTypes /\ OneMethod /\ PicturesTaken
  /\ GivenInOrder /\ FilledFirst /\ FilledInOrder /\ FilledIsNew /\ InHand /\ Fresh

-----------------------------------------------------------------------------
(* A set of numbers with a bound has a largest one.                        *)
LEMMA LargestIsThere ==
  ASSUME NEW S \in SUBSET Nat, S # {}, NEW top \in Nat, \A x \in S : x <= top
  PROVE  Max(S) \in S /\ \A x \in S : x <= Max(S)
<1> DEFINE T == {top - x : x \in S}
           R == OpToRel(<, Nat)
<1>1. \A x \in S : x \in Nat /\ top - x \in Nat
  OBVIOUS
<1>2. T \subseteq Nat /\ T # {}
  BY <1>1
<1>3. \A j, k \in Nat : j < k => <<j, k>> \in R
  BY DEF OpToRel
<1>4. PICK t \in T : \A u \in T : <<u, t>> \notin R
  <2> HIDE DEF T, R
  <2>1. IsWellFoundedOn(R, Nat)
    BY NatLessThanWellFounded DEF R
  <2> QED
    BY <1>2, <2>1, WFMin
<1>5. PICK m \in S : t = top - m
  BY <1>4
<1>6. ASSUME NEW x \in S PROVE m >= x
  <2>1. top - x \in T /\ top - x \in Nat /\ t \in Nat /\ x \in Nat /\ m \in Nat
    BY <1>1, <1>2, <1>4
  <2>2. ~(top - x < t)
    BY <1>3, <1>4, <2>1
  <2> QED
    BY <1>5, <2>1, <2>2
<1>7. \E x \in S : \A y \in S : x >= y
  BY <1>6
<1>8. Max(S) \in S /\ \A y \in S : Max(S) >= y
  BY <1>7 DEF Max
<1> QED
  BY <1>1, <1>8

(* The buffer after another one, without the remainder.                    *)
LEMMA NextBuffer ==
  ASSUME CameraAssumption, NEW b \in Indices
  PROVE  (b + 1) % Buffers = IF b = Buffers - 1 THEN 0 ELSE b + 1
<1>1. CASE b = Buffers - 1
  <2>1. Buffers % Buffers = 0
    BY DEF CameraAssumption
  <2> QED
    BY <1>1, <2>1 DEF CameraAssumption
<1>2. CASE b # Buffers - 1
  <2>1. (b + 1) % Buffers = b + 1
    BY <1>2 DEF CameraAssumption, Indices
  <2> QED
    BY <1>2, <2>1
<1> QED
  BY <1>1, <1>2

(* An output frame follows another one.                                    *)
LEMMA NextFrame ==
  ASSUME CameraAssumption, NEW f \in OutFrames
  PROVE  (f + 1) % Frames \in OutFrames
<1>1. (f + 1) % Frames \in 0 .. Frames - 1
  BY DEF CameraAssumption, OutFrames
<1> QED
  BY <1>1 DEF OutFrames

(* Where the buffers are.                                                  *)
LEMMA AheadIs ==
  ASSUME CameraAssumption, CameraTypes
  PROVE  /\ \A b \in Indices : Ahead(b) \in Indices
         /\ Ahead(frame) = 0
         /\ \A b, c \in Indices : Ahead(b) = Ahead(c) => b = c
         /\ \A b \in Indices \ {frame} : Ahead(b) > 0
BY DEF CameraAssumption, CameraTypes, Ahead, Indices

(* The start.                                                              *)
LEMMA InitCamera ==
  ASSUME CameraAssumption, CameraInit
  PROVE  CameraInv
<1>1. 0 \in Indices /\ 0 \in OutFrames /\ Indices = 0 .. Buffers - 1 /\ OutFrames = 0 .. Frames - 1
  BY DEF CameraAssumption, Indices, OutFrames
<1>2. CameraTypes
  BY <1>1 DEF CameraInit, CameraTypes, Buffer, OutFrame, None
<1>3. OneMethod /\ PicturesTaken
  BY <1>1 DEF CameraInit, OneMethod, PicturesTaken
<1>4. GivenInOrder /\ FilledFirst /\ FilledInOrder /\ FilledIsNew /\ InHand /\ Fresh
  BY <1>1 DEF CameraInit, GivenInOrder, FilledFirst, FilledInOrder, FilledIsNew, InHand, Fresh
<1> QED
  BY <1>2, <1>3, <1>4 DEF CameraInv

(* A step that gives, fills and takes no buffer.                           *)
LEMMA SameBuffers ==
  ASSUME CameraInv, UNCHANGED <<given, buffer, frame>>
  PROVE  GivenInOrder' /\ FilledFirst' /\ FilledInOrder'
BY DEF CameraInv, GivenInOrder, FilledFirst, FilledInOrder, Ahead

(* rtv_init as far as it says nothing of the buffers, and the ends of a    *)
(* call of videoGrab.                                                      *)
LEMMA QuietStep ==
  ASSUME CameraAssumption, CameraInv, InitFails \/ InitV4l \/ NoBuffers \/ Advance \/ Send
  PROVE  CameraInv'
<1>1. /\ UNCHANGED <<given, buffer, pictures, frame, ptframe, erreur, shown, newest, grabMethod, frames>>
      /\ frame_cour' \in OutFrames
  BY NextFrame DEF InitFails, InitV4l, NoBuffers, Advance, Send, CameraGoes, setting, driver, output,
     CameraInv, CameraTypes
<1>2. /\ at' \in {"mbuf", "grab", "failed", "dead", "grabbed"}
      /\ at' = "mbuf" => at = "init" /\ grabMethod = "mmap"
      /\ at' = "grabbed" => at = "advance"
  BY DEF InitFails, InitV4l, NoBuffers, Advance, Send, CameraGoes, CameraInv, CameraTypes
<1>3. CameraTypes'
  BY <1>1, <1>2 DEF CameraInv, CameraTypes, None
<1>4. OneMethod' /\ PicturesTaken'
  BY <1>1, <1>2 DEF CameraInv, OneMethod, PicturesTaken, None
<1>5. FilledIsNew' /\ InHand' /\ Fresh'
  BY <1>1, <1>2 DEF CameraInv, FilledIsNew, InHand, Fresh, None
<1> QED
  BY <1>1, <1>3, <1>4, <1>5, SameBuffers DEF CameraInv

(* The driver is given the buffers.                                        *)
LEMMA BuffersStep ==
  ASSUME CameraAssumption, CameraInv, InitBuffers
  PROVE  CameraInv'
<1>1. /\ at = "mbuf" /\ at' = "grab" /\ frames = 0 /\ frame = 0 /\ given = <<>>
      /\ \A b \in Indices : ~buffer[b].done
      /\ grabMethod = "mmap" /\ DOMAIN buffer = Indices
      /\ UNCHANGED <<grabMethod, buffer, pictures, frame, frame_cour, ptframe, erreur, shown, newest>>
  BY DEF InitBuffers, CameraGoes, output, CameraInv, CameraTypes, OneMethod
<1>2. /\ frames' \in {0, Buffers} /\ given' \in Seq(Indices)
      /\ frames' = 0 => given' = <<>>
      /\ \A j, k \in DOMAIN given' : j < k => given'[j] < given'[k]
  <2>1. CASE UNCHANGED <<frames, given>>
    BY <1>1, <2>1 DEF CameraAssumption
  <2>2. CASE frames' = Buffers /\ given' \in InitialOrders
    <3>1. PICK n \in 0 .. Buffers : given' \in [1 .. n -> Indices]
      BY <1>1, <2>2 DEF InitialOrders, SeqOf
    <3>2. \A j, k \in DOMAIN given' : j < k => given'[j] < given'[k]
      BY <2>2 DEF InitialOrders
    <3>3. given' \in Seq(Indices)
      BY <3>1 DEF CameraAssumption
    <3> QED
      BY <2>2, <3>2, <3>3 DEF CameraAssumption
  <2> QED
    BY <2>1, <2>2 DEF InitBuffers
<1>3. CameraTypes'
  BY <1>1, <1>2 DEF CameraInv, CameraTypes, None
<1>4. OneMethod' /\ PicturesTaken'
  BY <1>1, <1>2 DEF CameraInv, OneMethod, PicturesTaken
<1>5. GivenInOrder'
  <2>2. \A k \in DOMAIN given' : given'[k] \in Indices
    BY <1>2
  <2>3. ASSUME NEW j \in DOMAIN given', NEW k \in DOMAIN given', j < k
        PROVE  Ahead(given[j])' < Ahead(given[k])'
    <3>1. given'[j] < given'[k] /\ given'[j] \in Indices /\ given'[k] \in Indices
      BY <1>2, <2>2, <2>3
    <3> QED
      BY <1>1, <3>1 DEF Ahead, Indices
  <2> QED
    BY <2>3 DEF GivenInOrder
<1>6. FilledFirst' /\ FilledInOrder' /\ FilledIsNew' /\ InHand' /\ Fresh'
  BY <1>1 DEF FilledFirst, FilledInOrder, FilledIsNew, InHand, Fresh
<1> QED
  BY <1>3, <1>4, <1>5, <1>6 DEF CameraInv

(* A call of videoGrab begins.                                             *)
LEMMA BeginStep ==
  ASSUME CameraAssumption, CameraInv, Begin
  PROVE  CameraInv'
<1>1. /\ at = "grab" /\ at' \in {"sync", "read"} /\ erreur' = 0 /\ shown' = None
      /\ at' = "sync" => grabMethod = "mmap"
      /\ at' = "read" => grabMethod = "read"
      /\ UNCHANGED <<grabMethod, frames, given, buffer, pictures, frame, frame_cour, ptframe>>
  BY DEF Begin, CameraGoes, setting, driver
<1>2. PICK f \in OutFrames : newest' = ptframe[f].picture
  <2> DEFINE S == {ptframe[f].picture : f \in OutFrames}
  <2>1. /\ DOMAIN ptframe = OutFrames /\ 0 \in OutFrames /\ pictures \in Nat
        /\ \A f \in OutFrames : ptframe[f].picture \in Nat /\ ptframe[f].picture <= pictures
    BY DEF CameraAssumption, CameraInv, CameraTypes, PicturesTaken, OutFrames, OutFrame
  <2>2. S \in SUBSET Nat /\ S # {} /\ \A x \in S : x <= pictures
    BY <2>1
  <2>3. newest' = Max(S)
    BY <2>1 DEF Begin
  <2>4. Max(S) \in S
    BY <2>1, <2>2, LargestIsThere
  <2> QED
    BY <2>3, <2>4
<1>3. newest' \in Nat /\ newest' <= pictures
  BY <1>2 DEF CameraInv, CameraTypes, PicturesTaken, OutFrame
<1>4. CameraTypes'
  BY <1>1, <1>3 DEF CameraInv, CameraTypes, None
<1>5. OneMethod' /\ PicturesTaken'
  BY <1>1, <1>3 DEF CameraInv, OneMethod, PicturesTaken
<1>6. FilledIsNew' /\ InHand' /\ Fresh'
  BY <1>1, <1>2 DEF CameraInv, FilledIsNew, InHand, Fresh
<1> QED
  BY <1>1, <1>4, <1>5, <1>6, SameBuffers DEF CameraInv

(* The driver's buffer is waited for, and taken from it.                   *)
LEMMA SyncStep ==
  ASSUME CameraAssumption, CameraInv, Sync
  PROVE  CameraInv'
<1>1. /\ at = "sync" /\ at' = "convert" /\ grabMethod = "mmap"
      /\ \A k \in DOMAIN given : given[k] # frame
      /\ erreur' = IF buffer[frame].done THEN erreur ELSE -1
      /\ UNCHANGED <<grabMethod, frames, given, pictures, frame, frame_cour, ptframe, shown, newest>>
  BY DEF Sync, CameraGoes, setting, CameraInv, OneMethod
<1>2. buffer \in [Indices -> Buffer] /\ frame \in Indices
  BY DEF CameraInv, CameraTypes
<1>3. /\ buffer' \in [Indices -> Buffer]
      /\ \A b \in Indices : buffer'[b].picture = buffer[b].picture
      /\ \A b \in Indices : buffer'[b].done <=> (b # frame /\ buffer[b].done)
  BY <1>2 DEF Sync, Buffer
<1>4. CameraTypes'
  BY <1>1, <1>3 DEF CameraInv, CameraTypes, None
<1>5. OneMethod' /\ PicturesTaken'
  BY <1>1, <1>3 DEF CameraInv, OneMethod, PicturesTaken
<1>6. GivenInOrder' /\ FilledFirst' /\ FilledInOrder'
  BY <1>1, <1>3 DEF CameraInv, GivenInOrder, FilledFirst, FilledInOrder, Ahead
<1>7. \A b \in Indices \ {frame} : buffer[frame].done /\ buffer[b].done =>
          buffer[frame].picture < buffer[b].picture
  <2>1. \A b \in Indices \ {frame} : Ahead(frame) < Ahead(b)
    BY AheadIs DEF CameraInv, Indices
  <2> QED
    BY <1>2, <2>1 DEF CameraInv, FilledInOrder
<1>8. FilledIsNew' /\ InHand'
  BY <1>1, <1>2, <1>3, <1>7 DEF CameraInv, FilledIsNew, InHand
<1>9. Fresh'
  BY <1>1, <1>2, <1>3 DEF CameraInv, FilledIsNew, Fresh
<1> QED
  BY <1>4, <1>5, <1>6, <1>8, <1>9 DEF CameraInv

(* The other method reads a picture, or nothing.                           *)
LEMMA ReadStep ==
  ASSUME CameraAssumption, CameraInv, Read
  PROVE  CameraInv'
<1>1. /\ at = "read" /\ grabMethod = "read" /\ frames = 0 /\ frame = 0 /\ given = <<>> /\ shown = None
      /\ UNCHANGED <<grabMethod, frames, given, frame, frame_cour, ptframe, erreur, shown, newest>>
      /\ at' \in {"convert", "grabbed"}
      /\ \A b \in Indices : ~buffer[b].done
  BY DEF Read, CameraGoes, setting, driver, output, CameraInv, OneMethod
<1>2. buffer \in [Indices -> Buffer] /\ pictures \in Nat /\ 0 \in Indices /\ newest \in Nat
  BY DEF CameraInv, CameraTypes, CameraAssumption, Indices
<1>3. /\ buffer' \in [Indices -> Buffer] /\ pictures' \in Nat /\ pictures' >= pictures
      /\ \A b \in Indices : ~buffer'[b].done /\ (buffer'[b].picture = buffer[b].picture \/ buffer'[b].picture = pictures')
      /\ at' = "convert" => buffer'[0].picture = pictures' /\ pictures' > pictures
  <2>1. CASE pictures' = pictures + 1 /\ buffer' = [buffer EXCEPT ![0].picture = pictures']
    BY <1>1, <1>2, <2>1 DEF Buffer
  <2>2. CASE at' = "grabbed" /\ UNCHANGED driver
    BY <1>1, <1>2, <2>2 DEF driver
  <2> QED
    BY <2>1, <2>2 DEF Read, CameraGoes
<1>4. CameraTypes'
  BY <1>1, <1>3 DEF CameraInv, CameraTypes, None
<1>5. OneMethod'
  BY <1>1, <1>3 DEF CameraInv, OneMethod
<1>6. PicturesTaken'
  BY <1>1, <1>2, <1>3 DEF CameraInv, CameraTypes, PicturesTaken, Buffer, OutFrame
<1>7. frame' \in Indices /\ ~buffer'[frame'].done /\ given' = <<>>
  BY <1>1, <1>2, <1>3
<1>8. \A k \in DOMAIN given' : FALSE
  BY <1>7
<1>9. GivenInOrder' /\ FilledFirst'
  BY <1>8, Zenon DEF GivenInOrder, FilledFirst
<1>10. FilledInOrder' /\ FilledIsNew'
  BY <1>3, Zenon DEF FilledInOrder, FilledIsNew
<1>11. InHand'
  BY <1>7, <1>8, Zenon DEF InHand
<1>12. Fresh'
  BY <1>1, <1>2, <1>3 DEF CameraInv, PicturesTaken, Fresh
<1> QED
  BY <1>4, <1>5, <1>6, <1>9, <1>10, <1>11, <1>12 DEF CameraInv

(* The picture of the buffer in hand is put out, or nothing of it.         *)
LEMMA ConvertStep ==
  ASSUME CameraAssumption, CameraInv, Convert
  PROVE  CameraInv'
<1>1. /\ at = "convert" /\ at' = IF grabMethod = "mmap" THEN "capture" ELSE "advance"
      /\ shown' = frame_cour
      /\ UNCHANGED <<grabMethod, frames, given, buffer, pictures, frame, frame_cour, erreur, newest>>
  BY DEF Convert, CameraGoes, setting, driver
<1>2. /\ ptframe \in [OutFrames -> OutFrame] /\ frame_cour \in OutFrames
      /\ buffer \in [Indices -> Buffer] /\ frame \in Indices
      /\ grabMethod \in {"mmap", "read"}
  BY DEF CameraInv, CameraTypes
<1>3. /\ ptframe' \in [OutFrames -> OutFrame]
      /\ \A f \in OutFrames :
            ptframe'[f].picture = ptframe[f].picture \/ ptframe'[f].picture = buffer[frame].picture
      /\ ptframe'[frame_cour].full => ptframe'[frame_cour].picture = buffer[frame].picture
  <2>1. CASE ptframe' = [ptframe EXCEPT ![frame_cour] = [picture |-> buffer[frame].picture, full |-> TRUE]]
    BY <1>2, <2>1 DEF Buffer, OutFrame
  <2>2. CASE ptframe' = [ptframe EXCEPT ![frame_cour].full = FALSE]
    BY <1>2, <2>2 DEF OutFrame
  <2> QED
    BY <2>1, <2>2 DEF Convert
<1>4. CameraTypes'
  BY <1>1, <1>2, <1>3 DEF CameraInv, CameraTypes, None
<1>5. OneMethod'
  BY <1>1, <1>2 DEF CameraInv, OneMethod
<1>6. PicturesTaken'
  BY <1>1, <1>2, <1>3 DEF CameraInv, PicturesTaken
<1>7. FilledIsNew' /\ InHand'
  BY <1>1, <1>2, <1>3 DEF CameraInv, FilledIsNew, InHand
<1>8. Fresh'
  BY <1>1, <1>2, <1>3 DEF CameraInv, Fresh
<1> QED
  BY <1>1, <1>4, <1>5, <1>6, <1>7, <1>8, SameBuffers DEF CameraInv

(* The buffer is given back, or passed over.                               *)
LEMMA CaptureStep ==
  ASSUME CameraAssumption, CameraInv, Capture
  PROVE  CameraInv'
<1>1. /\ at = "capture" /\ at' = "grabbed" /\ frames > 0
      /\ given' = given \/ given' = Append(given, frame)
      /\ erreur' = erreur \/ erreur' = -1
      /\ UNCHANGED <<grabMethod, frames, buffer, pictures, ptframe, shown, newest>>
      /\ frame' = (frame + 1) % frames /\ frame_cour' = (frame_cour + 1) % Frames
  BY DEF Capture, CameraGoes, setting
<1>2. /\ frames = Buffers /\ frame \in Indices /\ frame_cour \in OutFrames /\ given \in Seq(Indices)
      /\ frames \in {0, Buffers} /\ Buffers \in Nat /\ Buffers > 0
  BY <1>1 DEF CameraInv, CameraTypes, CameraAssumption
<1>3. frame' = (IF frame = Buffers - 1 THEN 0 ELSE frame + 1) /\ frame' \in Indices /\ frame_cour' \in OutFrames
  BY <1>1, <1>2, NextBuffer, NextFrame DEF Indices
<1>4. given' \in Seq(Indices)
  BY <1>1, <1>2
<1>5. CameraTypes'
  BY <1>1, <1>3, <1>4 DEF CameraInv, CameraTypes, None
<1>6. OneMethod' /\ PicturesTaken'
  BY <1>1, <1>2 DEF CameraInv, OneMethod, PicturesTaken
<1>7. \A b \in Indices : /\ Ahead(b) \in Int
                         /\ Ahead(b)' = IF b = frame THEN Buffers - 1 ELSE Ahead(b) - 1
                         /\ Ahead(b)' \in Int /\ Ahead(b) <= Buffers - 1
  BY <1>2, <1>3 DEF Ahead, Indices
<1>8. ~buffer[frame].done /\ \A k \in DOMAIN given : given[k] # frame
  BY <1>1 DEF CameraInv, InHand
<1>9. \A k \in DOMAIN given : given[k] \in Indices /\ given'[k] = given[k]
  BY <1>1, <1>2
<1>10. \A k \in DOMAIN given' : \/ k \in DOMAIN given
                                \/ given'[k] = frame /\ \A j \in DOMAIN given' : j <= k
  <2>1. CASE given' = given
    BY <2>1, Zenon
  <2>2. CASE given' = Append(given, frame)
    <3>1. /\ Len(given) \in Nat /\ DOMAIN given = 1 .. Len(given)
          /\ DOMAIN given' = 1 .. Len(given) + 1 /\ given'[Len(given) + 1] = frame
      BY <1>2, <2>2
    <3>2. \A k \in DOMAIN given' : k \in DOMAIN given \/ k = Len(given) + 1
      BY <3>1, SMT
    <3>3. \A j \in DOMAIN given' : j <= Len(given) + 1
      BY <3>1
    <3> QED
      BY <3>1, <3>2, <3>3, Zenon
  <2> QED
    BY <1>1, <2>1, <2>2
<1>11. DOMAIN given' \subseteq Nat
  BY <1>4
<1>12. GivenInOrder'
  <2>1. ASSUME NEW j \in DOMAIN given', NEW k \in DOMAIN given', j < k
        PROVE  Ahead(given[j])' < Ahead(given[k])'
    <3>1. j \in DOMAIN given /\ given[j] \in Indices /\ given'[j] = given[j]
      BY <1>9, <1>10, <1>11, <2>1
    <3>2. Ahead(given[j])' = Ahead(given[j]) - 1 /\ Ahead(given[j]) \in Int /\ Ahead(given[j]) <= Buffers - 1
      BY <1>7, <1>8, <3>1
    <3>3. CASE k \in DOMAIN given
      <4>1. given[k] \in Indices /\ given'[k] = given[k] /\ given[k] # frame
        BY <1>8, <1>9, <3>3
      <4>2. Ahead(given[k])' = Ahead(given[k]) - 1 /\ Ahead(given[k]) \in Int
        BY <1>7, <4>1
      <4>3. Ahead(given[j]) < Ahead(given[k])
        BY <2>1, <3>1, <3>3 DEF CameraInv, GivenInOrder
      <4> QED
        BY <3>2, <4>2, <4>3
    <3>4. CASE given'[k] = frame
      <4>1. Ahead(given[k])' = Buffers - 1
        BY <1>2, <1>3, <3>4 DEF Ahead, Indices
      <4> QED
        BY <1>2, <3>2, <4>1
    <3> QED
      BY <1>10, <3>3, <3>4
  <2> QED
    BY <2>1 DEF GivenInOrder
<1>13. FilledFirst'
  <2>1. ASSUME NEW b \in Indices, buffer[b].done, NEW k \in DOMAIN given'
        PROVE  Ahead(b)' < Ahead(given[k])'
    <3>1. Ahead(b)' = Ahead(b) - 1 /\ Ahead(b) \in Int /\ Ahead(b) <= Buffers - 1
      BY <1>7, <1>8, <2>1
    <3>2. CASE k \in DOMAIN given
      <4>1. given[k] \in Indices /\ given'[k] = given[k] /\ given[k] # frame
        BY <1>8, <1>9, <3>2
      <4>2. Ahead(given[k])' = Ahead(given[k]) - 1 /\ Ahead(given[k]) \in Int
        BY <1>7, <4>1
      <4>3. Ahead(b) < Ahead(given[k])
        BY <2>1, <3>2 DEF CameraInv, FilledFirst
      <4> QED
        BY <3>1, <4>2, <4>3
    <3>3. CASE given'[k] = frame
      <4>1. Ahead(given[k])' = Buffers - 1
        BY <1>2, <1>3, <3>3 DEF Ahead, Indices
      <4> QED
        BY <1>2, <3>1, <4>1
    <3> QED
      BY <1>10, <3>2, <3>3
  <2> QED
    BY <1>1, <2>1 DEF FilledFirst
<1>14. FilledInOrder'
  <2>1. ASSUME NEW b \in Indices, NEW c \in Indices, buffer[b].done, buffer[c].done, Ahead(b)' < Ahead(c)'
        PROVE  buffer[b].picture < buffer[c].picture
    <3>1. Ahead(b) < Ahead(c)
      BY <1>7, <1>8, <2>1
    <3> QED
      BY <2>1, <3>1 DEF CameraInv, FilledInOrder
  <2> QED
    BY <1>1, <2>1 DEF FilledInOrder
<1>15. FilledIsNew' /\ InHand' /\ Fresh'
  BY <1>1 DEF CameraInv, FilledIsNew, InHand, Fresh, None
<1> QED
  BY <1>5, <1>6, <1>12, <1>13, <1>14, <1>15 DEF CameraInv

(* The driver fills the next of its buffers.                               *)
LEMMA PictureStep ==
  ASSUME CameraAssumption, CameraInv, Picture
  PROVE  CameraInv'
<1>1. /\ given # <<>> /\ given' = Tail(given) /\ pictures' = pictures + 1
      /\ buffer' = [buffer EXCEPT ![Head(given)] = [done |-> TRUE, picture |-> pictures']]
      /\ UNCHANGED <<at, grabMethod, frames, frame, frame_cour, ptframe, erreur, shown, newest>>
  BY DEF Picture, setting, output
<1>2. /\ given \in Seq(Indices) /\ buffer \in [Indices -> Buffer] /\ pictures \in Nat /\ frame \in Indices
      /\ ptframe \in [OutFrames -> OutFrame] /\ newest \in Nat
  BY DEF CameraInv, CameraTypes
<1>3. PICK h \in Indices : h = Head(given)
  BY <1>1, <1>2
<1>4. /\ 1 \in DOMAIN given /\ given[1] = h
      /\ \A k \in DOMAIN given' : k \in Nat /\ k + 1 \in DOMAIN given /\ given'[k] = given[k + 1] /\ 1 < k + 1
      /\ \A k \in DOMAIN given : given[k] \in Indices
      /\ given' \in Seq(Indices)
  BY <1>1, <1>2, <1>3
<1>5. /\ pictures' \in Nat /\ pictures' > pictures
      /\ buffer' \in [Indices -> Buffer]
      /\ buffer'[h].done /\ buffer'[h].picture = pictures'
      /\ \A b \in Indices \ {h} : buffer'[b] = buffer[b]
      /\ \A b \in Indices : buffer[b].picture \in Nat
  BY <1>1, <1>2, <1>3 DEF Buffer
<1>6. PicturesTaken
  BY DEF CameraInv
<1>7. CameraTypes'
  BY <1>1, <1>4, <1>5 DEF CameraInv, CameraTypes, None
<1>8. OneMethod'
  BY <1>1 DEF CameraInv, OneMethod
<1>9. PicturesTaken'
  BY <1>1, <1>2, <1>5, <1>6 DEF PicturesTaken, OutFrame
<1>10. \A b \in Indices : Ahead(b)' = Ahead(b) /\ Ahead(b) \in Int
  BY <1>1, <1>2 DEF Ahead, Indices, CameraAssumption
<1>11. \A b \in Indices : buffer[b].done => Ahead(b) < Ahead(h)
  BY <1>4 DEF CameraInv, FilledFirst
<1>12. \A k \in DOMAIN given' : Ahead(h) < Ahead(given[k + 1])
  BY <1>4 DEF CameraInv, GivenInOrder
<1>13. GivenInOrder'
  <2>1. ASSUME NEW j \in DOMAIN given', NEW k \in DOMAIN given', j < k
        PROVE  Ahead(given[j])' < Ahead(given[k])'
    <3>1. j + 1 < k + 1 /\ j + 1 \in DOMAIN given /\ k + 1 \in DOMAIN given
      BY <1>4, <2>1
    <3>2. Ahead(given[j + 1]) < Ahead(given[k + 1])
      BY <3>1 DEF CameraInv, GivenInOrder
    <3>3. given'[j] = given[j + 1] /\ given'[k] = given[k + 1]
      BY <1>4
    <3> QED
      BY <1>1, <3>2, <3>3 DEF Ahead
  <2> QED
    BY <2>1 DEF GivenInOrder
<1>14. FilledFirst'
  <2>1. ASSUME NEW b \in Indices, buffer'[b].done, NEW k \in DOMAIN given'
        PROVE  Ahead(b)' < Ahead(given[k])'
    <3>1. given'[k] = given[k + 1] /\ k + 1 \in DOMAIN given
      BY <1>4
    <3>2. Ahead(b) < Ahead(given[k + 1])
      <4>1. CASE b = h
        BY <1>12, <4>1
      <4>2. CASE b # h
        BY <1>5, <2>1, <3>1, <4>2 DEF CameraInv, FilledFirst
      <4> QED
        BY <4>1, <4>2
    <3> QED
      BY <1>1, <3>1, <3>2 DEF Ahead
  <2> QED
    BY <2>1 DEF FilledFirst
<1>15. FilledInOrder'
  <2>1. ASSUME NEW b \in Indices, NEW c \in Indices, buffer'[b].done, buffer'[c].done, Ahead(b) < Ahead(c)
        PROVE  buffer'[b].picture < buffer'[c].picture
    <3>1. CASE c = h /\ b # h
      BY <1>2, <1>5, <1>6, <3>1 DEF PicturesTaken
    <3>2. CASE b = h
      <4>1. c # h /\ buffer[c].done
        BY <1>5, <1>10, <2>1, <3>2
      <4>2. Ahead(c) < Ahead(h)
        BY <1>11, <4>1
      <4> QED
        BY <1>10, <2>1, <3>2, <4>2
    <3>3. CASE b # h /\ c # h
      BY <1>5, <2>1, <3>3 DEF CameraInv, FilledInOrder
    <3> QED
      BY <3>1, <3>2, <3>3
  <2> QED
    BY <1>10, <2>1 DEF FilledInOrder
<1>16. FilledIsNew'
  <2>1. ASSUME NEW b \in Indices, buffer'[b].done
        PROVE  /\ \A c \in Indices : ~buffer'[c].done => buffer'[c].picture < buffer'[b].picture
               /\ \A f \in OutFrames : ptframe[f].picture < buffer'[b].picture
               /\ at = "sync" => newest < buffer'[b].picture
    <3>1. \A c \in Indices : ~buffer'[c].done => ~buffer[c].done /\ buffer'[c] = buffer[c]
      BY <1>5
    <3>2. CASE b = h
      BY <1>2, <1>5, <1>6, <3>1, <3>2 DEF PicturesTaken, OutFrame
    <3>3. CASE b # h
      BY <1>5, <2>1, <3>1, <3>3 DEF CameraInv, FilledIsNew
    <3> QED
      BY <3>2, <3>3
  <2> QED
    BY <1>1, <2>1 DEF FilledIsNew
<1>17. at \in {"convert", "capture"} => h # frame
  BY <1>4 DEF CameraInv, InHand
<1>18. InHand'
  BY <1>1, <1>2, <1>4, <1>5, <1>17 DEF CameraInv, InHand
<1>19. Fresh'
  BY <1>1, <1>2, <1>5, <1>17 DEF CameraInv, Fresh, None
<1> QED
  BY <1>7, <1>8, <1>9, <1>13, <1>14, <1>15, <1>16, <1>18, <1>19 DEF CameraInv

-----------------------------------------------------------------------------
(* What every state of the camera and its driver satisfies.                *)
THEOREM CameraInvariant ==
  ASSUME Buffers \in Nat \ {0}, Frames \in Nat \ {0}
  PROVE  CameraSpec => []CameraInv
<1>1. CameraAssumption
  BY DEF CameraAssumption
<1>2. CameraInit => CameraInv
  BY <1>1, InitCamera
<1>3. CameraInv /\ [CameraNext]_cameraVars => CameraInv'
  <2> SUFFICES ASSUME CameraInv, [CameraNext]_cameraVars PROVE CameraInv'
    OBVIOUS
  <2>1. CASE UNCHANGED cameraVars
    <3>1. /\ UNCHANGED <<at, grabMethod, frames, given, buffer, pictures>>
          /\ UNCHANGED <<frame, frame_cour, ptframe, erreur, shown, newest>>
      BY <2>1 DEF cameraVars, setting, driver, output
    <3> QED
      BY <3>1 DEF CameraInv, CameraTypes, OneMethod, PicturesTaken, GivenInOrder, FilledFirst, FilledInOrder,
         FilledIsNew, InHand, Fresh, Ahead, None
  <2> QED
    BY <1>1, <2>1, QuietStep, BuffersStep, BeginStep, SyncStep, ReadStep, ConvertStep, CaptureStep, PictureStep
    DEF CameraNext
<1> QED
  BY <1>2, <1>3, PTL DEF CameraSpec

(* What videoGrab puts out without an error is newer than all that was put *)
(* out before, or says that it is no picture, whichever buffers the driver *)
(* refuses, for any number of buffers, output frames and pictures.         *)
THEOREM NoOldPicture ==
  ASSUME Buffers \in Nat \ {0}, Frames \in Nat \ {0}
  PROVE  CameraSpec => []FreshOrEmpty
<1>1. CameraInv => FreshOrEmpty
  BY DEF CameraInv, Fresh, FreshOrEmpty
<1> QED
  BY <1>1, CameraInvariant, PTL

-----------------------------------------------------------------------------
(* The requests. *)

Settings == Values \cup {0}

(* Where the parser thread is before a routine has done anything.          *)
Early == {"no_handler", "xml", "check", "validate", "do", "hung"}
Places == Early \cup {"idle", "rules_right", "right", "left", "reset", "save", "signal", "answer"}

(* The type invariant: only the parameters that exist, with values that    *)
(* were asked for or the factory's.                                        *)
RequestTypes ==
    /\ pc \in Places
    /\ req \in Requests \cup {NoRequest}
    /\ g_config \in [Here -> Settings] /\ file \in [Here -> Settings]
    /\ accepted \in [Here -> Settings]
    /\ device \in [There -> Settings]
    /\ before \in [here : [Here -> Settings], there : [There -> Settings]]
    /\ late \in BOOLEAN /\ restored \in BOOLEAN

(* Which requests get to which place, and whose.                           *)
RightPlace ==
    /\ pc # "idle" => req \in Requests
    /\ pc = "no_handler" => req.cmd \notin Handled
    /\ pc \in {"check", "hung"} => req.cmd = "PW_SET"
    /\ pc = "do" => req.cmd \in Handled \ {"PW_SET"}
    /\ pc = "validate" => req.cmd \in Handled \ {"PW_SET"}
    /\ pc = "xml" => req.cmd \in Handled
    /\ pc = "rules_right" => req.cmd = "RULE_SET"
    /\ pc \in {"right", "left"} => req.cmd = "IP_SET"
    /\ pc = "save" => req.cmd \in {"RTV_STR", "IP_RT_SET"}
    /\ pc = "signal" => req.cmd = "RTV_STR"
    /\ pc = "answer" => req.cmd \in {"RULE_SET", "TIME_SYN", "RTV_STR", "IP_RT_SET"}
    /\ pc \in {"do", "rules_right"} => PasswdValidate(req.account)

(* The parameter that a request sets here.                                 *)
Parameter == IF req.cmd = "RTV_STR" THEN "rtv_start" ELSE "hb_rt_ip"
SetsHere == req.cmd \in {"RTV_STR", "IP_RT_SET"}
Promised == [accepted EXCEPT ![Parameter] = req.value]

(* What is in force and what is in the file, until a restoring: they       *)
(* differ only until the routine has saved, and only in its parameter.     *)
InForceIsSaved ==
    /\ late => restored
    /\ ~restored /\ pc # "save" => file = g_config
    /\ ~restored /\ pc = "save" => g_config = Promised /\ file \in {accepted, Promised}
    /\ ~restored /\ pc \in {"signal", "answer"} /\ SetsHere => file = Promised
    /\ ~late /\ pc = "answer" /\ ~SetsHere => file = accepted

(* Nothing is changed and nothing sent before the routine does it; one     *)
(* that can still fail has set the rules of one side only.                 *)
NothingYet ==
    /\ pc \in Early => answers = 0 /\ g_config = before.here /\ device = before.there
    /\ pc = "rules_right" =>
          /\ answers = 0 /\ g_config = before.here
          /\ \A p \in There \ {"rules"} : device[p] = before.there[p]
    /\ pc \in {"save", "signal", "answer"} => answers = 0
    /\ pc \in {"right", "left"} => answers = 1 /\ flag = "suc"

RoutineInv ==
    /\ RequestTypes /\ RightPlace /\ InForceIsSaved /\ NothingYet
    /\ AcceptedIsSaved /\ RejectedChangesNothing /\ AnsweredOnce

-----------------------------------------------------------------------------
LEMMA InitRoutine == RoutineInit => RoutineInv
<1> SUFFICES ASSUME RoutineInit PROVE RoutineInv
  OBVIOUS
<1>1. RequestTypes
  BY DEF RoutineInit, RequestTypes, Factory, Settings, Places, NoRequest, There, Here
<1>2. RightPlace /\ NothingYet
  BY DEF RoutineInit, RightPlace, NothingYet, Early
<1> QED
  BY <1>1, <1>2 DEF RoutineInit, RoutineInv, InForceIsSaved, AcceptedIsSaved,
                    RejectedChangesNothing, AnsweredOnce, NoMemory

-----------------------------------------------------------------------------
(* The beginning of every routine: nothing is changed yet, and an error    *)
(* that ends it there is answered unless its answer has no head.           *)
LEMMA BeginningStep ==
    ASSUME RoutineInv, Take \/ NoHandler \/ ReadXml \/ PwSet \/ Validate
    PROVE  RoutineInv'
<1> USE DEF RoutineInv, RequestTypes, RightPlace, InForceIsSaved, NothingYet, AcceptedIsSaved,
            RejectedChangesNothing, AnsweredOnce, NoHead, NoMemory, Reads, Places, Early, SetsHere,
            Go, Ends, Asks, SendFlag, AnswersWithHead, config, bounds, promises
<1>1. CASE Take
  BY <1>1 DEF Take, Requests, Commands, Handled, NoRequest
<1>2. CASE NoHandler
  BY <1>2 DEF NoHandler, Requests, Commands, Handled
<1>3. CASE ReadXml
  BY <1>3 DEF ReadXml, Requests, Commands, Handled
<1>4. CASE PwSet
  <2>1. \/ Ends("check") /\ SendFlag("PW_SET", "err")
        \/ Go("check", "hung") /\ UNCHANGED <<answers, flag>>
    BY <1>4 DEF PwSet
  <2>2. UNCHANGED <<req, config, restored, before, promises, bounds>>
    BY <1>4 DEF PwSet
  <2> QED
    BY <2>1, <2>2 DEF Requests
<1>5. CASE Validate
  BY <1>5 DEF Validate, PasswdValidate, Requests, Handled
<1> QED
  BY <1>1, <1>2, <1>3, <1>4, <1>5

(* Routines that set nothing here: they answer, and the device of either   *)
(* side may have changed before an answer that is not an error, but for    *)
(* the rules.                                                              *)
LEMMA DeviceStep ==
    ASSUME RoutineInv,
           \/ Login \/ RuleGet \/ LogGet \/ IpGet \/ HbGet \/ IpRtGet \/ TimeSyn
           \/ IpSet \/ IpSetRight \/ IpSetLeft \/ HbSet
           \/ RuleSet("do", "rules", "rules_right") \/ RuleSet("rules_right", "rules_right", "answer")
    PROVE  RoutineInv'
<1> USE DEF RoutineInv, RequestTypes, RightPlace, InForceIsSaved, NothingYet, AcceptedIsSaved,
            RejectedChangesNothing, AnsweredOnce, NoHead, NoMemory, Reads, Places, Early, SetsHere, Settings, There,
            Go, Ends, Asks, SendFlag, SendData, AnswersWithHead, Requests, config, bounds, promises
<1>1. CASE Login \/ IpGet \/ HbGet \/ IpRtGet
  BY <1>1 DEF Login, IpGet, HbGet, IpRtGet, SendParameters
<1>2. CASE RuleGet \/ LogGet
  BY <1>2 DEF RuleGet, LogGet, SendFile
<1>3. CASE TimeSyn
  BY <1>3 DEF TimeSyn
<1>4. CASE IpSet \/ IpSetRight \/ IpSetLeft
  BY <1>4 DEF IpSet, IpSetRight, IpSetLeft
<1>5. CASE HbSet
  BY <1>5 DEF HbSet
<1>6. CASE RuleSet("do", "rules", "rules_right")
  BY <1>6 DEF RuleSet
<1>7. CASE RuleSet("rules_right", "rules_right", "answer")
  BY <1>7 DEF RuleSet
<1> QED
  BY <1>1, <1>2, <1>3, <1>4, <1>5, <1>6, <1>7

(* The two routines that set a parameter here, the end they share with     *)
(* others, and what the web thread or a death does between their steps.    *)
LEMMA ConfigStep ==
    ASSUME RoutineInv,
           \/ IpRtSet \/ RtvStr \/ Save \/ SignalRtv \/ Answer
           \/ WebSave \/ Restore \/ StartAgain
    PROVE  RoutineInv'
<1> USE DEF RoutineInv, RequestTypes, RightPlace, InForceIsSaved, NothingYet, AcceptedIsSaved,
            RejectedChangesNothing, AnsweredOnce, NoHead, NoMemory, Reads, Places, Early, SetsHere, Settings, Here,
            Parameter, Promised, Go, Ends, Asks, SendFlag, AnswersWithHead, Requests,
            config, bounds, promises
<1>1. CASE IpRtSet
  BY <1>1 DEF IpRtSet
<1>2. CASE RtvStr
  BY <1>2 DEF RtvStr, Promise
<1>3. CASE Save
  BY <1>3 DEF Save
<1>4. CASE SignalRtv
  BY <1>4 DEF SignalRtv
<1>5. CASE Answer
  BY <1>5 DEF Answer, Promise
<1>6. CASE WebSave
  BY <1>6 DEF WebSave
<1>7. CASE Restore
  BY <1>7 DEF Restore, Factory
<1>8. CASE StartAgain
  BY <1>8 DEF StartAgain, NoRequest
<1> QED
  BY <1>1, <1>2, <1>3, <1>4, <1>5, <1>6, <1>7, <1>8

LEMMA RoutineStep == RoutineInv /\ [RoutineNext]_routineVars => RoutineInv'
<1> SUFFICES ASSUME RoutineInv, [RoutineNext]_routineVars PROVE RoutineInv'
  OBVIOUS
<1>1. CASE UNCHANGED routineVars
  BY <1>1 DEF routineVars, config, promises, bounds, RoutineInv, RequestTypes, RightPlace, InForceIsSaved,
              NothingYet, AcceptedIsSaved, RejectedChangesNothing, AnsweredOnce, NoHead, NoMemory, SetsHere,
              Parameter, Promised
<1> QED
  BY <1>1, BeginningStep, DeviceStep, ConfigStep DEF RoutineNext, Parser, Routine

-----------------------------------------------------------------------------
(* The inductive invariant: what holds of the parameters, of the answers   *)
(* and of the request at each place of the parser thread.                  *)
THEOREM RoutineInvariant == RoutineSpec => []RoutineInv
<1> QED
  BY InitRoutine, RoutineStep, PTL DEF RoutineSpec

(* An accepted parameter is in config.txt whatever the web thread saved    *)
(* meanwhile, and is in force again after any number of deaths, unless it  *)
(* was accepted while a restoring waited for the end of the daemon.        *)
THEOREM AcceptedStays == RoutineSpec => []AcceptedIsSaved
<1>1. RoutineInv => AcceptedIsSaved
  BY DEF RoutineInv
<1> QED
  BY <1>1, RoutineInvariant, PTL

(* A request that ended with an error changed nothing, rules of one side   *)
(* set by one of the four accounts apart.                                  *)
THEOREM ErrorsChangeNothing == RoutineSpec => []RejectedChangesNothing
<1>1. RoutineInv => RejectedChangesNothing
  BY DEF RoutineInv
<1> QED
  BY <1>1, RoutineInvariant, PTL

(* Every routine ends with one answer, with none where it has no head, or  *)
(* with none because a reading one found no memory for its answer.         *)
THEOREM OneAnswer == RoutineSpec => []AnsweredOnce
<1>1. RoutineInv => AnsweredOnce
  BY DEF RoutineInv
<1> QED
  BY <1>1, RoutineInvariant, PTL
=============================================================================
