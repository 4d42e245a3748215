--------------------------- MODULE ProcessesProofs --------------------------
(***************************************************************************)
(* Proofs about the processes around the pipeline, for any ring and any    *)
(* number of frames: what is in BB.h264, what recv_process has got, and    *)
(* which child waitpid reports.                                            *)
(*                                                                         *)
(* Three facts carry them.  File and buffer together are what the threads  *)
(* have written, however the stream was split between them; the connection *)
(* is disturbed by nothing but Ctrl-C; and once pc has gone on from        *)
(* accept, recv_process can only end after pc.                             *)
(***************************************************************************)
EXTENDS Processes, SequenceTheorems, TLAPS

TypeOK ==
  /\ clintConnt \in Seq(Nat) /\ frame_head \in Seq(Nat) /\ fh264 \in Seq(Nat)
  /\ received \in Seq(Nat) /\ buffer \in Seq(Nat) /\ forked \in Seq(Nat)
  /\ disk \in Seq(Nat) /\ mp4 \in Seq(Nat)
  /\ main \in {"fork_recv", "listen", "accept", "start", "getchar", "fork_ffmpeg",
               "waitpid", "print", "exited", "killed"}
  /\ recv \in {"unborn", "forked", "stray", "connect", "reading", "dead"}
  /\ ffmpeg \in {"unborn", "forked", "running", "stray", "ended", "stray_ended"}
  /\ conn \in {"none", "queued", "open", "peer_gone", "reset_coming", "reset"}

(* What was written is in the file and in the buffer; the buffer is lost   *)
(* when pc is killed and empty when it has ended.                          *)
FileAndBuffer ==
  ffmpeg # "stray_ended" =>
    /\ main # "killed" => disk \o buffer = fh264
    /\ main = "killed" => IsPrefix(disk, fh264)
    /\ main = "exited" => buffer = << >>

(* recv_process has no connection before it connects, pc has one from      *)
(* accept on, and only Ctrl-C disturbs it.                                 *)
Connection ==
  /\ recv \in {"unborn", "forked", "stray", "connect"} => conn = "none"
  /\ main \notin {"fork_recv", "listen", "accept"} => conn # "none"
  /\ conn \in {"peer_gone", "reset_coming", "reset"} => sigint

(* A child is born where main forks it.                                    *)
Children ==
  /\ main = "fork_recv" => recv = "unborn"
  /\ main \in {"fork_recv", "listen", "accept", "start", "getchar", "fork_ffmpeg"}
        => ffmpeg = "unborn"

ProcessInv ==
  /\ TypeOK /\ Children /\ FileAndBuffer /\ Connection
  /\ StreamIsComplete /\ KilledOnlyAfterCtrlC /\ WaitIsForFfmpeg

-----------------------------------------------------------------------------
(* Facts about sequences.                                                  *)

(* ConcatAssociative, for sequences of frames.                             *)
LEMMA Associative == \A s, t, u \in Seq(Nat) : (s \o t) \o u = s \o (t \o u)
<1>1. ASSUME NEW s \in Seq(Nat), NEW t \in Seq(Nat), NEW u \in Seq(Nat)
      PROVE  (s \o t) \o u = s \o (t \o u)
  BY ConcatAssociative
<1> QED
  BY <1>1

(* What is in front of a concatenation is a prefix of it.                  *)
LEMMA FrontIsPrefix ==
  ASSUME NEW s \in Seq(Nat), NEW t \in Seq(Nat) PROVE IsPrefix(s, s \o t)
<1>1. Len(s) <= Len(s \o t) /\ Len(s) \in Nat
  BY ConcatProperties, LenProperties
<1>2. SubSeq(s, 1, Len(s)) = SubSeq(s \o t, 1, Len(s))
  <2>1. CASE Len(s) = 0
    BY <2>1, SubSeqEmpty
  <2>2. CASE Len(s) # 0
    BY <1>1, <2>2, SubSeqOfConcat1
  <2> QED
    BY <2>1, <2>2
<1> QED
  BY <1>1, <1>2 DEF IsPrefix

(* Append, as a concatenation.                                             *)
LEMMA AppendOne == \A s \in Seq(Nat), x \in Nat : Append(s, x) = s \o <<x>>
  BY AppendIsConcat

(* Sequences of frames are closed under concatenation.                     *)
LEMMA Closed ==
  /\ \A x \in Nat : <<x>> \in Seq(Nat)
  /\ \A s, t \in Seq(Nat) : s \o t \in Seq(Nat)
<1>1. \A x \in Nat : <<x>> \in Seq(Nat)
  OBVIOUS
<1>2. \A s, t \in Seq(Nat) : s \o t \in Seq(Nat)
  BY ConcatProperties
<1> QED
  BY <1>1, <1>2

(* A frame joins the buffer, and the first n of it go to the file: file    *)
(* and buffer are then what they were, and the frame.                      *)
LEMMA FlushSome ==
  ASSUME NEW d \in Seq(Nat), NEW b \in Seq(Nat), NEW x \in Nat, NEW n \in 0 .. Len(b) + 1
  PROVE  LET pending == Append(b, x)
             flushed == SubSeq(pending, 1, n)
             kept    == SubSeq(pending, n + 1, Len(pending))
         IN  /\ d \o flushed \in Seq(Nat) /\ kept \in Seq(Nat)
             /\ (d \o flushed) \o kept = Append(d \o b, x)
<1>1. PICK pending : pending = Append(b, x)
  OBVIOUS
<1>2. PICK flushed : flushed = SubSeq(pending, 1, n)
  OBVIOUS
<1>3. PICK kept : kept = SubSeq(pending, n + 1, Len(pending))
  OBVIOUS
<1>4. pending \in Seq(Nat) /\ Len(pending) = Len(b) + 1 /\ Len(b) \in Nat
  BY <1>1, AppendProperties, LenProperties
<1>5. flushed \in Seq(Nat) /\ kept \in Seq(Nat)
  <2>1. \A i \in 1 .. Len(pending) : pending[i] \in Nat
    BY <1>4, ElementOfSeq
  <2>2. /\ \A i \in 1 .. n : pending[i] \in Nat
        /\ \A i \in n + 1 .. Len(pending) : pending[i] \in Nat
    BY <1>4, <2>1
  <2> QED
    BY <1>2, <1>3, <1>4, <2>2, SubSeqProperties
<1>6. flushed \o kept = pending
  <2>1. /\ 1 \in 1 .. Len(pending) + 1 /\ n \in 1 - 1 .. Len(pending)
        /\ Len(pending) \in n .. Len(pending)
    BY <1>4
  <2>2. flushed \o kept = SubSeq(pending, 1, Len(pending))
    BY <1>2, <1>3, <1>4, <2>1, ConcatAdjacentSubSeq
  <2> QED
    BY <1>4, <2>2, SubSeqFull
<1>7. d \o flushed \in Seq(Nat)
  BY <1>5, Closed, Zenon
<1>8. (d \o flushed) \o kept = d \o (flushed \o kept)
  BY <1>5, Associative, Zenon
<1>9. d \o (b \o <<x>>) = (d \o b) \o <<x>>
  BY Associative, Closed, Zenon
<1>10. Append(b, x) = b \o <<x>> /\ Append(d \o b, x) = (d \o b) \o <<x>>
  BY AppendOne, Closed, Zenon
<1>11. (d \o flushed) \o kept = Append(d \o b, x)
  BY <1>1, <1>6, <1>8, <1>9, <1>10, Zenon
<1> QED
  BY <1>1, <1>2, <1>3, <1>5, <1>7, <1>11

(* What the threads may do to the sinks.                                   *)
LEMMA SinkTypes ==
  ASSUME TypeOK, Pipe!Send \/ Pipe!Link \/ Pipe!Write
  PROVE  clintConnt' \in Seq(Nat) /\ frame_head' \in Seq(Nat) /\ fh264' \in Seq(Nat)
<1>1. ASSUME NEW s \in Seq(Nat) PROVE Append(s, Len(s) + 1) \in Seq(Nat)
  <2>1. Len(s) + 1 \in Nat
    BY LenProperties
  <2> QED
    BY <2>1, AppendProperties
<1>2. clintConnt \in Seq(Nat) /\ frame_head \in Seq(Nat) /\ fh264 \in Seq(Nat)
  BY DEF TypeOK
<1>3. /\ clintConnt' \in {clintConnt, Append(clintConnt, Len(clintConnt) + 1)}
      /\ frame_head' \in {frame_head, Append(frame_head, Len(frame_head) + 1)}
      /\ fh264' \in {fh264, Append(fh264, Len(fh264) + 1)}
  BY DEF Pipe!Send, Pipe!Link, Pipe!Write
<1> QED
  BY <1>1, <1>2, <1>3

(* fwrite, as far as the file is concerned.                                *)
LEMMA WriteStep ==
  ASSUME TypeOK, Write
  PROVE  /\ disk' \in Seq(Nat) /\ buffer' \in Seq(Nat)
         /\ disk \o buffer = fh264 => disk' \o buffer' = fh264'
<1>1. /\ Len(fh264) + 1 \in Nat /\ fh264' = Append(fh264, Len(fh264) + 1)
      /\ fh264 \in Seq(Nat) /\ disk \in Seq(Nat) /\ buffer \in Seq(Nat)
  BY LenProperties DEF TypeOK, Write, Pipe!Write
<1>2. Last(fh264') = Len(fh264) + 1
  BY <1>1, AppendProperties DEF Last
<1>3. PICK n \in 0 .. Len(buffer) + 1 :
        LET pending == Append(buffer, Len(fh264) + 1)
        IN  /\ disk' = disk \o SubSeq(pending, 1, n)
            /\ buffer' = SubSeq(pending, n + 1, Len(pending))
  BY <1>2 DEF Write
<1> DEFINE x == Len(fh264) + 1
<1>4. x \in Nat
  BY <1>1
<1> HIDE DEF x
<1>5. /\ disk' \in Seq(Nat) /\ buffer' \in Seq(Nat)
      /\ disk' \o buffer' = Append(disk \o buffer, x)
  BY <1>1, <1>3, <1>4, FlushSome DEF x
<1> QED
  BY <1>1, <1>5 DEF x

-----------------------------------------------------------------------------
LEMMA InitProcess == Init => ProcessInv
<1> SUFFICES ASSUME Init PROVE ProcessInv
  OBVIOUS
<1>1. << >> \in Seq(Nat) /\ << >> \o << >> = << >>
  BY EmptySeq, ConcatEmptySeq
<1> QED
  BY <1>1 DEF Init, Pipe!Init, ProcessInv, TypeOK, Children, FileAndBuffer, Connection,
              StreamIsComplete, KilledOnlyAfterCtrlC, WaitIsForFfmpeg

(* The sequences keep their type; what is read is part of what was sent.   *)
LEMMA TypeStep == ASSUME TypeOK, [Next]_vars PROVE TypeOK'
<1> USE DEF TypeOK, sinks, procs, net, files, Untouched
<1>1. CASE Main \/ GetChar
  <2>1. CASE Exit
    BY <2>1, ConcatProperties, EmptySeq DEF Exit, MainGoes
  <2>2. CASE Listen \/ Accept
    BY <2>2 DEF Listen, Accept, MainGoes
  <2>3. CASE StartRecvProcess \/ ThreadStart \/ ForkFfmpeg \/ WaitChild \/ GetChar
    BY <2>3 DEF StartRecvProcess, ThreadStart, ForkFfmpeg, WaitChild, GetChar, MainGoes
  <2> QED
    BY <1>1, <2>1, <2>2, <2>3 DEF Main
<1>2. CASE Send
  BY <1>2, SinkTypes DEF Send
<1>3. CASE SendAfterReset
  BY <1>3, SinkTypes, EmptySeq DEF SendAfterReset
<1>4. CASE Link
  BY <1>4, SinkTypes DEF Link
<1>5. CASE Write
  <2>1. /\ clintConnt' \in Seq(Nat) /\ frame_head' \in Seq(Nat) /\ fh264' \in Seq(Nat)
        /\ disk' \in Seq(Nat) /\ buffer' \in Seq(Nat)
    BY <1>5, SinkTypes, WriteStep DEF Write
  <2>2. UNCHANGED <<main, conn, forked, mp4, recv, ffmpeg, received>>
    BY <1>5 DEF Write
  <2> QED
    BY <2>1, <2>2
<1>6. CASE Read
  <2>1. PICK n \in Len(received) + 1 .. Len(clintConnt) :
          received' = SubSeq(clintConnt, 1, n)
    BY <1>6 DEF Read
  <2>2. \A i \in 1 .. n : clintConnt[i] \in Nat
    BY <2>1, LenProperties, ElementOfSeq
  <2>3. received' \in Seq(Nat)
    BY <2>1, <2>2, LenProperties, SubSeqProperties
  <2> QED
    BY <1>6, <2>3 DEF Read
<1>7. CASE ExecRecv \/ Connect \/ ReadEof
  BY <1>7 DEF ExecRecv, Connect, ReadEof, RecvGoes
<1>8. CASE Ffmpeg
  <2>1. disk \o forked \in Seq(Nat)
    BY ConcatProperties
  <2> QED
    BY <1>8, <2>1 DEF Ffmpeg, ExecFfmpeg, Convert, StrayExit, FfmpegGoes
<1>9. CASE SigInt \/ ResetArrives
  BY <1>9 DEF SigInt, ResetArrives
<1>10. CASE UNCHANGED vars
  BY <1>10 DEF vars
<1> QED
  BY <1>1, <1>2, <1>3, <1>4, <1>5, <1>6, <1>7, <1>8, <1>9, <1>10
     DEF Next, Threads, Recv

(* Only fwrite, the end of pc, its death and a stray child touch the file. *)
LEMMA FileStep == ASSUME ProcessInv, [Next]_vars PROVE FileAndBuffer'
<1> USE DEF ProcessInv, FileAndBuffer, sinks, procs, net, files, Untouched, ThreadsRun
<1>0. TypeOK /\ disk \o << >> = disk /\ disk \o buffer \in Seq(Nat)
      /\ (disk \o buffer) \o << >> = disk \o buffer
  BY ConcatEmptySeq, ConcatProperties DEF TypeOK
<1>1. CASE Main \/ GetChar
  <2>1. CASE Exit
    BY <1>0, <2>1 DEF Exit, MainGoes
  <2>2. CASE ~Exit
    <3>1. /\ UNCHANGED <<fh264, disk, buffer>> /\ (ffmpeg' # "stray_ended" => ffmpeg # "stray_ended")
          /\ main # "killed" /\ main' \notin {"exited", "killed"}
      <4>1. CASE StartRecvProcess \/ ThreadStart \/ WaitChild \/ GetChar
        BY <4>1 DEF StartRecvProcess, ThreadStart, WaitChild, GetChar, MainGoes
      <4>2. CASE ForkFfmpeg
        BY <4>2 DEF ForkFfmpeg, MainGoes, Children
      <4>3. CASE Listen \/ Accept
        BY <4>3 DEF Listen, Accept, MainGoes
      <4> QED
        BY <1>1, <2>2, <4>1, <4>2, <4>3 DEF Main
    <3> QED
      BY <3>1
  <2> QED
    BY <2>1, <2>2
<1>2. CASE Send \/ Link
  BY <1>2 DEF Send, Link, Pipe!Send, Pipe!Link
<1>3. CASE SendAfterReset
  <2>1. IsPrefix(disk, disk \o buffer)
    BY FrontIsPrefix DEF TypeOK
  <2> QED
    BY <1>3, <2>1 DEF SendAfterReset, Pipe!Send
<1>4. CASE Write
  BY <1>4, WriteStep DEF Write
<1>5. CASE Recv \/ SigInt \/ ResetArrives
  BY <1>5 DEF Recv, ExecRecv, Connect, Read, ReadEof, SigInt, ResetArrives
<1>6. CASE Ffmpeg
  BY <1>6 DEF Ffmpeg, ExecFfmpeg, Convert, StrayExit, FfmpegGoes
<1>7. CASE UNCHANGED vars
  BY <1>7 DEF vars
<1> QED
  BY <1>1, <1>2, <1>3, <1>4, <1>5, <1>6, <1>7 DEF Next, Threads

(* The processes and the connection between them.                          *)
LEMMA ConnectionStep ==
  ASSUME ProcessInv, [Next]_vars
  PROVE  Children' /\ Connection' /\ StreamIsComplete' /\ KilledOnlyAfterCtrlC' /\ WaitIsForFfmpeg'
<1> USE DEF ProcessInv, TypeOK, Children, Connection, StreamIsComplete, KilledOnlyAfterCtrlC,
            WaitIsForFfmpeg, sinks, procs, net, files, Untouched, ThreadsRun, Alive
<1>1. CASE Main \/ GetChar
  <2>1. CASE StartRecvProcess \/ Listen \/ Accept
    BY <2>1 DEF StartRecvProcess, Listen, Accept, MainGoes
  <2>2. CASE ThreadStart \/ GetChar \/ ForkFfmpeg
    BY <2>2 DEF ThreadStart, GetChar, ForkFfmpeg, MainGoes
  <2>3. CASE WaitChild \/ Exit
    BY <2>3 DEF WaitChild, Exit, MainGoes
  <2> QED
    BY <1>1, <2>1, <2>2, <2>3 DEF Main
<1>2. CASE Send \/ Link \/ Write
  BY <1>2 DEF Send, Link, Write
<1>3. CASE SendAfterReset
  BY <1>3 DEF SendAfterReset
<1>4. CASE Recv
  BY <1>4 DEF Recv, ExecRecv, Connect, Read, ReadEof, RecvGoes
<1>5. CASE Ffmpeg
  BY <1>5 DEF Ffmpeg, ExecFfmpeg, Convert, StrayExit, FfmpegGoes
<1>6. CASE SigInt \/ ResetArrives
  BY <1>6 DEF SigInt, ResetArrives
<1>7. CASE UNCHANGED vars
  BY <1>7 DEF vars
<1> QED
  BY <1>1, <1>2, <1>3, <1>4, <1>5, <1>6, <1>7 DEF Next, Threads

LEMMA ProcessStep == ProcessInv /\ [Next]_vars => ProcessInv'
BY TypeStep, FileStep, ConnectionStep DEF ProcessInv

-----------------------------------------------------------------------------
(* The inductive invariant: what the file and the buffer hold together,    *)
(* and who may disturb the connection.                                     *)
THEOREM ProcessInvariant == Spec => []ProcessInv
<1> QED
  BY InitProcess, ProcessStep, PTL DEF Spec

(* BB.h264 never holds anything but the first frames written, and holds    *)
(* all of them when pc ends by itself, unless the execv of ffmpeg failed.  *)
THEOREM FileIsOutput == Spec => []FileMatchesOutput
<1>1. ProcessInv => FileMatchesOutput
  <2> SUFFICES ASSUME ProcessInv, ffmpeg # "stray_ended"
               PROVE  IsPrefix(disk, fh264) /\ (main = "exited" => disk = fh264)
    BY DEF FileMatchesOutput
  <2>1. IsPrefix(disk, disk \o buffer) /\ disk \o << >> = disk
    BY FrontIsPrefix, ConcatEmptySeq DEF ProcessInv, TypeOK
  <2> QED
    BY <2>1 DEF ProcessInv, FileAndBuffer
<1> QED
  BY <1>1, ProcessInvariant, PTL

(* Without Ctrl-C, recv_process outlives pc and gets all it sent.          *)
THEOREM StreamArrives == Spec => []StreamIsComplete
<1>1. ProcessInv => StreamIsComplete
  BY DEF ProcessInv
<1> QED
  BY <1>1, ProcessInvariant, PTL

(* Without Ctrl-C, SIGPIPE never reaches pc.                               *)
THEOREM NotKilled == Spec => []KilledOnlyAfterCtrlC
<1>1. ProcessInv => KilledOnlyAfterCtrlC
  BY DEF ProcessInv
<1> QED
  BY <1>1, ProcessInvariant, PTL

(* Without Ctrl-C, waitpid(-1) reports ffmpeg and not recv_process.        *)
THEOREM WaitsForFfmpeg == Spec => []WaitIsForFfmpeg
<1>1. ProcessInv => WaitIsForFfmpeg
  BY DEF ProcessInv
<1> QED
  BY <1>1, ProcessInvariant, PTL
=============================================================================
