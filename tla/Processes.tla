------------------------------ MODULE Processes ------------------------------
(***************************************************************************)
(* The processes around the frame pipeline: pc (main of src/src/extBB.c),  *)
(* the ./recv_process it forks (src/src/recv.c), the TCP connection        *)
(* between the two, the ffmpeg it forks at the end, and the files they     *)
(* leave behind.  The two threads of pc are represented by what they do to *)
(* the sinks, FrameDelivery, which FramePipeline implements.               *)
(*                                                                         *)
(* fh264 is a stdio stream: what fwrite() takes first sits in a buffer of  *)
(* the process, which a fork duplicates, exec and death by a signal        *)
(* discard, and exit() writes out.  The user may press Ctrl-C, which sends *)
(* SIGINT to every process of the group, and a key, which ends getchar().  *)
(*                                                                         *)
(* Assumed: nobody but recv_process connects to port 2020, and the memory  *)
(* and process table do not run out.                                       *)
(***************************************************************************)
EXTENDS Integers, Sequences, SequencesExt

CONSTANTS Size, MaxFrames

ASSUME ProcessesAssumption == Size \in Nat \ {0} /\ MaxFrames \in Nat

VARIABLES
  clintConnt, frame_head, fh264,   \* the sinks of the pipeline
  main,       \* where the main thread of pc is
  recv,       \* where recv_process is
  ffmpeg,     \* where the ffmpeg child is
  port,       \* who listens on port 2020
  conn,       \* the connection, as pc's kernel sees it
  received,   \* what recv_process has read
  buffer,     \* the part of fh264 still in the stdio buffer of pc ...
  forked,     \* ... and in the copy of it the fork for ffmpeg made
  disk,       \* the frames in the file BB.h264
  mp4,        \* the frames ffmpeg has read from it
  sigint,     \* whether Ctrl-C has been pressed
  circle      \* whether the list's last node is linked behind itself

sinks == <<clintConnt, frame_head, fh264>>
procs == <<main, recv, ffmpeg>>
net   == <<port, conn, received>>
files == <<buffer, forked, disk, mp4>>
vars  == <<sinks, procs, net, files, sigint, circle>>

Pipe == INSTANCE FrameDelivery

(* pc exists; its threads run from thread_start to its end.                *)
Alive == main \notin {"exited", "killed"}
ThreadsRun == main \in {"getchar", "fork_ffmpeg", "waitpid", "print"}

Init ==
  /\ Pipe!Init
  /\ main = "fork_recv" /\ recv = "unborn" /\ ffmpeg = "unborn"
  /\ port = "free" /\ conn = "none" /\ received = << >>
  /\ buffer = << >> /\ forked = << >> /\ disk = << >> /\ mp4 = << >>
  /\ sigint = FALSE
  /\ circle = FALSE

-----------------------------------------------------------------------------
(* Plausible slips: with one of them in place, the property it belongs to  *)
(* does not hold.                                                          *)

MainGoes(from, to) == main = from /\ main' = to

(* waitpid with WNOHANG, as in the line commented out above the call.      *)
WaitChild_NoHang ==
  /\ MainGoes("waitpid", "print")
  /\ UNCHANGED <<sinks, recv, ffmpeg, net, files, sigint, circle>>

(* Waiting for recv_process rather than for any child.                     *)
WaitChild_ForRecv ==
  /\ MainGoes("waitpid", "print")
  /\ recv = "dead"
  /\ UNCHANGED <<sinks, recv, ffmpeg, net, files, sigint, circle>>

(* _exit() instead of exit().                                              *)
Exit_NoFlush ==
  /\ MainGoes("print", "exited")
  /\ buffer' = << >>
  /\ UNCHANGED <<sinks, recv, ffmpeg, net, forked, disk, mp4, sigint, circle>>

(* recv_process leaves as soon as it finds nothing to read.                *)
ReadEof_WhenIdle ==
  /\ received = clintConnt
  /\ recv = "reading" /\ recv' = "dead"
  /\ conn' = "peer_gone"
  /\ UNCHANGED <<sinks, main, ffmpeg, port, received, files, sigint, circle>>

(* recv_process leaves when pc is gone, with data still to be read.        *)
ReadEof_DropsRest ==
  /\ ~Alive
  /\ recv = "reading" /\ recv' = "dead"
  /\ UNCHANGED <<sinks, main, ffmpeg, net, files, sigint, circle>>

-----------------------------------------------------------------------------
(* The main thread of pc                                                   *)

(* fork() in start_recv_process; the parent goes on at once.               *)
StartRecvProcess ==
  /\ MainGoes("fork_recv", "listen")
  /\ recv' = "forked"
  /\ UNCHANGED <<sinks, ffmpeg, net, files, sigint, circle>>

(* socket, bind, listen.  The result of bind is not looked at: if the port *)
(* is taken (by a stray child, or by the last run's connection), listen    *)
(* picks another port, which nobody knows.                                 *)
Listen ==
  /\ MainGoes("listen", "accept")
  /\ port' \in IF port = "free" THEN {"pc", "lost"} ELSE {port}
  /\ UNCHANGED <<sinks, recv, ffmpeg, conn, received, files, sigint, circle>>

(* accept() returns the connection that is waiting.                        *)
Accept ==
  /\ MainGoes("accept", "start")
  /\ conn \in {"queued", "peer_gone"}
  /\ conn' = IF conn = "queued" THEN "open" ELSE conn
  /\ UNCHANGED <<sinks, recv, ffmpeg, port, received, files, sigint, circle>>

(* thread_init, thread_start                                               *)
ThreadStart ==
  /\ MainGoes("start", "getchar")
  /\ UNCHANGED <<sinks, recv, ffmpeg, net, files, sigint, circle>>

(* getchar() returns on any key: nothing looks for the word exit.          *)
GetChar ==
  /\ MainGoes("getchar", "fork_ffmpeg")
  /\ UNCHANGED <<sinks, recv, ffmpeg, net, files, sigint, circle>>

(* fork() in multiprocesses, with no flush of fh264 and no join before it. *)
ForkFfmpeg ==
  /\ MainGoes("fork_ffmpeg", "waitpid")
  /\ ffmpeg' = "forked"
  /\ forked' = buffer
  /\ UNCHANGED <<sinks, recv, net, buffer, disk, mp4, sigint, circle>>

(* waitpid(-1, 0, WUNTRACED): any child will do.                           *)
WaitChild ==
  /\ MainGoes("waitpid", "print")
  /\ recv = "dead" \/ ffmpeg \in {"ended", "stray_ended"}
  /\ UNCHANGED <<sinks, recv, ffmpeg, net, files, sigint, circle>>

(* print_list, whose walk comes back to the head unless the list ends in a *)
(* circle; then main returns: the streams are flushed, the threads and the *)
(* sockets of pc are gone.                                                 *)
Exit ==
  /\ MainGoes("print", "exited")
  /\ ~circle
  /\ disk' = disk \o buffer
  /\ buffer' = << >>
  /\ UNCHANGED <<sinks, recv, ffmpeg, net, forked, mp4, sigint, circle>>

Main == \/ StartRecvProcess \/ Listen \/ Accept \/ ThreadStart
        \/ ForkFfmpeg \/ WaitChild \/ Exit

-----------------------------------------------------------------------------
(* The threads of pc                                                       *)

Untouched == UNCHANGED <<recv, ffmpeg, port, received, sigint>>

(* send() on a live connection, or on one whose peer is gone: the data is  *)
(* taken either way, and in the second case answered with a reset.         *)
Send ==
  /\ ThreadsRun /\ Len(clintConnt) < MaxFrames
  /\ conn # "reset"
  /\ Pipe!Send
  /\ conn' = IF conn = "peer_gone" THEN "reset_coming" ELSE conn
  /\ UNCHANGED <<main, files, circle>> /\ Untouched

(* send() after the reset: it fails, which the code does not look at, or   *)
(* raises SIGPIPE, which nothing catches.                                  *)
SendAfterReset ==
  /\ ThreadsRun /\ Len(clintConnt) < MaxFrames
  /\ conn = "reset"
  /\ \/ Pipe!Send /\ UNCHANGED <<main, conn, files>>
     \/ main' = "killed" /\ buffer' = << >>
        /\ UNCHANGED <<sinks, conn, forked, disk, mp4>>
  /\ UNCHANGED circle /\ Untouched

(* malloc of a node and list_add_tail.  Both go through tmp_list, which    *)
(* print_list assigns too: if it does so in between, with the last node of *)
(* the list, that node is linked behind itself, and stays so until another *)
(* one is linked.                                                          *)
Link ==
  /\ ThreadsRun /\ Pipe!Link
  /\ circle' \in IF main = "print" /\ frame_head # << >> THEN BOOLEAN ELSE {FALSE}
  /\ UNCHANGED <<main, conn, files>> /\ Untouched

(* fwrite(), which may leave the frame and others in the buffer.           *)
Write ==
  /\ ThreadsRun /\ Pipe!Write
  /\ \E n \in 0 .. Len(buffer) + 1 :
       LET pending == Append(buffer, Last(fh264'))
       IN  /\ disk' = disk \o SubSeq(pending, 1, n)
           /\ buffer' = SubSeq(pending, n + 1, Len(pending))
  /\ UNCHANGED <<main, conn, forked, mp4, circle>> /\ Untouched

Threads == Send \/ SendAfterReset \/ Link \/ Write

-----------------------------------------------------------------------------
(* recv_process                                                            *)

RecvGoes(from, to) == recv = from /\ recv' = to

(* execv() of ./recv_process; if it fails, the child returns into main as  *)
(* a second server.                                                        *)
ExecRecv ==
  /\ \/ RecvGoes("forked", "connect") /\ UNCHANGED port
     \/ RecvGoes("forked", "stray")
        /\ port' \in IF port = "free" THEN {"stray", port} ELSE {port}
  /\ UNCHANGED <<sinks, main, ffmpeg, conn, received, files, sigint, circle>>

(* connect() succeeds as soon as pc listens; otherwise it is refused and   *)
(* recv_process exits without another try.                                 *)
Connect ==
  /\ \/ port = "pc" /\ RecvGoes("connect", "reading") /\ conn' = "queued"
     \/ port # "pc" /\ RecvGoes("connect", "dead") /\ UNCHANGED conn
  /\ UNCHANGED <<sinks, main, ffmpeg, port, received, files, sigint, circle>>

(* read() returns some of what was sent.                                   *)
Read ==
  /\ recv = "reading"
  /\ \E n \in Len(received) + 1 .. Len(clintConnt) :
       received' = SubSeq(clintConnt, 1, n)
  /\ UNCHANGED <<sinks, procs, port, conn, files, sigint, circle>>

(* read() returns 0 once pc is gone and all it sent has been read.         *)
ReadEof ==
  /\ ~Alive /\ received = clintConnt
  /\ RecvGoes("reading", "dead")
  /\ UNCHANGED <<sinks, main, ffmpeg, net, files, sigint, circle>>

Recv == ExecRecv \/ Connect \/ Read \/ ReadEof

-----------------------------------------------------------------------------
(* ffmpeg -i BB.h264 BB.mp4                                                *)

FfmpegGoes(from, to) == ffmpeg = from /\ ffmpeg' = to

(* execv() drops the inherited buffer; if it fails, the child goes on.     *)
ExecFfmpeg ==
  /\ FfmpegGoes("forked", "running") \/ FfmpegGoes("forked", "stray")
  /\ UNCHANGED <<sinks, main, recv, net, files, sigint, circle>>

(* ffmpeg reads what the file holds at that moment.                        *)
Convert ==
  /\ FfmpegGoes("running", "ended")
  /\ mp4' = disk
  /\ UNCHANGED <<sinks, main, recv, net, buffer, forked, disk, sigint, circle>>

(* The child whose exec failed returns from main: its copy of the buffer   *)
(* is flushed to the file it shares with pc.                               *)
StrayExit ==
  /\ FfmpegGoes("stray", "stray_ended")
  /\ disk' = disk \o forked
  /\ UNCHANGED <<sinks, main, recv, net, buffer, forked, mp4, sigint, circle>>

Ffmpeg == ExecFfmpeg \/ Convert \/ StrayExit

-----------------------------------------------------------------------------
(* The user and the network                                                *)

(* Ctrl-C: pc only prints "please input exit to quit"; recv_process and    *)
(* ffmpeg, whose exec reset the handler, end.                              *)
SigInt ==
  /\ ~sigint /\ Alive /\ sigint' = TRUE
  /\ recv' = IF recv \in {"connect", "reading"} THEN "dead" ELSE recv
  /\ conn' = IF recv # "reading" THEN conn
             ELSE IF Len(received) < Len(clintConnt) THEN "reset_coming"
             ELSE "peer_gone"
  /\ ffmpeg' = IF ffmpeg = "running" THEN "ended" ELSE ffmpeg
  /\ UNCHANGED <<sinks, main, port, received, files, circle>>

(* The reset reaches pc.                                                   *)
ResetArrives ==
  /\ conn = "reset_coming" /\ conn' = "reset"
  /\ UNCHANGED <<sinks, procs, port, received, files, sigint, circle>>

-----------------------------------------------------------------------------
Next == Main \/ GetChar \/ Threads \/ Recv \/ Ffmpeg \/ SigInt \/ ResetArrives

Spec == Init /\ [][Next]_vars

(* Processes are scheduled; ffmpeg ends.  Nothing makes the user press a   *)
(* key, and nothing makes the threads go on for ever.                      *)
FairSpec == Spec /\ WF_vars(Main) /\ WF_vars(Recv) /\ WF_vars(Ffmpeg)

-----------------------------------------------------------------------------
(* Properties                                                              *)

(* BB.h264 holds the first frames written, once each and in order, and all *)
(* of them after a regular end, although a fork copies the stream's buffer *)
(* - unless execv of ffmpeg fails and its copy is flushed too.             *)
FileMatchesOutput ==
  ffmpeg # "stray_ended" =>
    /\ IsPrefix(disk, fh264)
    /\ main = "exited" => disk = fh264

(* If nobody presses Ctrl-C, recv_process ends only after pc has, and with *)
(* everything that pc handed to send().                                    *)
StreamIsComplete ==
  (~sigint /\ recv = "dead" /\ conn # "none")
     => main = "exited" /\ received = clintConnt

(* pc ends otherwise than through main only after Ctrl-C.                  *)
KilledOnlyAfterCtrlC == main = "killed" => sigint

(* If nobody presses Ctrl-C, the child that waitpid(-1) reports is ffmpeg, *)
(* so pc does not end, and does not flush BB.h264, under ffmpeg's hands.   *)
WaitIsForFfmpeg ==
  (~sigint /\ main \in {"print", "exited"})
     => ffmpeg \in {"ended", "stray_ended"}

(* Once a key has been pressed, pc ends, whatever its children and threads *)
(* are doing - or print_list walks in a circle for ever, which takes the   *)
(* producer to have linked a frame during the walk and none after it.      *)
KeyEndsProgram == main = "fork_ffmpeg" ~> (~Alive \/ []circle)

=============================================================================
