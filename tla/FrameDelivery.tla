---------------------------- MODULE FrameDelivery ----------------------------
(***************************************************************************)
(* What the frame pipeline of src/src/extBB.c promises, with no threads,   *)
(* ring, semaphores or counters in it.  The frames of BB.bin are numbered  *)
(* 1, 2, 3, ... in file order, and each goes to three sinks:               *)
(*   - clintConnt, the socket to the receiving process,                    *)
(*   - frame_head, the list that keeps every frame for print_list,         *)
(*   - fh264, the output file BB.h264.                                     *)
(* Every sink gets every frame once, in file order and with no gap; a      *)
(* frame is sent before it is listed and listed before it is written; and  *)
(* the file is never more than Size frames behind the socket.              *)
(***************************************************************************)
EXTENDS Integers, Sequences

CONSTANT Size      \* the slots of the ring between the two threads, at least 1

VARIABLES clintConnt,   \* the frames handed to send()
          frame_head,   \* the frames in the list
          fh264         \* the frames handed to fwrite()

sinks == <<clintConnt, frame_head, fh264>>

Init ==
  /\ clintConnt = << >>
  /\ frame_head = << >>
  /\ fh264 = << >>

(* The next frame of the file goes out on the socket.                      *)
Send ==
  /\ Len(clintConnt) < Len(fh264) + Size
  /\ Len(clintConnt) = Len(frame_head)
  /\ clintConnt' = Append(clintConnt, Len(clintConnt) + 1)
  /\ UNCHANGED <<frame_head, fh264>>

(* The frame sent last joins the list.                                     *)
Link ==
  /\ Len(frame_head) < Len(clintConnt)
  /\ frame_head' = Append(frame_head, Len(frame_head) + 1)
  /\ UNCHANGED <<clintConnt, fh264>>

(* The oldest listed frame not yet in the file is written to it.           *)
Write ==
  /\ Len(fh264) < Len(frame_head)
  /\ fh264' = Append(fh264, Len(fh264) + 1)
  /\ UNCHANGED <<clintConnt, frame_head>>

Next == Send \/ Link \/ Write

Spec == Init /\ [][Next]_sinks

=============================================================================
