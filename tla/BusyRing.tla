------------------------------- MODULE BusyRing -------------------------------
(***************************************************************************)
(* Version v0 of the program, src/src/oneprodcons.c: the same producer and *)
(* consumer as in FramePipeline, with busy waiting instead of semaphores.  *)
(* The producer spins while list_is_full, the consumer while list_is_empty *)
(* - both compare put and get under the mutex m - and the ring keeps one   *)
(* slot free.  The producer frees a frame's memory right after it has      *)
(* queued the frame, so what the consumer writes may be anything.          *)
(*                                                                         *)
(* count is incremented and decremented here too, but only printed, and is *)
(* left out.  The tests hold m for one comparison and are one step each.   *)
(***************************************************************************)
EXTENDS Integers, Sequences

CONSTANTS Size,        \* slots of frams (20 in the code)
          RingFrames   \* bound: the longest BB.bin considered, in frames

Slots   == 0 .. Size - 1
Empty   == 0                \* content of a slot never stored to
Garbage == -1               \* what freed memory may hold

VARIABLES
  total, ending,       \* BB.bin: frames in it, and how its last read ends
  taken,               \* frames taken from it so far
  frams, put, get, fin, m,
  freed,               \* the frames whose memory has been freed
  too_early,           \* history: those of them not yet written by then
  fh264,               \* what has been written to the output file
  producer_pc, consumer_pc

file == <<total, ending>>
prod == <<producer_pc, taken, frams, put, freed, too_early>>
cons == <<consumer_pc, get, m, fh264>>
ringVars == <<file, prod, cons, fin>>

Produces(from, to) == producer_pc = from /\ producer_pc' = to
Consumes(from, to) == consumer_pc = from /\ consumer_pc' = to

NextSlot(i) == (i + 1) % Size

-----------------------------------------------------------------------------
(* Plausible slips, for the properties below not to hold with them.        *)

(* The test of list_is_full without its % size.                            *)
TestFull_NoWrap ==
  /\ Produces("full", IF get = put + 1 THEN "full" ELSE "store")
  /\ m = "free"
  /\ UNCHANGED <<file, cons, fin, taken, frams, put, freed, too_early>>

(* get is advanced before the write, as src/other/p2b.c does.              *)
WriteFrame_AfterAdvance ==
  /\ Consumes("write", "advance")
  /\ fh264' = Append(fh264, frams[NextSlot(get)])
  /\ UNCHANGED <<file, prod, fin, get, m>>

(* The mutex is not released.                                              *)
Unlock_Forgotten ==
  /\ Consumes("unlock", "test_fin")
  /\ UNCHANGED <<file, prod, fin, get, m, fh264>>

-----------------------------------------------------------------------------
RingInit ==
  /\ total \in 0 .. RingFrames
  /\ ending \in {"clean", "short"}
  /\ taken = 0
  /\ frams = [i \in Slots |-> Empty]
  /\ put = 0 /\ get = 0
  /\ fin = FALSE
  /\ m = "free"
  /\ freed = {} /\ too_early = {}
  /\ fh264 = << >>
  /\ producer_pc = "read" /\ consumer_pc = "test_fin"

-----------------------------------------------------------------------------
(* producer                                                                *)

ReadFrame ==
  /\ taken < total
  /\ Produces("read", "full")
  /\ taken' = taken + 1
  /\ UNCHANGED <<file, cons, fin, frams, put, freed, too_early>>

(* The end of the file, reached in the loop or in the middle of a marker.  *)
FileEnds ==
  /\ taken = total
  /\ Produces("read", "done")
  /\ fin' = (ending = "clean")
  /\ UNCHANGED <<file, cons, taken, frams, put, freed, too_early>>

(* while(list_is_full())                                                   *)
TestFull ==
  /\ Produces("full", IF get = NextSlot(put) THEN "full" ELSE "store")
  /\ m = "free"
  /\ UNCHANGED <<file, cons, fin, taken, frams, put, freed, too_early>>

StoreFrame ==
  /\ Produces("store", "advance")
  /\ frams' = [frams EXCEPT ![put] = taken]
  /\ UNCHANGED <<file, cons, fin, taken, put, freed, too_early>>

AdvancePut ==
  /\ Produces("advance", "free")
  /\ put' = NextSlot(put)
  /\ UNCHANGED <<file, cons, fin, taken, frams, freed, too_early>>

FreeData ==
  /\ Produces("free", "read")
  /\ freed' = freed \cup {taken}
  /\ too_early' = IF taken > Len(fh264) THEN too_early \cup {taken} ELSE too_early
  /\ UNCHANGED <<file, cons, fin, taken, frams, put>>

RingProducer == \/ ReadFrame \/ FileEnds \/ TestFull
            \/ StoreFrame \/ AdvancePut \/ FreeData

-----------------------------------------------------------------------------
(* consumer                                                                *)

(* while(!fin)                                                             *)
TestFin ==
  /\ Consumes("test_fin", IF fin THEN "done" ELSE "empty")
  /\ UNCHANGED <<file, prod, fin, get, m, fh264>>

(* while(list_is_empty())                                                  *)
TestEmpty ==
  /\ Consumes("empty", IF get = put THEN "empty" ELSE "lock")
  /\ m = "free"
  /\ UNCHANGED <<file, prod, fin, get, m, fh264>>

Lock ==
  /\ Consumes("lock", "write")
  /\ m = "free" /\ m' = "consumer"
  /\ UNCHANGED <<file, prod, fin, get, fh264>>

(* fwrite of the memory the slot points to.                                *)
WriteFrame ==
  /\ Consumes("write", "advance")
  /\ \E content \in {frams[get]} \cup
                    IF frams[get] \in freed THEN {Garbage} ELSE {} :
        fh264' = Append(fh264, content)
  /\ UNCHANGED <<file, prod, fin, get, m>>

AdvanceGet ==
  /\ Consumes("advance", "unlock")
  /\ get' = NextSlot(get)
  /\ UNCHANGED <<file, prod, fin, m, fh264>>

Unlock ==
  /\ Consumes("unlock", "test_fin")
  /\ m' = "free"
  /\ UNCHANGED <<file, prod, fin, get, fh264>>

RingConsumer == \/ TestFin \/ TestEmpty \/ Lock \/ WriteFrame
            \/ AdvanceGet \/ Unlock

-----------------------------------------------------------------------------
RingNext == RingProducer \/ RingConsumer

RingSpec == RingInit /\ [][RingNext]_ringVars

(* The consumer is scheduled when it can run; nothing below needs more.    *)
RingFairSpec == RingSpec /\ WF_ringVars(RingConsumer)

-----------------------------------------------------------------------------
(* Properties                                                              *)

(* The k-th fwrite has written frame k, unchanged, unless free(data) had   *)
(* run before it: then, and only then, it may have written anything (a     *)
(* later frame's data, where malloc has reused the memory), in that        *)
(* frame's place and nowhere else.                                         *)
OutputInFileOrder ==
  \A k \in 1 .. Len(fh264) :
     fh264[k] = k \/ (fh264[k] = Garbage /\ k \in too_early)

(* No step stores over a frame that the consumer has not written.          *)
NoUnwrittenOverwritten ==
  [][\A i \in Slots : frams'[i] # frams[i] => frams[i] <= Len(fh264)]_ringVars

(* After a clean end of the file the consumer leaves its loop, unless it   *)
(* has caught up and spins in list_is_empty, where nothing looks at fin.   *)
EndsUnlessCaughtUp ==
  fin ~> (consumer_pc = "done" \/ (consumer_pc = "empty" /\ get = put))

=============================================================================
