---------------------------- MODULE FramePipeline ----------------------------
(***************************************************************************)
(* The threads of src/src/extBB.c in the LINUX_LIST build: producer_list,  *)
(* which takes the frames of BB.bin one by one, sends each to the          *)
(* receiving process, keeps it in a list and queues it in the ring frams,  *)
(* and the consumers running consumer_list, which write queued frames to   *)
(* BB.h264.                                                                *)
(*                                                                         *)
(* The ring is guarded by two counting semaphores, s_empty and s_full, and *)
(* the consumers exclude each other with the mutex m.  The counter count   *)
(* is outside that protocol: the producer increments it with no lock and   *)
(* the consumers decrement it under m, so each ++ or -- is a load and a    *)
(* later store here, as in the unoptimised code the Makefile builds.       *)
(*                                                                         *)
(* Frames are numbered 1, 2, ... in file order and stand for their         *)
(* payload.  One step is one access to shared state.                       *)
(***************************************************************************)
EXTENDS Integers, Sequences, FiniteSets

CONSTANTS Size,        \* slots of frams (20 in the code)
          Consumers,   \* the threads cons[0..num_threads-1]
          MaxFrames,   \* bound: the longest BB.bin considered, in frames
          NoThread     \* the holder of a free mutex

ASSUME PipelineAssumption ==
  /\ Size \in Nat \ {0}
  /\ MaxFrames \in Nat
  /\ Consumers # {} /\ IsFiniteSet(Consumers)
  /\ NoThread \notin Consumers

Slots  == 0 .. Size - 1
Frames == 1 .. MaxFrames
Empty  == 0                 \* content of a slot never stored to

VARIABLES
  total,      \* BB.bin: the number of frames in it ...
  ending,     \* ... and whether its last read ends clean or inside a marker
  nread,      \* frames the producer has taken from the file so far
  frams, put, get, count, fin,
  s_full, s_empty, m,
  clintConnt, frame_head, fh264,
  ppc, pcount,    \* producer: program counter, loaded value of count
  cpc, ccount     \* the same for each consumer

file  == <<total, ending>>
sinks == <<clintConnt, frame_head, fh264>>
prod  == <<ppc, pcount, nread, put, clintConnt, frame_head, frams>>
cons  == <<cpc, ccount, get, m, fh264>>
vars  == <<file, prod, cons, count, fin, s_full, s_empty>>

ProducerPC == {"read", "wait_empty", "send", "link", "store",
               "load_count", "store_count", "post_full", "done"}
ConsumerPC == {"test_fin", "test_count", "wait_full", "lock", "write",
               "load_count", "store_count", "unlock", "post_empty", "done"}

-----------------------------------------------------------------------------
(* Plausible slips, one or two per property: the properties below must not *)
(* hold of the specification with one of them in place.                    *)

(* The index of the ring is not wrapped.                                   *)
NextSlot_NoWrap(i) == i + 1

ProducerGoes(from, to) == ppc = from /\ ppc' = to

ConsumerGoes(c, from, to) ==
  /\ cpc[c] = from
  /\ cpc' = [cpc EXCEPT ![c] = to]

(* The producer does not wait for a free slot.                             *)
WaitEmpty_NoWait ==
  /\ ProducerGoes("wait_empty", "send")
  /\ UNCHANGED <<file, cons, count, fin, s_full, s_empty,
                 pcount, nread, put, clintConnt, frame_head, frams>>

(* The frame is inserted at the head of the list.                          *)
LinkFrame_AtHead ==
  /\ ProducerGoes("link", "store")
  /\ frame_head' = <<nread>> \o frame_head
  /\ UNCHANGED <<file, cons, count, fin, s_full, s_empty,
                 pcount, nread, put, clintConnt, frams>>

(* fin is read once, as a compiler that sees no store to it may do.        *)
TestFin_ReadOnce(c) ==
  /\ ConsumerGoes(c, "test_fin", "test_count")
  /\ UNCHANGED <<file, prod, count, fin, s_full, s_empty,
                 ccount, get, m, fh264>>

(* The test of count lets zero through.                                    *)
TestCount_LetsZeroPass(c) ==
  /\ ConsumerGoes(c, "test_count",
                  IF count < 0 THEN "test_fin" ELSE "wait_full")
  /\ UNCHANGED <<file, prod, count, fin, s_full, s_empty,
                 ccount, get, m, fh264>>

(* count is tested after the wait, and the announced frame is left there.  *)
WaitFull_ThenTest(c) ==
  /\ ConsumerGoes(c, "wait_full", IF count <= 0 THEN "test_fin" ELSE "lock")
  /\ s_full > 0
  /\ s_full' = s_full - 1
  /\ UNCHANGED <<file, prod, count, fin, s_empty, ccount, get, m, fh264>>

(* get is advanced before the write, as src/other/p2b.c does.              *)
WriteFrame_AfterAdvance(c) ==
  /\ ConsumerGoes(c, "write", "load_count")
  /\ get' = (get + 1) % Size
  /\ fh264' = Append(fh264, frams[get'])
  /\ UNCHANGED <<file, prod, count, fin, s_full, s_empty, ccount, m>>

(* The mutex is not released.                                              *)
Unlock_Forgotten(c) ==
  /\ ConsumerGoes(c, "unlock", "post_empty")
  /\ UNCHANGED <<file, prod, count, fin, s_full, s_empty,
                 ccount, get, m, fh264>>

-----------------------------------------------------------------------------
(* (i + 1) % size                                                          *)
NextSlot(i) == (i + 1) % Size

Init ==
  /\ total \in 0 .. MaxFrames
  /\ ending \in {"clean", "short"}
  /\ nread = 0
  /\ frams = [i \in Slots |-> Empty]
  /\ put = 0 /\ get = 0 /\ count = 0
  /\ fin = FALSE
  /\ s_full = 0 /\ s_empty = Size
  /\ m = NoThread
  /\ clintConnt = << >> /\ frame_head = << >> /\ fh264 = << >>
  /\ ppc = "read" /\ pcount = 0
  /\ cpc = [c \in Consumers |-> "test_fin"]
  /\ ccount = [c \in Consumers |-> 0]

-----------------------------------------------------------------------------
(* producer_list                                                           *)

(* The scan finds the next marker; header and payload are read.            *)
ReadFrame ==
  /\ nread < total
  /\ ProducerGoes("read", "wait_empty")
  /\ nread' = nread + 1
  /\ UNCHANGED <<file, cons, count, fin, s_full, s_empty,
                 pcount, put, clintConnt, frame_head, frams>>

(* The scan runs to the end of the file and the producer says so.          *)
EndOfFile ==
  /\ nread = total /\ ending = "clean"
  /\ ProducerGoes("read", "done")
  /\ fin' = TRUE
  /\ UNCHANGED <<file, cons, count, s_full, s_empty,
                 pcount, nread, put, clintConnt, frame_head, frams>>

(* The file ends after a zero short: the producer returns at once.         *)
ShortRead ==
  /\ nread = total /\ ending = "short"
  /\ ProducerGoes("read", "done")
  /\ UNCHANGED <<file, cons, count, fin, s_full, s_empty,
                 pcount, nread, put, clintConnt, frame_head, frams>>

(* sem_wait(&s_empty)                                                      *)
WaitEmpty ==
  /\ ProducerGoes("wait_empty", "send")
  /\ s_empty > 0
  /\ s_empty' = s_empty - 1
  /\ UNCHANGED <<file, cons, count, fin, s_full,
                 pcount, nread, put, clintConnt, frame_head, frams>>

(* send(clintConnt, data, len, 0)                                          *)
SendFrame ==
  /\ ProducerGoes("send", "link")
  /\ clintConnt' = Append(clintConnt, nread)
  /\ UNCHANGED <<file, cons, count, fin, s_full, s_empty,
                 pcount, nread, put, frame_head, frams>>

(* list_add_tail(&tmp_list->list, &frame_head)                             *)
LinkFrame ==
  /\ ProducerGoes("link", "store")
  /\ frame_head' = Append(frame_head, nread)
  /\ UNCHANGED <<file, cons, count, fin, s_full, s_empty,
                 pcount, nread, put, clintConnt, frams>>

(* frams[put] = ...; put = (put + 1) % size.  Only the producer uses put.  *)
StoreFrame ==
  /\ ProducerGoes("store", "load_count")
  /\ frams' = [frams EXCEPT ![put] = nread]
  /\ put' = NextSlot(put)
  /\ UNCHANGED <<file, cons, count, fin, s_full, s_empty,
                 pcount, nread, clintConnt, frame_head>>

(* count++, first half                                                     *)
ProducerLoadCount ==
  /\ ProducerGoes("load_count", "store_count")
  /\ pcount' = count
  /\ UNCHANGED <<file, cons, count, fin, s_full, s_empty,
                 nread, put, clintConnt, frame_head, frams>>

(* count++, second half                                                    *)
ProducerStoreCount ==
  /\ ProducerGoes("store_count", "post_full")
  /\ count' = pcount + 1
  /\ UNCHANGED <<file, cons, fin, s_full, s_empty,
                 pcount, nread, put, clintConnt, frame_head, frams>>

(* sem_post(&s_full)                                                       *)
PostFull ==
  /\ ProducerGoes("post_full", "read")
  /\ s_full' = s_full + 1
  /\ UNCHANGED <<file, cons, count, fin, s_empty,
                 pcount, nread, put, clintConnt, frame_head, frams>>

Producer ==
  \/ ReadFrame \/ EndOfFile \/ ShortRead
  \/ WaitEmpty \/ SendFrame \/ LinkFrame \/ StoreFrame
  \/ ProducerLoadCount \/ ProducerStoreCount \/ PostFull

-----------------------------------------------------------------------------
(* consumer_list                                                           *)

(* while(!fin)                                                             *)
TestFin(c) ==
  /\ ConsumerGoes(c, "test_fin", IF fin THEN "done" ELSE "test_count")
  /\ UNCHANGED <<file, prod, count, fin, s_full, s_empty,
                 ccount, get, m, fh264>>

(* if(count <= 0) continue                                                 *)
TestCount(c) ==
  /\ ConsumerGoes(c, "test_count",
                  IF count <= 0 THEN "test_fin" ELSE "wait_full")
  /\ UNCHANGED <<file, prod, count, fin, s_full, s_empty,
                 ccount, get, m, fh264>>

(* sem_wait(&s_full)                                                       *)
WaitFull(c) ==
  /\ ConsumerGoes(c, "wait_full", "lock")
  /\ s_full > 0
  /\ s_full' = s_full - 1
  /\ UNCHANGED <<file, prod, count, fin, s_empty, ccount, get, m, fh264>>

(* pthread_mutex_lock(&m)                                                  *)
Lock(c) ==
  /\ ConsumerGoes(c, "lock", "write")
  /\ m = NoThread
  /\ m' = c
  /\ UNCHANGED <<file, prod, count, fin, s_full, s_empty,
                 ccount, get, fh264>>

(* fwrite(frams[get].data, ...); get = (get + 1) % size.  Only the thread  *)
(* that holds m uses get.                                                  *)
WriteFrame(c) ==
  /\ ConsumerGoes(c, "write", "load_count")
  /\ fh264' = Append(fh264, frams[get])
  /\ get' = NextSlot(get)
  /\ UNCHANGED <<file, prod, count, fin, s_full, s_empty, ccount, m>>

(* count--, first half                                                     *)
ConsumerLoadCount(c) ==
  /\ ConsumerGoes(c, "load_count", "store_count")
  /\ ccount' = [ccount EXCEPT ![c] = count]
  /\ UNCHANGED <<file, prod, count, fin, s_full, s_empty, get, m, fh264>>

(* count--, second half                                                    *)
ConsumerStoreCount(c) ==
  /\ ConsumerGoes(c, "store_count", "unlock")
  /\ count' = ccount[c] - 1
  /\ UNCHANGED <<file, prod, fin, s_full, s_empty, ccount, get, m, fh264>>

(* pthread_mutex_unlock(&m)                                                *)
Unlock(c) ==
  /\ ConsumerGoes(c, "unlock", "post_empty")
  /\ m' = NoThread
  /\ UNCHANGED <<file, prod, count, fin, s_full, s_empty,
                 ccount, get, fh264>>

(* sem_post(&s_empty)                                                      *)
PostEmpty(c) ==
  /\ ConsumerGoes(c, "post_empty", "test_fin")
  /\ s_empty' = s_empty + 1
  /\ UNCHANGED <<file, prod, count, fin, s_full, ccount, get, m, fh264>>

Consumer(c) ==
  \/ TestFin(c) \/ TestCount(c) \/ WaitFull(c) \/ Lock(c) \/ WriteFrame(c)
  \/ ConsumerLoadCount(c) \/ ConsumerStoreCount(c) \/ Unlock(c)
  \/ PostEmpty(c)

-----------------------------------------------------------------------------
Next == Producer \/ \E c \in Consumers : Consumer(c)

Spec == Init /\ [][Next]_vars

(* A runnable thread is eventually scheduled; each thread is sequential,   *)
(* so one weak fairness condition per thread says that.                    *)
Fairness == WF_vars(Producer) /\ \A c \in Consumers : WF_vars(Consumer(c))

FairSpec == Spec /\ Fairness

-----------------------------------------------------------------------------
(* What the state means                                                    *)

(* The producer has a free slot in hand that no consumer can see yet.      *)
ProducerHolds ==
  ppc \in {"send", "link", "store", "load_count", "store_count", "post_full"}

(* Frames stored in the ring so far.                                       *)
Stored == IF ppc \in {"wait_empty", "send", "link", "store"}
          THEN nread - 1 ELSE nread

(* Consumers past sem_wait(&s_full) that have not yet written ...          *)
Taking == {c \in Consumers : cpc[c] \in {"lock", "write"}}

(* ... and those that have written and not yet given the slot back.        *)
Returning == {c \in Consumers :
               cpc[c] \in {"load_count", "store_count", "unlock", "post_empty"}}

InCritical(c) == cpc[c] \in {"write", "load_count", "store_count", "unlock"}

(* Frames queued and not yet written: what count stands for.               *)
Queued ==
  LET counted == IF ppc = "read" \/ ppc = "done" \/ ppc = "post_full"
                 THEN nread ELSE nread - 1
      uncounted == Len(fh264)
          - Cardinality({c \in Consumers : cpc[c] \in {"load_count", "store_count"}})
  IN  counted - uncounted

-----------------------------------------------------------------------------
(* The inductive invariant, in parts                                       *)

(* The slot j places after slot i, for j <= Size.                          *)
SlotAfter(i, j) == IF i + j < Size THEN i + j ELSE i + j - Size

Occupied == Stored - Len(fh264)

(* Where the producer is tells how far the sinks have come.                *)
ProducerInv ==
  /\ ppc \notin {"read", "done"} => nread >= 1
  /\ ppc = "done" => nread = total
  /\ Len(clintConnt) =
       IF ppc \in {"wait_empty", "send"} THEN nread - 1 ELSE nread
  /\ Len(frame_head) =
       IF ppc \in {"wait_empty", "send", "link"} THEN nread - 1 ELSE nread
  /\ \A i \in 1 .. Len(clintConnt) : clintConnt[i] = i
  /\ \A i \in 1 .. Len(frame_head) : frame_head[i] = i

(* m is held by the consumer in its critical section.                      *)
MutexInv == \A c \in Consumers : InCritical(c) <=> m = c

(* s_full announces the stored frames that no consumer has claimed.        *)
FullInv ==
  Occupied = s_full + Cardinality(Taking)
    + (IF ppc \in {"load_count", "store_count", "post_full"} THEN 1 ELSE 0)

(* The occupied slots, from get on, hold the next frames to be written;    *)
(* every other slot is empty or holds a frame written before.              *)
RingInv ==
  /\ put = SlotAfter(get, Occupied)
  /\ \A j \in 0 .. Occupied - 1 : frams[SlotAfter(get, j)] = Len(fh264) + 1 + j
  /\ \A i \in Slots :
        \/ frams[i] <= Len(fh264)
        \/ \E j \in 0 .. Occupied - 1 : i = SlotAfter(get, j)

-----------------------------------------------------------------------------
(* Properties                                                              *)

(* The types of the variables.                                             *)
TypeOK ==
  /\ total \in 0 .. MaxFrames /\ ending \in {"clean", "short"}
  /\ nread \in 0 .. total
  /\ frams \in [Slots -> Frames \cup {Empty}]
  /\ put \in Slots /\ get \in Slots
  /\ count \in Int /\ fin \in BOOLEAN
  /\ s_full \in Nat /\ s_empty \in Nat
  /\ m \in Consumers \cup {NoThread}
  /\ clintConnt \in Seq(Frames)
  /\ frame_head \in Seq(Frames)
  /\ fh264 \in Seq(Frames)
  /\ ppc \in ProducerPC /\ pcount \in Int
  /\ cpc \in [Consumers -> ConsumerPC]
  /\ ccount \in [Consumers -> Int]

(* The two semaphores and the threads between a sem_wait and the matching  *)
(* sem_post account for every slot of the ring exactly once: no early      *)
(* return or reordering leaks a slot or invents one.                       *)
SlotConservation ==
  s_empty + s_full + (IF ProducerHolds THEN 1 ELSE 0)
    + Cardinality(Taking) + Cardinality(Returning) = Size

(* BB.h264 holds the frames of BB.bin in file order from the first on, each *)
(* once, however the consumers interleave and however wrong count is.      *)
OutputInFileOrder == \A i \in 1 .. Len(fh264) : fh264[i] = i

(* What every step preserves: the account of slots and of stored frames,   *)
(* the place of each stored frame in the ring, who holds m, and how far    *)
(* each sink has come.                                                     *)
PipelineInv ==
  /\ TypeOK /\ ProducerInv /\ MutexInv
  /\ SlotConservation /\ FullInv /\ OutputInFileOrder /\ RingInv

(* At the end, the frames missing from BB.h264 are the last ones of the    *)
(* file, and no more of them than the ring holds: consumers leave on fin   *)
(* without draining the ring, but they lose nothing else.                  *)
TailLossAtMostRing ==
  (ppc = "done" /\ \A c \in Consumers : cpc[c] = "done")
     => total - Len(fh264) \in 0 .. Size

(* With one consumer, as built, the pipeline gets stuck only when count no *)
(* longer equals the number of queued frames, so only after an update of   *)
(* count was lost.  Stuck is: the consumer waits for a frame that no post  *)
(* announces, or the producer waits for a slot while the consumer sees no  *)
(* frame to take.                                                          *)
ConsumerStuck(c) == cpc[c] = "wait_full" /\ s_full = 0 /\ ppc # "post_full"
ProducerStuck ==
  /\ ppc = "wait_empty" /\ s_empty = 0
  /\ \A c \in Consumers : cpc[c] \in {"test_fin", "test_count"}
  /\ count <= 0
StuckOnlyByLostUpdate ==
  (ProducerStuck \/ \E c \in Consumers : ConsumerStuck(c)) => count # Queued

(* No step stores over a frame that has not been written to BB.h264.       *)
NoUnwrittenOverwritten ==
  [][\A i \in Slots : frams'[i] # frams[i]
        => frams[i] = Empty \/ \E k \in 1 .. Len(fh264) : fh264[k] = frams[i]]_vars

(* The pipeline implements FrameDelivery: three sinks, each in file order  *)
(* and without gaps, never more than Size frames apart.                    *)
Delivery == INSTANCE FrameDelivery
DeliverySpec == Delivery!Spec

(* A consumer that has taken a frame writes it and gives the slot back.    *)
TakenIsReturned ==
  \A c \in Consumers : cpc[c] = "lock" ~> cpc[c] = "test_fin"

(* After a clean end of the file every consumer leaves its loop, unless it *)
(* is waiting for a frame at sem_wait.                                     *)
FinStopsConsumers ==
  fin ~> \A c \in Consumers : cpc[c] \in {"done", "wait_full"}

(* A consumer that goes to wait for a frame does not wait for ever, which  *)
(* is what the test of count before the wait is there for.                 *)
NoEndlessWaiting ==
  \A c \in Consumers : cpc[c] = "wait_full" ~> cpc[c] # "wait_full"

=============================================================================
