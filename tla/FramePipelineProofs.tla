------------------------- MODULE FramePipelineProofs -------------------------
(***************************************************************************)
(* Proofs about FramePipeline, for every size of the ring, every finite    *)
(* set of consumers and every length of the file.                          *)
(***************************************************************************)
EXTENDS FramePipeline, FiniteSetTheorems, TLAPS

(* Advancing an index of the ring stays in the ring.                       *)
LEMMA NextSlotValue ==
  ASSUME NEW i \in Slots
  PROVE  /\ NextSlot(i) = IF i + 1 = Size THEN 0 ELSE i + 1
         /\ NextSlot(i) \in Slots
<1> USE PipelineAssumption DEF Slots, NextSlot
<1>1. CASE i + 1 = Size
  BY <1>1
<1>2. CASE i + 1 < Size
  BY <1>2
<1> QED
  BY <1>1, <1>2

(* A thread that joins or leaves a set of waiting or writing consumers     *)
(* changes its cardinality by one.                                         *)
LEMMA OneMore ==
  ASSUME NEW S \in SUBSET Consumers, NEW c \in Consumers
  PROVE  /\ IsFiniteSet(S) /\ Cardinality(S) \in Nat
         /\ c \notin S => Cardinality(S \cup {c}) = Cardinality(S) + 1
         /\ c \in S => Cardinality(S \ {c}) = Cardinality(S) - 1
         /\ c \in S => Cardinality(S) >= 1
<1>1. IsFiniteSet(S)
  BY PipelineAssumption, FS_Subset
<1>2. Cardinality(S) \in Nat
  BY <1>1, FS_CardinalityType
<1>3. c \notin S => Cardinality(S \cup {c}) = Cardinality(S) + 1
  BY <1>1, FS_AddElement
<1>4. c \in S => Cardinality(S \ {c}) = Cardinality(S) - 1
  BY <1>1, FS_RemoveElement
<1>5. c \in S => Cardinality(S) >= 1
  BY <1>1, <1>2, FS_EmptySet
<1> QED
  BY <1>1, <1>2, <1>3, <1>4, <1>5

(* A length is a number.                                                   *)
LEMMA LenIsNat ==
  ASSUME NEW s \in Seq(Frames)
  PROVE  Len(s) \in Nat
OBVIOUS

(* The consumers that hold a frame, or a slot, can be counted.             *)
LEMMA SetsAreNumbers ==
  /\ Taking \in SUBSET Consumers /\ Returning \in SUBSET Consumers
  /\ Cardinality(Taking) \in Nat /\ Cardinality(Returning) \in Nat
<1>1. Taking \in SUBSET Consumers /\ Returning \in SUBSET Consumers
  BY DEF Taking, Returning
<1>2. IsFiniteSet(Taking) /\ IsFiniteSet(Returning)
  BY <1>1, PipelineAssumption, FS_Subset
<1> QED
  BY <1>1, <1>2, FS_CardinalityType

(* What the invariant says of the ring, as numbers.                        *)
LEMMA OccupiedBounds ==
  ASSUME TypeOK, SlotConservation, FullInv, ProducerInv
  PROVE  /\ Stored \in Int /\ Len(fh264) \in Nat
         /\ Occupied \in 0 .. Size
         /\ ppc \in {"send", "link", "store"} => Occupied <= Size - 1
         /\ Taking # {} => Occupied >= 1
         /\ s_empty \in 0 .. Size /\ s_full \in 0 .. Size
<1>1. Cardinality(Taking) \in Nat /\ Cardinality(Returning) \in Nat
  BY SetsAreNumbers
<1>2. Taking # {} => Cardinality(Taking) >= 1
  BY SetsAreNumbers, OneMore
<1>3. Len(fh264) \in Nat
  BY LenIsNat DEF TypeOK
<1>4. Stored \in Int
  BY PipelineAssumption DEF TypeOK, Stored
<1>5. Occupied = s_full + Cardinality(Taking)
        + (IF ppc \in {"load_count", "store_count", "post_full"} THEN 1 ELSE 0)
  BY DEF FullInv
<1>6. s_empty + s_full + (IF ProducerHolds THEN 1 ELSE 0)
        + Cardinality(Taking) + Cardinality(Returning) = Size
  BY DEF SlotConservation
<1>7. s_full \in Nat /\ s_empty \in Nat
  BY DEF TypeOK
<1>8. Occupied \in 0 .. Size
  BY <1>1, <1>5, <1>6, <1>7, PipelineAssumption DEF ProducerHolds
<1>9. ppc \in {"send", "link", "store"} => Occupied <= Size - 1
  BY <1>1, <1>5, <1>6, <1>7, PipelineAssumption DEF ProducerHolds
<1>10. Taking # {} => Occupied >= 1
  BY <1>1, <1>2, <1>5, <1>7
<1>11. s_empty \in 0 .. Size /\ s_full \in 0 .. Size
  BY <1>1, <1>6, <1>7, PipelineAssumption
<1> QED
  BY <1>3, <1>4, <1>8, <1>9, <1>10, <1>11

-----------------------------------------------------------------------------
(* The invariant holds initially.                                          *)
LEMMA InitInv == Init => PipelineInv
<1> SUFFICES ASSUME Init PROVE PipelineInv
  OBVIOUS
<1>1. TypeOK
  <2>1. /\ total \in 0 .. MaxFrames /\ ending \in {"clean", "short"}
        /\ nread \in 0 .. total /\ put \in Slots /\ get \in Slots
        /\ count \in Int /\ s_full \in Nat /\ s_empty \in Nat
        /\ m \in Consumers \cup {NoThread} /\ pcount \in Int
    BY PipelineAssumption DEF Init, Slots
  <2>2. frams \in [Slots -> Frames \cup {Empty}]
    BY DEF Init
  <2>3. /\ clintConnt \in Seq(Frames) /\ frame_head \in Seq(Frames)
        /\ fh264 \in Seq(Frames)
    BY DEF Init
  <2>4. /\ ppc \in ProducerPC /\ cpc \in [Consumers -> ConsumerPC]
        /\ ccount \in [Consumers -> Int]
    BY DEF Init, ProducerPC, ConsumerPC
  <2>5. fin \in BOOLEAN
    BY DEF Init
  <2> QED
    BY <2>1, <2>2, <2>3, <2>4, <2>5 DEF TypeOK
<1>2. Taking = {} /\ Returning = {}
  BY DEF Init, Taking, Returning
<1>3. Cardinality(Taking) = 0 /\ Cardinality(Returning) = 0
  BY <1>2, FS_EmptySet
<1>4. ProducerInv /\ MutexInv /\ OutputInFileOrder
  BY PipelineAssumption
  DEF Init, ProducerInv, MutexInv, InCritical, OutputInFileOrder
<1>5. Stored = 0 /\ Occupied = 0
  BY DEF Init, Stored, Occupied
<1>6. SlotConservation /\ FullInv
  BY <1>3, <1>5, PipelineAssumption
  DEF Init, SlotConservation, FullInv, ProducerHolds
<1>7. RingInv
  BY <1>5, PipelineAssumption
  DEF Init, RingInv, SlotAfter, Slots, Empty
<1> QED
  BY <1>1, <1>4, <1>6, <1>7 DEF PipelineInv

(* A step that moves no index and stores and writes nothing leaves the     *)
(* ring as it is, as long as it does not change what counts as stored.     *)
LEMMA RingUnchanged ==
  ASSUME RingInv, UNCHANGED <<get, put, frams, fh264>>, Occupied' = Occupied
  PROVE  RingInv'
BY DEF RingInv, SlotAfter

(* Storing frame nread in the free slot put extends the occupied part of   *)
(* the ring by one slot at its end.                                        *)
LEMMA StoreKeepsRing ==
  ASSUME PipelineInv, StoreFrame
  PROVE  RingInv' /\ Occupied' = Occupied + 1
<1> DEFINE W == Len(fh264)
<1>1. /\ Occupied \in 0 .. Size - 1 /\ W \in Nat /\ nread = W + Occupied + 1
      /\ Occupied' = Occupied + 1
  BY OccupiedBounds, PipelineAssumption
  DEF PipelineInv, StoreFrame, ProducerGoes, Stored, Occupied, cons, TypeOK
<1>2. /\ put = SlotAfter(get, Occupied) /\ put \in Slots /\ get \in Slots
      /\ frams \in [Slots -> Frames \cup {Empty}]
      /\ get' = get /\ fh264' = fh264 /\ frams' = [frams EXCEPT ![put] = nread]
      /\ put' = NextSlot(put)
  BY DEF PipelineInv, RingInv, TypeOK, StoreFrame, cons
<1>3. put' = IF put + 1 = Size THEN 0 ELSE put + 1
  BY <1>2, NextSlotValue
<1>4. \A j \in 0 .. Size : SlotAfter(get', j) = SlotAfter(get, j)
  BY <1>2 DEF SlotAfter
<1>5. \A j \in 0 .. Occupied - 1 : SlotAfter(get, j) # put /\ SlotAfter(get, j) \in Slots
  BY <1>1, <1>2, PipelineAssumption DEF SlotAfter, Slots
<1>6. put' = SlotAfter(get', Occupied')
  BY <1>1, <1>2, <1>3, PipelineAssumption DEF SlotAfter, Slots
<1>7. \A j \in 0 .. Occupied' - 1 : frams'[SlotAfter(get', j)] = W + 1 + j
  <2> TAKE j \in 0 .. Occupied' - 1
  <2>1. CASE j = Occupied
    BY <2>1, <1>1, <1>2, <1>4, PipelineAssumption
  <2>2. CASE j \in 0 .. Occupied - 1
    <3>1. frams[SlotAfter(get, j)] = W + 1 + j
      BY <2>2 DEF PipelineInv, RingInv
    <3> QED
      BY <2>2, <3>1, <1>1, <1>2, <1>4, <1>5, PipelineAssumption
  <2> QED
    BY <2>1, <2>2, <1>1
<1>8. \A i \in Slots :
        \/ frams'[i] <= W
        \/ \E j \in 0 .. Occupied' - 1 : i = SlotAfter(get', j)
  <2> TAKE i \in Slots
  <2>1. CASE i = put
    BY <2>1, <1>1, <1>2, <1>4, PipelineAssumption
  <2>2. CASE i # put /\ frams[i] <= W
    BY <2>2, <1>2
  <2>3. CASE \E j \in 0 .. Occupied - 1 : i = SlotAfter(get, j)
    BY <2>3, <1>1, <1>4, PipelineAssumption
  <2> QED
    BY <2>1, <2>2, <2>3 DEF PipelineInv, RingInv
<1> QED
  BY <1>1, <1>2, <1>6, <1>7, <1>8 DEF RingInv

(* Writing the frame at get frees the first slot of the occupied part; the *)
(* frame written is the next one of the file.                              *)
LEMMA WriteKeepsRing ==
  ASSUME PipelineInv, NEW c \in Consumers, WriteFrame(c)
  PROVE  /\ RingInv' /\ Occupied' = Occupied - 1
         /\ frams[get] = Len(fh264) + 1 /\ frams[get] \in Frames
         /\ Len(fh264') = Len(fh264) + 1
         /\ Len(fh264) + 1 <= Stored
<1> DEFINE W == Len(fh264)
<1>1. c \in Taking
  BY DEF WriteFrame, ConsumerGoes, Taking
<1>2. /\ Occupied \in 1 .. Size /\ W \in Nat /\ Stored \in Int
  BY <1>1, OccupiedBounds, PipelineAssumption DEF PipelineInv
<1>3. /\ put = SlotAfter(get, Occupied) /\ put \in Slots /\ get \in Slots
      /\ frams \in [Slots -> Frames \cup {Empty}]
      /\ get' = NextSlot(get) /\ fh264' = Append(fh264, frams[get])
      /\ UNCHANGED <<put, frams, ppc, nread>>
      /\ fh264 \in Seq(Frames)
  BY DEF PipelineInv, RingInv, TypeOK, WriteFrame, prod
<1>4. get' = IF get + 1 = Size THEN 0 ELSE get + 1
  BY <1>3, NextSlotValue
<1>5. frams[get] = W + 1
  <2>1. SlotAfter(get, 0) = get
    BY <1>3, PipelineAssumption DEF SlotAfter, Slots
  <2>2. frams[SlotAfter(get, 0)] = W + 1 + 0
    BY <1>2 DEF PipelineInv, RingInv
  <2> QED
    BY <2>1, <2>2, <1>2
<1>6. frams[get] \in Frames
  BY <1>2, <1>3, <1>5 DEF Empty
<1>7. Len(fh264') = W + 1
  BY <1>3, <1>6
<1>8. Occupied' = Occupied - 1
  BY <1>2, <1>3, <1>7 DEF Occupied, Stored
<1>9. \A j \in 0 .. Size - 1 : SlotAfter(get', j) = SlotAfter(get, j + 1)
  BY <1>3, <1>4, PipelineAssumption DEF SlotAfter, Slots
<1>10. put' = SlotAfter(get', Occupied')
  <2>1. Occupied - 1 \in 0 .. Size - 1 /\ Occupied - 1 + 1 = Occupied
    BY <1>2, PipelineAssumption
  <2>2. SlotAfter(get', Occupied - 1) = SlotAfter(get, Occupied)
    BY <2>1, <1>9
  <2> QED
    BY <2>2, <1>3, <1>4, <1>8, PipelineAssumption DEF SlotAfter, Slots
<1>11. \A j \in 0 .. Occupied' - 1 : frams'[SlotAfter(get', j)] = Len(fh264') + 1 + j
  <2> TAKE j \in 0 .. Occupied' - 1
  <2>1. j \in 0 .. Size - 1 /\ j + 1 \in 0 .. Occupied - 1
    BY <1>2, <1>8, PipelineAssumption
  <2>2. frams[SlotAfter(get, j + 1)] = W + 1 + (j + 1)
    BY <2>1 DEF PipelineInv, RingInv
  <2> QED
    BY <2>1, <2>2, <1>2, <1>3, <1>7, <1>9
<1>12. \A i \in Slots :
        \/ frams'[i] <= Len(fh264')
        \/ \E j \in 0 .. Occupied' - 1 : i = SlotAfter(get', j)
  <2> TAKE i \in Slots
  <2>1. CASE frams[i] <= W
    BY <2>1, <1>2, <1>3, <1>7, PipelineAssumption DEF Frames, Empty
  <2>2. CASE \E j \in 0 .. Occupied - 1 : i = SlotAfter(get, j)
    <3>1. PICK j \in 0 .. Occupied - 1 : i = SlotAfter(get, j)
      BY <2>2
    <3>2. CASE j = 0
      <4>1. i = get
        BY <3>1, <3>2, <1>3, PipelineAssumption DEF SlotAfter, Slots
      <4> QED
        BY <4>1, <1>2, <1>3, <1>5, <1>7
    <3>3. CASE j # 0
      <4>1. /\ j - 1 \in 0 .. Size - 1 /\ j - 1 + 1 = j
            /\ j - 1 \in 0 .. Occupied' - 1
        BY <3>3, <1>2, <1>8, PipelineAssumption
      <4>2. i = SlotAfter(get', j - 1)
        BY <4>1, <3>1, <1>9
      <4> QED
        BY <4>1, <4>2
    <3> QED
      BY <3>2, <3>3
  <2> QED
    BY <2>1, <2>2 DEF PipelineInv, RingInv
<1>13. Len(fh264) + 1 <= Stored
  BY <1>2 DEF Occupied
<1> QED
  BY <1>5, <1>6, <1>7, <1>8, <1>10, <1>11, <1>12, <1>13 DEF RingInv

-----------------------------------------------------------------------------
(* A step of the producer changes nothing that belongs to the consumers.   *)
LEMMA ProducerLeavesConsumers ==
  ASSUME PipelineInv, UNCHANGED cons
  PROVE  /\ Taking' = Taking /\ Returning' = Returning
         /\ MutexInv' /\ OutputInFileOrder'
BY DEF PipelineInv, cons, Taking, Returning, MutexInv, InCritical,
       OutputInFileOrder

(* Types after a step of the producer.                                     *)
LEMMA ProducerTypes ==
  ASSUME PipelineInv, Producer
  PROVE  TypeOK'
<1> USE DEF PipelineInv, TypeOK, ProducerGoes, cons, file, ProducerPC
<1>1. CASE ReadFrame
  BY <1>1 DEF ReadFrame
<1>2. CASE EndOfFile
  BY <1>2 DEF EndOfFile
<1>3. CASE ShortRead
  BY <1>3 DEF ShortRead
<1>4. CASE WaitEmpty
  BY <1>4 DEF WaitEmpty
<1>5. CASE SendFrame
  <2>1. nread \in Frames
    BY <1>5, PipelineAssumption DEF SendFrame, ProducerInv, Frames
  <2> QED
    BY <1>5, <2>1 DEF SendFrame
<1>6. CASE LinkFrame
  <2>1. nread \in Frames
    BY <1>6, PipelineAssumption DEF LinkFrame, ProducerInv, Frames
  <2> QED
    BY <1>6, <2>1 DEF LinkFrame
<1>7. CASE StoreFrame
  <2>1. nread \in Frames
    BY <1>7, PipelineAssumption DEF StoreFrame, ProducerInv, Frames
  <2>2. NextSlot(put) \in Slots
    BY NextSlotValue
  <2> QED
    BY <1>7, <2>1, <2>2 DEF StoreFrame
<1>8. CASE ProducerLoadCount
  BY <1>8 DEF ProducerLoadCount
<1>9. CASE ProducerStoreCount
  BY <1>9 DEF ProducerStoreCount
<1>10. CASE PostFull
  BY <1>10 DEF PostFull
<1> QED
  BY <1>1, <1>2, <1>3, <1>4, <1>5, <1>6, <1>7, <1>8, <1>9, <1>10 DEF Producer

(* Every step of producer_list preserves the invariant.                    *)
LEMMA ProducerStep ==
  ASSUME PipelineInv, Producer
  PROVE  PipelineInv'
<1>1. TypeOK'
  BY ProducerTypes
<1>2. UNCHANGED cons
  BY DEF Producer, ReadFrame, EndOfFile, ShortRead, WaitEmpty, SendFrame,
         LinkFrame, StoreFrame, ProducerLoadCount, ProducerStoreCount, PostFull
<1>3. /\ Taking' = Taking /\ Returning' = Returning
      /\ MutexInv' /\ OutputInFileOrder'
  BY <1>2, ProducerLeavesConsumers
<1>4. Cardinality(Taking) \in Nat /\ Cardinality(Returning) \in Nat
  BY SetsAreNumbers
<1>5. TypeOK /\ ProducerInv /\ SlotConservation /\ FullInv /\ RingInv
  BY DEF PipelineInv
<1>6. /\ get' = get /\ fh264' = fh264 /\ Len(fh264) \in Nat
      /\ s_empty \in Nat /\ s_full \in Nat /\ nread \in Nat
      /\ Occupied \in Int
  BY <1>2, <1>5, LenIsNat, OccupiedBounds, PipelineAssumption DEF cons, TypeOK
<1> SUFFICES ProducerInv' /\ SlotConservation' /\ FullInv' /\ RingInv'
  BY <1>1, <1>3 DEF PipelineInv
<1> USE DEF ProducerGoes
<1>7. CASE ReadFrame
  <2>1. UNCHANGED <<s_empty, s_full, put, frams, clintConnt, frame_head>>
        /\ Occupied' = Occupied
    BY <1>5, <1>6, <1>7 DEF ReadFrame, TypeOK, Stored, Occupied
  <2>2. ProducerInv'
    BY <1>5, <1>7, <2>1 DEF ReadFrame, TypeOK, ProducerInv
  <2>3. SlotConservation' /\ FullInv'
    BY <1>3, <1>4, <1>5, <1>6, <1>7, <2>1
    DEF ReadFrame, SlotConservation, FullInv, ProducerHolds
  <2> QED
    BY <1>5, <1>6, <2>1, <2>2, <2>3, RingUnchanged
<1>8. CASE EndOfFile \/ ShortRead
  <2>1. UNCHANGED <<s_empty, s_full, put, frams, clintConnt, frame_head>>
        /\ Occupied' = Occupied
    BY <1>5, <1>6, <1>8 DEF EndOfFile, ShortRead, Stored, Occupied
  <2>2. ProducerInv'
    BY <1>5, <1>8, <2>1 DEF EndOfFile, ShortRead, TypeOK, ProducerInv, file
  <2>3. SlotConservation' /\ FullInv'
    BY <1>3, <1>4, <1>5, <1>6, <1>8, <2>1
    DEF EndOfFile, ShortRead, SlotConservation, FullInv, ProducerHolds
  <2> QED
    BY <1>5, <1>6, <2>1, <2>2, <2>3, RingUnchanged
<1>9. CASE WaitEmpty
  <2>1. UNCHANGED <<s_full, put, frams, clintConnt, frame_head>>
        /\ Occupied' = Occupied
    BY <1>5, <1>6, <1>9 DEF WaitEmpty, Stored, Occupied
  <2>2. ProducerInv'
    BY <1>5, <1>9, <2>1 DEF WaitEmpty, TypeOK, ProducerInv
  <2>3. SlotConservation' /\ FullInv'
    BY <1>3, <1>4, <1>5, <1>6, <1>9, <2>1
    DEF WaitEmpty, SlotConservation, FullInv, ProducerHolds
  <2> QED
    BY <1>5, <1>6, <2>1, <2>2, <2>3, RingUnchanged
<1>10. CASE SendFrame
  <2>1. UNCHANGED <<s_empty, s_full, put, frams, frame_head>>
        /\ Occupied' = Occupied
    BY <1>5, <1>6, <1>10 DEF SendFrame, Stored, Occupied
  <2>2. nread \in Frames
    BY <1>5, <1>10, PipelineAssumption DEF SendFrame, TypeOK, ProducerInv, Frames
  <2>3. /\ Len(clintConnt') = nread
        /\ \A i \in 1 .. Len(clintConnt') : clintConnt'[i] = i
    BY <1>5, <1>10, <2>2 DEF SendFrame, TypeOK, ProducerInv
  <2>4. ProducerInv'
    BY <1>5, <1>10, <2>1, <2>3 DEF SendFrame, TypeOK, ProducerInv
  <2>5. SlotConservation' /\ FullInv'
    BY <1>3, <1>4, <1>5, <1>6, <1>10, <2>1
    DEF SendFrame, SlotConservation, FullInv, ProducerHolds
  <2> QED
    BY <1>5, <1>6, <2>1, <2>4, <2>5, RingUnchanged
<1>11. CASE LinkFrame
  <2>1. UNCHANGED <<s_empty, s_full, put, frams, clintConnt>>
        /\ Occupied' = Occupied
    BY <1>5, <1>6, <1>11 DEF LinkFrame, Stored, Occupied
  <2>2. nread \in Frames
    BY <1>5, <1>11, PipelineAssumption DEF LinkFrame, TypeOK, ProducerInv, Frames
  <2>3. /\ Len(frame_head') = nread
        /\ \A i \in 1 .. Len(frame_head') : frame_head'[i] = i
    BY <1>5, <1>11, <2>2 DEF LinkFrame, TypeOK, ProducerInv
  <2>4. ProducerInv'
    BY <1>5, <1>11, <2>1, <2>3 DEF LinkFrame, TypeOK, ProducerInv
  <2>5. SlotConservation' /\ FullInv'
    BY <1>3, <1>4, <1>5, <1>6, <1>11, <2>1
    DEF LinkFrame, SlotConservation, FullInv, ProducerHolds
  <2> QED
    BY <1>5, <1>6, <2>1, <2>4, <2>5, RingUnchanged
<1>12. CASE StoreFrame
  <2>1. RingInv' /\ Occupied' = Occupied + 1
    BY <1>12, StoreKeepsRing
  <2>2. UNCHANGED <<s_empty, s_full, clintConnt, frame_head, nread>>
    BY <1>12 DEF StoreFrame
  <2>3. ProducerInv'
    BY <1>5, <1>12, <2>2 DEF StoreFrame, TypeOK, ProducerInv
  <2>4. SlotConservation'
    BY <1>3, <1>4, <1>5, <1>6, <1>12, <2>2
    DEF StoreFrame, SlotConservation, ProducerHolds
  <2>5. FullInv'
    <3>1. Occupied = s_full + Cardinality(Taking)
      BY <1>4, <1>5, <1>6, <1>12 DEF StoreFrame, FullInv
    <3>2. Occupied' = s_full' + Cardinality(Taking') + 1
      BY <1>3, <1>4, <1>6, <2>1, <2>2, <3>1
    <3> QED
      BY <1>12, <3>2 DEF StoreFrame, FullInv
  <2> QED
    BY <2>1, <2>3, <2>4, <2>5
<1>13. CASE ProducerLoadCount \/ ProducerStoreCount
  <2>1. UNCHANGED <<s_empty, s_full, put, frams, clintConnt, frame_head>>
        /\ Occupied' = Occupied
    BY <1>5, <1>6, <1>13 DEF ProducerLoadCount, ProducerStoreCount, Stored, Occupied
  <2>2. ProducerInv'
    BY <1>5, <1>13, <2>1
    DEF ProducerLoadCount, ProducerStoreCount, TypeOK, ProducerInv
  <2>3. SlotConservation' /\ FullInv'
    BY <1>3, <1>4, <1>5, <1>6, <1>13, <2>1
    DEF ProducerLoadCount, ProducerStoreCount, SlotConservation, FullInv,
        ProducerHolds
  <2> QED
    BY <1>5, <1>6, <2>1, <2>2, <2>3, RingUnchanged
<1>14. CASE PostFull
  <2>1. UNCHANGED <<s_empty, put, frams, clintConnt, frame_head>>
        /\ Occupied' = Occupied
    BY <1>5, <1>6, <1>14 DEF PostFull, Stored, Occupied
  <2>2. ProducerInv'
    BY <1>5, <1>14, <2>1 DEF PostFull, TypeOK, ProducerInv
  <2>3. SlotConservation' /\ FullInv'
    BY <1>3, <1>4, <1>5, <1>6, <1>14, <2>1
    DEF PostFull, SlotConservation, FullInv, ProducerHolds
  <2> QED
    BY <1>5, <1>6, <2>1, <2>2, <2>3, RingUnchanged
<1> QED
  BY <1>7, <1>8, <1>9, <1>10, <1>11, <1>12, <1>13, <1>14 DEF Producer

-----------------------------------------------------------------------------
(* How the two sets of consumers change when c moves from one place of     *)
(* its loop to another.                                                    *)
LEMMA ConsumerMoves ==
  ASSUME TypeOK, NEW c \in Consumers, NEW from, NEW to \in ConsumerPC,
         ConsumerGoes(c, from, to)
  PROVE  /\ cpc' \in [Consumers -> ConsumerPC]
         /\ cpc[c] = from /\ cpc'[c] = to
         /\ \A d \in Consumers \ {c} : cpc'[d] = cpc[d]
         /\ Taking' = IF to \in {"lock", "write"}
                      THEN Taking \cup {c} ELSE Taking \ {c}
         /\ Returning' =
              IF to \in {"load_count", "store_count", "unlock", "post_empty"}
              THEN Returning \cup {c} ELSE Returning \ {c}
         /\ c \in Taking <=> from \in {"lock", "write"}
         /\ c \in Returning <=>
              from \in {"load_count", "store_count", "unlock", "post_empty"}
BY DEF ConsumerGoes, TypeOK, Taking, Returning

(* A step of a consumer changes nothing that belongs to the producer.      *)
LEMMA ConsumerLeavesProducer ==
  ASSUME PipelineInv, UNCHANGED <<file, prod>>
  PROVE  ProducerInv' /\ Stored' = Stored /\ (ProducerHolds' <=> ProducerHolds)
BY DEF PipelineInv, file, prod, ProducerInv, Stored, ProducerHolds

(* Types after a step of a consumer.                                       *)
LEMMA ConsumerTypes ==
  ASSUME PipelineInv, NEW c \in Consumers, Consumer(c)
  PROVE  TypeOK'
<1> USE DEF PipelineInv, TypeOK, ConsumerGoes, prod, file, ConsumerPC
<1>1. CASE TestFin(c)
  BY <1>1 DEF TestFin
<1>2. CASE TestCount(c)
  BY <1>2 DEF TestCount
<1>3. CASE WaitFull(c)
  BY <1>3 DEF WaitFull
<1>4. CASE Lock(c)
  BY <1>4 DEF Lock
<1>5. CASE WriteFrame(c)
  <2>1. frams[get] \in Frames
    BY <1>5, WriteKeepsRing
  <2>2. NextSlot(get) \in Slots
    BY NextSlotValue
  <2> QED
    BY <1>5, <2>1, <2>2 DEF WriteFrame
<1>6. CASE ConsumerLoadCount(c)
  BY <1>6 DEF ConsumerLoadCount
<1>7. CASE ConsumerStoreCount(c)
  BY <1>7 DEF ConsumerStoreCount
<1>8. CASE Unlock(c)
  BY <1>8 DEF Unlock
<1>9. CASE PostEmpty(c)
  BY <1>9 DEF PostEmpty
<1> QED
  BY <1>1, <1>2, <1>3, <1>4, <1>5, <1>6, <1>7, <1>8, <1>9 DEF Consumer

(* Steps that touch neither semaphores, ring nor output, and stay on the   *)
(* same side of both counts.                                               *)
LEMMA SameAccount ==
  ASSUME PipelineInv, UNCHANGED <<file, prod, s_full, s_empty, get, fh264>>,
         Taking' = Taking, Returning' = Returning
  PROVE  SlotConservation' /\ FullInv' /\ RingInv' /\ OutputInFileOrder'
<1>1. /\ ProducerHolds' <=> ProducerHolds
      /\ Stored' = Stored /\ Occupied' = Occupied
  BY ConsumerLeavesProducer DEF Occupied
<1>2. SlotConservation' /\ FullInv' /\ OutputInFileOrder'
  BY <1>1 DEF PipelineInv, SlotConservation, FullInv, OutputInFileOrder, prod
<1>3. RingInv'
  BY <1>1, RingUnchanged DEF PipelineInv, prod
<1> QED
  BY <1>2, <1>3

(* Every step of consumer_list preserves the invariant.                    *)
LEMMA ConsumerStep ==
  ASSUME PipelineInv, NEW c \in Consumers, Consumer(c)
  PROVE  PipelineInv'
<1>1. TypeOK'
  BY ConsumerTypes
<1>2. UNCHANGED <<file, prod>>
  BY DEF Consumer, TestFin, TestCount, WaitFull, Lock, WriteFrame,
         ConsumerLoadCount, ConsumerStoreCount, Unlock, PostEmpty
<1>3. ProducerInv' /\ Stored' = Stored /\ (ProducerHolds' <=> ProducerHolds)
  BY <1>2, ConsumerLeavesProducer
<1>4. TypeOK /\ MutexInv /\ SlotConservation /\ FullInv /\ RingInv
  BY DEF PipelineInv
<1>5. /\ Cardinality(Taking) \in Nat /\ Cardinality(Returning) \in Nat
      /\ Taking \in SUBSET Consumers /\ Returning \in SUBSET Consumers
      /\ s_full \in Nat /\ s_empty \in Nat /\ Occupied \in Int
      /\ Taking \cap Returning = {}
  BY SetsAreNumbers, OccupiedBounds, PipelineAssumption
  DEF PipelineInv, TypeOK, Taking, Returning
<1> SUFFICES /\ MutexInv' /\ SlotConservation' /\ FullInv'
             /\ OutputInFileOrder' /\ RingInv'
  BY <1>1, <1>3 DEF PipelineInv
<1>6. CASE TestFin(c) \/ TestCount(c)
  <2>1. PICK from \in {"test_fin", "test_count"},
             to \in {"done", "test_fin", "test_count", "wait_full"} :
           ConsumerGoes(c, from, to)
    BY <1>6 DEF TestFin, TestCount
  <2>2. Taking' = Taking /\ Returning' = Returning
    BY <1>4, <2>1, ConsumerMoves DEF ConsumerPC
  <2>3. UNCHANGED <<s_full, s_empty, get, m, fh264>>
    BY <1>6 DEF TestFin, TestCount
  <2>4. MutexInv'
    BY <1>4, <2>1, <2>3, ConsumerMoves DEF ConsumerPC, MutexInv, InCritical
  <2> QED
    BY <1>2, <2>2, <2>3, <2>4, SameAccount
<1>7. CASE WaitFull(c)
  <2>1. ConsumerGoes(c, "wait_full", "lock")
    BY <1>7 DEF WaitFull
  <2>2. /\ Taking' = Taking \cup {c} /\ c \notin Taking
        /\ Returning' = Returning
    BY <1>4, <2>1, ConsumerMoves DEF ConsumerPC
  <2>3. Cardinality(Taking') = Cardinality(Taking) + 1
    BY <1>5, <2>2, OneMore
  <2>4. /\ UNCHANGED <<s_empty, get, m, fh264>> /\ s_full' = s_full - 1
        /\ Occupied' = Occupied
    BY <1>3, <1>7 DEF WaitFull, Occupied
  <2>5. MutexInv'
    BY <1>4, <2>1, <2>4, ConsumerMoves DEF ConsumerPC, MutexInv, InCritical
  <2>6. SlotConservation' /\ FullInv'
    BY <1>2, <1>3, <1>4, <1>5, <2>2, <2>3, <2>4
    DEF SlotConservation, FullInv, prod
  <2>7. RingInv' /\ OutputInFileOrder'
    BY <1>2, <1>4, <2>4, RingUnchanged
    DEF PipelineInv, OutputInFileOrder, prod
  <2> QED
    BY <2>5, <2>6, <2>7
<1>8. CASE Lock(c)
  <2>1. ConsumerGoes(c, "lock", "write") /\ m = NoThread /\ m' = c
    BY <1>8 DEF Lock
  <2>2. Taking' = Taking /\ Returning' = Returning
    BY <1>4, <2>1, ConsumerMoves DEF ConsumerPC
  <2>3. UNCHANGED <<s_full, s_empty, get, fh264>>
    BY <1>8 DEF Lock
  <2>4. MutexInv'
    BY <1>4, <2>1, ConsumerMoves, PipelineAssumption
    DEF ConsumerPC, MutexInv, InCritical
  <2> QED
    BY <1>2, <2>2, <2>3, <2>4, SameAccount
<1>9. CASE WriteFrame(c)
  <2>1. ConsumerGoes(c, "write", "load_count")
    BY <1>9 DEF WriteFrame
  <2>2. /\ Taking' = Taking \ {c} /\ c \in Taking
        /\ Returning' = Returning \cup {c} /\ c \notin Returning
    BY <1>4, <2>1, ConsumerMoves DEF ConsumerPC
  <2>3. /\ Cardinality(Taking') = Cardinality(Taking) - 1
        /\ Cardinality(Returning') = Cardinality(Returning) + 1
    BY <1>5, <2>2, OneMore
  <2>4. /\ RingInv' /\ Occupied' = Occupied - 1
        /\ frams[get] = Len(fh264) + 1 /\ frams[get] \in Frames
    BY <1>9, WriteKeepsRing
  <2>5. UNCHANGED <<s_full, s_empty, m>> /\ fh264' = Append(fh264, frams[get])
    BY <1>9 DEF WriteFrame
  <2>6. MutexInv'
    BY <1>4, <2>1, <2>5, ConsumerMoves DEF ConsumerPC, MutexInv, InCritical
  <2>7. SlotConservation' /\ FullInv'
    <3>1. ppc' = ppc /\ s_full' = s_full /\ s_empty' = s_empty
      BY <1>2, <2>5 DEF prod
    <3>2. SlotConservation'
      BY <1>3, <1>4, <1>5, <2>3, <3>1, PipelineAssumption DEF SlotConservation
    <3>3. FullInv'
      BY <1>4, <1>5, <2>3, <2>4, <3>1 DEF FullInv
    <3> QED
      BY <3>2, <3>3
  <2>8. OutputInFileOrder'
    <3>1. fh264 \in Seq(Frames) /\ \A i \in 1 .. Len(fh264) : fh264[i] = i
      BY DEF PipelineInv, TypeOK, OutputInFileOrder
    <3> QED
      BY <2>4, <2>5, <3>1 DEF OutputInFileOrder
  <2> QED
    BY <2>4, <2>6, <2>7, <2>8
<1>10. CASE ConsumerLoadCount(c) \/ ConsumerStoreCount(c)
  <2>1. PICK from \in {"load_count", "store_count"},
             to \in {"store_count", "unlock"} :
           ConsumerGoes(c, from, to)
    BY <1>10 DEF ConsumerLoadCount, ConsumerStoreCount
  <2>2. Taking' = Taking /\ Returning' = Returning
    BY <1>4, <2>1, ConsumerMoves DEF ConsumerPC
  <2>3. UNCHANGED <<s_full, s_empty, get, m, fh264>>
    BY <1>10 DEF ConsumerLoadCount, ConsumerStoreCount
  <2>4. MutexInv'
    BY <1>4, <2>1, <2>3, ConsumerMoves DEF ConsumerPC, MutexInv, InCritical
  <2> QED
    BY <1>2, <2>2, <2>3, <2>4, SameAccount
<1>11. CASE Unlock(c)
  <2>1. ConsumerGoes(c, "unlock", "post_empty") /\ m' = NoThread
    BY <1>11 DEF Unlock
  <2>2. Taking' = Taking /\ Returning' = Returning
    BY <1>4, <2>1, ConsumerMoves DEF ConsumerPC
  <2>3. UNCHANGED <<s_full, s_empty, get, fh264>>
    BY <1>11 DEF Unlock
  <2>4. MutexInv'
    BY <1>4, <2>1, ConsumerMoves, PipelineAssumption
    DEF ConsumerPC, MutexInv, InCritical
  <2> QED
    BY <1>2, <2>2, <2>3, <2>4, SameAccount
<1>12. CASE PostEmpty(c)
  <2>1. ConsumerGoes(c, "post_empty", "test_fin")
    BY <1>12 DEF PostEmpty
  <2>2. /\ Taking' = Taking
        /\ Returning' = Returning \ {c} /\ c \in Returning
    BY <1>4, <2>1, ConsumerMoves DEF ConsumerPC
  <2>3. Cardinality(Returning') = Cardinality(Returning) - 1
    BY <1>5, <2>2, OneMore
  <2>4. /\ UNCHANGED <<s_full, get, m, fh264>> /\ s_empty' = s_empty + 1
        /\ Occupied' = Occupied
    BY <1>3, <1>12 DEF PostEmpty, Occupied
  <2>5. MutexInv'
    BY <1>4, <2>1, <2>4, ConsumerMoves DEF ConsumerPC, MutexInv, InCritical
  <2>6. SlotConservation' /\ FullInv'
    BY <1>2, <1>3, <1>4, <1>5, <2>2, <2>3, <2>4
    DEF SlotConservation, FullInv, prod
  <2>7. RingInv' /\ OutputInFileOrder'
    BY <1>2, <1>4, <2>4, RingUnchanged
    DEF PipelineInv, OutputInFileOrder, prod
  <2> QED
    BY <2>5, <2>6, <2>7
<1> QED
  BY <1>6, <1>7, <1>8, <1>9, <1>10, <1>11, <1>12 DEF Consumer

-----------------------------------------------------------------------------
(* Theorems                                                                *)

(* Every step of the specification preserves the invariant.                *)
LEMMA NextKeepsInv == PipelineInv /\ [Next]_vars => PipelineInv'
<1> SUFFICES ASSUME PipelineInv, [Next]_vars PROVE PipelineInv'
  OBVIOUS
<1>1. CASE Producer
  BY <1>1, ProducerStep
<1>2. CASE \E c \in Consumers : Consumer(c)
  BY <1>2, ConsumerStep
<1>3. CASE UNCHANGED vars
  <2>1. UNCHANGED <<file, prod, m, cpc, ccount, get, fh264, count, fin,
                    s_full, s_empty>>
    BY <1>3 DEF vars, cons
  <2>2. Taking' = Taking /\ Returning' = Returning
    BY <2>1 DEF Taking, Returning
  <2>3. TypeOK' /\ MutexInv'
    BY <2>1 DEF PipelineInv, TypeOK, MutexInv, InCritical, file, prod
  <2>4. ProducerInv'
    BY <2>1, ConsumerLeavesProducer
  <2> QED
    BY <2>1, <2>2, <2>3, <2>4, SameAccount DEF PipelineInv
<1> QED
  BY <1>1, <1>2, <1>3 DEF Next

(* Every reachable state satisfies the inductive invariant.                *)
THEOREM InvariantHolds == Spec => []PipelineInv
<1> QED
  BY InitInv, NextKeepsInv, PTL DEF Spec

(* Every variable keeps its type; in particular nothing but frames of the  *)
(* file ever reaches a sink, and no index ever leaves the ring.            *)
THEOREM TypesHold == Spec => []TypeOK
<1>1. PipelineInv => TypeOK
  BY DEF PipelineInv
<1> QED
  BY <1>1, InvariantHolds, PTL

(* No slot of the ring is ever leaked or invented, for any number of       *)
(* consumers and any ring.                                                 *)
THEOREM SlotsAreConserved == Spec => []SlotConservation
<1>1. PipelineInv => SlotConservation
  BY DEF PipelineInv
<1> QED
  BY <1>1, InvariantHolds, PTL

(* BB.h264 is always a run of the file's first frames, in order, although  *)
(* count is updated in a race.                                             *)
THEOREM OutputIsInFileOrder == Spec => []OutputInFileOrder
<1>1. PipelineInv => OutputInFileOrder
  BY DEF PipelineInv
<1> QED
  BY <1>1, InvariantHolds, PTL

(* When all threads have ended, at most the last Size frames are missing.  *)
THEOREM TailLossIsBounded == Spec => []TailLossAtMostRing
<1>1. PipelineInv => TailLossAtMostRing
  <2> SUFFICES ASSUME PipelineInv, ppc = "done" PROVE total - Len(fh264) \in 0 .. Size
    BY DEF TailLossAtMostRing
  <2>1. Stored = total
    BY DEF PipelineInv, ProducerInv, Stored
  <2> QED
    BY <2>1, OccupiedBounds DEF PipelineInv, Occupied
<1> QED
  BY <1>1, InvariantHolds, PTL

(* A store into the ring never destroys a frame that is still to be        *)
(* written.                                                                *)
THEOREM NothingUnwrittenIsOverwritten == Spec => NoUnwrittenOverwritten
<1> DEFINE Kept == \A i \in Slots : frams'[i] # frams[i]
        => frams[i] = Empty \/ \E k \in 1 .. Len(fh264) : fh264[k] = frams[i]
<1>1. PipelineInv /\ [Next]_vars => [Kept]_vars
  <2> SUFFICES ASSUME PipelineInv, Next PROVE Kept
    OBVIOUS
  <2>1. CASE ~StoreFrame
    <3>1. frams' = frams
      BY <2>1 DEF Next, Producer, ReadFrame, EndOfFile, ShortRead, WaitEmpty,
         SendFrame, LinkFrame, ProducerLoadCount, ProducerStoreCount, PostFull,
         Consumer, TestFin, TestCount, WaitFull, Lock, WriteFrame,
         ConsumerLoadCount, ConsumerStoreCount, Unlock, PostEmpty, prod
    <3> QED
      BY <3>1
  <2>2. CASE StoreFrame
    <3> SUFFICES ASSUME NEW i \in Slots, frams'[i] # frams[i], frams[i] # Empty
                 PROVE  \E k \in 1 .. Len(fh264) : fh264[k] = frams[i]
      OBVIOUS
    <3>1. /\ put = SlotAfter(get, Occupied) /\ get \in Slots /\ put \in Slots
          /\ frams \in [Slots -> Frames \cup {Empty}]
          /\ \A k \in 1 .. Len(fh264) : fh264[k] = k
      BY DEF PipelineInv, RingInv, TypeOK, OutputInFileOrder
    <3>2. i = put
      BY <2>2, <3>1 DEF StoreFrame
    <3>3. Occupied \in 0 .. Size - 1 /\ Len(fh264) \in Nat
      BY <2>2, OccupiedBounds, PipelineAssumption
      DEF PipelineInv, StoreFrame, ProducerGoes
    <3>4. \A j \in 0 .. Occupied - 1 : i # SlotAfter(get, j)
      BY <3>1, <3>2, <3>3, PipelineAssumption DEF SlotAfter, Slots
    <3>5. frams[i] <= Len(fh264)
      BY <3>4 DEF PipelineInv, RingInv
    <3>6. frams[i] \in 1 .. Len(fh264)
      BY <3>1, <3>3, <3>5, PipelineAssumption DEF Frames, Empty
    <3> QED
      BY <3>1, <3>6
  <2> QED
    BY <2>1, <2>2
<1> QED
  BY <1>1, InvariantHolds, PTL DEF Spec, NoUnwrittenOverwritten

(* The pipeline implements the three sinks of FrameDelivery.               *)
THEOREM PipelineImplementsDelivery == Spec => DeliverySpec
<1>1. Init => Delivery!Init
  BY DEF Init, Delivery!Init
<1>2. PipelineInv /\ [Next]_vars => [Delivery!Next]_(Delivery!sinks)
  <2> SUFFICES ASSUME PipelineInv, [Next]_vars,
                      ~ UNCHANGED <<clintConnt, frame_head, fh264>>
               PROVE  Delivery!Next
    BY DEF Delivery!sinks
  <2>1. SendFrame \/ LinkFrame \/ \E c \in Consumers : WriteFrame(c)
    BY DEF Next, vars, Producer, ReadFrame, EndOfFile, ShortRead, WaitEmpty,
           StoreFrame, ProducerLoadCount, ProducerStoreCount, PostFull,
           Consumer, TestFin, TestCount, WaitFull, Lock, ConsumerLoadCount,
           ConsumerStoreCount, Unlock, PostEmpty, prod, cons
  <2>2. /\ Len(fh264) \in Nat /\ nread \in Nat /\ Size \in Nat
        /\ ProducerInv
    BY LenIsNat, PipelineAssumption DEF PipelineInv, TypeOK
  <2>3. CASE SendFrame
    <3>1. /\ ppc = "send" /\ clintConnt' = Append(clintConnt, nread)
          /\ UNCHANGED <<frame_head, fh264>>
      BY <2>3 DEF SendFrame, ProducerGoes, cons
    <3>2. Len(clintConnt) = nread - 1 /\ Len(frame_head) = nread - 1
      BY <2>2, <3>1 DEF ProducerInv
    <3>3. nread - 1 - Len(fh264) <= Size - 1
      BY <3>1, OccupiedBounds DEF PipelineInv, Occupied, Stored
    <3> QED
      BY <2>2, <3>1, <3>2, <3>3 DEF Delivery!Next, Delivery!Send
  <2>4. CASE LinkFrame
    <3>1. /\ ppc = "link" /\ frame_head' = Append(frame_head, nread)
          /\ UNCHANGED <<clintConnt, fh264>>
      BY <2>4 DEF LinkFrame, ProducerGoes, cons
    <3>2. Len(clintConnt) = nread /\ Len(frame_head) = nread - 1
      BY <2>2, <3>1 DEF ProducerInv
    <3> QED
      BY <2>2, <3>1, <3>2 DEF Delivery!Next, Delivery!Link
  <2>5. CASE \E c \in Consumers : WriteFrame(c)
    <3>1. PICK c \in Consumers : WriteFrame(c)
      BY <2>5
    <3>2. /\ fh264' = Append(fh264, frams[get])
          /\ UNCHANGED <<clintConnt, frame_head>>
      BY <3>1 DEF WriteFrame, prod
    <3>3. frams[get] = Len(fh264) + 1 /\ Len(fh264) + 1 <= Stored
      BY <3>1, WriteKeepsRing
    <3>4. Len(fh264) < Len(frame_head)
      BY <2>2, <3>3 DEF Stored, ProducerInv
    <3> QED
      BY <3>2, <3>3, <3>4 DEF Delivery!Next, Delivery!Write
  <2> QED
    BY <2>1, <2>3, <2>4, <2>5
<1> QED
  BY <1>1, <1>2, InvariantHolds, PTL DEF Spec, DeliverySpec, Delivery!Spec

-----------------------------------------------------------------------------
(* One consumer, as the code is built.                                     *)

(* Nobody but the one consumer takes frames off count, and it does so only *)
(* after it saw one there.  So count is never negative, and it is positive *)
(* from the test on until the consumer stores it, whatever updates of the  *)
(* producer's are lost.                                                    *)
CountInv ==
  /\ count >= 0 /\ pcount >= 0
  /\ \A c \in Consumers :
        /\ cpc[c] \in {"wait_full", "lock", "write", "load_count"} => count >= 1
        /\ cpc[c] = "store_count" => ccount[c] >= 1

(* Every step preserves it, when there is one consumer.                    *)
LEMMA CountStep ==
  ASSUME NEW c \in Consumers, Consumers = {c}, TypeOK, CountInv, [Next]_vars
  PROVE  CountInv'
<1>1. /\ count \in Int /\ pcount \in Int /\ ccount[c] \in Int
      /\ count >= 0 /\ pcount >= 0
      /\ cpc[c] \in {"wait_full", "lock", "write", "load_count"} => count >= 1
      /\ cpc[c] = "store_count" => ccount[c] >= 1
  BY DEF TypeOK, CountInv
<1> SUFFICES /\ count' >= 0 /\ pcount' >= 0
             /\ cpc'[c] \in {"wait_full", "lock", "write", "load_count"} => count' >= 1
             /\ cpc'[c] = "store_count" => ccount'[c] >= 1
  BY DEF CountInv
<1>2. CASE Producer
  <2>1. UNCHANGED <<cpc, ccount>>
    BY <1>2 DEF Producer, ReadFrame, EndOfFile, ShortRead, WaitEmpty, SendFrame,
       LinkFrame, StoreFrame, ProducerLoadCount, ProducerStoreCount, PostFull, cons
  <2>2. /\ count' = count \/ count' = pcount + 1
        /\ pcount' = pcount \/ pcount' = count
    BY <1>2 DEF Producer, ReadFrame, EndOfFile, ShortRead, WaitEmpty, SendFrame,
       LinkFrame, StoreFrame, ProducerLoadCount, ProducerStoreCount, PostFull
  <2> QED
    BY <1>1, <2>1, <2>2
<1>3. CASE Consumer(c)
  <2>1. /\ cpc \in [Consumers -> ConsumerPC] /\ ccount \in [Consumers -> Int]
      BY DEF TypeOK
  <2>2. pcount' = pcount
    BY <1>3 DEF Consumer, TestFin, TestCount, WaitFull, Lock, WriteFrame,
       ConsumerLoadCount, ConsumerStoreCount, Unlock, PostEmpty, prod
  <2>3. CASE TestFin(c) \/ TestCount(c)
    BY <1>1, <2>1, <2>2, <2>3 DEF TestFin, TestCount, ConsumerGoes
  <2>4. CASE WaitFull(c) \/ Lock(c) \/ WriteFrame(c)
    BY <1>1, <2>1, <2>2, <2>4 DEF WaitFull, Lock, WriteFrame, ConsumerGoes
  <2>5. CASE ConsumerLoadCount(c)
    BY <1>1, <2>1, <2>2, <2>5 DEF ConsumerLoadCount, ConsumerGoes
  <2>6. CASE ConsumerStoreCount(c)
    BY <1>1, <2>1, <2>2, <2>6 DEF ConsumerStoreCount, ConsumerGoes
  <2>7. CASE Unlock(c) \/ PostEmpty(c)
    BY <1>1, <2>1, <2>2, <2>7 DEF Unlock, PostEmpty, ConsumerGoes
  <2> QED
    BY <1>3, <2>3, <2>4, <2>5, <2>6, <2>7 DEF Consumer
<1>4. CASE UNCHANGED vars
  BY <1>1, <1>4 DEF vars, prod, cons
<1> QED
  BY <1>2, <1>3, <1>4 DEF Next

(* What the two invariants say of a pipeline that is stuck: a consumer     *)
(* that waits for a frame not announced has seen a frame that is not       *)
(* queued, and when the ring is full count cannot be 0 and right.          *)
LEMMA StuckMeansWrong ==
  ASSUME NEW c \in Consumers, Consumers = {c}, PipelineInv, CountInv
  PROVE  StuckOnlyByLostUpdate
<1>1. TypeOK /\ ProducerInv /\ SlotConservation /\ FullInv
  BY DEF PipelineInv
<1>2. /\ count \in Int /\ nread \in Int /\ Len(fh264) \in Int
      /\ s_full \in Nat /\ s_empty \in Nat /\ ppc \in ProducerPC
  BY <1>1, LenIsNat, PipelineAssumption DEF TypeOK
<1>3. ASSUME cpc[c] \in {"wait_full", "test_fin", "test_count"}
      PROVE  /\ Cardinality(Taking) = 0 /\ Cardinality(Returning) = 0
             /\ Queued = Occupied - IF ppc \in {"load_count", "store_count"} THEN 1 ELSE 0
  <2>1. Taking = {} /\ Returning = {}
        /\ {d \in Consumers : cpc[d] \in {"load_count", "store_count"}} = {}
    BY <1>3 DEF Taking, Returning
  <2>2. Cardinality({}) = 0
    BY FS_EmptySet
  <2>3. Queued = (IF ppc = "read" \/ ppc = "done" \/ ppc = "post_full"
                  THEN nread ELSE nread - 1) - (Len(fh264) - 0)
    BY <2>1, <2>2 DEF Queued
  <2>4. Queued = Occupied - IF ppc \in {"load_count", "store_count"} THEN 1 ELSE 0
    BY <1>2, <2>3 DEF Occupied, Stored, ProducerPC
  <2> QED
    BY <2>1, <2>2, <2>4
<1>4. ASSUME ConsumerStuck(c)
      PROVE  count # Queued
  <2>1. cpc[c] = "wait_full" /\ s_full = 0 /\ ppc # "post_full"
    BY <1>4 DEF ConsumerStuck
  <2>2. count >= 1
    BY <2>1 DEF CountInv
  <2>3. Queued = 0
    BY <1>1, <1>2, <1>3, <2>1 DEF FullInv
  <2> QED
    BY <2>2, <2>3
<1>5. ASSUME ProducerStuck
      PROVE  count # Queued
  <2>1. /\ ppc = "wait_empty" /\ s_empty = 0 /\ count <= 0
        /\ cpc[c] \in {"test_fin", "test_count"}
    BY <1>5 DEF ProducerStuck
  <2>2. s_full = Size
    BY <1>1, <1>2, <1>3, <2>1 DEF SlotConservation, ProducerHolds
  <2>3. Queued = Size
    BY <1>1, <1>2, <1>3, <2>1, <2>2, PipelineAssumption DEF FullInv
  <2> QED
    BY <2>1, <2>3, <1>2, PipelineAssumption
<1> QED
  BY <1>4, <1>5 DEF StuckOnlyByLostUpdate

(* With the one consumer the code starts, a pipeline that is stuck for     *)
(* ever has lost an update of count: neither the order of the semaphores   *)
(* and the mutex nor the test of count before the wait can do it alone.    *)
THEOREM StuckMeansLostUpdate ==
  ASSUME NEW c \in Consumers, Consumers = {c}
  PROVE  Spec => []StuckOnlyByLostUpdate
<1>1. Init => PipelineInv /\ CountInv
  BY InitInv DEF Init, CountInv
<1>2. PipelineInv /\ CountInv /\ [Next]_vars => (PipelineInv /\ CountInv)'
  BY NextKeepsInv, CountStep DEF PipelineInv
<1>3. PipelineInv /\ CountInv => StuckOnlyByLostUpdate
  BY StuckMeansWrong
<1> QED
  BY <1>1, <1>2, <1>3, PTL DEF Spec

=============================================================================
