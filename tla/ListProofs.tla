----------------------------- MODULE ListProofs -----------------------------
(***************************************************************************)
(* Proofs about LinuxList, for any finite set of nodes and any heads: its  *)
(* memory holds disjoint rings whatever is called, so that every list      *)
(* reads the same both ways and every function and loop of list.h does to  *)
(* the sequences what ListOperations promises.                             *)
(*                                                                         *)
(* The proof goes from the memory up.  A chain of pointers through         *)
(* distinct nodes is the only one there is, so CHOOSE finds it (ChainIs).  *)
(* Each function writes two to four cells; what they become is one         *)
(* formula (Linked, Joined, Replaced, Spliced, CutOff), from which the     *)
(* rings follow cell by cell.  Holds(mem, stale, F) says that the memory   *)
(* is that of the lists F; the lemmas Holds... say what each function      *)
(* makes of it, and those that end in Keeps that every action of the model *)
(* keeps the invariant and is a step of the promise.                       *)
(***************************************************************************)
EXTENDS MCLists, SequenceTheorems, FiniteSetTheorems, WellFoundedInduction, TLAPS

-----------------------------------------------------------------------------
(* Chains. *)

Distinct(s) == \A i, j \in 1..Len(s) : s[i] = s[j] => i = j

(* A set of numbers that is not empty has a smallest one.                  *)
LEMMA Smallest ==
  ASSUME NEW S \in SUBSET Nat, S # {}
  PROVE  \E x \in S : \A y \in S : x <= y
<1> DEFINE R == OpToRel(<, Nat)
<1>1. \A j, k \in Nat : j < k => <<j, k>> \in R
  BY DEF OpToRel
<1>2. PICK x \in S : \A y \in S : <<y, x>> \notin R
  <2> HIDE DEF R
  <2>1. IsWellFoundedOn(R, Nat)
    BY NatLessThanWellFounded DEF R
  <2> QED
    BY <2>1, WFMin
<1>3. \A y \in S : ~(y < x)
  BY <1>1, <1>2
<1> QED
  BY <1>3

(* A sequence in which no node comes twice is no longer than there are     *)
(* nodes.                                                                  *)
LEMMA DistinctIsPath ==
  ASSUME NEW s \in Seq(Nodes), Distinct(s)
  PROVE  s \in Paths
<1>1. s \in [1..Len(s) -> Nodes] /\ Len(s) \in Nat
  BY LenProperties
<1>2. s \in Injection(1..Len(s), Nodes)
  BY <1>1 DEF Distinct, Injection, IsInjective
<1>3. IsFiniteSet(Nodes)
  BY CellsAssumption
<1>4. Cardinality(1..Len(s)) <= Cardinality(Nodes)
  BY <1>2, <1>3, FS_Injection
<1>5. Cardinality(1..Len(s)) = Len(s)
  <2>1. \A n \in Nat : Cardinality(1..n) = n
    BY FS_Interval
  <2> QED
    BY <1>1, <2>1
<1>6. Cardinality(Nodes) \in Nat
  BY <1>3, FS_CardinalityType
<1>7. Len(s) \in 0..Cardinality(Nodes)
  BY <1>1, <1>4, <1>5, <1>6
<1> QED
  BY <1>1, <1>7 DEF Paths, SeqOf

(* Every path is a sequence of nodes.                                      *)
LEMMA PathIsSeq ==
  ASSUME NEW s \in Paths
  PROVE  s \in Seq(Nodes)
<1>1. Cardinality(Nodes) \in Nat
  BY CellsAssumption, FS_CardinalityType
<1> QED
  BY <1>1, SeqDef DEF Paths, SeqOf

(* The first place at which two chains from the same pointer could differ  *)
(* does not exist.                                                         *)
LEMMA ChainsAgree ==
  ASSUME NEW p, NEW step, NEW s \in Seq(Nodes), NEW t \in Seq(Nodes),
         Follows(s, p, step), Follows(t, p, step)
  PROVE  \A i \in 1..Len(s) : i <= Len(t) /\ s[i] = t[i]
<1> DEFINE S == {i \in 1..Len(s) : ~(i <= Len(t) /\ s[i] = t[i])}
<1>1. SUFFICES ASSUME S # {} PROVE FALSE
  OBVIOUS
<1>2. Len(s) \in Nat /\ Len(t) \in Nat /\ DOMAIN s = 1..Len(s) /\ DOMAIN t = 1..Len(t)
  BY LenProperties
<1>3. PICK i \in S : \A j \in S : i <= j
  <2>1. S \in SUBSET Nat
    BY <1>2
  <2> QED
    BY <1>1, <2>1, Smallest
<1>4. i \in 1..Len(s) /\ s[i] \in Nodes
  BY <1>2, ElementOfSeq
<1>5. i - 1 \in 1..Len(s) => i - 1 <= Len(t) /\ s[i - 1] = t[i - 1]
  BY <1>2, <1>3, <1>4
<1>6. i # 1 => i - 1 \in 1..Len(s)
  BY <1>2, <1>4
<1>7. i - 1 <= Len(t)
  BY <1>2, <1>4, <1>5, <1>6
<1>8. Pointer(s, p, step, i - 1) = Pointer(t, p, step, i - 1)
  BY <1>4, <1>5, <1>6 DEF Pointer
<1>9. s[i] = Pointer(s, p, step, i - 1)
  BY <1>2, <1>4 DEF Follows
<1>10. CASE i - 1 = Len(t)
  BY <1>4, <1>8, <1>9, <1>10 DEF Follows
<1>11. CASE i - 1 # Len(t)
  <2>1. i \in 1..Len(t)
    BY <1>2, <1>4, <1>7, <1>11
  <2>2. t[i] = Pointer(t, p, step, i - 1)
    BY <1>2, <2>1 DEF Follows
  <2> QED
    BY <1>2, <1>8, <1>9, <2>1, <2>2
<1> QED
  BY <1>10, <1>11

(* What one meets is one sequence.                                         *)
LEMMA ChainIs ==
  ASSUME NEW p, NEW step, NEW s \in Seq(Nodes), Distinct(s), Follows(s, p, step)
  PROVE  Chain(p, step) = s
<1>1. s \in Paths
  BY DistinctIsPath
<1> DEFINE t == Chain(p, step)
<1>2. t \in Paths /\ Follows(t, p, step)
  BY <1>1 DEF Chain
<1> HIDE DEF t
<1>3. t \in Seq(Nodes)
  BY <1>2, PathIsSeq
<1>4. Len(s) \in Nat /\ Len(t) \in Nat
  BY <1>3, LenProperties
<1>5. /\ \A i \in 1..Len(s) : i <= Len(t) /\ s[i] = t[i]
      /\ \A i \in 1..Len(t) : i <= Len(s) /\ t[i] = s[i]
  BY <1>2, <1>3, ChainsAgree
<1>6. Len(s) <= Len(t)
  BY <1>4, <1>5
<1>7. Len(t) <= Len(s)
  BY <1>4, <1>5
<1>8. Len(t) = Len(s)
  BY <1>4, <1>6, <1>7
<1>9. t = s
  BY <1>3, <1>5, <1>8, SeqEqual
<1> QED
  BY <1>9 DEF t
-----------------------------------------------------------------------------
(* The memory. *)

Memory == [Cells -> [next : Cells \cup {Poison}, prev : Cells \cup {Poison}]]

(* One store, and two memories that differ by it.                          *)
SetNext(m, c, v) == [m EXCEPT ![c].next = v]
SetPrev(m, c, v) == [m EXCEPT ![c].prev = v]
SetBoth(m, c, v, w) == [m EXCEPT ![c] = [next |-> v, prev |-> w]]

(* A store to the next pointer of c changes nothing else.                  *)
LEMMA StoreNext ==
  ASSUME NEW m \in Memory, NEW c \in Cells, NEW v \in Cells \cup {Poison}
  PROVE  /\ SetNext(m, c, v) \in Memory
         /\ \A d \in Cells : /\ SetNext(m, c, v)[d].next = IF d = c THEN v ELSE m[d].next
                             /\ SetNext(m, c, v)[d].prev = m[d].prev
  BY DEF Memory, SetNext
(* A store to the prev pointer of c changes nothing else.                  *)
LEMMA StorePrev ==
  ASSUME NEW m \in Memory, NEW c \in Cells, NEW v \in Cells \cup {Poison}
  PROVE  /\ SetPrev(m, c, v) \in Memory
         /\ \A d \in Cells : /\ SetPrev(m, c, v)[d].prev = IF d = c THEN v ELSE m[d].prev
                             /\ SetPrev(m, c, v)[d].next = m[d].next
  BY DEF Memory, SetPrev

(* m2 is m with both pointers of c stored.                                 *)
Stored(m, m2, c, v, w) ==
    \A d \in Cells : /\ m2[d].next = IF d = c THEN v ELSE m[d].next
                     /\ m2[d].prev = IF d = c THEN w ELSE m[d].prev

(* A store to both pointers of c changes no other cell.                    *)
LEMMA StoreBoth ==
  ASSUME NEW m \in Memory, NEW c \in Cells,
         NEW v \in Cells \cup {Poison}, NEW w \in Cells \cup {Poison}
  PROVE  /\ SetBoth(m, c, v, w) \in Memory
         /\ Stored(m, SetBoth(m, c, v, w), c, v, w)
  BY DEF Memory, SetBoth, Stored

(* m2 is m with new put between prev and next.                             *)
Linked(m, m2, new, prev, next) ==
    \A d \in Cells :
        /\ m2[d].next = IF d = prev THEN new ELSE IF d = new THEN next ELSE m[d].next
        /\ m2[d].prev = IF d = next THEN new ELSE IF d = new THEN prev ELSE m[d].prev

(* __list_add puts new between prev and next.                              *)
LEMMA AddStores ==
  ASSUME NEW m \in Memory, NEW new \in Cells, NEW prev \in Cells, NEW next \in Cells,
         new # prev, new # next
  PROVE  /\ ListAdd(m, new, prev, next) \in Memory
         /\ Linked(m, ListAdd(m, new, prev, next), new, prev, next)
<1> DEFINE a == SetPrev(m, next, new)
           b == SetNext(a, new, next)
           c == SetPrev(b, new, prev)
           m2 == SetNext(c, prev, new)
<1>1. ListAdd(m, new, prev, next) = m2
  BY DEF ListAdd, SetNext, SetPrev
<1>2. /\ a \in Memory
      /\ \A d \in Cells : /\ a[d].prev = IF d = next THEN new ELSE m[d].prev
                          /\ a[d].next = m[d].next
  BY StorePrev
<1> HIDE DEF a
<1>3. /\ b \in Memory
      /\ \A d \in Cells : /\ b[d].next = IF d = new THEN next ELSE a[d].next
                          /\ b[d].prev = a[d].prev
  BY <1>2, StoreNext
<1> HIDE DEF b
<1>4. /\ c \in Memory
      /\ \A d \in Cells : /\ c[d].prev = IF d = new THEN prev ELSE b[d].prev
                          /\ c[d].next = b[d].next
  BY <1>3, StorePrev
<1> HIDE DEF c
<1>5. /\ m2 \in Memory
      /\ \A d \in Cells : /\ m2[d].next = IF d = prev THEN new ELSE c[d].next
                          /\ m2[d].prev = c[d].prev
  BY <1>4, StoreNext
<1> HIDE DEF m2
<1> QED
  BY <1>1, <1>2, <1>3, <1>4, <1>5 DEF Linked

(* m2 is m with prev and next joined.                                      *)
Joined(m, m2, prev, next) ==
    \A d \in Cells : /\ m2[d].next = IF d = prev THEN next ELSE m[d].next
                     /\ m2[d].prev = IF d = next THEN prev ELSE m[d].prev

(* __list_del joins prev and next.                                         *)
LEMMA DelStores ==
  ASSUME NEW m \in Memory, NEW prev \in Cells, NEW next \in Cells
  PROVE  /\ ListDelBetween(m, prev, next) \in Memory
         /\ Joined(m, ListDelBetween(m, prev, next), prev, next)
<1> DEFINE a == SetPrev(m, next, prev)
           m2 == SetNext(a, prev, next)
<1>1. ListDelBetween(m, prev, next) = m2
  BY DEF ListDelBetween, SetNext, SetPrev
<1>2. /\ a \in Memory
      /\ \A d \in Cells : /\ a[d].prev = IF d = next THEN prev ELSE m[d].prev
                          /\ a[d].next = m[d].next
  BY StorePrev
<1> HIDE DEF a
<1>3. /\ m2 \in Memory
      /\ \A d \in Cells : /\ m2[d].next = IF d = prev THEN next ELSE a[d].next
                          /\ m2[d].prev = a[d].prev
  BY <1>2, StoreNext
<1> HIDE DEF m2
<1> QED
  BY <1>1, <1>2, <1>3 DEF Joined
-----------------------------------------------------------------------------
(* Rings. *)

(* The i-th cell of the ring of h, counted from h itself and back to it.   *)
Cell(s, h, i) == IF i \in 1..Len(s) THEN s[i] ELSE h

Ring(m, h, s) ==
    \A i \in 0..Len(s) : /\ m[Cell(s, h, i)].next = Cell(s, h, i + 1)
                         /\ m[Cell(s, h, i + 1)].prev = Cell(s, h, i)

(* The cells of a ring are its nodes and, at both ends, its head.          *)
LEMMA CellIsCell ==
  ASSUME NEW h \in Heads, NEW s \in Seq(Nodes)
  PROVE  /\ Len(s) \in Nat
         /\ \A i \in Int : Cell(s, h, i) \in Cells
         /\ \A i \in 1..Len(s) : Cell(s, h, i) = s[i] /\ s[i] \in Nodes
         /\ Cell(s, h, 0) = h /\ Cell(s, h, Len(s) + 1) = h
         /\ \A n \in Nodes : n # h
<1>1. Len(s) \in Nat /\ \A i \in 1..Len(s) : s[i] \in Nodes
  BY LenProperties, ElementOfSeq
<1> QED
  BY <1>1, CellsAssumption DEF Cell, Cells

(* No cell comes twice in a ring.                                          *)
LEMMA CellsDiffer ==
  ASSUME NEW h \in Heads, NEW s \in Seq(Nodes), Distinct(s)
  PROVE  /\ \A i, j \in 0..Len(s) : Cell(s, h, i) = Cell(s, h, j) => i = j
         /\ \A i, j \in 1..(Len(s) + 1) : Cell(s, h, i) = Cell(s, h, j) => i = j
<1>1. Len(s) \in Nat /\ \A i \in 1..Len(s) : s[i] # h
  BY CellIsCell
<1> QED
  BY <1>1 DEF Cell, Distinct

(* t is s with n put behind its first k entries, and without its k-th.     *)
Inserted(s, t, k, n) ==
    /\ t \in Seq(Nodes) /\ Len(t) = Len(s) + 1
    /\ \A i \in 1..Len(t) : t[i] = IF i <= k THEN s[i] ELSE IF i = k + 1 THEN n ELSE s[i - 1]
Deleted(s, t, k) ==
    /\ t \in Seq(Nodes) /\ Len(t) = Len(s) - 1
    /\ \A i \in 1..Len(t) : t[i] = IF i < k THEN s[i] ELSE s[i + 1]

(* A node put behind the k-th cell of a ring leaves a ring.                *)
LEMMA RingAdd ==
  ASSUME NEW h \in Heads, NEW s \in Seq(Nodes), Distinct(s),
         NEW k \in 0..Len(s), NEW n \in Nodes, \A i \in 1..Len(s) : s[i] # n,
         NEW t, Inserted(s, t, k, n),
         NEW m, Ring(m, h, s),
         NEW m2, Linked(m, m2, n, Cell(s, h, k), Cell(s, h, k + 1))
  PROVE  Ring(m2, h, t) /\ Distinct(t)
<1> USE DEF Inserted, Linked
<1>1. Len(s) \in Nat /\ k \in Nat
  BY CellIsCell
<1>2. \A i \in 0..(Len(s) + 2) :
        Cell(t, h, i) = IF i <= k THEN Cell(s, h, i) ELSE IF i = k + 1 THEN n ELSE Cell(s, h, i - 1)
  BY <1>1 DEF Cell
<1>3. \A i \in 0..(Len(s) + 1) : Cell(s, h, i) # n /\ Cell(s, h, i) \in Cells
  BY <1>1, CellIsCell DEF Cell
<1>4. n \in Cells
  BY DEF Cells
<1>5. ASSUME NEW i \in 0..(Len(s) + 1)
      PROVE  m2[Cell(t, h, i)].next = Cell(t, h, i + 1)
  <2>1. CASE i < k
    <3>1. Cell(t, h, i) = Cell(s, h, i) /\ Cell(t, h, i + 1) = Cell(s, h, i + 1)
      <4>1. i \in 0..(Len(s) + 2) /\ i + 1 \in 0..(Len(s) + 2) /\ i <= k /\ i + 1 <= k
        BY <1>1, <2>1
      <4> QED
        BY <1>2, <4>1
    <3>2. Cell(s, h, i) # Cell(s, h, k)
      BY <1>1, <2>1, CellsDiffer
    <3>3. m[Cell(s, h, i)].next = Cell(s, h, i + 1)
      BY <1>1, <2>1 DEF Ring
    <3> QED
      BY <1>1, <1>3, <2>1, <3>1, <3>2, <3>3
  <2>2. CASE i = k
    BY <1>1, <1>2, <1>3, <2>2
  <2>3. CASE i = k + 1
    BY <1>1, <1>2, <1>3, <1>4, <2>3
  <2>4. CASE i > k + 1
    <3>1. Cell(t, h, i) = Cell(s, h, i - 1) /\ Cell(t, h, i + 1) = Cell(s, h, i)
      BY <1>1, <1>2, <2>4
    <3>2. Cell(s, h, i - 1) # Cell(s, h, k)
      BY <1>1, <2>4, CellsDiffer
    <3>3. m[Cell(s, h, i - 1)].next = Cell(s, h, i)
      BY <1>1, <2>4 DEF Ring
    <3> QED
      BY <1>1, <1>3, <2>4, <3>1, <3>2, <3>3
  <2> QED
    BY <1>1, <2>1, <2>2, <2>3, <2>4
<1>6. ASSUME NEW i \in 0..(Len(s) + 1)
      PROVE  m2[Cell(t, h, i + 1)].prev = Cell(t, h, i)
  <2>1. CASE i < k
    <3>1. Cell(t, h, i) = Cell(s, h, i) /\ Cell(t, h, i + 1) = Cell(s, h, i + 1)
      <4>1. i \in 0..(Len(s) + 2) /\ i + 1 \in 0..(Len(s) + 2) /\ i <= k /\ i + 1 <= k
        BY <1>1, <2>1
      <4> QED
        BY <1>2, <4>1
    <3>2. Cell(s, h, i + 1) # Cell(s, h, k + 1)
      BY <1>1, <2>1, CellsDiffer
    <3>3. m[Cell(s, h, i + 1)].prev = Cell(s, h, i)
      BY <1>1, <2>1 DEF Ring
    <3> QED
      BY <1>1, <1>3, <2>1, <3>1, <3>2, <3>3
  <2>2. CASE i = k
    BY <1>1, <1>2, <1>3, <1>4, <2>2
  <2>3. CASE i = k + 1
    BY <1>1, <1>2, <1>3, <1>4, <2>3
  <2>4. CASE i > k + 1
    <3>1. Cell(t, h, i) = Cell(s, h, i - 1) /\ Cell(t, h, i + 1) = Cell(s, h, i)
      BY <1>1, <1>2, <2>4
    <3>2. Cell(s, h, i) # Cell(s, h, k + 1)
      BY <1>1, <2>4, CellsDiffer
    <3>3. m[Cell(s, h, i)].prev = Cell(s, h, i - 1)
      BY <1>1, <2>4 DEF Ring
    <3> QED
      BY <1>1, <1>3, <2>4, <3>1, <3>2, <3>3
  <2> QED
    BY <1>1, <2>1, <2>2, <2>3, <2>4
<1>7. ASSUME NEW i \in 1..Len(t), i # k + 1
      PROVE  /\ t[i] # n
             /\ \A j \in 1..Len(t) : j # k + 1 /\ t[i] = t[j] => i = j
  <2> DEFINE a == IF i <= k THEN i ELSE i - 1
  <2>1. a \in 1..Len(s) /\ t[i] = s[a]
    BY <1>1, <1>7
  <2>2. ASSUME NEW j \in 1..Len(t), j # k + 1, t[i] = t[j] PROVE i = j
    <3> DEFINE b == IF j <= k THEN j ELSE j - 1
    <3>1. b \in 1..Len(s) /\ t[j] = s[b]
      BY <1>1, <2>2
    <3>2. a = b
      BY <2>1, <2>2, <3>1, SMTT(30) DEF Distinct
    <3> QED
      BY <1>1, <1>7, <2>2, <3>2
  <2>3. t[i] # n
    <3> HIDE DEF a
    <3> QED BY <2>1
  <2> QED
    BY <2>2, <2>3
<1>8. k + 1 \in 1..Len(t) /\ t[k + 1] = n
  BY <1>1
<1>9. Distinct(t)
  BY <1>7, <1>8 DEF Distinct
<1> QED
  BY <1>1, <1>5, <1>6, <1>9 DEF Ring

(* A ring without its k-th node is a ring.                                 *)
LEMMA RingDel ==
  ASSUME NEW h \in Heads, NEW s \in Seq(Nodes), Distinct(s),
         NEW k \in 1..Len(s),
         NEW t, Deleted(s, t, k),
         NEW m, Ring(m, h, s),
         NEW m2, Joined(m, m2, Cell(s, h, k - 1), Cell(s, h, k + 1))
  PROVE  Ring(m2, h, t) /\ Distinct(t) /\ \A i \in 1..Len(t) : t[i] # s[k]
<1> USE DEF Deleted, Joined
<1>1. Len(s) \in Nat /\ k \in Nat
  BY CellIsCell
<1>2. \A i \in 0..Len(s) :
        Cell(t, h, i) = IF i < k THEN Cell(s, h, i) ELSE Cell(s, h, i + 1)
  BY <1>1 DEF Cell
<1>3. \A i \in 0..(Len(s) + 1) : Cell(s, h, i) \in Cells
  BY <1>1, CellIsCell
<1>4. ASSUME NEW i \in 0..(Len(s) - 1)
      PROVE  m2[Cell(t, h, i)].next = Cell(t, h, i + 1) /\ m2[Cell(t, h, i + 1)].prev = Cell(t, h, i)
  <2>1. CASE i < k - 1
    <3>1. Cell(t, h, i) = Cell(s, h, i) /\ Cell(t, h, i + 1) = Cell(s, h, i + 1)
      BY <1>1, <1>2, <2>1
    <3>2. Cell(s, h, i) # Cell(s, h, k - 1) /\ Cell(s, h, i + 1) # Cell(s, h, k + 1)
      BY <1>1, <2>1, CellsDiffer
    <3>3. m[Cell(s, h, i)].next = Cell(s, h, i + 1) /\ m[Cell(s, h, i + 1)].prev = Cell(s, h, i)
      BY <1>1, <2>1 DEF Ring
    <3>4. Cell(s, h, i) \in Cells /\ Cell(s, h, i + 1) \in Cells
      BY <1>1, <1>3, <2>1
    <3> QED
      BY <3>1, <3>2, <3>3, <3>4
  <2>2. CASE i = k - 1
    BY <1>1, <1>2, <1>3, <2>2, SMTT(30)
  <2>3. CASE i > k - 1
    <3>1. Cell(t, h, i) = Cell(s, h, i + 1) /\ Cell(t, h, i + 1) = Cell(s, h, i + 2)
      BY <1>1, <1>2, <2>3
    <3>2. Cell(s, h, i + 1) # Cell(s, h, k - 1)
      BY <1>1, <2>3, CellsDiffer
    <3>3. Cell(s, h, i + 2) # Cell(s, h, k + 1)
      BY <1>1, <2>3, CellsDiffer
    <3>4. m[Cell(s, h, i + 1)].next = Cell(s, h, i + 2) /\ m[Cell(s, h, i + 2)].prev = Cell(s, h, i + 1)
      BY <1>1, <2>3 DEF Ring
    <3> QED
      BY <1>1, <1>3, <2>3, <3>1, <3>2, <3>3, <3>4
  <2> QED
    BY <1>1, <2>1, <2>2, <2>3
<1>5. ASSUME NEW i \in 1..Len(t)
      PROVE  /\ t[i] # s[k]
             /\ \A j \in 1..Len(t) : t[i] = t[j] => i = j
  <2> DEFINE a == IF i < k THEN i ELSE i + 1
  <2>1. a \in 1..Len(s) /\ t[i] = s[a] /\ a # k
    BY <1>1
  <2>2. ASSUME NEW j \in 1..Len(t), t[i] = t[j] PROVE i = j
    <3> DEFINE b == IF j < k THEN j ELSE j + 1
    <3>1. b \in 1..Len(s) /\ t[j] = s[b]
      BY <1>1
    <3>2. a = b
      BY <2>1, <2>2, <3>1 DEF Distinct
    <3> QED
      BY <1>1, <3>2
  <2>3. t[i] # s[k]
    <3> HIDE DEF a
    <3> QED BY <2>1 DEF Distinct
  <2> QED
    BY <2>2, <2>3
<1> QED
  BY <1>1, <1>4, <1>5 DEF Ring, Distinct
-----------------------------------------------------------------------------
(* All the rings in a memory. *)

(* No node is on two lists, or at two places of one.                       *)
Apart(st, F) ==
    \A g, h \in Heads \ st : \A i \in 1..Len(F[g]), j \in 1..Len(F[h]) :
        F[g][i] = F[h][j] => g = h /\ i = j

Away(st, F, n) == \A g \in Heads \ st : \A i \in 1..Len(F[g]) : F[g][i] # n

(* The lists of memory m are those of F, but for those spliced away.       *)
Holds(m, st, F) ==
    /\ m \in Memory /\ st \in SUBSET Heads
    /\ F \in [Heads -> Seq(Nodes) \cup {None}]
    /\ \A h \in st : F[h] = None
    /\ \A h \in Heads \ st : F[h] \in Seq(Nodes) /\ Ring(m, h, F[h])
    /\ Apart(st, F)

(* What Holds says of one list.                                            *)
LEMMA ListsHeld ==
  ASSUME NEW m, NEW st, NEW F, Holds(m, st, F), NEW h \in Heads \ st
  PROVE  /\ m \in Memory
         /\ F[h] \in Seq(Nodes) /\ Distinct(F[h]) /\ Ring(m, h, F[h])
         /\ Len(F[h]) \in Nat
<1>1. F[h] \in Seq(Nodes) /\ Ring(m, h, F[h]) /\ m \in Memory
  BY DEF Holds
<1>2. Distinct(F[h])
  BY DEF Holds, Apart, Distinct
<1> QED
  BY <1>1, <1>2, LenProperties

(* The cells of a ring are not in another ring, nor are they free.         *)
LEMMA OtherRings ==
  ASSUME NEW m, NEW st, NEW F, Holds(m, st, F), NEW g \in Heads \ st, NEW i \in Int
  PROVE  /\ Cell(F[g], g, i) \in Cells
         /\ \A h \in Heads \ {g} : Cell(F[g], g, i) # h
         /\ \A h \in Heads \ (st \cup {g}) : \A j \in Int : Cell(F[g], g, i) # Cell(F[h], h, j)
         /\ \A n \in Nodes : Away(st, F, n) => Cell(F[g], g, i) # n
<1>1. /\ F[g] \in Seq(Nodes) /\ Len(F[g]) \in Nat
      /\ \A j \in 1..Len(F[g]) : F[g][j] \in Nodes
      /\ Cell(F[g], g, i) \in Cells
  BY ListsHeld, CellIsCell
<1>2. \A h \in Heads \ {g} : Cell(F[g], g, i) # h
  BY <1>1, CellsAssumption DEF Cell
<1>3. ASSUME NEW h \in Heads \ (st \cup {g}), NEW j \in Int
      PROVE  Cell(F[g], g, i) # Cell(F[h], h, j)
  <2>1. /\ Len(F[h]) \in Nat
        /\ \A l \in 1..Len(F[h]) : F[h][l] \in Nodes
    BY ListsHeld, CellIsCell
  <2>2. \A l \in 1..Len(F[h]), q \in 1..Len(F[g]) : F[g][q] # F[h][l]
    BY DEF Holds, Apart
  <2> QED
    BY <1>1, <1>2, <2>1, <2>2, CellsAssumption DEF Cell
<1>4. \A n \in Nodes : Away(st, F, n) => Cell(F[g], g, i) # n
  BY <1>1, CellsAssumption DEF Cell, Away
<1> QED
  BY <1>1, <1>2, <1>3, <1>4

(* A ring depends on the pointers of its own cells only.                   *)
LEMMA RingKept ==
  ASSUME NEW h, NEW s \in Seq(Nodes), NEW m, NEW m2, Ring(m, h, s),
         \A i \in 0..Len(s) : /\ m2[Cell(s, h, i)].next = m[Cell(s, h, i)].next
                              /\ m2[Cell(s, h, i)].prev = m[Cell(s, h, i)].prev
  PROVE  Ring(m2, h, s)
<1>1. Len(s) \in Nat
  BY LenProperties
<1>2. Cell(s, h, Len(s) + 1) = Cell(s, h, 0)
  BY <1>1 DEF Cell
<1>3. \A i \in 0..Len(s) : m2[Cell(s, h, i + 1)].prev = m[Cell(s, h, i + 1)].prev
  <2>1. TAKE i \in 0..Len(s)
  <2>2. CASE i = Len(s)
    <3>1. Cell(s, h, i + 1) = Cell(s, h, 0) /\ 0 \in 0..Len(s)
      BY <1>1, <1>2, <2>2
    <3> QED
      BY <3>1
  <2>3. CASE i # Len(s)
    <3>1. i + 1 \in 0..Len(s)
      BY <1>1, <2>3
    <3> QED
      BY <3>1
  <2> QED
    BY <2>2, <2>3
<1> QED
  BY <1>3 DEF Ring

(* The rings of H are changed: no cell of another ring is touched, and     *)
(* what is on the changed lists is on no other.                            *)
OthersKept(m, m2, st, F, H) ==
    \A g \in Heads \ (st \cup H) : \A i \in 0..Len(F[g]) :
        /\ m2[Cell(F[g], g, i)].next = m[Cell(F[g], g, i)].next
        /\ m2[Cell(F[g], g, i)].prev = m[Cell(F[g], g, i)].prev
NewRings(m2, st2, F2, H) ==
    /\ \A h \in H : h \in st2 => F2[h] = None
    /\ \A h \in H \ st2 : F2[h] \in Seq(Nodes) /\ Ring(m2, h, F2[h])
NewApart(st, F, st2, F2, H) ==
    /\ \A g \in Heads \ (st \cup H), h \in H \ st2 :
          \A i \in 1..Len(F[g]), j \in 1..Len(F2[h]) : F[g][i] # F2[h][j]
    /\ \A g, h \in H \ st2 : \A i \in 1..Len(F2[g]), j \in 1..Len(F2[h]) :
          F2[g][i] = F2[h][j] => g = h /\ i = j

(* A step that rewrites the rings of the heads H, and no cell of the       *)
(* others, keeps the rings disjoint if the new ones are.                   *)
LEMMA RingsChange ==
  ASSUME NEW m, NEW st, NEW F, Holds(m, st, F), NEW H \in SUBSET Heads,
         NEW m2 \in Memory, NEW st2 \in SUBSET Heads, st2 \ H = st \ H,
         NEW F2 \in [Heads -> Seq(Nodes) \cup {None}],
         \A g \in Heads \ H : F2[g] = F[g],
         OthersKept(m, m2, st, F, H), NewRings(m2, st2, F2, H), NewApart(st, F, st2, F2, H)
  PROVE  Holds(m2, st2, F2)
<1> USE DEF OthersKept, NewRings, NewApart
<1>1. \A h \in st2 : F2[h] = None
  BY DEF Holds
<1>2. ASSUME NEW h \in Heads \ st2 PROVE F2[h] \in Seq(Nodes) /\ Ring(m2, h, F2[h])
  <2>1. CASE h \notin H
    <3>1. F2[h] = F[h] /\ h \in Heads \ st /\ h \in Heads \ (st \cup H)
      BY <2>1
    <3>2. F[h] \in Seq(Nodes) /\ Ring(m, h, F[h])
      BY <3>1, ListsHeld
    <3>3. Ring(m2, h, F[h])
      BY <3>1, <3>2, RingKept
    <3> QED
      BY <3>1, <3>2, <3>3
  <2> QED
    BY <2>1
<1>3. ASSUME NEW g \in Heads \ st2, NEW h \in Heads \ st2,
             NEW i \in 1..Len(F2[g]), NEW j \in 1..Len(F2[h]), F2[g][i] = F2[h][j]
      PROVE  g = h /\ i = j
  <2>1. CASE g \notin H /\ h \notin H
    <3>1. F2[g] = F[g] /\ F2[h] = F[h] /\ g \in Heads \ st /\ h \in Heads \ st
      BY <2>1
    <3> QED
      BY <1>3, <3>1 DEF Holds, Apart
  <2>2. CASE g \in H /\ h \in H
    BY <1>3, <2>2
  <2>3. CASE g \notin H /\ h \in H
    BY <1>3, <2>3
  <2>4. CASE g \in H /\ h \notin H
    BY <1>3, <2>4
  <2> QED
    BY <2>1, <2>2, <2>3, <2>4
<1> QED
  BY <1>1, <1>2, <1>3 DEF Holds, Apart
-----------------------------------------------------------------------------
(* What each function of list.h does to them. *)

(* One list replaced by another.                                           *)
LEMMA OneList ==
  ASSUME NEW F \in [Heads -> Seq(Nodes) \cup {None}], NEW h \in Heads,
         NEW t \in Seq(Nodes) \cup {None}
  PROVE  /\ [F EXCEPT ![h] = t] \in [Heads -> Seq(Nodes) \cup {None}]
         /\ [F EXCEPT ![h] = t][h] = t
         /\ \A g \in Heads \ {h} : [F EXCEPT ![h] = t][g] = F[g]
  OBVIOUS

(* list_add and list_add_tail: a free node behind the k-th cell of h.      *)
LEMMA HoldsAdd ==
  ASSUME NEW m, NEW st, NEW F, Holds(m, st, F), NEW h \in Heads \ st,
         NEW k \in 0..Len(F[h]), NEW n \in Nodes, Away(st, F, n),
         NEW t, Inserted(F[h], t, k, n)
  PROVE  Holds(ListAdd(m, n, Cell(F[h], h, k), Cell(F[h], h, k + 1)), st, [F EXCEPT ![h] = t])
<1> DEFINE s == F[h]
           p == Cell(s, h, k)
           q == Cell(s, h, k + 1)
           m2 == ListAdd(m, n, p, q)
           F2 == [F EXCEPT ![h] = t]
<1>1. /\ m \in Memory /\ s \in Seq(Nodes) /\ Distinct(s) /\ Ring(m, h, s) /\ Len(s) \in Nat
      /\ k \in Nat /\ t \in Seq(Nodes)
  BY ListsHeld DEF Inserted
<1>2. p \in Cells /\ q \in Cells /\ n \in Cells /\ n # p /\ n # q
  BY <1>1, OtherRings DEF Cells
<1>3. /\ m2 \in Memory
      /\ Linked(m, m2, n, p, q)
  BY <1>1, <1>2, AddStores
<1> HIDE DEF m2
<1>4. Ring(m2, h, t) /\ Distinct(t)
  <2>1. \A i \in 1..Len(s) : s[i] # n
    BY DEF Away
  <2> QED
    BY <1>1, <1>3, <2>1, RingAdd
<1>5. /\ F2 \in [Heads -> Seq(Nodes) \cup {None}]
      /\ F2[h] = t
      /\ \A g \in Heads \ {h} : F2[g] = F[g]
  BY <1>1, OneList DEF Holds
<1> HIDE DEF F2
<1>6. ASSUME NEW g \in Heads \ (st \cup {h}), NEW i \in 0..Len(F[g])
      PROVE  /\ m2[Cell(F[g], g, i)].next = m[Cell(F[g], g, i)].next
             /\ m2[Cell(F[g], g, i)].prev = m[Cell(F[g], g, i)].prev
  <2> DEFINE c == Cell(F[g], g, i)
  <2>1. c \in Cells /\ c # p /\ c # q /\ c # n
    BY <1>1, OtherRings
  <2> HIDE DEF c, p, q
  <2>2. m2[c].next = m[c].next /\ m2[c].prev = m[c].prev
    BY <1>3, <2>1 DEF Linked
  <2> QED
    BY <2>2 DEF c
<1>7. ASSUME NEW g \in Heads \ (st \cup {h}), NEW i \in 1..Len(F[g]), NEW j \in 1..Len(t)
      PROVE  F[g][i] # t[j]
  <2>1. F[g][i] # n
    BY DEF Away
  <2>2. \A l \in 1..Len(s) : F[g][i] # s[l]
    BY DEF Holds, Apart
  <2>3. t[j] = IF j <= k THEN s[j] ELSE IF j = k + 1 THEN n ELSE s[j - 1]
    BY DEF Inserted
  <2>4. CASE j = k + 1
    BY <1>1, <2>1, <2>3, <2>4
  <2>5. CASE j <= k
    BY <1>1, <2>2, <2>3, <2>5
  <2>6. CASE j > k + 1
    <3>1. j - 1 \in 1..Len(s) /\ t[j] = s[j - 1]
      BY <1>1, <2>3, <2>6 DEF Inserted
    <3> QED
      BY <2>2, <3>1
  <2> QED
    BY <1>1, <2>4, <2>5, <2>6
<1>8. Holds(m2, st, F2)
  <2> HIDE DEF s, p, q
  <2>1. st \in SUBSET Heads
    BY DEF Holds
  <2>2. OthersKept(m, m2, st, F, {h})
    BY <1>6 DEF OthersKept
  <2>3. NewRings(m2, st, F2, {h})
    BY <1>1, <1>4, <1>5 DEF NewRings
  <2>4. NewApart(st, F, st, F2, {h})
    BY <1>4, <1>5, <1>7 DEF NewApart, Distinct
  <2> QED
    BY <1>3, <1>5, <2>1, <2>2, <2>3, <2>4, RingsChange
<1> QED
  BY <1>8 DEF m2, F2
(* __list_del_entry: the k-th node of h is taken out, and is then free.    *)
LEMMA HoldsDel ==
  ASSUME NEW m, NEW st, NEW F, Holds(m, st, F), NEW h \in Heads \ st,
         NEW k \in 1..Len(F[h]), NEW t, Deleted(F[h], t, k)
  PROVE  /\ Holds(ListDelEntry(m, F[h][k]), st, [F EXCEPT ![h] = t])
         /\ Away(st, [F EXCEPT ![h] = t], F[h][k])
<1> DEFINE s == F[h]
           e == s[k]
           p == Cell(s, h, k - 1)
           q == Cell(s, h, k + 1)
           m2 == ListDelEntry(m, e)
           F2 == [F EXCEPT ![h] = t]
<1>1. /\ m \in Memory /\ s \in Seq(Nodes) /\ Distinct(s) /\ Ring(m, h, s) /\ Len(s) \in Nat
      /\ k \in Nat /\ t \in Seq(Nodes) /\ Len(t) = Len(s) - 1
  BY ListsHeld DEF Deleted
<1>2. p \in Cells /\ q \in Cells
  BY <1>1, OtherRings
<1>3. m2 \in Memory /\ Joined(m, m2, p, q)
  <2>1. e = Cell(s, h, k) /\ k \in 0..Len(s) /\ k - 1 \in 0..Len(s) /\ k - 1 + 1 = k
    BY <1>1 DEF Cell
  <2>2. m[Cell(s, h, k)].next = q
    BY <1>1, <2>1 DEF Ring
  <2>3. m[Cell(s, h, k - 1 + 1)].prev = p
    BY <1>1, <2>1 DEF Ring
  <2>4. m[e].next = q /\ m[e].prev = p
    BY <2>1, <2>2, <2>3
  <2> HIDE DEF e, p, q
  <2> QED
    BY <1>1, <1>2, <2>4, DelStores DEF ListDelEntry
<1> HIDE DEF m2
<1>4. Ring(m2, h, t) /\ Distinct(t) /\ \A i \in 1..Len(t) : t[i] # e
  BY <1>1, <1>3, RingDel
<1>5. /\ F2 \in [Heads -> Seq(Nodes) \cup {None}]
      /\ F2[h] = t
      /\ \A g \in Heads \ {h} : F2[g] = F[g]
  BY <1>1, OneList DEF Holds
<1> HIDE DEF F2
<1>6. ASSUME NEW g \in Heads \ (st \cup {h}), NEW i \in 0..Len(F[g])
      PROVE  /\ m2[Cell(F[g], g, i)].next = m[Cell(F[g], g, i)].next
             /\ m2[Cell(F[g], g, i)].prev = m[Cell(F[g], g, i)].prev
  <2> DEFINE c == Cell(F[g], g, i)
  <2>1. c \in Cells /\ c # p /\ c # q
    BY <1>1, OtherRings
  <2> HIDE DEF c, p, q
  <2>2. m2[c].next = m[c].next /\ m2[c].prev = m[c].prev
    BY <1>3, <2>1 DEF Joined
  <2> QED
    BY <2>2 DEF c
<1>7. ASSUME NEW g \in Heads \ (st \cup {h}), NEW i \in 1..Len(F[g])
      PROVE  F[g][i] # e /\ \A j \in 1..Len(t) : F[g][i] # t[j]
  <2>1. \A l \in 1..Len(s) : F[g][i] # s[l]
    BY DEF Holds, Apart
  <2>2. ASSUME NEW j \in 1..Len(t) PROVE F[g][i] # t[j]
    <3>1. j \in 1..Len(s) /\ j + 1 \in 1..Len(s) /\ t[j] = IF j < k THEN s[j] ELSE s[j + 1]
      BY <1>1 DEF Deleted
    <3> QED
      BY <2>1, <3>1
  <2> QED
    BY <2>1, <2>2
<1>8. Holds(m2, st, F2)
  <2> HIDE DEF s, e, p, q
  <2>1. st \in SUBSET Heads
    BY DEF Holds
  <2>2. OthersKept(m, m2, st, F, {h})
    BY <1>6 DEF OthersKept
  <2>3. NewRings(m2, st, F2, {h})
    BY <1>1, <1>4, <1>5 DEF NewRings
  <2>4. NewApart(st, F, st, F2, {h})
    BY <1>4, <1>5, <1>7 DEF NewApart, Distinct
  <2> QED
    BY <1>3, <1>5, <2>1, <2>2, <2>3, <2>4, RingsChange
<1>9. Away(st, F2, e)
  <2>1. ASSUME NEW g \in Heads \ st, NEW i \in 1..Len(F2[g]) PROVE F2[g][i] # e
    <3>1. CASE g = h
      BY <1>4, <1>5, <2>1, <3>1
    <3>2. CASE g # h
      BY <1>5, <1>7, <2>1, <3>2
    <3> QED
      BY <3>1, <3>2
  <2> QED
    BY <2>1 DEF Away
<1> QED
  BY <1>8, <1>9 DEF m2, F2

(* What is stored in a node on no list changes no list.                    *)
LEMMA HoldsLoose ==
  ASSUME NEW m, NEW st, NEW F, Holds(m, st, F), NEW n \in Nodes, Away(st, F, n),
         NEW v \in Cells \cup {Poison}, NEW w \in Cells \cup {Poison}
  PROVE  Holds(SetBoth(m, n, v, w), st, F)
<1> DEFINE m2 == SetBoth(m, n, v, w)
<1>1. n \in Cells /\ m \in Memory /\ F \in [Heads -> Seq(Nodes) \cup {None}] /\ st \in SUBSET Heads
  BY DEF Cells, Holds
<1>2. /\ m2 \in Memory
      /\ \A d \in Cells : d # n => m2[d].next = m[d].next /\ m2[d].prev = m[d].prev
  <2>1. m2 \in Memory /\ Stored(m, m2, n, v, w)
    BY <1>1, StoreBoth
  <2> HIDE DEF m2
  <2> QED
    BY <2>1 DEF Stored
<1> HIDE DEF m2
<1>3. OthersKept(m, m2, st, F, {})
  <2>1. ASSUME NEW g \in Heads \ (st \cup {}), NEW i \in 0..Len(F[g])
        PROVE  Cell(F[g], g, i) \in Cells /\ Cell(F[g], g, i) # n
    <3>1. g \in Heads \ st
      OBVIOUS
    <3> QED
      BY <3>1, OtherRings
  <2> QED
    BY <1>2, <2>1 DEF OthersKept
<1>4. NewRings(m2, st, F, {}) /\ NewApart(st, F, st, F, {})
  BY DEF NewRings, NewApart
<1>5. Holds(m2, st, F)
  BY <1>1, <1>2, <1>3, <1>4, RingsChange
<1> QED
  BY <1>5 DEF m2

(* INIT_LIST_HEAD: h becomes empty, whatever it was.                       *)
LEMMA HoldsInit ==
  ASSUME NEW m, NEW st, NEW F, Holds(m, st, F), NEW h \in Heads
  PROVE  Holds(InitHead(m, h), st \ {h}, [F EXCEPT ![h] = <<>>])
<1> DEFINE m2 == SetBoth(m, h, h, h)
           F2 == [F EXCEPT ![h] = <<>>]
<1>1. h \in Cells /\ m \in Memory /\ F \in [Heads -> Seq(Nodes) \cup {None}] /\ st \in SUBSET Heads
  BY DEF Cells, Holds
<1>2. /\ m2 \in Memory
      /\ m2[h].next = h /\ m2[h].prev = h
      /\ \A d \in Cells : d # h => m2[d].next = m[d].next /\ m2[d].prev = m[d].prev
  <2>1. h \in Cells \cup {Poison}
    BY <1>1
  <2>2. m2 \in Memory /\ Stored(m, m2, h, h, h)
    BY <1>1, <2>1, StoreBoth
  <2> HIDE DEF m2
  <2> QED
    BY <1>1, <2>2 DEF Stored
<1>3. InitHead(m, h) = m2
  BY DEF InitHead, SetBoth
<1> HIDE DEF m2
<1>4. /\ <<>> \in Seq(Nodes) /\ Len(<<>>) = 0
      /\ F2 \in [Heads -> Seq(Nodes) \cup {None}]
      /\ F2[h] = <<>>
      /\ \A g \in Heads \ {h} : F2[g] = F[g]
  <2>1. <<>> \in Seq(Nodes) /\ Len(<<>>) = 0
    BY EmptySeq
  <2> QED
    BY <1>1, <2>1, OneList
<1> HIDE DEF F2
<1>5. OthersKept(m, m2, st, F, {h})
  <2>1. ASSUME NEW g \in Heads \ (st \cup {h}), NEW i \in 0..Len(F[g])
        PROVE  Cell(F[g], g, i) \in Cells /\ Cell(F[g], g, i) # h
    BY OtherRings
  <2> QED
    BY <1>2, <2>1 DEF OthersKept
<1>6. Ring(m2, h, F2[h])
  BY <1>2, <1>4 DEF Ring, Cell
<1>7. NewRings(m2, st \ {h}, F2, {h})
  BY <1>4, <1>6 DEF NewRings
<1>8. NewApart(st, F, st \ {h}, F2, {h})
  BY <1>4 DEF NewApart
<1>9. Holds(m2, st \ {h}, F2)
  <2>1. (st \ {h}) \ {h} = st \ {h} /\ st \ {h} \in SUBSET Heads
    BY <1>1
  <2> QED
    BY <1>1, <1>2, <1>4, <1>5, <1>7, <1>8, <2>1, RingsChange
<1> QED
  BY <1>3, <1>9 DEF F2
-----------------------------------------------------------------------------
(* The sequences of the calls, place by place. *)

(* RemoveAt takes out one entry.                                           *)
LEMMA RemoveAtDeletes ==
  ASSUME NEW s \in Seq(Nodes), NEW k \in 1..Len(s)
  PROVE  Deleted(s, RemoveAt(s, k), k)
<1> DEFINE u == SubSeq(s, 1, k - 1)
           v == SubSeq(s, k + 1, Len(s))
<1>1. Len(s) \in Nat /\ k \in Nat /\ \A i \in 1..Len(s) : s[i] \in Nodes
  BY LenProperties, ElementOfSeq
<1>2. /\ u \in Seq(Nodes) /\ Len(u) = k - 1
      /\ \A i \in 1..(k - 1) : u[i] = s[i]
  BY <1>1, SubSeqProperties
<1>3. /\ v \in Seq(Nodes) /\ Len(v) = Len(s) - k
      /\ \A i \in 1..(Len(s) - k) : v[i] = s[k + i]
  <2>1. \A i \in (k + 1)..Len(s) : s[i] \in Nodes
    BY <1>1
  <2>2. /\ v \in Seq(Nodes) /\ Len(v) = IF k + 1 <= Len(s) THEN Len(s) - (k + 1) + 1 ELSE 0
        /\ \A i \in 1..(Len(s) - (k + 1) + 1) : v[i] = s[k + 1 + i - 1]
    BY <1>1, <2>1, SubSeqProperties
  <2> HIDE DEF v
  <2> QED
    BY <1>1, <2>2
<1> HIDE DEF u, v
<1>4. /\ u \o v \in Seq(Nodes) /\ Len(u \o v) = Len(u) + Len(v)
      /\ \A i \in 1..(Len(u) + Len(v)) : (u \o v)[i] = IF i <= Len(u) THEN u[i] ELSE v[i - Len(u)]
  BY <1>2, <1>3, ConcatProperties
<1>5. RemoveAt(s, k) = u \o v
  BY DEF RemoveAt, u, v
<1> DEFINE t == u \o v
<1>6. ASSUME NEW i \in 1..Len(t) PROVE t[i] = IF i < k THEN s[i] ELSE s[i + 1]
  <2>1. t[i] = IF i <= Len(u) THEN u[i] ELSE v[i - Len(u)]
    BY <1>4
  <2>2. CASE i < k
    BY <1>1, <1>2, <1>4, <2>1, <2>2
  <2>3. CASE ~(i < k)
    <3>1. i - Len(u) \in 1..(Len(s) - k) /\ k + (i - Len(u)) = i + 1 /\ ~(i <= Len(u))
      BY <1>1, <1>2, <1>3, <1>4, <2>3
    <3>2. v[i - Len(u)] = s[i + 1]
      BY <1>3, <3>1
    <3> QED
      BY <2>1, <2>3, <3>1, <3>2
  <2> QED
    BY <2>2, <2>3
<1>7. Len(t) = Len(s) - 1
  BY <1>1, <1>2, <1>3, <1>4
<1> HIDE DEF t
<1>8. Deleted(s, t, k)
  BY <1>4, <1>6, <1>7 DEF Deleted, t
<1> QED
  BY <1>5, <1>8 DEF t

(* Tail takes out the first entry.                                         *)
LEMMA TailDeletes ==
  ASSUME NEW s \in Seq(Nodes), s # <<>>
  PROVE  Deleted(s, Tail(s), 1)
<1>1. Len(s) \in Nat
  BY LenProperties
<1> QED
  BY <1>1, HeadTailProperties DEF Deleted

(* InsertAt, spelled out.                                                  *)
LEMMA InsertAtParts ==
  ASSUME NEW s, NEW k, NEW n
  PROVE  InsertAt(s, k + 1, n) = SubSeq(s, 1, (k + 1) - 1) \o <<n>> \o SubSeq(s, k + 1, Len(s))
  BY DEF InsertAt

(* InsertAt puts in one entry.                                             *)
LEMMA InsertAtInserts ==
  ASSUME NEW s \in Seq(Nodes), NEW k \in 0..Len(s), NEW n \in Nodes
  PROVE  Inserted(s, InsertAt(s, k + 1, n), k, n)
<1> DEFINE u == SubSeq(s, 1, k)
           v == SubSeq(s, k + 1, Len(s))
           w == u \o <<n>>
           t == w \o v
<1>1. Len(s) \in Nat /\ k \in Nat /\ \A i \in 1..Len(s) : s[i] \in Nodes
  BY LenProperties, ElementOfSeq
<1>2. /\ u \in Seq(Nodes) /\ Len(u) = k
      /\ \A i \in 1..k : u[i] = s[i]
  BY <1>1, SubSeqProperties
<1>3. /\ v \in Seq(Nodes) /\ Len(v) = Len(s) - k
      /\ \A i \in 1..(Len(s) - k) : v[i] = s[k + i]
  <2>1. \A i \in (k + 1)..Len(s) : s[i] \in Nodes
    BY <1>1
  <2>2. /\ v \in Seq(Nodes) /\ Len(v) = IF k + 1 <= Len(s) THEN Len(s) - (k + 1) + 1 ELSE 0
        /\ \A i \in 1..(Len(s) - (k + 1) + 1) : v[i] = s[k + 1 + i - 1]
    BY <1>1, <2>1, SubSeqProperties
  <2> HIDE DEF v
  <2> QED
    BY <1>1, <2>2
<1>4. InsertAt(s, k + 1, n) = t
  <2>1. (k + 1) - 1 = k
    BY <1>1
  <2>2. InsertAt(s, k + 1, n) = t
    <3>1. SubSeq(s, 1, (k + 1) - 1) = u
      BY <2>1
    <3> QED
      BY <3>1, InsertAtParts, Zenon
  <2> QED
    BY <2>2
<1> HIDE DEF u, v
<1>5. /\ <<n>> \in Seq(Nodes) /\ Len(<<n>>) = 1 /\ <<n>>[1] = n
  OBVIOUS
<1>6. /\ w \in Seq(Nodes) /\ Len(w) = k + 1
      /\ \A i \in 1..(k + 1) : w[i] = IF i <= k THEN u[i] ELSE <<n>>[i - k]
  BY <1>2, <1>5, ConcatProperties
<1> HIDE DEF w
<1>7. /\ t \in Seq(Nodes) /\ Len(t) = Len(s) + 1
      /\ \A i \in 1..(Len(s) + 1) : t[i] = IF i <= k + 1 THEN w[i] ELSE v[i - (k + 1)]
  <2>1. /\ t \in Seq(Nodes) /\ Len(t) = Len(w) + Len(v)
        /\ \A i \in 1..(Len(w) + Len(v)) : t[i] = IF i <= Len(w) THEN w[i] ELSE v[i - Len(w)]
    BY <1>3, <1>6, ConcatProperties
  <2>2. Len(w) + Len(v) = Len(s) + 1
    BY <1>1, <1>3, <1>6
  <2> HIDE DEF t
  <2> QED
    BY <1>6, <2>1, <2>2
<1> HIDE DEF t
<1>8. ASSUME NEW i \in 1..Len(t)
      PROVE  t[i] = IF i <= k THEN s[i] ELSE IF i = k + 1 THEN n ELSE s[i - 1]
  <2>1. t[i] = IF i <= k + 1 THEN w[i] ELSE v[i - (k + 1)]
    BY <1>7
  <2>2. CASE i <= k
    BY <1>1, <1>2, <1>6, <1>7, <2>1, <2>2
  <2>3. CASE i = k + 1
    BY <1>1, <1>5, <1>6, <1>7, <2>1, <2>3
  <2>4. CASE i > k + 1
    <3>1. i - (k + 1) \in 1..(Len(s) - k) /\ k + (i - (k + 1)) = i - 1
      BY <1>1, <1>7, <2>4
    <3>2. v[i - (k + 1)] = s[i - 1]
      BY <1>3, <3>1
    <3> QED
      BY <1>1, <1>7, <2>1, <2>4, <3>2
  <2> QED
    BY <1>1, <1>7, <2>2, <2>3, <2>4
<1>9. Inserted(s, t, k, n)
  BY <1>7, <1>8 DEF Inserted
<1> QED
  BY <1>4, <1>9

(* An entry put at either end is put in.                                   *)
LEMMA EndsInsert ==
  ASSUME NEW s \in Seq(Nodes), NEW n \in Nodes
  PROVE  /\ Inserted(s, <<n>> \o s, 0, n)
         /\ Inserted(s, Append(s, n), Len(s), n)
<1>1. Len(s) \in Nat /\ <<n>> \in Seq(Nodes) /\ Len(<<n>>) = 1 /\ <<n>>[1] = n
  BY LenProperties
<1>2. Inserted(s, Append(s, n), Len(s), n)
  <2> DEFINE t == Append(s, n)
  <2>1. /\ t \in Seq(Nodes) /\ Len(t) = Len(s) + 1
        /\ \A i \in 1..Len(s) : t[i] = s[i]
        /\ t[Len(s) + 1] = n
    BY AppendProperties
  <2> HIDE DEF t
  <2>2. Inserted(s, t, Len(s), n)
    BY <1>1, <2>1 DEF Inserted
  <2> QED
    BY <2>2 DEF t
<1>3. Inserted(s, <<n>> \o s, 0, n)
  <2> DEFINE t == <<n>> \o s
  <2>1. /\ t \in Seq(Nodes) /\ Len(t) = 1 + Len(s)
        /\ \A i \in 1..(1 + Len(s)) : t[i] = IF i <= 1 THEN <<n>>[i] ELSE s[i - 1]
    BY <1>1, ConcatProperties
  <2> HIDE DEF t
  <2>2. Inserted(s, t, 0, n)
    BY <1>1, <2>1 DEF Inserted
  <2> QED
    BY <2>2 DEF t
<1> QED
  BY <1>2, <1>3

(* An entry replaced is one deleted and one put in its place.              *)
LEMMA ExceptReplaces ==
  ASSUME NEW s \in Seq(Nodes), NEW k \in 1..Len(s), NEW n \in Nodes, NEW t, Deleted(s, t, k)
  PROVE  Inserted(t, [s EXCEPT ![k] = n], k - 1, n)
<1> DEFINE r == [s EXCEPT ![k] = n]
<1>1. Len(s) \in Nat /\ k \in Nat
  BY LenProperties
<1>2. /\ r \in Seq(Nodes) /\ Len(r) = Len(s)
      /\ \A j \in 1..Len(s) : r[j] = IF j = k THEN n ELSE s[j]
  BY ExceptSeq
<1> HIDE DEF r
<1>3. ASSUME NEW i \in 1..Len(r)
      PROVE  r[i] = IF i <= k - 1 THEN t[i] ELSE IF i = k - 1 + 1 THEN n ELSE t[i - 1]
  <2>1. i - 1 < k \/ i # k
    BY <1>1
  <2>2. CASE i < k
    BY <1>1, <1>2, <2>2, SMTT(30) DEF Deleted
  <2>3. CASE i = k
    BY <1>1, <1>2, <2>3
  <2>4. CASE i > k
    <3>1. i - 1 \in 1..Len(t) /\ ~(i - 1 < k) /\ i - 1 + 1 = i
      BY <1>1, <1>2, <2>4 DEF Deleted
    <3>2. t[i - 1] = s[i]
      BY <3>1 DEF Deleted
    <3> QED
      BY <1>1, <1>2, <2>4, <3>2
  <2> QED
    BY <1>1, <2>2, <2>3, <2>4
<1>4. Inserted(t, r, k - 1, n)
  BY <1>1, <1>2, <1>3 DEF Inserted, Deleted
<1> QED
  BY <1>4 DEF r
-----------------------------------------------------------------------------
(* Entries and heads replaced. *)

(* Two memories with the same pointers are the same.                       *)
LEMMA SamePointers ==
  ASSUME NEW a \in Memory, NEW b \in Memory,
         \A d \in Cells : a[d].next = b[d].next /\ a[d].prev = b[d].prev
  PROVE  a = b
<1>1. \A d \in Cells : a[d] = b[d]
  BY DEF Memory
<1> QED
  BY <1>1 DEF Memory

(* The cell left of new is new itself if old was alone in its ring.        *)
LeftOf(m, old, new) == IF m[old].next = old THEN new ELSE m[old].prev
Replaced(m, m2, old, new, left) ==
    \A d \in Cells :
        /\ m2[d].next = IF d = left THEN new ELSE IF d = new THEN m[old].next ELSE m[d].next
        /\ m2[d].prev = IF d = new THEN left ELSE IF d = m[old].next THEN new ELSE m[d].prev

(* list_replace writes the two neighbours of old, and new.                 *)
LEMMA ReplaceStores ==
  ASSUME NEW m \in Memory, NEW old \in Cells, NEW new \in Cells, old # new,
         m[old].next \in Cells, m[old].prev \in Cells, m[old].next # new
  PROVE  /\ ListReplace(m, old, new) \in Memory
         /\ Replaced(m, ListReplace(m, old, new), old, new, LeftOf(m, old, new))
<1> DEFINE r == m[old].next
           l == LeftOf(m, old, new)
           a == SetNext(m, new, r)
           b == SetPrev(a, r, new)
           c == SetPrev(b, new, b[old].prev)
           m2 == SetNext(c, b[old].prev, new)
<1>1. ListReplace(m, old, new) = m2
  BY DEF ListReplace, SetNext, SetPrev
<1>0. r \in Cells \cup {Poison} /\ r \in Cells /\ new \in Cells \cup {Poison} /\ r # new
      /\ m[old].next = r
  OBVIOUS
<1> HIDE DEF r
<1>2. /\ a \in Memory
      /\ \A d \in Cells : /\ a[d].next = IF d = new THEN r ELSE m[d].next
                          /\ a[d].prev = m[d].prev
  BY <1>0, StoreNext
<1> HIDE DEF a
<1>3. /\ b \in Memory
      /\ \A d \in Cells : /\ b[d].prev = IF d = r THEN new ELSE a[d].prev
                          /\ b[d].next = a[d].next
  BY <1>0, <1>2, StorePrev
<1> HIDE DEF b
<1>4. b[old].prev = l /\ l \in Cells
  BY <1>0, <1>2, <1>3 DEF LeftOf
<1> HIDE DEF l
<1>5. /\ c \in Memory
      /\ \A d \in Cells : /\ c[d].prev = IF d = new THEN l ELSE b[d].prev
                          /\ c[d].next = b[d].next
  BY <1>3, <1>4, StorePrev
<1> HIDE DEF c
<1>6. /\ m2 \in Memory
      /\ \A d \in Cells : /\ m2[d].next = IF d = l THEN new ELSE c[d].next
                          /\ m2[d].prev = c[d].prev
  BY <1>4, <1>5, StoreNext
<1> HIDE DEF m2
<1>7. Replaced(m, m2, old, new, l)
  BY <1>0, <1>2, <1>3, <1>5, <1>6 DEF Replaced
<1> QED
  BY <1>1, <1>6, <1>7 DEF l

(* To replace an entry is to delete it and to add the new one in its place.*)
LEMMA HoldsReplace ==
  ASSUME NEW m, NEW st, NEW F, Holds(m, st, F), NEW h \in Heads \ st,
         NEW k \in 1..Len(F[h]), NEW n \in Nodes, Away(st, F, n)
  PROVE  /\ Holds(ListReplace(m, F[h][k], n), st, [F EXCEPT ![h] = [F[h] EXCEPT ![k] = n]])
         /\ Away(st, [F EXCEPT ![h] = [F[h] EXCEPT ![k] = n]], F[h][k])
<1> DEFINE s == F[h]
           e == s[k]
           p == Cell(s, h, k - 1)
           q == Cell(s, h, k + 1)
           t == RemoveAt(s, k)
           r == [s EXCEPT ![k] = n]
           m1 == ListDelEntry(m, e)
           F1 == [F EXCEPT ![h] = t]
           m2 == ListAdd(m1, n, p, q)
           F2 == [F EXCEPT ![h] = r]
<1>1. /\ m \in Memory /\ s \in Seq(Nodes) /\ Distinct(s) /\ Ring(m, h, s) /\ Len(s) \in Nat
      /\ k \in Nat /\ F \in [Heads -> Seq(Nodes) \cup {None}] /\ e \in Nodes
  BY ListsHeld, ElementOfSeq DEF Holds
<1>2. Deleted(s, t, k) /\ t \in Seq(Nodes) /\ Len(t) = Len(s) - 1
  BY <1>1, RemoveAtDeletes DEF Deleted
<1>3. Inserted(t, r, k - 1, n) /\ r \in Seq(Nodes)
  BY <1>1, <1>2, ExceptReplaces DEF Inserted
<1> HIDE DEF t, r
<1>4. Holds(m1, st, F1) /\ Away(st, F1, e)
  BY <1>2, HoldsDel
<1>5. p \in Cells /\ q \in Cells /\ n \in Cells /\ e \in Cells /\ n # p /\ n # q /\ n # e
  <2>1. n # e /\ e \in Cells /\ n \in Cells
    BY <1>1 DEF Away, Cells
  <2> QED
    BY <1>1, <2>1, OtherRings
<1>6. m[e].next = q /\ m[e].prev = p
  <2>1. e = Cell(s, h, k) /\ k \in 0..Len(s) /\ k - 1 \in 0..Len(s) /\ k - 1 + 1 = k
    BY <1>1 DEF Cell
  <2>2. m[Cell(s, h, k)].next = q
    BY <1>1, <2>1 DEF Ring
  <2>3. m[Cell(s, h, k - 1 + 1)].prev = p
    BY <1>1, <2>1 DEF Ring
  <2> QED
    BY <2>1, <2>2, <2>3
<1>7. e # p /\ e # q
  <2>1. e = Cell(s, h, k) /\ k \in 0..Len(s) /\ k - 1 \in 0..Len(s) /\ k \in 1..(Len(s) + 1)
        /\ k + 1 \in 1..(Len(s) + 1)
    BY <1>1 DEF Cell
  <2>2. Cell(s, h, k) # p
    BY <1>1, <2>1, CellsDiffer
  <2>3. Cell(s, h, k) # q
    BY <1>1, <2>1, CellsDiffer
  <2> QED
    BY <2>1, <2>2, <2>3
<1>8. p = Cell(t, h, k - 1) /\ q = Cell(t, h, (k - 1) + 1)
  BY <1>1, <1>2 DEF Cell, Deleted
<1>9. /\ F1 \in [Heads -> Seq(Nodes) \cup {None}] /\ F1[h] = t
      /\ \A g \in Heads \ {h} : F1[g] = F[g]
  BY <1>1, <1>2, OneList
<1>10. [F1 EXCEPT ![h] = r] = F2
  BY <1>1
<1>11. Away(st, F1, n)
  <2>1. ASSUME NEW i \in 1..Len(t) PROVE t[i] # n
    <3>1. /\ t[i] = s[i] \/ t[i] = s[i + 1]
          /\ i \in 1..Len(s) /\ i + 1 \in 1..Len(s)
      BY <1>1, <1>2 DEF Deleted
    <3> QED
      BY <3>1 DEF Away
  <2>2. ASSUME NEW g \in Heads \ st, g # h, NEW i \in 1..Len(F1[g]) PROVE F1[g][i] # n
    BY <1>9, <2>2 DEF Away
  <2> QED
    BY <1>9, <2>1, <2>2 DEF Away
<1>12. m1 \in Memory /\ Joined(m, m1, p, q)
  <2> HIDE DEF e, p, q, s
  <2> QED
    BY <1>1, <1>5, <1>6, DelStores DEF ListDelEntry
<1> HIDE DEF F1
<1>13. Holds(m2, st, F2)
  <2>1. k - 1 \in 0..Len(F1[h])
    BY <1>1, <1>2, <1>9
  <2>2. Holds(ListAdd(m1, n, Cell(F1[h], h, k - 1), Cell(F1[h], h, (k - 1) + 1)), st, [F1 EXCEPT ![h] = r])
    <3> HIDE DEF m1
    <3>1. Inserted(F1[h], r, k - 1, n)
      BY <1>3, <1>9
    <3> QED
      BY <1>4, <1>11, <2>1, <3>1, HoldsAdd
  <2> QED
    BY <1>8, <1>9, <1>10, <2>2
<1>14. ListReplace(m, e, n) = m2
  <2>1. m2 \in Memory /\ Linked(m1, m2, n, p, q)
    BY <1>5, <1>12, AddStores
  <2>2. /\ ListReplace(m, e, n) \in Memory
        /\ Replaced(m, ListReplace(m, e, n), e, n, p)
    <3>1. LeftOf(m, e, n) = p
      BY <1>6, <1>7 DEF LeftOf
    <3> HIDE DEF e, p, q, m2, m1
    <3> QED
      BY <1>1, <1>5, <1>6, <3>1, ReplaceStores
  <2> DEFINE m3 == ListReplace(m, e, n)
  <2> HIDE DEF m3, m2, m1, e, p, q, s
  <2>3. m3 \in Memory /\ Replaced(m, m3, e, n, p)
    BY <2>2 DEF m3
  <2>4. ASSUME NEW d \in Cells PROVE m2[d].next = m3[d].next /\ m2[d].prev = m3[d].prev
    BY <1>5, <1>6, <1>12, <2>1, <2>3 DEF Linked, Joined, Replaced
  <2>5. m3 = m2
    BY <2>1, <2>3, <2>4, SamePointers
  <2> QED
    BY <2>5 DEF m3
<1>15. Away(st, F2, e)
  <2>1. ASSUME NEW i \in 1..Len(r) PROVE r[i] # e
    <3>1. r[i] = n \/ \E j \in 1..Len(t) : r[i] = t[j]
      BY <1>1, <1>2, <1>3 DEF Inserted
    <3>2. \A j \in 1..Len(t) : t[j] # e
      BY <1>4, <1>9 DEF Away
    <3> QED
      BY <1>5, <3>1, <3>2
  <2>2. F2[h] = r /\ \A g \in Heads \ {h} : F2[g] = F[g]
    BY <1>1, <1>3, OneList
  <2>3. ASSUME NEW g \in Heads \ st, g # h, NEW i \in 1..Len(F2[g]) PROVE F2[g][i] # e
    BY <1>4, <1>9, <2>2, <2>3 DEF Away
  <2> QED
    BY <2>1, <2>2, <2>3 DEF Away
<1> QED
  BY <1>13, <1>14, <1>15 DEF r
(* A function changed at two heads.                                        *)
LEMMA TwoLists ==
  ASSUME NEW F \in [Heads -> Seq(Nodes) \cup {None}], NEW g \in Heads, NEW h \in Heads, g # h,
         NEW t \in Seq(Nodes) \cup {None}, NEW u \in Seq(Nodes) \cup {None}
  PROVE  /\ [F EXCEPT ![h] = t, ![g] = u] \in [Heads -> Seq(Nodes) \cup {None}]
         /\ [F EXCEPT ![h] = t, ![g] = u][h] = t
         /\ [F EXCEPT ![h] = t, ![g] = u][g] = u
         /\ \A l \in Heads \ {g, h} : [F EXCEPT ![h] = t, ![g] = u][l] = F[l]
  OBVIOUS

(* The cells of the ring of h under another head.                          *)
LEMMA HoldsTake ==
  ASSUME NEW m, NEW st, NEW F, Holds(m, st, F), NEW h \in Heads \ st, NEW g \in Heads, g # h
  PROVE  Holds(ListReplace(m, h, g), (st \ {g}) \cup {h}, [F EXCEPT ![h] = None, ![g] = F[h]])
<1> DEFINE s == F[h]
           q == Cell(s, h, 1)
           p == Cell(s, h, Len(s))
           l == LeftOf(m, h, g)
           m2 == ListReplace(m, h, g)
           F2 == [F EXCEPT ![h] = None, ![g] = s]
           st2 == (st \ {g}) \cup {h}
<1>1. /\ m \in Memory /\ s \in Seq(Nodes) /\ Distinct(s) /\ Ring(m, h, s) /\ Len(s) \in Nat
      /\ F \in [Heads -> Seq(Nodes) \cup {None}] /\ st \in SUBSET Heads
      /\ \A i \in 1..Len(s) : s[i] \in Nodes
  BY ListsHeld, ElementOfSeq DEF Holds
<1>2. p \in Cells /\ q \in Cells /\ g \in Cells /\ h \in Cells /\ g # p /\ g # q
  BY <1>1, OtherRings DEF Cells
<1>3. m[h].next = q /\ m[h].prev = p
  <2>1. 0 \in 0..Len(s) /\ Len(s) \in 0..Len(s) /\ 0 + 1 = 1
    BY <1>1
  <2>2. Cell(s, h, 0) = h /\ Cell(s, h, Len(s) + 1) = h
    BY <1>1, CellIsCell
  <2>3. m[Cell(s, h, 0)].next = Cell(s, h, 0 + 1)
    BY <1>1, <2>1 DEF Ring
  <2>4. m[Cell(s, h, Len(s) + 1)].prev = p
    BY <1>1, <2>1 DEF Ring
  <2> QED
    BY <2>1, <2>2, <2>3, <2>4
<1>4. m2 \in Memory /\ Replaced(m, m2, h, g, l)
  <2> HIDE DEF p, q, l, m2
  <2> QED
    BY <1>1, <1>2, <1>3, ReplaceStores DEF l, m2
<1>5. l = IF q = h THEN g ELSE p
  BY <1>3 DEF LeftOf
<1> HIDE DEF m2, l
<1>6. Ring(m2, g, s)
  <2>1. CASE Len(s) = 0
    <3>1. q = h /\ l = g /\ Cell(s, g, 0) = g /\ Cell(s, g, 1) = g
      BY <1>1, <1>5, <2>1 DEF Cell
    <3>2. m2[g].next = g /\ m2[g].prev = g
      BY <1>2, <1>3, <1>4, <3>1 DEF Replaced
    <3> QED
      BY <1>1, <2>1, <3>1, <3>2 DEF Ring
  <2>2. CASE Len(s) # 0
    <3>1. q = s[1] /\ p = s[Len(s)] /\ q \in Nodes /\ 1 \in 1..Len(s) /\ Len(s) \in 1..Len(s)
      BY <1>1, <2>2 DEF Cell
    <3>2. q # h /\ l = p
      BY <1>1, <1>5, <3>1, CellsAssumption
    <3>3. ASSUME NEW i \in 0..Len(s)
          PROVE  m2[Cell(s, g, i)].next = Cell(s, g, i + 1) /\ m2[Cell(s, g, i + 1)].prev = Cell(s, g, i)
      <4>1. CASE i = 0
        <5>1. Cell(s, g, i) = g /\ Cell(s, g, i + 1) = q
          BY <1>1, <2>2, <3>1, <4>1 DEF Cell
        <5>2. m2[g].next = q /\ m2[q].prev = g
          BY <1>2, <1>3, <1>4, <3>2 DEF Replaced
        <5> QED
          BY <5>1, <5>2
      <4>2. CASE i = Len(s)
        <5>1. Cell(s, g, i) = p /\ Cell(s, g, i + 1) = g
          BY <1>1, <2>2, <3>1, <4>2 DEF Cell
        <5>2. m2[p].next = g /\ m2[g].prev = p
          BY <1>2, <1>3, <1>4, <3>2 DEF Replaced
        <5> QED
          BY <5>1, <5>2
      <4>3. CASE i # 0 /\ i # Len(s)
        <5>1. i \in 1..Len(s) /\ i + 1 \in 1..Len(s)
          BY <1>1, <4>3
        <5>2. /\ Cell(s, g, i) = s[i] /\ Cell(s, g, i + 1) = s[i + 1]
              /\ Cell(s, h, i) = s[i] /\ Cell(s, h, i + 1) = s[i + 1]
          BY <5>1 DEF Cell
        <5>3. m[s[i]].next = s[i + 1] /\ m[s[i + 1]].prev = s[i]
          <6>1. /\ m[Cell(s, h, i)].next = Cell(s, h, i + 1)
                /\ m[Cell(s, h, i + 1)].prev = Cell(s, h, i)
            BY <1>1 DEF Ring
          <6> QED
            BY <5>2, <6>1
        <5>4. s[i] # p /\ s[i + 1] # q
          BY <1>1, <3>1, <4>3, <5>1 DEF Distinct
        <5>5. s[i] \in Cells /\ s[i + 1] \in Cells /\ s[i] # g /\ s[i + 1] # g
          BY <1>1, <5>1, CellsAssumption DEF Cells
        <5> HIDE DEF p, q, s
        <5>6. m2[s[i]].next = s[i + 1]
          BY <1>4, <3>2, <5>3, <5>4, <5>5 DEF Replaced
        <5>7. m2[s[i + 1]].prev = s[i]
          BY <1>3, <1>4, <3>2, <5>3, <5>4, <5>5 DEF Replaced
        <5> QED
          BY <5>2, <5>6, <5>7
      <4> QED
        BY <4>1, <4>2, <4>3
    <3> QED
      BY <3>3 DEF Ring
  <2> QED
    BY <2>1, <2>2
<1>7. /\ F2 \in [Heads -> Seq(Nodes) \cup {None}]
      /\ F2[h] = None /\ F2[g] = s
      /\ \A d \in Heads \ {g, h} : F2[d] = F[d]
  BY <1>1, TwoLists
<1> HIDE DEF F2
<1>8. OthersKept(m, m2, st, F, {g, h})
  <2>1. ASSUME NEW d \in Heads \ (st \cup {g, h}), NEW i \in 0..Len(F[d])
        PROVE  /\ m2[Cell(F[d], d, i)].next = m[Cell(F[d], d, i)].next
               /\ m2[Cell(F[d], d, i)].prev = m[Cell(F[d], d, i)].prev
    <3> DEFINE c == Cell(F[d], d, i)
    <3>1. c \in Cells /\ c # p /\ c # q /\ c # g
      BY <1>1, OtherRings
    <3> HIDE DEF c, p, q
    <3>2. c # l
      BY <1>5, <3>1
    <3>3. m2[c].next = m[c].next /\ m2[c].prev = m[c].prev
      BY <1>3, <1>4, <3>1, <3>2 DEF Replaced
    <3> QED
      BY <3>3 DEF c
  <2> QED
    BY <2>1 DEF OthersKept
<1>9. NewRings(m2, st2, F2, {g, h})
  BY <1>1, <1>6, <1>7 DEF NewRings
<1>10. NewApart(st, F, st2, F2, {g, h})
  <2>1. \A d \in Heads \ (st \cup {g, h}) : \A i \in 1..Len(F[d]), j \in 1..Len(s) : F[d][i] # s[j]
    BY DEF Holds, Apart
  <2>2. {g, h} \ st2 = {g}
    OBVIOUS
  <2> QED
    BY <1>1, <1>7, <2>1, <2>2 DEF NewApart, Distinct
<1>11. st2 \in SUBSET Heads /\ st2 \ {g, h} = st \ {g, h} /\ {g, h} \in SUBSET Heads
  BY <1>1
<1> HIDE DEF st2
<1>12. Holds(m2, st2, F2)
  BY <1>4, <1>7, <1>8, <1>9, <1>10, <1>11, RingsChange
<1> QED
  BY <1>12 DEF m2, st2, F2
-----------------------------------------------------------------------------
(* Lists joined and cut. *)

(* m2 is m with the cells from f to e put between prev and next.           *)
Spliced(m, m2, f, e, prev, next) ==
    \A d \in Cells :
        /\ m2[d].next = IF d = e THEN next ELSE IF d = prev THEN f ELSE m[d].next
        /\ m2[d].prev = IF d = next THEN e ELSE IF d = f THEN prev ELSE m[d].prev

(* __list_splice writes the two ends of list, and prev and next.           *)
LEMMA SpliceStores ==
  ASSUME NEW m \in Memory, NEW list \in Cells, NEW prev \in Cells, NEW next \in Cells,
         NEW f \in Cells, NEW e \in Cells, m[list].next = f, m[list].prev = e
  PROVE  /\ Splice(m, list, prev, next) \in Memory
         /\ Spliced(m, Splice(m, list, prev, next), f, e, prev, next)
<1> DEFINE a == SetPrev(m, f, prev)
           b == SetNext(a, prev, f)
           c == SetNext(b, e, next)
           m2 == SetPrev(c, next, e)
<1>1. Splice(m, list, prev, next) = m2
  BY DEF Splice, SetNext, SetPrev
<1>2. /\ a \in Memory
      /\ \A d \in Cells : /\ a[d].prev = IF d = f THEN prev ELSE m[d].prev
                          /\ a[d].next = m[d].next
  BY StorePrev
<1> HIDE DEF a
<1>3. /\ b \in Memory
      /\ \A d \in Cells : /\ b[d].next = IF d = prev THEN f ELSE a[d].next
                          /\ b[d].prev = a[d].prev
  BY <1>2, StoreNext
<1> HIDE DEF b
<1>4. /\ c \in Memory
      /\ \A d \in Cells : /\ c[d].next = IF d = e THEN next ELSE b[d].next
                          /\ c[d].prev = b[d].prev
  BY <1>3, StoreNext
<1> HIDE DEF c
<1>5. /\ m2 \in Memory
      /\ \A d \in Cells : /\ m2[d].prev = IF d = next THEN e ELSE c[d].prev
                          /\ m2[d].next = c[d].next
  BY <1>4, StorePrev
<1> HIDE DEF m2
<1>6. Spliced(m, m2, f, e, prev, next)
  BY <1>2, <1>3, <1>4, <1>5 DEF Spliced
<1> QED
  BY <1>1, <1>5, <1>6

(* t is s with u put behind its first k entries.                           *)
Put(s, u, t, k) ==
    /\ t \in Seq(Nodes) /\ Len(t) = Len(s) + Len(u)
    /\ \A i \in 1..Len(t) : t[i] = IF i <= k THEN s[i]
                                   ELSE IF i <= k + Len(u) THEN u[i - k] ELSE s[i - Len(u)]

(* The ring of u, without its head, put behind the k-th cell of s.         *)
LEMMA RingPut ==
  ASSUME NEW g \in Heads, NEW h \in Heads, NEW s \in Seq(Nodes), NEW u \in Seq(Nodes),
         Distinct(s), Distinct(u), \A i \in 1..Len(s), j \in 1..Len(u) : s[i] # u[j],
         Len(u) # 0, NEW k \in 0..Len(s), NEW t, Put(s, u, t, k),
         NEW m, Ring(m, h, s), Ring(m, g, u),
         NEW m2, Spliced(m, m2, u[1], u[Len(u)], Cell(s, h, k), Cell(s, h, k + 1))
  PROVE  Ring(m2, h, t) /\ Distinct(t)
<1> DEFINE p == Cell(s, h, k)
           q == Cell(s, h, k + 1)
           f == u[1]
           e == u[Len(u)]
           K == k + Len(u)
<1>1. /\ Len(s) \in Nat /\ k \in Nat /\ Len(u) \in Nat /\ Len(u) >= 1
      /\ K \in Nat /\ K >= k + 1
      /\ t \in Seq(Nodes) /\ Len(t) = Len(s) + Len(u)
  BY CellIsCell DEF Put
<1>2. \A i \in 0..(Len(t) + 1) :
        Cell(t, h, i) = IF i <= k THEN Cell(s, h, i)
                        ELSE IF i <= K THEN u[i - k] ELSE Cell(s, h, i - Len(u))
  <2>1. ASSUME NEW i \in 0..(Len(t) + 1)
        PROVE  Cell(t, h, i) = IF i <= k THEN Cell(s, h, i)
                        ELSE IF i <= K THEN u[i - k] ELSE Cell(s, h, i - Len(u))
    <3>1. CASE i = 0
      BY <1>1, <3>1 DEF Cell
    <3>2. CASE i = Len(t) + 1
      BY <1>1, <3>2 DEF Cell
    <3>3. CASE i # 0 /\ i # Len(t) + 1
      <4>0. i \in 1..Len(t) /\ i \in Nat
        <5>1. \A L \in Nat : \A j \in 0..(L + 1) : j # 0 /\ j # L + 1 => j \in 1..L /\ j \in Nat
          OBVIOUS
        <5>2. Len(t) \in Nat
          BY <1>1
        <5> QED
          BY <3>3, <5>1, <5>2
      <4>1. i \in 1..Len(t) /\ Cell(t, h, i) = t[i]
        BY <4>0 DEF Cell
      <4>2. t[i] = IF i <= k THEN s[i] ELSE IF i <= k + Len(u) THEN u[i - k] ELSE s[i - Len(u)]
        BY <4>1 DEF Put
      <4>3. CASE i <= k
        BY <1>1, <4>0, <4>1, <4>2, <4>3 DEF Cell
      <4>4. CASE i > k /\ i <= K
        BY <1>1, <4>1, <4>2, <4>4
      <4>5. CASE i > K
        <5>1. i - Len(u) \in 1..Len(s)
          BY <1>1, <4>1, <4>5
        <5> QED
          BY <1>1, <4>1, <4>2, <4>5, <5>1 DEF Cell
      <4> QED
        BY <1>1, <4>1, <4>3, <4>4, <4>5
    <3> QED
      BY <3>1, <3>2, <3>3
  <2> QED
    BY <2>1
<1>3. /\ \A i \in 0..(Len(s) + 1) : Cell(s, h, i) \in Cells
      /\ \A j \in 1..Len(u) : u[j] \in Cells
  BY <1>1, CellIsCell DEF Cells
<1>4. \A i \in 0..(Len(s) + 1), j \in 1..Len(u) : Cell(s, h, i) # u[j]
  BY <1>1, CellIsCell DEF Cell
<1>5. \A j \in 1..Len(u) : j # Len(u) => m[u[j]].next = u[j + 1] /\ m[u[j + 1]].prev = u[j]
  <2>1. ASSUME NEW j \in 1..Len(u), j # Len(u) PROVE m[u[j]].next = u[j + 1] /\ m[u[j + 1]].prev = u[j]
    <3>1. j \in 0..Len(u) /\ Cell(u, g, j) = u[j] /\ Cell(u, g, j + 1) = u[j + 1]
      BY <1>1, <2>1 DEF Cell
    <3> QED
      BY <3>1 DEF Ring
  <2> QED
    BY <2>1
<1>6. 1 \in 1..Len(u) /\ Len(u) \in 1..Len(u)
  BY <1>1
<1>7. ASSUME NEW i \in 0..Len(t)
      PROVE  m2[Cell(t, h, i)].next = Cell(t, h, i + 1) /\ m2[Cell(t, h, i + 1)].prev = Cell(t, h, i)
  <2>0. i \in 0..(Len(t) + 1) /\ i + 1 \in 0..(Len(t) + 1) /\ i \in Nat
    BY <1>1
  <2>1. CASE i < k
    <3>1. Cell(t, h, i) = Cell(s, h, i) /\ Cell(t, h, i + 1) = Cell(s, h, i + 1)
      BY <1>1, <1>2, <2>0, <2>1
    <3>2. i \in 0..Len(s) /\ i + 1 \in 1..(Len(s) + 1) /\ k + 1 \in 1..(Len(s) + 1)
      BY <1>1, <2>0, <2>1
    <3>3. Cell(s, h, i) # p /\ Cell(s, h, i + 1) # q
      BY <1>1, <2>1, <3>2, CellsDiffer
    <3>4. m[Cell(s, h, i)].next = Cell(s, h, i + 1) /\ m[Cell(s, h, i + 1)].prev = Cell(s, h, i)
      BY <3>2 DEF Ring
    <3>5. /\ Cell(s, h, i) \in Cells /\ Cell(s, h, i + 1) \in Cells
          /\ Cell(s, h, i) # e /\ Cell(s, h, i + 1) # f
      BY <1>1, <1>3, <1>4, <1>6, <3>2
    <3> HIDE DEF p, q, e, f
    <3> QED
      BY <3>1, <3>3, <3>4, <3>5 DEF Spliced, p, q, e, f
  <2>2. CASE i = k
    <3>1. Cell(t, h, i) = p /\ Cell(t, h, i + 1) = f
      BY <1>1, <1>2, <2>0, <2>2, SMTT(30)
    <3>2. p \in Cells /\ f \in Cells /\ p # e /\ f # q
      <4>1. k \in 0..(Len(s) + 1) /\ k + 1 \in 0..(Len(s) + 1)
        BY <1>1
      <4> QED
        BY <1>3, <1>4, <1>6, <4>1
    <3> QED
      BY <3>1, <3>2 DEF Spliced
  <2>3. CASE k < i /\ i < K
    <3>1. Cell(t, h, i) = u[i - k] /\ Cell(t, h, i + 1) = u[(i - k) + 1]
      <4>1. (i + 1) - k = (i - k) + 1 /\ i + 1 <= K /\ ~(i + 1 <= k)
        BY <1>1, <2>0, <2>3
      <4> QED
        BY <1>1, <1>2, <2>0, <2>3, <4>1
    <3>2. i - k \in 1..Len(u) /\ i - k # Len(u) /\ (i - k) + 1 \in 1..Len(u) /\ (i - k) + 1 # 1
      BY <1>1, <2>0, <2>3
    <3>3. u[i - k] # e /\ u[(i - k) + 1] # f
      BY <1>6, <3>2 DEF Distinct
    <3>4. m[u[i - k]].next = u[(i - k) + 1] /\ m[u[(i - k) + 1]].prev = u[i - k]
      BY <1>5, <3>2
    <3>5. /\ u[i - k] \in Cells /\ u[(i - k) + 1] \in Cells
          /\ u[i - k] # p /\ u[(i - k) + 1] # q
      <4>1. k \in 0..(Len(s) + 1) /\ k + 1 \in 0..(Len(s) + 1)
        BY <1>1
      <4> QED
        BY <1>3, <1>4, <3>2, <4>1
    <3> HIDE DEF p, q, e, f
    <3> QED
      BY <3>1, <3>3, <3>4, <3>5, SMTT(30) DEF Spliced, p, q, e, f
  <2>4. CASE i = K
    <3>1. i - k = Len(u) /\ (i + 1) - Len(u) = k + 1 /\ ~(i <= k) /\ ~(i + 1 <= K) /\ ~(i + 1 <= k)
      BY <1>1, <2>4
    <3>2. Cell(t, h, i) = e /\ Cell(t, h, i + 1) = q
      BY <1>1, <1>2, <2>0, <2>4, <3>1
    <3>3. e \in Cells /\ q \in Cells
      BY <1>1, <1>3, <1>6
    <3> QED
      BY <3>2, <3>3 DEF Spliced
  <2>5. CASE i > K
    <3> DEFINE a == i - Len(u)
    <3>1. /\ a \in 0..Len(s) /\ a + 1 \in 1..(Len(s) + 1) /\ k + 1 \in 1..(Len(s) + 1)
          /\ a # k /\ a + 1 # k + 1 /\ (i + 1) - Len(u) = a + 1
          /\ ~(i <= k) /\ ~(i <= K) /\ ~(i + 1 <= K) /\ ~(i + 1 <= k)
      BY <1>1, <2>0, <2>5
    <3>2. Cell(t, h, i) = Cell(s, h, a) /\ Cell(t, h, i + 1) = Cell(s, h, a + 1)
      BY <1>2, <2>0, <3>1
    <3> HIDE DEF a
    <3>3. Cell(s, h, a) # p /\ Cell(s, h, a + 1) # q
      BY <1>1, <3>1, CellsDiffer
    <3>4. m[Cell(s, h, a)].next = Cell(s, h, a + 1) /\ m[Cell(s, h, a + 1)].prev = Cell(s, h, a)
      BY <3>1 DEF Ring
    <3>5. /\ Cell(s, h, a) \in Cells /\ Cell(s, h, a + 1) \in Cells
          /\ Cell(s, h, a) # e /\ Cell(s, h, a + 1) # f
      BY <1>1, <1>3, <1>4, <1>6, <3>1
    <3> HIDE DEF p, q, e, f
    <3> QED
      BY <3>2, <3>3, <3>4, <3>5 DEF Spliced, p, q, e, f
  <2> QED
    BY <1>1, <2>0, <2>1, <2>2, <2>3, <2>4, <2>5
<1>8. ASSUME NEW i \in 1..Len(t), NEW j \in 1..Len(t), t[i] = t[j] PROVE i = j
  <2> DEFINE a == IF i <= k THEN i ELSE i - Len(u)
             b == IF j <= k THEN j ELSE j - Len(u)
  <2>1. CASE (k < i /\ i <= K) /\ (k < j /\ j <= K)
    <3>1. i - k \in 1..Len(u) /\ j - k \in 1..Len(u) /\ t[i] = u[i - k] /\ t[j] = u[j - k]
      BY <1>1, <2>1, SMTT(30) DEF Put
    <3>2. i - k = j - k
      BY <1>8, <3>1 DEF Distinct
    <3> QED
      BY <1>1, <3>2
  <2>2. CASE ~(k < i /\ i <= K) /\ ~(k < j /\ j <= K)
    <3>1. a \in 1..Len(s) /\ b \in 1..Len(s) /\ t[i] = s[a] /\ t[j] = s[b]
      BY <1>1, <2>2, SMTT(30) DEF Put
    <3>2. a = b
      BY <1>8, <3>1 DEF Distinct
    <3> QED
      BY <1>1, <2>2, <3>2
  <2>3. CASE (k < i /\ i <= K) /\ ~(k < j /\ j <= K)
    <3>1. i - k \in 1..Len(u) /\ b \in 1..Len(s) /\ t[i] = u[i - k] /\ t[j] = s[b]
      BY <1>1, <2>3 DEF Put
    <3> QED
      BY <1>8, <3>1
  <2>4. CASE ~(k < i /\ i <= K) /\ (k < j /\ j <= K)
    <3>1. a \in 1..Len(s) /\ j - k \in 1..Len(u) /\ t[i] = s[a] /\ t[j] = u[j - k]
      BY <1>1, <2>4 DEF Put
    <3> QED
      BY <1>8, <3>1
  <2> QED
    BY <2>1, <2>2, <2>3, <2>4
<1>9. Distinct(t)
  BY <1>8 DEF Distinct
<1> QED
  BY <1>7, <1>9 DEF Ring
(* The list functions that splice: h gets the nodes of g, and the pointers *)
(* of g are stale from then on.                                            *)
LEMMA HoldsJoin ==
  ASSUME NEW m, NEW st, NEW F, Holds(m, st, F), NEW h \in Heads \ st, NEW g \in Heads \ st, g # h,
         Len(F[g]) # 0, NEW k \in 0..Len(F[h]), NEW t, Put(F[h], F[g], t, k)
  PROVE  Holds(Splice(m, g, Cell(F[h], h, k), Cell(F[h], h, k + 1)), st \cup {g},
               [F EXCEPT ![h] = t, ![g] = None])
<1> DEFINE s == F[h]
           u == F[g]
           p == Cell(s, h, k)
           q == Cell(s, h, k + 1)
           f == u[1]
           e == u[Len(u)]
           m2 == Splice(m, g, p, q)
           F2 == [F EXCEPT ![h] = t, ![g] = None]
           st2 == st \cup {g}
<1>1. /\ m \in Memory /\ s \in Seq(Nodes) /\ Distinct(s) /\ Ring(m, h, s) /\ Len(s) \in Nat
      /\ u \in Seq(Nodes) /\ Distinct(u) /\ Ring(m, g, u) /\ Len(u) \in Nat
      /\ F \in [Heads -> Seq(Nodes) \cup {None}] /\ st \in SUBSET Heads
      /\ \A i \in 1..Len(u) : u[i] \in Nodes
  BY ListsHeld, ElementOfSeq DEF Holds
<1>2. /\ k \in Nat /\ t \in Seq(Nodes) /\ Len(t) = Len(s) + Len(u)
      /\ \A i \in 1..Len(s), j \in 1..Len(u) : s[i] # u[j]
      /\ 1 \in 1..Len(u) /\ Len(u) \in 1..Len(u)
  <2>1. \A i \in 1..Len(s), j \in 1..Len(u) : s[i] # u[j]
    BY DEF Holds, Apart
  <2> QED
    BY <1>1, <2>1 DEF Put
<1>3. p \in Cells /\ q \in Cells /\ f \in Cells /\ e \in Cells /\ g \in Cells
  BY <1>1, <1>2, OtherRings DEF Cells
<1>4. m[g].next = f /\ m[g].prev = e
  <2>1. 0 \in 0..Len(u) /\ Len(u) \in 0..Len(u) /\ 0 + 1 = 1
    BY <1>1
  <2>2. Cell(u, g, 0) = g /\ Cell(u, g, Len(u) + 1) = g /\ Cell(u, g, 1) = f /\ Cell(u, g, Len(u)) = e
    BY <1>1, <1>2, CellIsCell
  <2>3. m[Cell(u, g, 0)].next = Cell(u, g, 0 + 1)
    BY <1>1, <2>1 DEF Ring
  <2>4. m[Cell(u, g, Len(u) + 1)].prev = Cell(u, g, Len(u))
    BY <1>1, <2>1 DEF Ring
  <2> QED
    BY <2>1, <2>2, <2>3, <2>4
<1>5. m2 \in Memory /\ Spliced(m, m2, f, e, p, q)
  <2> HIDE DEF p, q, e, f
  <2> QED
    BY <1>1, <1>3, <1>4, SpliceStores
<1> HIDE DEF m2
<1>6. Ring(m2, h, t) /\ Distinct(t)
  BY <1>1, <1>2, <1>5, RingPut
<1>7. /\ F2 \in [Heads -> Seq(Nodes) \cup {None}]
      /\ F2[h] = t /\ F2[g] = None
      /\ \A d \in Heads \ {g, h} : F2[d] = F[d]
  BY <1>1, <1>2, TwoLists, SMTT(30)
<1> HIDE DEF F2
<1>8. OthersKept(m, m2, st, F, {g, h})
  <2>1. ASSUME NEW d \in Heads \ (st \cup {g, h}), NEW i \in 0..Len(F[d])
        PROVE  /\ m2[Cell(F[d], d, i)].next = m[Cell(F[d], d, i)].next
               /\ m2[Cell(F[d], d, i)].prev = m[Cell(F[d], d, i)].prev
    <3> DEFINE c == Cell(F[d], d, i)
    <3>1. f = Cell(u, g, 1) /\ e = Cell(u, g, Len(u))
      BY <1>1, <1>2, CellIsCell
    <3>2. c \in Cells /\ c # p /\ c # q /\ c # f /\ c # e
      BY <1>1, <1>2, <3>1, OtherRings
    <3> HIDE DEF c, p, q, e, f
    <3>3. m2[c].next = m[c].next /\ m2[c].prev = m[c].prev
      BY <1>5, <3>2 DEF Spliced
    <3> QED
      BY <3>3 DEF c
  <2> QED
    BY <2>1 DEF OthersKept
<1>9. NewRings(m2, st2, F2, {g, h})
  BY <1>2, <1>6, <1>7 DEF NewRings
<1>10. NewApart(st, F, st2, F2, {g, h})
  <2>1. ASSUME NEW d \in Heads \ (st \cup {g, h}), NEW i \in 1..Len(F[d]), NEW j \in 1..Len(t)
        PROVE  F[d][i] # t[j]
    <3>1. /\ \A l \in 1..Len(s) : F[d][i] # s[l]
          /\ \A l \in 1..Len(u) : F[d][i] # u[l]
      BY DEF Holds, Apart
    <3>2. t[j] = IF j <= k THEN s[j] ELSE IF j <= k + Len(u) THEN u[j - k] ELSE s[j - Len(u)]
      BY DEF Put
    <3>3. CASE j <= k
      BY <1>1, <1>2, <3>1, <3>2, <3>3
    <3>4. CASE k < j /\ j <= k + Len(u)
      <4>1. j - k \in 1..Len(u) /\ t[j] = u[j - k]
        BY <1>1, <1>2, <3>2, <3>4
      <4> QED
        BY <3>1, <4>1
    <3>5. CASE k + Len(u) < j
      <4>1. j - Len(u) \in 1..Len(s) /\ t[j] = s[j - Len(u)]
        BY <1>1, <1>2, <3>2, <3>5
      <4> QED
        BY <3>1, <4>1
    <3> QED
      BY <1>1, <1>2, <3>3, <3>4, <3>5
  <2>2. {g, h} \ st2 = {h}
    OBVIOUS
  <2> QED
    BY <1>6, <1>7, <2>1, <2>2 DEF NewApart, Distinct
<1>11. st2 \in SUBSET Heads /\ st2 \ {g, h} = st \ {g, h} /\ {g, h} \in SUBSET Heads
  BY <1>1
<1> HIDE DEF st2
<1>12. Holds(m2, st2, F2)
  BY <1>5, <1>7, <1>8, <1>9, <1>10, <1>11, RingsChange
<1> QED
  BY <1>12 DEF m2, st2, F2

(* m2 is m with the cells behind h up to e in a ring of their own, g's.    *)
CutOff(m, m2, g, h, f, e, r) ==
    \A d \in Cells :
        /\ m2[d].next = IF d = h THEN r ELSE IF d = e THEN g ELSE IF d = g THEN f ELSE m[d].next
        /\ m2[d].prev = IF d = r THEN h ELSE IF d = f THEN g ELSE IF d = g THEN e ELSE m[d].prev

(* __list_cut_position writes two heads and three nodes.                   *)
LEMMA CutStores ==
  ASSUME NEW m \in Memory, NEW g \in Cells, NEW h \in Cells, NEW e \in Cells,
         NEW f \in Cells, NEW r \in Cells,
         m[h].next = f, m[e].next = r
  PROVE  /\ CutBehind(m, g, h, e) \in Memory
         /\ CutOff(m, CutBehind(m, g, h, e), g, h, f, e, r)
<1> DEFINE a == SetBoth(m, g, f, e)
           b == SetPrev(a, f, g)
           c == SetNext(b, e, g)
           d2 == SetNext(c, h, r)
           m2 == SetPrev(d2, r, h)
<1>1. CutBehind(m, g, h, e) = m2
  BY DEF CutBehind, SetNext, SetPrev, SetBoth
<1>2. a \in Memory /\ Stored(m, a, g, f, e)
  BY StoreBoth
<1> HIDE DEF a
<1>3. /\ b \in Memory
      /\ \A d \in Cells : /\ b[d].prev = IF d = f THEN g ELSE a[d].prev
                          /\ b[d].next = a[d].next
  BY <1>2, StorePrev
<1> HIDE DEF b
<1>4. /\ c \in Memory
      /\ \A d \in Cells : /\ c[d].next = IF d = e THEN g ELSE b[d].next
                          /\ c[d].prev = b[d].prev
  BY <1>3, StoreNext
<1> HIDE DEF c
<1>5. /\ d2 \in Memory
      /\ \A d \in Cells : /\ d2[d].next = IF d = h THEN r ELSE c[d].next
                          /\ d2[d].prev = c[d].prev
  BY <1>4, StoreNext
<1> HIDE DEF d2
<1>6. /\ m2 \in Memory
      /\ \A d \in Cells : /\ m2[d].prev = IF d = r THEN h ELSE d2[d].prev
                          /\ m2[d].next = d2[d].next
  BY <1>5, StorePrev
<1> HIDE DEF m2
<1>7. CutOff(m, m2, g, h, f, e, r)
  BY <1>2, <1>3, <1>4, <1>5, <1>6 DEF CutOff, Stored
<1> QED
  BY <1>1, <1>6, <1>7

(* __list_cut_position: the first k nodes of h go to g.                    *)
LEMMA HoldsCut ==
  ASSUME NEW m, NEW st, NEW F, Holds(m, st, F), NEW h \in Heads \ st, NEW g \in Heads, g # h,
         NEW k \in 1..Len(F[h]),
         NEW a \in Seq(Nodes), Len(a) = k, \A i \in 1..k : a[i] = F[h][i],
         NEW b \in Seq(Nodes), Len(b) = Len(F[h]) - k, \A i \in 1..Len(b) : b[i] = F[h][k + i]
  PROVE  Holds(CutBehind(m, g, h, F[h][k]), st \ {g}, [F EXCEPT ![g] = a, ![h] = b])
<1> DEFINE s == F[h]
           f == s[1]
           e == s[k]
           r == Cell(s, h, k + 1)
           m2 == CutBehind(m, g, h, e)
           F2 == [F EXCEPT ![g] = a, ![h] = b]
           st2 == st \ {g}
<1>1. /\ m \in Memory /\ s \in Seq(Nodes) /\ Distinct(s) /\ Ring(m, h, s) /\ Len(s) \in Nat
      /\ F \in [Heads -> Seq(Nodes) \cup {None}] /\ st \in SUBSET Heads
      /\ k \in Nat /\ k >= 1 /\ k <= Len(s)
      /\ \A i \in 1..Len(s) : s[i] \in Nodes
  <2>1. /\ m \in Memory /\ s \in Seq(Nodes) /\ Distinct(s) /\ Ring(m, h, s) /\ Len(s) \in Nat
        /\ F \in [Heads -> Seq(Nodes) \cup {None}] /\ st \in SUBSET Heads
    BY ListsHeld DEF Holds
  <2>2. \A i \in 1..Len(s) : s[i] \in Nodes
    BY <2>1, ElementOfSeq
  <2>3. k \in Nat /\ k >= 1 /\ k <= Len(s)
    BY <2>1
  <2> QED
    BY <2>1, <2>2, <2>3
<1>2. /\ 1 \in 1..Len(s) /\ 1 \in 0..Len(s) /\ 0 \in 0..Len(s) /\ k \in 0..Len(s) /\ 0 + 1 = 1
      /\ f = Cell(s, h, 1) /\ e = Cell(s, h, k) /\ h = Cell(s, h, 0)
  <2>1. 1 \in 1..Len(s) /\ 1 \in 0..Len(s) /\ 0 \in 0..Len(s) /\ k \in 0..Len(s) /\ 0 + 1 = 1
    BY <1>1
  <2> QED
    BY <1>1, <2>1, CellIsCell
<1>3. /\ f \in Cells /\ e \in Cells /\ r \in Cells /\ g \in Cells /\ h \in Cells
      /\ g # f /\ g # e /\ g # r /\ h # f /\ h # e
  <2>1. g # f /\ g # e /\ h # f /\ h # e /\ f \in Cells /\ e \in Cells /\ g \in Cells /\ h \in Cells
    BY <1>1, <1>2, CellsAssumption DEF Cells
  <2>2. r \in Cells /\ r # g
    BY <1>1, OtherRings
  <2> QED
    BY <2>1, <2>2
<1>4. m[h].next = f /\ m[e].next = r
  <2>1. m[Cell(s, h, 0)].next = Cell(s, h, 0 + 1) /\ m[Cell(s, h, k)].next = r
    BY <1>1, <1>2 DEF Ring
  <2> QED
    BY <1>2, <2>1
<1>5. m2 \in Memory /\ CutOff(m, m2, g, h, f, e, r)
  <2> HIDE DEF r, e, f
  <2> QED
    BY <1>1, <1>3, <1>4, CutStores
<1> HIDE DEF m2
<1>6. Ring(m2, g, a)
  <2>1. ASSUME NEW i \in 0..k
        PROVE  m2[Cell(a, g, i)].next = Cell(a, g, i + 1) /\ m2[Cell(a, g, i + 1)].prev = Cell(a, g, i)
    <3>0. f # r
      <4>1. 1 \in 1..(Len(s) + 1) /\ k + 1 \in 1..(Len(s) + 1) /\ 1 # k + 1
        BY <1>1
      <4> QED
        BY <1>1, <1>2, <4>1, CellsDiffer
    <3>1. CASE i = 0
      <4>1. Cell(a, g, i) = g /\ Cell(a, g, i + 1) = f
        BY <1>1, <3>1 DEF Cell
      <4>2. m2[g].next = f /\ m2[f].prev = g
        BY <1>3, <1>5, <3>0 DEF CutOff
      <4> QED
        BY <4>1, <4>2
    <3>2. CASE i = k
      <4>1. Cell(a, g, i) = e /\ Cell(a, g, i + 1) = g
        BY <1>1, <3>2 DEF Cell
      <4>2. m2[e].next = g /\ m2[g].prev = e
        BY <1>3, <1>5 DEF CutOff
      <4> QED
        BY <4>1, <4>2
    <3>3. CASE i # 0 /\ i # k
      <4>1. /\ i \in 1..k /\ i + 1 \in 1..k /\ i \in 1..Len(s) /\ i + 1 \in 1..Len(s) /\ i \in 0..Len(s)
            /\ k + 1 \in 1..(Len(s) + 1) /\ i + 1 \in 1..(Len(s) + 1) /\ i + 1 # k + 1 /\ i + 1 # 1
        BY <1>1, <3>3
      <4>2. Cell(a, g, i) = s[i] /\ Cell(a, g, i + 1) = s[i + 1]
        BY <4>1 DEF Cell
      <4>3. Cell(s, h, i) = s[i] /\ Cell(s, h, i + 1) = s[i + 1]
        BY <4>1 DEF Cell
      <4>4. m[s[i]].next = s[i + 1] /\ m[s[i + 1]].prev = s[i]
        <5>1. m[Cell(s, h, i)].next = Cell(s, h, i + 1) /\ m[Cell(s, h, i + 1)].prev = Cell(s, h, i)
          BY <1>1, <4>1 DEF Ring
        <5> QED
          BY <4>3, <5>1
      <4>5. s[i] # e /\ s[i + 1] # f /\ s[i + 1] # r
        <5>1. Cell(s, h, i + 1) # r
          BY <1>1, <4>1, CellsDiffer
        <5> QED
          BY <1>1, <1>2, <3>3, <4>1, <4>3, <5>1 DEF Distinct
      <4>6. s[i] \in Cells /\ s[i + 1] \in Cells /\ s[i] # h /\ s[i + 1] # g /\ s[i] # g
        BY <1>1, <4>1, CellsAssumption DEF Cells
      <4> HIDE DEF s, e, f, r
      <4> QED
        BY <1>5, <4>2, <4>4, <4>5, <4>6 DEF CutOff
    <3> QED
      BY <3>1, <3>2, <3>3
  <2> QED
    BY <2>1 DEF Ring
<1>7. Ring(m2, h, b)
  <2>1. \A i \in 1..(Len(b) + 1) : Cell(b, h, i) = Cell(s, h, k + i)
    BY <1>1 DEF Cell
  <2>2. Cell(b, h, 0) = h
    BY <1>1 DEF Cell
  <2>3. ASSUME NEW i \in 0..Len(b)
        PROVE  m2[Cell(b, h, i)].next = Cell(b, h, i + 1) /\ m2[Cell(b, h, i + 1)].prev = Cell(b, h, i)
    <3>1. CASE i = 0
      <4>1. Cell(b, h, i) = h /\ Cell(b, h, i + 1) = r
        BY <1>1, <2>1, <2>2, <3>1
      <4>2. m2[h].next = r /\ m2[r].prev = h
        BY <1>3, <1>5 DEF CutOff
      <4> QED
        BY <4>1, <4>2
    <3>2. CASE i # 0
      <4>1. /\ i \in 1..(Len(b) + 1) /\ i + 1 \in 1..(Len(b) + 1) /\ k + (i + 1) = (k + i) + 1
            /\ k + i \in 0..Len(s) /\ k + i \in 1..Len(s) /\ (k + i) + 1 \in 1..(Len(s) + 1)
            /\ k + 1 \in 1..(Len(s) + 1) /\ k + i # k /\ k + i # 0 /\ (k + i) + 1 # k + 1
            /\ (k + i) + 1 # 1 /\ 1 \in 1..(Len(s) + 1)
        BY <1>1, <3>2
      <4> DEFINE c == Cell(s, h, k + i)
                 d == Cell(s, h, (k + i) + 1)
      <4>2. Cell(b, h, i) = c /\ Cell(b, h, i + 1) = d
        BY <2>1, <4>1
      <4>3. m[c].next = d /\ m[d].prev = c
        BY <1>1, <4>1 DEF Ring
      <4>4. c # e /\ c # h
        <5>1. c # Cell(s, h, k)
          BY <1>1, <1>2, <4>1, CellsDiffer
        <5>2. c # Cell(s, h, 0)
          BY <1>1, <1>2, <4>1, CellsDiffer
        <5> QED
          BY <1>2, <5>1, <5>2
      <4>5. d # r /\ d # f
        BY <1>1, <1>2, <4>1, CellsDiffer
      <4>6. c \in Cells /\ d \in Cells /\ c # g /\ d # g
        <5>1. k + i \in Int /\ (k + i) + 1 \in Int
          BY <1>1
        <5> QED
          BY <1>1, <5>1, OtherRings
      <4> HIDE DEF c, d, e, f, r
      <4> QED
        BY <1>5, <4>2, <4>3, <4>4, <4>5, <4>6 DEF CutOff
    <3> QED
      BY <3>1, <3>2
  <2> QED
    BY <2>3 DEF Ring
<1>8. /\ F2 \in [Heads -> Seq(Nodes) \cup {None}]
      /\ F2[g] = a /\ F2[h] = b
      /\ \A d \in Heads \ {g, h} : F2[d] = F[d]
  <2>1. /\ F2 \in [Heads -> Seq(Nodes) \cup {None}]
        /\ F2[g] = a /\ F2[h] = b
        /\ \A d \in Heads \ {h, g} : F2[d] = F[d]
    <3>1. /\ F \in [Heads -> Seq(Nodes) \cup {None}] /\ g \in Heads /\ h \in Heads /\ h # g
          /\ a \in Seq(Nodes) \cup {None} /\ b \in Seq(Nodes) \cup {None}
      BY <1>1
    <3> QED
      BY <3>1, TwoLists
  <2> QED
    BY <2>1
<1> HIDE DEF F2
<1>9. OthersKept(m, m2, st, F, {g, h})
  <2>1. ASSUME NEW d \in Heads \ (st \cup {g, h}), NEW i \in 0..Len(F[d])
        PROVE  /\ m2[Cell(F[d], d, i)].next = m[Cell(F[d], d, i)].next
               /\ m2[Cell(F[d], d, i)].prev = m[Cell(F[d], d, i)].prev
    <3> DEFINE c == Cell(F[d], d, i)
    <3>1. c \in Cells /\ c # f /\ c # e /\ c # r /\ c # g /\ c # h
      BY <1>1, <1>2, OtherRings
    <3> HIDE DEF c, r, e, f
    <3>2. m2[c].next = m[c].next /\ m2[c].prev = m[c].prev
      BY <1>5, <3>1 DEF CutOff
    <3> QED
      BY <3>2 DEF c
  <2> QED
    BY <2>1 DEF OthersKept
<1>10. NewRings(m2, st2, F2, {g, h})
  BY <1>6, <1>7, <1>8 DEF NewRings
<1>11. NewApart(st, F, st2, F2, {g, h})
  <2>1. /\ \A i \in 1..Len(a) : i \in 1..Len(s) /\ a[i] = s[i] /\ i <= k
        /\ \A i \in 1..Len(b) : k + i \in 1..Len(s) /\ b[i] = s[k + i] /\ k + i > k
    BY <1>1
  <2>2. ASSUME NEW d \in Heads \ (st \cup {g, h}), NEW i \in 1..Len(F[d])
        PROVE  /\ \A j \in 1..Len(a) : F[d][i] # a[j]
               /\ \A j \in 1..Len(b) : F[d][i] # b[j]
    <3>1. \A l \in 1..Len(s) : F[d][i] # s[l]
      BY DEF Holds, Apart
    <3> QED
      BY <2>1, <3>1, ZenonT(60)
  <2>3. \A i \in 1..Len(a), j \in 1..Len(a) : a[i] = a[j] => i = j
    BY <1>1, <2>1 DEF Distinct
  <2>4. \A i \in 1..Len(b), j \in 1..Len(b) : b[i] = b[j] => i = j
    <3>1. TAKE i \in 1..Len(b), j \in 1..Len(b)
    <3>2. HAVE b[i] = b[j]
    <3>3. s[k + i] = s[k + j] /\ k + i \in 1..Len(s) /\ k + j \in 1..Len(s)
      BY <2>1, <3>2
    <3>4. k + i = k + j
      BY <1>1, <3>3 DEF Distinct
    <3> QED
      BY <1>1, <3>4
  <2>5. \A i \in 1..Len(a), j \in 1..Len(b) : a[i] # b[j]
    <3>1. TAKE i \in 1..Len(a), j \in 1..Len(b)
    <3>2. i # k + j /\ i \in 1..Len(s) /\ k + j \in 1..Len(s) /\ a[i] = s[i] /\ b[j] = s[k + j]
      BY <1>1, <2>1
    <3> QED
      BY <1>1, <3>2 DEF Distinct
  <2> QED
    BY <1>8, <2>2, <2>3, <2>4, <2>5, SMTT(30) DEF NewApart
<1>12. st2 \in SUBSET Heads /\ st2 \ {g, h} = st \ {g, h} /\ {g, h} \in SUBSET Heads
  BY <1>1
<1> HIDE DEF st2
<1>13. Holds(m2, st2, F2)
  BY <1>5, <1>8, <1>9, <1>10, <1>11, <1>12, RingsChange
<1> QED
  BY <1>13 DEF m2, st2, F2
-----------------------------------------------------------------------------
(* What a loop meets. *)

Ways == {"next", "prev"}
Along(s, dir) == IF dir = "next" THEN s ELSE Reverse(s)
Steps(m, dir) == [n \in Nodes |-> Neighbour(m, n, dir)]

(* A list seen in the direction of a loop.                                 *)
LEMMA AlongIs ==
  ASSUME NEW s \in Seq(Nodes), NEW dir \in Ways
  PROVE  /\ Along(s, dir) \in Seq(Nodes) /\ Len(Along(s, dir)) = Len(s)
         /\ \A i \in 1..Len(s) : Along(s, dir)[i] = IF dir = "next" THEN s[i] ELSE s[Len(s) + 1 - i]
<1>1. Len(s) \in Nat /\ \A i \in 1..Len(s) : s[i] \in Nodes
  BY LenProperties, ElementOfSeq
<1>2. CASE dir = "next"
  BY <1>2 DEF Along
<1>3. CASE dir # "next"
  <2>1. \A i \in 1..Len(s) : s[(Len(s) - i) + 1] \in Nodes
    BY <1>1
  <2>2. /\ Reverse(s) \in Seq(Nodes) /\ Len(Reverse(s)) = Len(s)
        /\ \A i \in 1..Len(s) : Reverse(s)[i] = s[(Len(s) - i) + 1]
    BY <1>1, <2>1, IsASeq DEF Reverse
  <2>3. \A i \in 1..Len(s) : (Len(s) - i) + 1 = Len(s) + 1 - i
    BY <1>1
  <2>4. Along(s, dir) = Reverse(s)
    BY <1>3 DEF Along
  <2> QED
    BY <1>3, <2>2, <2>3, <2>4
<1> QED
  BY <1>2, <1>3

(* No node comes twice in it.                                              *)
LEMMA AlongDistinct ==
  ASSUME NEW s \in Seq(Nodes), Distinct(s), NEW dir \in Ways
  PROVE  Distinct(Along(s, dir))
<1> DEFINE d == Along(s, dir)
<1>1. /\ Len(s) \in Nat /\ Len(d) = Len(s)
      /\ \A i \in 1..Len(s) : d[i] = IF dir = "next" THEN s[i] ELSE s[Len(s) + 1 - i]
  BY LenProperties, AlongIs
<1> HIDE DEF d
<1>2. ASSUME NEW i \in 1..Len(d), NEW j \in 1..Len(d), d[i] = d[j] PROVE i = j
  <2>1. CASE dir = "next"
    BY <1>1, <1>2, <2>1 DEF Distinct
  <2>2. CASE dir # "next"
    <3> DEFINE a == Len(s) + 1 - i
               b == Len(s) + 1 - j
    <3>1. a \in 1..Len(s) /\ b \in 1..Len(s) /\ s[a] = s[b]
      BY <1>1, <1>2, <2>2
    <3>2. a = b
      BY <3>1 DEF Distinct
    <3> QED
      BY <1>1, <3>2
  <2> QED
    BY <2>1, <2>2
<1>3. Distinct(d)
  BY <1>2 DEF Distinct
<1> QED
  BY <1>3 DEF d

(* Either way the pointers lead from cell to cell of the ring.             *)
LEMMA RingAlong ==
  ASSUME NEW h \in Heads, NEW s \in Seq(Nodes), NEW m, Ring(m, h, s), NEW dir \in Ways
  PROVE  \A i \in 0..Len(s) :
           Neighbour(m, Cell(Along(s, dir), h, i), dir) = Cell(Along(s, dir), h, i + 1)
<1> DEFINE d == Along(s, dir)
<1>1. /\ Len(s) \in Nat /\ Len(d) = Len(s)
      /\ \A i \in 1..Len(s) : d[i] = IF dir = "next" THEN s[i] ELSE s[Len(s) + 1 - i]
  BY LenProperties, AlongIs
<1> HIDE DEF d
<1>2. ASSUME NEW i \in 0..Len(s) PROVE Neighbour(m, Cell(d, h, i), dir) = Cell(d, h, i + 1)
  <2>1. CASE dir = "next"
    <3>1. Cell(d, h, i) = Cell(s, h, i) /\ Cell(d, h, i + 1) = Cell(s, h, i + 1)
      BY <1>1, <2>1 DEF Cell
    <3> QED
      BY <2>1, <3>1 DEF Ring, Neighbour
  <2>2. CASE dir # "next"
    <3> DEFINE j == Len(s) - i
    <3>1. j \in 0..Len(s) /\ j + 1 = Len(s) + 1 - i /\ j = Len(s) + 1 - (i + 1)
      BY <1>1
    <3>2. Cell(d, h, i) = Cell(s, h, j + 1)
      BY <1>1, <2>2, <3>1 DEF Cell
    <3>3. Cell(d, h, i + 1) = Cell(s, h, j)
      BY <1>1, <2>2, <3>1 DEF Cell
    <3>4. m[Cell(s, h, j + 1)].prev = Cell(s, h, j)
      BY <3>1 DEF Ring
    <3> QED
      BY <2>2, <3>2, <3>3, <3>4 DEF Neighbour
  <2> QED
    BY <2>1, <2>2
<1> QED
  BY <1>2 DEF d

(* From its j-th cell on a loop meets the rest of the list.                *)
LEMMA AheadIs ==
  ASSUME NEW h \in Heads, NEW s \in Seq(Nodes), Distinct(s), NEW m, Ring(m, h, s),
         NEW dir \in Ways, NEW j \in 1..(Len(s) + 1)
  PROVE  Chain(Cell(Along(s, dir), h, j), Steps(m, dir)) = SubSeq(Along(s, dir), j, Len(s))
<1> DEFINE d == Along(s, dir)
           p == Cell(d, h, j)
           step == Steps(m, dir)
           t == SubSeq(d, j, Len(s))
<1>1. /\ Len(s) \in Nat /\ Len(d) = Len(s) /\ d \in Seq(Nodes) /\ Distinct(d)
      /\ \A i \in 0..Len(s) : Neighbour(m, Cell(d, h, i), dir) = Cell(d, h, i + 1)
  BY LenProperties, AlongIs, AlongDistinct, RingAlong
<1> HIDE DEF d
<1>2. \A i \in 1..Len(s) : d[i] \in Nodes /\ Cell(d, h, i) = d[i]
  BY <1>1, ElementOfSeq DEF Cell
<1>3. /\ t \in Seq(Nodes) /\ Len(t) = Len(s) + 1 - j
      /\ \A i \in 1..Len(t) : t[i] = d[(i + j) - 1] /\ (i + j) - 1 \in 1..Len(s)
  <2>1. \A i \in j..Len(s) : d[i] \in Nodes
    BY <1>1, <1>2
  <2>2. /\ t \in Seq(Nodes) /\ Len(t) = IF j <= Len(s) THEN Len(s) - j + 1 ELSE 0
        /\ \A i \in 1..(Len(s) - j + 1) : t[i] = d[j + i - 1]
    BY <1>1, <2>1, SubSeqProperties
  <2> HIDE DEF t
  <2>3. Len(t) = Len(s) + 1 - j /\ j \in Nat
    BY <1>1, <2>2
  <2>4. ASSUME NEW i \in 1..Len(t)
        PROVE  t[i] = d[(i + j) - 1] /\ (i + j) - 1 \in 1..Len(s)
    <3>1. i \in 1..(Len(s) - j + 1) /\ j + i - 1 = (i + j) - 1 /\ (i + j) - 1 \in 1..Len(s)
      BY <1>1, <2>3
    <3> QED
      BY <2>2, <3>1
  <2> QED
    BY <2>2, <2>3, <2>4
<1> HIDE DEF t
<1>4. \A n \in Nodes : step[n] = Neighbour(m, n, dir)
  BY DEF Steps
<1> HIDE DEF step
<1>5. \A i \in 1..Len(t) : step[t[i]] = Cell(d, h, i + j)
  <2>1. ASSUME NEW i \in 1..Len(t) PROVE step[t[i]] = Cell(d, h, i + j)
    <3> DEFINE l == (i + j) - 1
    <3>1. l \in 1..Len(s) /\ l \in 0..Len(s) /\ l + 1 = i + j /\ t[i] = d[l]
      BY <1>1, <1>3
    <3> HIDE DEF l
    <3>2. step[t[i]] = Neighbour(m, Cell(d, h, l), dir)
      BY <1>2, <1>4, <3>1
    <3> QED
      BY <1>1, <3>1, <3>2
  <2> QED
    BY <2>1
<1>6. ASSUME NEW i \in 1..Len(t) PROVE t[i] = Pointer(t, p, step, i - 1)
  <2>1. t[i] = Cell(d, h, (i + j) - 1)
    BY <1>2, <1>3
  <2>2. CASE i = 1
    <3>1. (i + j) - 1 = j /\ i - 1 = 0
      BY <1>1, <2>2
    <3> QED
      BY <2>1, <3>1 DEF Pointer
  <2>3. CASE i # 1
    <3>1. i - 1 \in 1..Len(t) /\ (i - 1) + j = (i + j) - 1 /\ i - 1 # 0
      BY <1>1, <1>3, <2>3
    <3>2. step[t[i - 1]] = Cell(d, h, (i + j) - 1)
      BY <1>5, <3>1
    <3> QED
      BY <2>1, <3>1, <3>2 DEF Pointer
  <2> QED
    BY <2>2, <2>3
<1>7. Pointer(t, p, step, Len(t)) = Cell(d, h, Len(s) + 1)
  <2>1. CASE Len(t) = 0
    <3>1. j = Len(s) + 1
      BY <1>1, <1>3, <2>1
    <3> QED
      BY <2>1, <3>1 DEF Pointer
  <2>2. CASE Len(t) # 0
    <3>1. Len(t) \in 1..Len(t) /\ Len(t) + j = Len(s) + 1
      BY <1>1, <1>3, <2>2
    <3> QED
      BY <1>5, <2>2, <3>1 DEF Pointer
  <2> QED
    BY <2>1, <2>2
<1>8. Cell(d, h, Len(s) + 1) = h /\ h \notin Nodes
  BY <1>1, CellsAssumption DEF Cell
<1>9. Follows(t, p, step)
  <2>1. DOMAIN t = 1..Len(t)
    BY <1>3, LenProperties
  <2> HIDE DEF p
  <2> QED
    BY <1>6, <1>7, <1>8, <2>1 DEF Follows
<1>10. Distinct(t)
  <2>1. ASSUME NEW i \in 1..Len(t), NEW l \in 1..Len(t), t[i] = t[l] PROVE i = l
    <3>1. d[(i + j) - 1] = d[(l + j) - 1] /\ (i + j) - 1 \in 1..Len(d) /\ (l + j) - 1 \in 1..Len(d)
      BY <1>1, <1>3, <2>1
    <3>2. (i + j) - 1 = (l + j) - 1
      BY <1>1, <3>1 DEF Distinct
    <3> QED
      BY <1>1, <1>3, <3>2
  <2> QED
    BY <2>1 DEF Distinct
<1>11. Chain(p, step) = t
  <2> HIDE DEF p
  <2> QED
    BY <1>3, <1>9, <1>10, ChainIs
<1> QED
  BY <1>11 DEF t, step, d

(* From the head on it meets the whole list, either way.                   *)
LEMMA ListIs ==
  ASSUME NEW h \in Heads, NEW s \in Seq(Nodes), Distinct(s), NEW m, Ring(m, h, s), NEW dir \in Ways
  PROVE  Chain(Neighbour(m, h, dir), Steps(m, dir)) = Along(s, dir)
<1> DEFINE d == Along(s, dir)
<1>1. Len(s) \in Nat /\ Len(d) = Len(s) /\ d \in Seq(Nodes)
  BY LenProperties, AlongIs
<1>2. Neighbour(m, Cell(d, h, 0), dir) = Cell(d, h, 0 + 1)
  <2>1. 0 \in 0..Len(s)
    BY <1>1
  <2> QED
    BY <2>1, RingAlong
<1>3. Cell(d, h, 0) = h
  BY <1>1 DEF Cell
<1>4. Chain(Cell(d, h, 1), Steps(m, dir)) = SubSeq(d, 1, Len(s))
  <2>1. 1 \in 1..(Len(s) + 1)
    BY <1>1
  <2> QED
    BY <2>1, AheadIs
<1> HIDE DEF d
<1>5. SubSeq(d, 1, Len(s)) = d
  BY <1>1, SubSeqFull
<1>6. Neighbour(m, h, dir) = Cell(d, h, 1)
  BY <1>2, <1>3
<1>7. Chain(Neighbour(m, h, dir), Steps(m, dir)) = d
  BY <1>4, <1>5, <1>6
<1> QED
  BY <1>7 DEF d
-----------------------------------------------------------------------------
(* The invariant of list.h: the memory holds the lists one sees in it, and *)
(* the loop stands in one of them.                                         *)

WalkInv ==
    InLoop => /\ walk \in [of : Heads, dir : Ways, pos : Nodes, n : Cells]
              /\ walk.of \notin stale
              /\ walk.n # walk.of => \E k \in 1..Len(Lists[walk.of]) : walk.n = Lists[walk.of][k]
              /\ \A k \in 1..Len(Lists[walk.of]) : walk.pos = Lists[walk.of][k] =>
                                                    walk.n = Neighbour(mem, walk.pos, walk.dir)
ListInv == Holds(mem, stale, Lists) /\ WalkInv

(* What a memory holds is what one sees in it.                             *)
Seen(m, st) ==
    [h \in Heads |-> IF h \in st THEN None ELSE Chain(Neighbour(m, h, "next"), Steps(m, "next"))]

(* The lists that the pointers of the model show are those that the memory *)
(* holds.                                                                  *)
LEMMA HeldIsSeen ==
  ASSUME NEW m, NEW st, NEW F, Holds(m, st, F)
  PROVE  Seen(m, st) = F /\ \A h \in Heads \ st : F[h] # None /\ F[h] \in Paths
<1>1. F \in [Heads -> Seq(Nodes) \cup {None}] /\ \A h \in st : F[h] = None
  BY DEF Holds
<1>2. ASSUME NEW h \in Heads \ st
      PROVE  Chain(Neighbour(m, h, "next"), Steps(m, "next")) = F[h] /\ F[h] # None /\ F[h] \in Paths
  <2>1. F[h] \in Seq(Nodes) /\ Distinct(F[h]) /\ Ring(m, h, F[h])
    BY ListsHeld
  <2>2. F[h] \in Paths /\ F[h] # None
    BY <2>1, DistinctIsPath, CellsAssumption
  <2>3. "next" \in Ways /\ Along(F[h], "next") = F[h]
    BY DEF Ways, Along
  <2>4. Chain(Neighbour(m, h, "next"), Steps(m, "next")) = Along(F[h], "next")
    BY <2>1, <2>3, ListIs
  <2> QED
    BY <2>2, <2>3, <2>4
<1>3. \A h \in Heads : (IF h \in st THEN None ELSE Chain(Neighbour(m, h, "next"), Steps(m, "next"))) = F[h]
  BY <1>1, <1>2
<1>4. F = [h \in Heads |-> F[h]]
  BY <1>1
<1>5. Seen(m, st) = F
  BY <1>3, <1>4 DEF Seen
<1> QED
  BY <1>2, <1>5

(* Lists is what the model sees in the memory,                             *)
LEMMA ListsSeen == Lists = Seen(mem, stale)
<1>1. \A h \in Heads : Content(h) = Chain(Neighbour(mem, h, "next"), Steps(mem, "next"))
  BY DEF Content, Ahead, Neighbour, Steps
<1> QED
  BY <1>1 DEF Lists, Seen, Usable

(* after a step as before it.                                              *)
LEMMA ListsSeenNext == Lists' = Seen(mem', stale')
<1>1. \A h \in Heads : Content(h)' = Chain(Neighbour(mem', h, "next"), Steps(mem', "next"))
  BY DEF Content, Ahead, Neighbour, Steps
<1> QED
  BY <1>1 DEF Lists, Seen, Usable

(* So a step that leaves a memory with the lists F changes Lists to F.     *)
LEMMA ListsAre ==
  ASSUME NEW F, Holds(mem', stale', F)
  PROVE  Lists' = F /\ Holds(mem', stale', Lists')
  BY ListsSeenNext, HeldIsSeen

(* What the invariant says of one list.                                    *)
LEMMA ListFacts ==
  ASSUME ListInv, NEW h \in Heads
  PROVE  /\ Usable(h) <=> h \in Heads \ stale
         /\ Usable(h) => /\ Lists[h] = Content(h) /\ Lists[h] # None
                         /\ Lists[h] \in Seq(Nodes) /\ Distinct(Lists[h])
                         /\ Len(Lists[h]) \in Nat
                         /\ Ring(mem, h, Lists[h])
                         /\ \A i \in 1..Len(Lists[h]) : Lists[h][i] \in Nodes
         /\ ~Usable(h) => Lists[h] = None
<1>1. Holds(mem, stale, Lists)
  BY DEF ListInv
<1>2. Usable(h) <=> h \in Heads \ stale
  BY DEF Usable
<1>3. ASSUME Usable(h)
      PROVE  /\ Lists[h] = Content(h) /\ Lists[h] # None
             /\ Lists[h] \in Seq(Nodes) /\ Distinct(Lists[h])
             /\ Len(Lists[h]) \in Nat
             /\ Ring(mem, h, Lists[h])
             /\ \A i \in 1..Len(Lists[h]) : Lists[h][i] \in Nodes
  <2>1. Lists[h] = Content(h)
    BY <1>3 DEF Lists
  <2>2. Lists[h] # None
    BY <1>1, <1>2, <1>3, HeldIsSeen
  <2>3. Lists[h] \in Seq(Nodes) /\ Distinct(Lists[h]) /\ Ring(mem, h, Lists[h])
    BY <1>1, <1>2, <1>3, ListsHeld
  <2> HIDE DEF Lists
  <2> QED
    BY <2>1, <2>2, <2>3, LenProperties, ElementOfSeq
<1>4. ~Usable(h) => Lists[h] = None
  BY DEF Lists
<1> QED
  BY <1>2, <1>3, <1>4

(* What is in a sequence has a place in it.                                *)
LEMMA InRange ==
  ASSUME NEW s \in Seq(Nodes)
  PROVE  Range(s) = {s[i] : i \in 1..Len(s)} /\ \A e : e \in Range(s) <=> \E i \in 1..Len(s) : s[i] = e
<1>1. DOMAIN s = 1..Len(s)
  BY LenProperties
<1> QED
  BY <1>1 DEF Range

(* Where no entry comes twice, each has one place.                         *)
LEMMA PlaceIs ==
  ASSUME NEW s \in Seq(Nodes), Distinct(s), NEW k \in 1..Len(s)
  PROVE  Promised!Place(s, s[k]) = k
<1>1. DOMAIN s = 1..Len(s)
  BY LenProperties
<1> QED
  BY <1>1 DEF Promised!Place, Distinct

(* A node that the model may add is on no list.                            *)
LEMMA FreeNodes ==
  ASSUME ListInv, NEW n \in Unlisted
  PROVE  n \in Nodes /\ Away(stale, Lists, n)
<1>1. n \in Nodes /\ \A h \in Heads : Usable(h) => n \notin Range(Content(h))
  BY DEF Unlisted
<1>2. ASSUME NEW h \in Heads \ stale, NEW i \in 1..Len(Lists[h]) PROVE Lists[h][i] # n
  <2>1. Usable(h) /\ Lists[h] = Content(h) /\ Lists[h] \in Seq(Nodes)
    BY ListFacts
  <2> QED
    BY <1>1, <2>1, InRange
<1> QED
  BY <1>1, <1>2 DEF Away

(* The walk of the promise, outside a loop.                                *)
LEMMA OutsideCall ==
  ASSUME ListInv, walk = NoWalk, walk' = walk, NEW F, Holds(mem', stale', F), NEW c, call' = c
  PROVE  ListInv' /\ Lists' = F /\ Promised!Outside(c)
<1>1. Lists' = F /\ Holds(mem', stale', Lists')
  BY ListsAre
<1>2. ~InLoop /\ ~InLoop'
  BY DEF InLoop
<1>3. Promised!Outside(c)
  BY <1>2 DEF Promised!Outside, Promised!Call, Promised!NoWalk, AbsWalk
<1>4. WalkInv'
  BY <1>2 DEF WalkInv
<1> QED
  BY <1>1, <1>3, <1>4 DEF ListInv
-----------------------------------------------------------------------------
(* Calls outside loops. *)

(* The promise uses the operators of SequencesExt.                         *)
LEMMA SameOperators ==
  /\ \A s : Promised!Range(s) = Range(s)
  /\ \A s, i, n : Promised!InsertAt(s, i, n) = InsertAt(s, i, n)
  /\ \A s, i : Promised!RemoveAt(s, i) = RemoveAt(s, i)
  /\ \A s : Promised!Reverse(s) = Reverse(s)
<1>1. ASSUME NEW s PROVE Promised!Range(s) = Range(s)
  BY DEF Promised!Range, Range
<1>2. ASSUME NEW s, NEW i, NEW n PROVE Promised!InsertAt(s, i, n) = InsertAt(s, i, n)
  BY Zenon DEF Promised!InsertAt, InsertAt
<1>3. ASSUME NEW s, NEW i PROVE Promised!RemoveAt(s, i) = RemoveAt(s, i)
  BY Zenon DEF Promised!RemoveAt, RemoveAt
<1>4. ASSUME NEW s PROVE Promised!Reverse(s) = Reverse(s)
  BY Zenon DEF Promised!Reverse, Reverse
<1> QED
  BY <1>1, <1>2, <1>3, <1>4

(* Every action of the promise is a step of it.                            *)
LEMMA AbsSteps ==
  /\ \A h \in Heads : Promised!InitList(h) \/ Promised!RotateLeft(h) => Promised!AbsNext
  /\ \A h \in Heads, n \in Nodes :
       /\ Promised!InsertFirst(h, n) \/ Promised!InsertLast(h, n) => Promised!AbsNext
       /\ Promised!Unlink(h, n) => Promised!AbsNext
  /\ \A h \in Heads, e, n \in Nodes :
       Promised!InsertAfter(h, e, n) \/ Promised!Replace(h, e, n) => Promised!AbsNext
  /\ \A g, h \in Heads, init \in BOOLEAN : Promised!ReplaceHead(g, h, init) => Promised!AbsNext
  /\ \A g, h \in Heads, n \in Nodes, place \in {"first", "last"} :
       Promised!MoveTo(g, h, n, place) => Promised!AbsNext
  /\ \A g, h \in Heads, e \in Heads \cup Nodes : Promised!Cut(g, h, e) => Promised!AbsNext
  /\ \A g, h \in Heads, place \in {"first", "last"}, init \in BOOLEAN :
       Promised!Join(g, h, place, init) => Promised!AbsNext
  /\ \A h \in Heads, e \in Heads \cup Nodes, dir \in {"next", "prev"}, self \in BOOLEAN :
       Promised!Begin(h, e, dir, self) => Promised!AbsNext
<1>1. \A h \in Heads : Promised!InitList(h) \/ Promised!RotateLeft(h) => Promised!AbsNext
  BY DEF Promised!AbsNext
<1>2. ASSUME NEW h \in Heads, NEW n \in Nodes, Promised!InsertFirst(h, n)
      PROVE  Promised!AbsNext
  <2>1. Promised!Asked("first")
    BY <1>2 DEF Promised!InsertFirst, Promised!Outside, Promised!Call, Promised!Asked
  <2> QED
    BY <1>2, <2>1 DEF Promised!AbsNext
<1>3. ASSUME NEW h \in Heads, NEW n \in Nodes, Promised!InsertLast(h, n)
      PROVE  Promised!AbsNext
  <2>1. Promised!Asked("last")
    BY <1>3 DEF Promised!InsertLast, Promised!Outside, Promised!Call, Promised!Asked
  <2> QED
    BY <1>3, <2>1 DEF Promised!AbsNext
<1>4. ASSUME NEW h \in Heads, NEW n \in Nodes, Promised!Unlink(h, n)
      PROVE  Promised!AbsNext
  <2>1. Promised!Asked("remove")
    BY <1>4 DEF Promised!Unlink, Promised!Outside, Promised!Call, Promised!Asked
  <2> QED
    BY <1>4, <2>1 DEF Promised!AbsNext
<1>5. ASSUME NEW h \in Heads, NEW e \in Nodes, NEW n \in Nodes, Promised!InsertAfter(h, e, n)
      PROVE  Promised!AbsNext
  <2>1. Promised!Asked("after")
    BY <1>5 DEF Promised!InsertAfter, Promised!Outside, Promised!Call, Promised!Asked
  <2> QED
    BY <1>5, <2>1 DEF Promised!AbsNext
<1>6. ASSUME NEW h \in Heads, NEW e \in Nodes, NEW n \in Nodes, Promised!Replace(h, e, n)
      PROVE  Promised!AbsNext
  <2>1. Promised!Asked("replace")
    BY <1>6 DEF Promised!Replace, Promised!Outside, Promised!Call, Promised!Asked
  <2> QED
    BY <1>6, <2>1 DEF Promised!AbsNext
<1>7. ASSUME NEW g \in Heads, NEW h \in Heads, NEW init \in BOOLEAN, Promised!ReplaceHead(g, h, init)
      PROVE  Promised!AbsNext
  <2>1. Promised!Asked("replace_head")
    BY <1>7 DEF Promised!ReplaceHead, Promised!Outside, Promised!Call, Promised!Asked
  <2> QED
    BY <1>7, <2>1 DEF Promised!AbsNext
<1>8. ASSUME NEW g \in Heads, NEW h \in Heads, NEW n \in Nodes, NEW place \in {"first", "last"}, Promised!MoveTo(g, h, n, place)
      PROVE  Promised!AbsNext
  <2>1. Promised!Asked("move")
    BY <1>8 DEF Promised!MoveTo, Promised!Outside, Promised!Call, Promised!Asked
  <2> QED
    BY <1>8, <2>1 DEF Promised!AbsNext, Promised!Ends
<1>9. ASSUME NEW g \in Heads, NEW h \in Heads, NEW e \in Heads \cup Nodes, Promised!Cut(g, h, e)
      PROVE  Promised!AbsNext
  <2>1. Promised!Asked("cut")
    BY <1>9 DEF Promised!Cut, Promised!Outside, Promised!Call, Promised!Asked
  <2> QED
    BY <1>9, <2>1 DEF Promised!AbsNext
<1>10. ASSUME NEW g \in Heads, NEW h \in Heads, NEW place \in {"first", "last"}, NEW init \in BOOLEAN, Promised!Join(g, h, place, init)
      PROVE  Promised!AbsNext
  <2>1. Promised!Asked("join")
    BY <1>10 DEF Promised!Join, Promised!Outside, Promised!Call, Promised!Asked
  <2> QED
    BY <1>10, <2>1 DEF Promised!AbsNext, Promised!Ends
<1>11. ASSUME NEW h \in Heads, NEW e \in Heads \cup Nodes, NEW dir \in {"next", "prev"}, NEW self \in BOOLEAN, Promised!Begin(h, e, dir, self)
      PROVE  Promised!AbsNext
  <2>1. Promised!Asked("begin")
    BY <1>11 DEF Promised!Begin, Promised!Call, Promised!Asked
  <2> QED
    BY <1>11, <2>1 DEF Promised!AbsNext, Promised!Directions
<1> QED
  BY <1>1, <1>2, <1>3, <1>4, <1>5, <1>6, <1>7, <1>8, <1>9, <1>10, <1>11

(* The pointers of a head, of a node, and what ListEmpty finds.            *)
LEMMA HeadPointers ==
  ASSUME NEW m, NEW st, NEW F, Holds(m, st, F), NEW h \in Heads \ st
  PROVE  /\ m[h].next = Cell(F[h], h, 1) /\ m[h].next = Cell(F[h], h, 0 + 1)
         /\ m[h].prev = Cell(F[h], h, Len(F[h]))
         /\ h = Cell(F[h], h, 0) /\ h = Cell(F[h], h, Len(F[h]) + 1)
         /\ ListEmpty(m, h) <=> F[h] = <<>>
         /\ ListEmpty(m, h) <=> Len(F[h]) = 0
<1>1. F[h] \in Seq(Nodes) /\ Len(F[h]) \in Nat /\ Ring(m, h, F[h])
  BY ListsHeld
<1>2. /\ Cell(F[h], h, 0) = h /\ Cell(F[h], h, Len(F[h]) + 1) = h
      /\ \A n \in Nodes : n # h
      /\ \A i \in 1..Len(F[h]) : Cell(F[h], h, i) = F[h][i] /\ F[h][i] \in Nodes
  BY <1>1, CellIsCell
<1>3. m[Cell(F[h], h, 0)].next = Cell(F[h], h, 0 + 1) /\ 0 + 1 = 1
  BY <1>1 DEF Ring
<1>4. m[Cell(F[h], h, Len(F[h]) + 1)].prev = Cell(F[h], h, Len(F[h]))
  BY <1>1 DEF Ring
<1>5. F[h] = <<>> <=> Len(F[h]) = 0
  BY <1>1, EmptySeq
<1>6. Cell(F[h], h, 1) = h <=> Len(F[h]) = 0
  <2>1. Len(F[h]) # 0 => Cell(F[h], h, 1) \in Nodes
    BY <1>1, <1>2
  <2>2. Len(F[h]) = 0 => Cell(F[h], h, 1) = h
    BY DEF Cell
  <2> QED
    BY <1>2, <2>1, <2>2
<1> QED
  BY <1>2, <1>3, <1>4, <1>5, <1>6 DEF ListEmpty

(* The pointers of the k-th node of a list.                                *)
LEMMA NodePointers ==
  ASSUME NEW m, NEW st, NEW F, Holds(m, st, F), NEW h \in Heads \ st, NEW k \in 1..Len(F[h])
  PROVE  /\ m[F[h][k]].next = Cell(F[h], h, k + 1) /\ m[F[h][k]].prev = Cell(F[h], h, k - 1)
         /\ F[h][k] = Cell(F[h], h, k) /\ F[h][k] \in Nodes
<1>1. F[h] \in Seq(Nodes) /\ Len(F[h]) \in Nat /\ Ring(m, h, F[h])
  BY ListsHeld
<1>2. k \in 0..Len(F[h]) /\ k - 1 \in 0..Len(F[h]) /\ (k - 1) + 1 = k
  BY <1>1
<1>3. m[Cell(F[h], h, k)].next = Cell(F[h], h, k + 1)
  BY <1>1, <1>2 DEF Ring
<1>4. m[Cell(F[h], h, (k - 1) + 1)].prev = Cell(F[h], h, k - 1)
  BY <1>1, <1>2 DEF Ring
<1>5. F[h][k] = Cell(F[h], h, k) /\ F[h][k] \in Nodes
  BY <1>1, CellIsCell
<1> QED
  BY <1>2, <1>3, <1>4, <1>5

(* list_add and list_add_tail: first, last, behind the k-th entry.          *)
LEMMA HoldsInsert ==
  ASSUME NEW m, NEW st, NEW F, Holds(m, st, F), NEW h \in Heads \ st,
         NEW n \in Nodes, Away(st, F, n)
  PROVE  /\ Holds(ListInsert(m, n, h), st, [F EXCEPT ![h] = <<n>> \o F[h]])
         /\ Holds(ListAddTail(m, n, h), st, [F EXCEPT ![h] = Append(F[h], n)])
         /\ \A k \in 1..Len(F[h]) :
              Holds(ListInsert(m, n, F[h][k]), st, [F EXCEPT ![h] = InsertAt(F[h], k + 1, n)])
<1>1. F[h] \in Seq(Nodes) /\ Len(F[h]) \in Nat
  BY ListsHeld
<1>2. Holds(ListInsert(m, n, h), st, [F EXCEPT ![h] = <<n>> \o F[h]])
  <2>1. Inserted(F[h], <<n>> \o F[h], 0, n) /\ 0 \in 0..Len(F[h])
    BY <1>1, EndsInsert
  <2>2. Holds(ListAdd(m, n, Cell(F[h], h, 0), Cell(F[h], h, 0 + 1)), st, [F EXCEPT ![h] = <<n>> \o F[h]])
    BY <2>1, HoldsAdd
  <2>3. m[h].next = Cell(F[h], h, 0 + 1) /\ h = Cell(F[h], h, 0)
    BY HeadPointers
  <2> QED
    BY <2>2, <2>3 DEF ListInsert
<1>3. Holds(ListAddTail(m, n, h), st, [F EXCEPT ![h] = Append(F[h], n)])
  <2>1. Inserted(F[h], Append(F[h], n), Len(F[h]), n)
    BY <1>1, EndsInsert, Zenon
  <2>5. Len(F[h]) \in 0..Len(F[h])
    BY <1>1
  <2>2. Holds(ListAdd(m, n, Cell(F[h], h, Len(F[h])), Cell(F[h], h, Len(F[h]) + 1)), st,
              [F EXCEPT ![h] = Append(F[h], n)])
    BY <2>1, <2>5, HoldsAdd
  <2>3. m[h].prev = Cell(F[h], h, Len(F[h])) /\ h = Cell(F[h], h, Len(F[h]) + 1)
    BY HeadPointers
  <2> QED
    BY <2>2, <2>3 DEF ListAddTail
<1>4. ASSUME NEW k \in 1..Len(F[h])
      PROVE  Holds(ListInsert(m, n, F[h][k]), st, [F EXCEPT ![h] = InsertAt(F[h], k + 1, n)])
  <2>1. k \in 0..Len(F[h])
    BY <1>1
  <2>2. Inserted(F[h], InsertAt(F[h], k + 1, n), k, n)
    BY <1>1, <2>1, InsertAtInserts
  <2>3. Holds(ListAdd(m, n, Cell(F[h], h, k), Cell(F[h], h, k + 1)), st,
              [F EXCEPT ![h] = InsertAt(F[h], k + 1, n)])
    BY <2>1, <2>2, HoldsAdd
  <2>4. m[F[h][k]].next = Cell(F[h], h, k + 1) /\ F[h][k] = Cell(F[h], h, k)
    BY NodePointers
  <2> QED
    BY <2>3, <2>4 DEF ListInsert
<1> QED
  BY <1>2, <1>3, <1>4

(* list_add, list_add_tail.                                                *)
LEMMA AddKeeps ==
  ASSUME ListInv, NEW h \in Heads, Usable(h), NEW n \in Unlisted, Add(h, n)
  PROVE  ListInv' /\ Promised!AbsNext
<1> DEFINE s == Lists[h]
<1>1. Holds(mem, stale, Lists) /\ h \in Heads \ stale /\ n \in Nodes /\ Away(stale, Lists, n)
  BY ListFacts, FreeNodes DEF ListInv
<1>2. s \in Seq(Nodes) /\ Distinct(s) /\ s = Content(h) /\ s # None
  BY ListFacts
<1>3. Promised!Ready(h)
  BY <1>2 DEF Promised!Ready
<1>4. CASE Plain(<<"first", h, n>>, ListInsert(mem, n, h))
  <2>1. Holds(ListInsert(mem, n, h), stale, [Lists EXCEPT ![h] = <<n>> \o s])
    BY <1>1, HoldsInsert
  <2>2. Holds(mem', stale', [Lists EXCEPT ![h] = <<n>> \o s])
    BY <1>4, <2>1 DEF Plain, Do
  <2>3. ListInv' /\ Lists' = [Lists EXCEPT ![h] = <<n>> \o s] /\ Promised!Outside(<<"first", h, n>>)
    BY <1>4, <2>2, OutsideCall DEF Plain, Do
  <2>4. Promised!InsertFirst(h, n)
    BY <1>3, <2>3 DEF Promised!InsertFirst
  <2> QED
    BY <1>1, <2>3, <2>4, AbsSteps
<1>5. CASE Plain(<<"last", h, n>>, ListAddTail(mem, n, h))
  <2>1. Holds(ListAddTail(mem, n, h), stale, [Lists EXCEPT ![h] = Append(s, n)])
    BY <1>1, HoldsInsert
  <2>2. Holds(mem', stale', [Lists EXCEPT ![h] = Append(s, n)])
    BY <1>5, <2>1 DEF Plain, Do
  <2>3. ListInv' /\ Lists' = [Lists EXCEPT ![h] = Append(s, n)] /\ Promised!Outside(<<"last", h, n>>)
    BY <1>5, <2>2, OutsideCall DEF Plain, Do
  <2>4. Promised!InsertLast(h, n)
    BY <1>3, <2>3 DEF Promised!InsertLast
  <2> QED
    BY <1>1, <2>3, <2>4, AbsSteps
<1>6. CASE \E e \in Range(Content(h)) : Plain(<<"after", h, e, n>>, ListInsert(mem, n, e))
  <2>1. PICK e \in Range(Content(h)) : Plain(<<"after", h, e, n>>, ListInsert(mem, n, e))
    BY <1>6
  <2>2. PICK k \in 1..Len(s) : s[k] = e
    BY <1>2, InRange
  <2>3. e \in Nodes
    BY <1>2, <2>2, ElementOfSeq
  <2>9. e \in Promised!On(h)
    BY <1>2, <1>3, <2>1, SameOperators DEF Promised!On
  <2>4. Holds(ListInsert(mem, n, e), stale, [Lists EXCEPT ![h] = InsertAt(s, k + 1, n)])
    BY <1>1, <2>2, HoldsInsert
  <2>5. Holds(mem', stale', [Lists EXCEPT ![h] = InsertAt(s, k + 1, n)])
    BY <2>1, <2>4 DEF Plain, Do
  <2>6. ListInv' /\ Lists' = [Lists EXCEPT ![h] = InsertAt(s, k + 1, n)]
        /\ Promised!Outside(<<"after", h, e, n>>)
    BY <2>1, <2>5, OutsideCall DEF Plain, Do
  <2>7. Promised!Place(s, e) = k
    BY <1>2, <2>2, PlaceIs
  <2>8. Promised!InsertAfter(h, e, n)
    BY <2>9, <2>6, <2>7, SameOperators DEF Promised!InsertAfter
  <2> QED
    BY <1>1, <2>3, <2>6, <2>8, AbsSteps
<1> QED
  BY <1>4, <1>5, <1>6 DEF Add

(* To take an entry out is to take out the one at its place.               *)
LEMMA WithoutIs ==
  ASSUME NEW s \in Seq(Nodes), Distinct(s), NEW k \in 1..Len(s)
  PROVE  Promised!Without(s, s[k]) = RemoveAt(s, k)
<1>1. s[k] \in Range(s)
  BY InRange
<1>2. Promised!Place(s, s[k]) = k
  BY PlaceIs
<1> QED
  BY <1>1, <1>2, SameOperators DEF Promised!Without

(* list_del and list_del_init: the entry is unlinked, then overwritten.     *)
LEMMA HoldsUnlink ==
  ASSUME NEW m, NEW st, NEW F, Holds(m, st, F), NEW h \in Heads \ st, NEW k \in 1..Len(F[h])
  PROVE  /\ Holds(ListDel(m, F[h][k]), st, [F EXCEPT ![h] = RemoveAt(F[h], k)])
         /\ Holds(ListDelInit(m, F[h][k]), st, [F EXCEPT ![h] = RemoveAt(F[h], k)])
         /\ Away(st, [F EXCEPT ![h] = RemoveAt(F[h], k)], F[h][k])
<1> DEFINE e == F[h][k]
           G == [F EXCEPT ![h] = RemoveAt(F[h], k)]
<1>1. F[h] \in Seq(Nodes) /\ e \in Nodes
  BY ListsHeld, NodePointers
<1>2. Deleted(F[h], RemoveAt(F[h], k), k)
  BY <1>1, RemoveAtDeletes
<1>3. Holds(ListDelEntry(m, e), st, G) /\ Away(st, G, e)
  BY <1>2, HoldsDel
<1> HIDE DEF e, G
<1>4. e \in Cells \cup {Poison} /\ Poison \in Cells \cup {Poison}
  BY <1>1 DEF Cells
<1>5. /\ Holds(SetBoth(ListDelEntry(m, e), e, Poison, Poison), st, G)
      /\ Holds(SetBoth(ListDelEntry(m, e), e, e, e), st, G)
  BY <1>1, <1>3, <1>4, HoldsLoose
<1>6. /\ ListDel(m, e) = SetBoth(ListDelEntry(m, e), e, Poison, Poison)
      /\ ListDelInit(m, e) = SetBoth(ListDelEntry(m, e), e, e, e)
  BY DEF ListDel, ListDelInit, InitHead, SetBoth
<1>7. Holds(ListDel(m, e), st, G) /\ Holds(ListDelInit(m, e), st, G) /\ Away(st, G, e)
  BY <1>3, <1>5, <1>6
<1> QED
  BY <1>7 DEF e, G

(* list_del, list_del_init.                                                *)
LEMMA DeleteKeeps ==
  ASSUME ListInv, NEW h \in Heads, Usable(h), NEW e \in Range(Content(h)), Delete(h, e)
  PROVE  ListInv' /\ Promised!AbsNext
<1> DEFINE s == Lists[h]
<1>1. Holds(mem, stale, Lists) /\ h \in Heads \ stale
  BY ListFacts DEF ListInv
<1>2. s \in Seq(Nodes) /\ Distinct(s) /\ s = Content(h) /\ s # None
  BY ListFacts
<1>3. PICK k \in 1..Len(s) : s[k] = e
  BY <1>2, InRange
<1>4. e \in Nodes
  BY <1>2, <1>3, ElementOfSeq
<1>5. Holds(mem', stale', [Lists EXCEPT ![h] = RemoveAt(s, k)])
      /\ walk = NoWalk /\ walk' = walk /\ call' = <<"remove", h, e>>
  BY <1>1, <1>3, HoldsUnlink DEF Delete, Plain, Do
<1>6. ListInv' /\ Lists' = [Lists EXCEPT ![h] = RemoveAt(s, k)] /\ Promised!Outside(<<"remove", h, e>>)
  BY <1>5, OutsideCall
<1>7. Promised!Without(s, e) = RemoveAt(s, k)
  BY <1>2, <1>3, WithoutIs
<1>8. Promised!Unlink(h, e)
  BY <1>2, <1>6, <1>7 DEF Promised!Unlink, Promised!Ready
<1> QED
  BY <1>4, <1>6, <1>8, AbsSteps

(* list_replace, list_replace_init, with a node for the entry.             *)
LEMMA ReplaceKeeps ==
  ASSUME ListInv, NEW h \in Heads, Usable(h), NEW e \in Range(Content(h)), NEW n \in Unlisted,
         Replace(h, e, n)
  PROVE  ListInv' /\ Promised!AbsNext
<1> DEFINE s == Lists[h]
<1>1. Holds(mem, stale, Lists) /\ h \in Heads \ stale /\ n \in Nodes /\ Away(stale, Lists, n)
  BY ListFacts, FreeNodes DEF ListInv
<1>2. s \in Seq(Nodes) /\ Distinct(s) /\ s = Content(h) /\ s # None
  BY ListFacts
<1>3. PICK k \in 1..Len(s) : s[k] = e
  BY <1>2, InRange
<1>4. e \in Nodes /\ e \in Cells \cup {Poison}
  BY <1>2, <1>3, ElementOfSeq DEF Cells
<1> DEFINE G == [Lists EXCEPT ![h] = [s EXCEPT ![k] = n]]
<1>5. Holds(ListReplace(mem, e, n), stale, G) /\ Away(stale, G, e)
  BY <1>1, <1>3, HoldsReplace
<1>6. Holds(ListReplaceInit(mem, e, n), stale, G)
  <2> HIDE DEF G
  <2>1. Holds(SetBoth(ListReplace(mem, e, n), e, e, e), stale, G)
    BY <1>4, <1>5, HoldsLoose
  <2> QED
    BY <2>1 DEF ListReplaceInit, InitHead, SetBoth
<1>7. Holds(mem', stale', G) /\ walk = NoWalk /\ walk' = walk /\ call' = <<"replace", h, e, n>>
  <2> HIDE DEF G
  <2> QED
    BY <1>5, <1>6 DEF Replace, Plain, Do
<1>8. ListInv' /\ Lists' = G /\ Promised!Outside(<<"replace", h, e, n>>)
  <2> HIDE DEF G
  <2> QED
    BY <1>7, OutsideCall
<1>9. Promised!Place(s, e) = k /\ e \in Promised!On(h)
  BY <1>2, <1>3, PlaceIs, SameOperators DEF Promised!On, Promised!Ready
<1>10. Promised!Replace(h, e, n)
  BY <1>8, <1>9 DEF Promised!Replace
<1> QED
  BY <1>1, <1>4, <1>8, <1>10, AbsSteps

(* INIT_LIST_HEAD.                                                         *)
LEMMA InitListKeeps ==
  ASSUME ListInv, NEW h \in Heads, InitList(h)
  PROVE  ListInv' /\ Promised!AbsNext
<1>1. Holds(InitHead(mem, h), stale \ {h}, [Lists EXCEPT ![h] = <<>>])
  BY HoldsInit DEF ListInv
<1>2. Holds(mem', stale', [Lists EXCEPT ![h] = <<>>])
  BY <1>1 DEF InitList, Do
<1>3. ListInv' /\ Lists' = [Lists EXCEPT ![h] = <<>>] /\ Promised!Outside(<<"init", h>>)
  BY <1>2, OutsideCall DEF InitList, Do
<1>4. Promised!InitList(h)
  BY <1>3 DEF Promised!InitList
<1> QED
  BY <1>3, <1>4, AbsSteps

(* list_replace, list_replace_init, with a head for the head.              *)
LEMMA ReplaceHeadKeeps ==
  ASSUME ListInv, NEW h \in Heads, Usable(h), NEW g \in Heads, NEW init \in BOOLEAN,
         ReplaceHead(h, g, init)
  PROVE  ListInv' /\ Promised!AbsNext
<1> DEFINE G == [Lists EXCEPT ![h] = None, ![g] = Lists[h]]
           K == [Lists EXCEPT ![h] = IF init THEN <<>> ELSE None, ![g] = Lists[h]]
<1>1. Holds(mem, stale, Lists) /\ h \in Heads \ stale /\ g # h /\ Lists[h] # None
  BY ListFacts DEF ListInv, ReplaceHead
<1>2. Lists \in [Heads -> Seq(Nodes) \cup {None}]
  BY <1>1 DEF Holds
<1>3. Holds(ListReplace(mem, h, g), (stale \ {g}) \cup {h}, G)
  BY <1>1, HoldsTake
<1>6. Holds(mem', stale', K)
  <2>1. CASE init
    <3>1. [G EXCEPT ![h] = <<>>] = K
      BY <1>1, <1>2, <2>1
    <3>2. ((stale \ {g}) \cup {h}) \ {h} = stale \ {g}
      BY <1>1
    <3> HIDE DEF G, K
    <3>3. Holds(InitHead(ListReplace(mem, h, g), h), stale \ {g}, K)
      BY <1>3, <3>1, <3>2, HoldsInit
    <3>4. mem' = InitHead(ListReplace(mem, h, g), h) /\ stale' = stale \ {g}
      BY <2>1 DEF ReplaceHead, Do, ListReplaceInit
    <3> QED
      BY <3>3, <3>4
  <2>2. CASE ~init
    <3>1. G = K
      BY <2>2
    <3> HIDE DEF G, K
    <3>2. mem' = ListReplace(mem, h, g) /\ stale' = (stale \ {g}) \cup {h}
      BY <2>2 DEF ReplaceHead, Do
    <3> QED
      BY <1>3, <3>1, <3>2
  <2> QED
    BY <2>1, <2>2
<1>7. walk = NoWalk /\ walk' = walk /\ call' = <<"replace_head", h, g, init>>
  BY DEF ReplaceHead, Do
<1>8. ListInv' /\ Lists' = K /\ Promised!Outside(<<"replace_head", h, g, init>>)
  <2> HIDE DEF K
  <2> QED
    BY <1>6, <1>7, OutsideCall
<1>9. Promised!ReplaceHead(h, g, init)
  BY <1>1, <1>8 DEF Promised!ReplaceHead, Promised!Ready
<1> QED
  BY <1>8, <1>9, AbsSteps

(* list_move, list_move_tail.                                              *)
LEMMA MoveKeeps ==
  ASSUME ListInv, NEW g \in Heads, Usable(g), NEW n \in Range(Content(g)),
         NEW h \in Heads, Usable(h), Move(g, h, n)
  PROVE  ListInv' /\ Promised!AbsNext
<1> DEFINE s == Lists[g]
<1>1. Holds(mem, stale, Lists) /\ g \in Heads \ stale /\ h \in Heads \ stale /\ Lists[h] # None
  BY ListFacts DEF ListInv
<1>2. s \in Seq(Nodes) /\ Distinct(s) /\ s = Content(g) /\ s # None
  BY ListFacts
<1>3. PICK k \in 1..Len(s) : s[k] = n
  BY <1>2, InRange
<1>4. n \in Nodes
  BY <1>2, <1>3, ElementOfSeq
<1> DEFINE G == [Lists EXCEPT ![g] = RemoveAt(s, k)]
<1>5. Holds(ListDelEntry(mem, n), stale, G) /\ Away(stale, G, n)
  <2>1. Deleted(s, RemoveAt(s, k), k)
    BY <1>2, RemoveAtDeletes
  <2> QED
    BY <1>1, <1>3, <2>1, HoldsDel
<1>6. n \in Promised!On(g) /\ Promised!Ready(h)
  BY <1>1, <1>2, SameOperators DEF Promised!On, Promised!Ready
<1>7. [Lists EXCEPT ![g] = Promised!Without(@, n)] = G
  BY <1>2, <1>3, WithoutIs
<1> HIDE DEF G
<1>8. CASE Plain(<<"move", n, h, "first">>, ListMove(mem, n, h))
  <2>1. Holds(ListMove(mem, n, h), stale, [G EXCEPT ![h] = <<n>> \o G[h]])
    BY <1>1, <1>4, <1>5, HoldsInsert DEF ListMove
  <2>2. Holds(mem', stale', [G EXCEPT ![h] = <<n>> \o G[h]])
    BY <1>8, <2>1 DEF Plain, Do
  <2>3. /\ ListInv' /\ Lists' = [G EXCEPT ![h] = <<n>> \o G[h]]
        /\ Promised!Outside(<<"move", n, h, "first">>)
    BY <1>8, <2>2, OutsideCall DEF Plain, Do
  <2>4. Promised!MoveTo(g, h, n, "first")
    BY <1>6, <1>7, <2>3 DEF Promised!MoveTo
  <2> QED
    BY <1>4, <2>3, <2>4, AbsSteps
<1>9. CASE Plain(<<"move", n, h, "last">>, ListMoveTail(mem, n, h))
  <2>1. Holds(ListMoveTail(mem, n, h), stale, [G EXCEPT ![h] = Append(G[h], n)])
    BY <1>1, <1>4, <1>5, HoldsInsert DEF ListMoveTail
  <2>2. Holds(mem', stale', [G EXCEPT ![h] = Append(G[h], n)])
    BY <1>9, <2>1 DEF Plain, Do
  <2>3. /\ ListInv' /\ Lists' = [G EXCEPT ![h] = Append(G[h], n)]
        /\ Promised!Outside(<<"move", n, h, "last">>)
    BY <1>9, <2>2, OutsideCall DEF Plain, Do
  <2>4. Promised!MoveTo(g, h, n, "last")
    BY <1>6, <1>7, <2>3 DEF Promised!MoveTo
  <2> QED
    BY <1>4, <2>3, <2>4, AbsSteps
<1> QED
  BY <1>8, <1>9 DEF Move

(* list_rotate_left.                                                       *)
LEMMA RotateKeeps ==
  ASSUME ListInv, NEW h \in Heads, Usable(h), Rotate(h)
  PROVE  ListInv' /\ Promised!AbsNext
<1> DEFINE s == Lists[h]
           K == [Lists EXCEPT ![h] = IF s = <<>> THEN s ELSE Append(Tail(s), Head(s))]
<1>1. Holds(mem, stale, Lists) /\ h \in Heads \ stale
  BY ListFacts DEF ListInv
<1>2. s \in Seq(Nodes) /\ Distinct(s) /\ s # None /\ Lists \in [Heads -> Seq(Nodes) \cup {None}]
  BY <1>1, ListFacts DEF Holds
<1>3. ListEmpty(mem, h) <=> s = <<>>
  BY <1>1, HeadPointers
<1>4. Holds(mem', stale', K)
  <2>1. CASE s = <<>>
    <3>1. K = Lists
      BY <1>2, <2>1
    <3> HIDE DEF K
    <3> QED
      BY <1>1, <1>3, <2>1, <3>1 DEF Rotate, Plain, Do, ListRotateLeft
  <2>2. CASE s # <<>>
    <3> DEFINE G == [Lists EXCEPT ![h] = Tail(s)]
               n == s[1]
    <3>1. 1 \in 1..Len(s) /\ Head(s) = n
      BY <1>2, <2>2
    <3>2. Deleted(s, Tail(s), 1)
      BY <1>2, <2>2, TailDeletes
    <3>3. Holds(ListDelEntry(mem, n), stale, G) /\ Away(stale, G, n)
      BY <1>1, <3>1, <3>2, HoldsDel
    <3>4. n \in Nodes /\ mem[h].next = n
      BY <1>1, <3>1, HeadPointers, NodePointers
    <3>5. [G EXCEPT ![h] = Append(G[h], n)] = K
      BY <1>2, <2>2, <3>1
    <3> HIDE DEF G, n, K
    <3>6. Holds(ListAddTail(ListDelEntry(mem, n), n, h), stale, [G EXCEPT ![h] = Append(G[h], n)])
      BY <1>1, <3>3, <3>4, HoldsInsert
    <3>7. mem' = ListAddTail(ListDelEntry(mem, n), n, h) /\ stale' = stale
      BY <1>3, <2>2, <3>4 DEF Rotate, Plain, Do, ListRotateLeft, ListMoveTail
    <3> QED
      BY <3>5, <3>6, <3>7
  <2> QED
    BY <2>1, <2>2
<1>5. walk = NoWalk /\ walk' = walk /\ call' = <<"rotate", h>>
  BY DEF Rotate, Plain, Do
<1>6. ListInv' /\ Lists' = K /\ Promised!Outside(<<"rotate", h>>)
  <2> HIDE DEF K
  <2> QED
    BY <1>4, <1>5, OutsideCall
<1>7. Promised!RotateLeft(h)
  BY <1>2, <1>6 DEF Promised!RotateLeft, Promised!Ready
<1> QED
  BY <1>6, <1>7, AbsSteps

(* Both parts of a list cut behind its k-th entry.                         *)
LEMMA PartsAre ==
  ASSUME NEW s \in Seq(Nodes), NEW k \in 0..Len(s)
  PROVE  /\ SubSeq(s, 1, k) \in Seq(Nodes) /\ Len(SubSeq(s, 1, k)) = k
         /\ \A i \in 1..k : SubSeq(s, 1, k)[i] = s[i]
         /\ SubSeq(s, k + 1, Len(s)) \in Seq(Nodes) /\ Len(SubSeq(s, k + 1, Len(s))) = Len(s) - k
         /\ \A i \in 1..(Len(s) - k) : SubSeq(s, k + 1, Len(s))[i] = s[k + i]
<1>1. Len(s) \in Nat /\ \A i \in 1..Len(s) : s[i] \in Nodes
  BY LenProperties, ElementOfSeq
<1>2. /\ SubSeq(s, 1, k) \in Seq(Nodes) /\ Len(SubSeq(s, 1, k)) = k
      /\ \A i \in 1..k : SubSeq(s, 1, k)[i] = s[i]
  <2>1. \A i \in 1..k : s[i] \in Nodes
    BY <1>1
  <2>2. /\ SubSeq(s, 1, k) \in Seq(Nodes) /\ Len(SubSeq(s, 1, k)) = IF 1 <= k THEN k - 1 + 1 ELSE 0
        /\ \A i \in 1..(k - 1 + 1) : SubSeq(s, 1, k)[i] = s[1 + i - 1]
    BY <1>1, <2>1, SubSeqProperties
  <2> DEFINE t == SubSeq(s, 1, k)
  <2> HIDE DEF t
  <2>3. /\ t \in Seq(Nodes) /\ Len(t) = IF 1 <= k THEN k - 1 + 1 ELSE 0
        /\ \A i \in 1..(k - 1 + 1) : t[i] = s[1 + i - 1]
    BY <2>2 DEF t
  <2>4. t \in Seq(Nodes) /\ Len(t) = k /\ \A i \in 1..k : t[i] = s[i]
    BY <1>1, <2>3
  <2> QED
    BY <2>4 DEF t
<1>3. /\ SubSeq(s, k + 1, Len(s)) \in Seq(Nodes) /\ Len(SubSeq(s, k + 1, Len(s))) = Len(s) - k
      /\ \A i \in 1..(Len(s) - k) : SubSeq(s, k + 1, Len(s))[i] = s[k + i]
  <2>1. k + 1 \in 1..(Len(s) + 1) /\ \A i \in (k + 1)..Len(s) : s[i] \in Nodes
    BY <1>1
  <2> DEFINE j == k + 1
             t == SubSeq(s, j, Len(s))
  <2>2. /\ t \in Seq(Nodes) /\ Len(t) = IF j <= Len(s) THEN Len(s) - j + 1 ELSE 0
        /\ \A i \in 1..(Len(s) - j + 1) : t[i] = s[j + i - 1]
    <3> HIDE DEF j
    <3>1. j \in 1..(Len(s) + 1) /\ Len(s) \in Int /\ \A i \in j..Len(s) : s[i] \in Nodes
      BY <1>1, <2>1 DEF j
    <3> QED
      BY <3>1, SubSeqProperties
  <2> HIDE DEF t
  <2>3. t \in Seq(Nodes) /\ Len(t) = Len(s) - k /\ \A i \in 1..(Len(s) - k) : t[i] = s[k + i]
    <3>1. \A i \in 1..(Len(s) - k) : i \in 1..(Len(s) - j + 1) /\ j + i - 1 = k + i
      BY <1>1
    <3> QED
      BY <1>1, <2>2, <3>1
  <2> QED
    BY <2>3 DEF t
<1> QED
  BY <1>2, <1>3

(* list_cut_position.                                                      *)
LEMMA CutKeeps ==
  ASSUME ListInv, NEW h \in Heads, Usable(h), NEW g \in Heads,
         NEW e \in Range(Content(h)) \cup {h}, CutPosition(g, h, e)
  PROVE  ListInv' /\ Promised!AbsNext
<1> DEFINE s == Lists[h]
           k == IF e = h THEN 0 ELSE Promised!Place(s, e)
           K == IF s = <<>> THEN Lists
                ELSE [Lists EXCEPT ![g] = SubSeq(s, 1, k), ![h] = SubSeq(s, k + 1, Len(s))]
<1>1. Holds(mem, stale, Lists) /\ h \in Heads \ stale /\ g # h
  BY ListFacts DEF ListInv, CutPosition
<1>2. /\ s \in Seq(Nodes) /\ Len(s) \in Nat /\ Distinct(s) /\ s = Content(h) /\ s # None
      /\ Lists \in [Heads -> Seq(Nodes) \cup {None}]
  BY <1>1, ListFacts DEF Holds
<1>3. ListEmpty(mem, h) <=> s = <<>>
  BY <1>1, HeadPointers
<1>4. Holds(mem', stale', K)
  <2>1. CASE s = <<>>
    BY <1>1, <1>3, <2>1 DEF CutPosition, Do, ListCutPosition
  <2>2. CASE s # <<>> /\ e = h
    <3>1. mem' = InitHead(mem, g) /\ stale' = stale \ {g}
      BY <1>3, <2>2 DEF CutPosition, Do, ListCutPosition
    <3>2. K = [Lists EXCEPT ![g] = <<>>]
      <4>1. k = 0 /\ SubSeq(s, 1, 0) = <<>> /\ SubSeq(s, 0 + 1, Len(s)) = s
        <5>1. SubSeq(s, 1, 0) \in Seq(Nodes) /\ Len(SubSeq(s, 1, 0)) = 0
          BY <1>2, PartsAre
        <5>2. SubSeq(s, 1, 0) = <<>>
          BY <5>1, EmptySeq
        <5>3. SubSeq(s, 1, Len(s)) = s /\ 0 + 1 = 1
          BY <1>2, SubSeqFull
        <5> QED
          BY <2>2, <5>2, <5>3
      <4> HIDE DEF k
      <4>2. K = [Lists EXCEPT ![g] = <<>>, ![h] = s]
        BY <2>2, <4>1
      <4> QED
        BY <1>1, <1>2, <4>2
    <3> HIDE DEF K
    <3> QED
      BY <1>1, <3>1, <3>2, HoldsInit
  <2>3. CASE s # <<>> /\ e # h
    <3>1. PICK i \in 1..Len(s) : s[i] = e
      BY <1>2, <2>3, InRange
    <3>2. k = i
      BY <1>2, <2>3, <3>1, PlaceIs
    <3>3. e = mem[h].next \/ ~ListIsSingular(mem, h)
      <4>1. SUFFICES ASSUME ListIsSingular(mem, h) PROVE e = mem[h].next
        OBVIOUS
      <4>2. mem[h].next = Cell(s, h, 1) /\ mem[h].prev = Cell(s, h, Len(s)) /\ mem[h].next = mem[h].prev
        BY <1>1, <4>1, HeadPointers DEF ListIsSingular
      <4>3. 1 \in 0..Len(s) /\ Len(s) \in 0..Len(s)
        BY <1>2, <3>1
      <4>4. Len(s) = 1
        BY <1>2, <4>2, <4>3, CellsDiffer
      <4>5. i = 1
        BY <3>1, <4>4
      <4> QED
        BY <3>1, <4>2, <4>5 DEF Cell
    <3> DEFINE a == SubSeq(s, 1, i)
               b == SubSeq(s, i + 1, Len(s))
    <3>4. /\ a \in Seq(Nodes) /\ Len(a) = i /\ \A j \in 1..i : a[j] = s[j]
          /\ b \in Seq(Nodes) /\ Len(b) = Len(s) - i /\ \A j \in 1..Len(b) : b[j] = s[i + j]
      <4>1. i \in 0..Len(s)
        BY <1>2
      <4> QED
        BY <1>2, <4>1, PartsAre
    <3>5. mem' = CutBehind(mem, g, h, e) /\ stale' = stale \ {g}
      BY <1>3, <2>3, <3>3 DEF CutPosition, Do, ListCutPosition
    <3>6. K = [Lists EXCEPT ![g] = a, ![h] = b]
      BY <2>3, <3>2
    <3> HIDE DEF a, b, K
    <3>7. Holds(CutBehind(mem, g, h, s[i]), stale \ {g}, [Lists EXCEPT ![g] = a, ![h] = b])
      BY <1>1, <3>4, HoldsCut
    <3> QED
      BY <3>1, <3>5, <3>6, <3>7
  <2> QED
    BY <2>1, <2>2, <2>3
<1>5. walk = NoWalk /\ walk' = walk /\ call' = <<"cut", g, h, e>>
  BY DEF CutPosition, Do
<1>6. ListInv' /\ Lists' = K /\ Promised!Outside(<<"cut", g, h, e>>)
  <2> HIDE DEF K
  <2> QED
    BY <1>4, <1>5, OutsideCall
<1>7. e \in Promised!On(h) \cup {h} /\ Promised!Ready(h) /\ e \in Heads \cup Nodes
  <2>1. Range(s) \subseteq Nodes
    BY <1>2, InRange, ElementOfSeq
  <2> QED
    BY <1>2, <2>1, SameOperators DEF Promised!On, Promised!Ready
<1>8. Promised!Cut(g, h, e)
  <2>1. K = IF Lists[h] = <<>> THEN Lists
            ELSE LET kk == IF e = h THEN 0 ELSE Promised!Place(Lists[h], e)
                 IN  [Lists EXCEPT ![g] = SubSeq(Lists[h], 1, kk), ![h] = SubSeq(@, kk + 1, Len(@))]
    BY <1>1, <1>2
  <2> HIDE DEF K
  <2> QED
    BY <1>6, <1>7, <2>1 DEF Promised!Cut
<1> QED
  BY <1>6, <1>7, <1>8, AbsSteps

(* A list put at either end of another.                                    *)
LEMMA EndsPut ==
  ASSUME NEW s \in Seq(Nodes), NEW u \in Seq(Nodes)
  PROVE  Put(s, u, u \o s, 0) /\ Put(s, u, s \o u, Len(s))
<1>1. Len(s) \in Nat /\ Len(u) \in Nat
  BY LenProperties
<1>2. Put(s, u, u \o s, 0)
  <2> DEFINE t == u \o s
  <2>1. t \in Seq(Nodes) /\ Len(t) = Len(u) + Len(s)
        /\ \A i \in 1..(Len(u) + Len(s)) : t[i] = IF i <= Len(u) THEN u[i] ELSE s[i - Len(u)]
    BY ConcatProperties
  <2> HIDE DEF t
  <2>2. Len(t) = Len(s) + Len(u)
    BY <1>1, <2>1
  <2>3. ASSUME NEW i \in 1..Len(t)
        PROVE  t[i] = IF i <= 0 THEN s[i] ELSE IF i <= 0 + Len(u) THEN u[i - 0] ELSE s[i - Len(u)]
    BY <1>1, <2>1
  <2>4. Put(s, u, t, 0)
    BY <2>1, <2>2, <2>3 DEF Put
  <2> QED
    BY <2>4 DEF t
<1>3. Put(s, u, s \o u, Len(s))
  <2> DEFINE t == s \o u
  <2>1. t \in Seq(Nodes) /\ Len(t) = Len(s) + Len(u)
        /\ \A i \in 1..(Len(s) + Len(u)) : t[i] = IF i <= Len(s) THEN s[i] ELSE u[i - Len(s)]
    BY ConcatProperties
  <2> HIDE DEF t
  <2>3. ASSUME NEW i \in 1..Len(t)
        PROVE  t[i] = IF i <= Len(s) THEN s[i] ELSE IF i <= Len(s) + Len(u) THEN u[i - Len(s)] ELSE s[i - Len(u)]
    BY <1>1, <2>1
  <2>4. Put(s, u, t, Len(s))
    BY <2>1, <2>3 DEF Put
  <2> QED
    BY <2>4 DEF t
<1> QED
  BY <1>2, <1>3

(* list_splice, list_splice_tail and their _init forms.                    *)
LEMMA JoinKeeps ==
  ASSUME ListInv, NEW h \in Heads, Usable(h), NEW g \in Heads, Usable(g),
         NEW place \in {"first", "last"}, NEW init \in BOOLEAN, Join(h, g, place, init)
  PROVE  ListInv' /\ Promised!AbsNext
<1> DEFINE s == Lists[g]
           u == Lists[h]
           t == IF place = "first" THEN u \o s ELSE s \o u
           K == [Lists EXCEPT ![g] = t, ![h] = IF init \/ u = <<>> THEN <<>> ELSE None]
<1>1. Holds(mem, stale, Lists) /\ h \in Heads \ stale /\ g \in Heads \ stale /\ g # h
  BY ListFacts DEF ListInv, Join
<1>2. /\ s \in Seq(Nodes) /\ s # None /\ u \in Seq(Nodes) /\ u # None
      /\ Lists \in [Heads -> Seq(Nodes) \cup {None}]
  BY <1>1, ListFacts DEF Holds
<1>3. (ListEmpty(mem, h) <=> u = <<>>) /\ (ListEmpty(mem, h) <=> Len(u) = 0)
  BY <1>1, HeadPointers
<1>4. Holds(mem', stale', K)
  <2>1. CASE u = <<>>
    <3>1. mem' = mem /\ stale' = stale
      BY <1>3, <2>1 DEF Join, Do, ListSplice, ListSpliceTail, ListSpliceInit, ListSpliceTailInit
    <3>2. t = s
      BY <1>2, <2>1
    <3> HIDE DEF t
    <3>3. K = Lists
      BY <1>2, <2>1, <3>2
    <3> HIDE DEF K
    <3> QED
      BY <1>1, <3>1, <3>3
  <2>2. CASE u # <<>>
    <3> DEFINE m2 == IF place = "first" THEN Splice(mem, h, g, mem[g].next) ELSE Splice(mem, h, mem[g].prev, g)
               G == [Lists EXCEPT ![g] = t, ![h] = None]
    <3>1. Holds(m2, stale \cup {h}, G)
      <4>1. Len(u) # 0 /\ 0 \in 0..Len(s) /\ Len(s) \in 0..Len(s)
        BY <1>2, <1>3, <2>2, LenProperties
      <4>2. /\ mem[g].next = Cell(s, g, 0 + 1) /\ mem[g].prev = Cell(s, g, Len(s))
            /\ g = Cell(s, g, 0) /\ g = Cell(s, g, Len(s) + 1)
        BY <1>1, HeadPointers
      <4>3. CASE place = "first"
        <5>1. Put(s, u, u \o s, 0)
          BY <1>2, EndsPut
        <5>2. Holds(Splice(mem, h, Cell(s, g, 0), Cell(s, g, 0 + 1)), stale \cup {h},
                    [Lists EXCEPT ![g] = u \o s, ![h] = None])
          BY <1>1, <4>1, <5>1, HoldsJoin
        <5>3. m2 = Splice(mem, h, Cell(s, g, 0), Cell(s, g, 0 + 1)) /\ t = u \o s
          BY <4>2, <4>3
        <5> HIDE DEF t, m2
        <5> QED
          BY <5>2, <5>3
      <4>4. CASE place # "first"
        <5>1. Put(s, u, s \o u, Len(s))
          BY <1>2, EndsPut
        <5>2. Holds(Splice(mem, h, Cell(s, g, Len(s)), Cell(s, g, Len(s) + 1)), stale \cup {h},
                    [Lists EXCEPT ![g] = s \o u, ![h] = None])
          BY <1>1, <4>1, <5>1, HoldsJoin
        <5>3. m2 = Splice(mem, h, Cell(s, g, Len(s)), Cell(s, g, Len(s) + 1)) /\ t = s \o u
          BY <4>2, <4>4
        <5> HIDE DEF t, m2
        <5> QED
          BY <5>2, <5>3
      <4> QED
        BY <4>3, <4>4
    <3>2. /\ init => mem' = InitHead(m2, h) /\ stale' = stale
          /\ ~init => mem' = m2 /\ stale' = stale \cup {h}
      BY <1>3, <2>2 DEF Join, Do, ListSplice, ListSpliceTail, ListSpliceInit, ListSpliceTailInit
    <3> HIDE DEF m2, t
    <3>3. CASE init
      <4>1. [G EXCEPT ![h] = <<>>] = K
        BY <1>1, <1>2, <3>3
      <4>2. (stale \cup {h}) \ {h} = stale
        BY <1>1
      <4> HIDE DEF G, K
      <4> QED
        BY <3>1, <3>2, <3>3, <4>1, <4>2, HoldsInit
    <3>4. CASE ~init
      <4>1. G = K
        BY <2>2, <3>4
      <4> HIDE DEF G, K
      <4> QED
        BY <3>1, <3>2, <3>4, <4>1
    <3> QED
      BY <3>3, <3>4
  <2> QED
    BY <2>1, <2>2
<1>5. walk = NoWalk /\ walk' = walk /\ call' = <<"join", h, g, place, init>>
  BY DEF Join, Do
<1>6. ListInv' /\ Lists' = K /\ Promised!Outside(<<"join", h, g, place, init>>)
  <2> HIDE DEF K
  <2> QED
    BY <1>4, <1>5, OutsideCall
<1>7. Promised!Join(h, g, place, init)
  <2>1. K = [Lists EXCEPT ![g] = IF place = "first" THEN Lists[h] \o @ ELSE @ \o Lists[h],
                          ![h] = IF init \/ @ = <<>> THEN <<>> ELSE None]
    BY <1>1, <1>2, Zenon
  <2> HIDE DEF K
  <2> QED
    BY <1>2, <1>6, <2>1 DEF Promised!Join, Promised!Ready
<1> QED
  BY <1>6, <1>7, AbsSteps
-----------------------------------------------------------------------------
(* Loops. *)

(* The rest of a sequence from its j-th element on.                        *)
LEMMA RestIs ==
  ASSUME NEW d \in Seq(Nodes), NEW j \in 1..(Len(d) + 1)
  PROVE  /\ SubSeq(d, j, Len(d)) \in Seq(Nodes) /\ Len(SubSeq(d, j, Len(d))) = Len(d) + 1 - j
         /\ \A i \in 1..(Len(d) + 1 - j) : SubSeq(d, j, Len(d))[i] = d[j + i - 1]
         /\ SubSeq(d, j, Len(d)) = <<>> <=> j = Len(d) + 1
         /\ j # Len(d) + 1 => /\ Head(SubSeq(d, j, Len(d))) = d[j]
                              /\ Tail(SubSeq(d, j, Len(d))) = SubSeq(d, j + 1, Len(d))
<1> DEFINE k == j - 1
           t == SubSeq(d, j, Len(d))
<1>1. Len(d) \in Nat /\ k \in 0..Len(d) /\ k + 1 = j
  BY LenProperties
<1>2. /\ SubSeq(d, k + 1, Len(d)) \in Seq(Nodes) /\ Len(SubSeq(d, k + 1, Len(d))) = Len(d) - k
      /\ \A i \in 1..(Len(d) - k) : SubSeq(d, k + 1, Len(d))[i] = d[k + i]
  <2> HIDE DEF k
  <2> QED
    BY <1>1, PartsAre
<1>3. t \in Seq(Nodes) /\ Len(t) = Len(d) - k /\ \A i \in 1..(Len(d) - k) : t[i] = d[k + i]
  <2> HIDE DEF k
  <2> QED
    BY <1>1, <1>2
<1> HIDE DEF t
<1>4. Len(t) = Len(d) + 1 - j /\ \A i \in 1..(Len(d) + 1 - j) : t[i] = d[j + i - 1]
  <2>1. Len(d) - k = Len(d) + 1 - j
    BY <1>1
  <2>2. ASSUME NEW i \in 1..(Len(d) + 1 - j) PROVE t[i] = d[j + i - 1]
    <3>1. i \in 1..(Len(d) - k) /\ k + i = j + i - 1
      BY <1>1
    <3>2. t[i] = d[k + i]
      BY <1>3, <3>1
    <3> QED
      BY <3>1, <3>2
  <2> HIDE DEF k
  <2> QED
    BY <1>3, <2>1, <2>2
<1>5. t = <<>> <=> j = Len(d) + 1
  BY <1>1, <1>3, <1>4, EmptySeq
<1>6. ASSUME j # Len(d) + 1
      PROVE  Head(t) = d[j] /\ Tail(t) = SubSeq(d, j + 1, Len(d))
  <2>1. j \in 1..Len(d) /\ Len(d) \in j..Len(d)
    BY <1>1, <1>6
  <2> QED
    BY <2>1, HeadTailOfSubSeq DEF t
<1> QED
  BY <1>3, <1>4, <1>5, <1>6 DEF t

(* Looking along a list changes the places, not the entries.               *)
LEMMA AlongEntries ==
  ASSUME NEW s \in Seq(Nodes), NEW dir \in Ways, NEW e
  PROVE  (\E k \in 1..Len(s) : s[k] = e) <=> \E i \in 1..Len(s) : Along(s, dir)[i] = e
<1>1. Len(s) \in Nat /\ \A i \in 1..Len(s) : Along(s, dir)[i] = IF dir = "next" THEN s[i] ELSE s[Len(s) + 1 - i]
  BY AlongIs, LenProperties
<1>2. CASE dir = "next"
  BY <1>1, <1>2
<1>3. CASE dir # "next"
  <2>1. ASSUME NEW k \in 1..Len(s), s[k] = e PROVE \E i \in 1..Len(s) : Along(s, dir)[i] = e
    <3> DEFINE i == Len(s) + 1 - k
    <3>1. i \in 1..Len(s) /\ Len(s) + 1 - i = k
      BY <1>1
    <3>2. Along(s, dir)[i] = e
      BY <1>1, <1>3, <2>1, <3>1
    <3> QED
      BY <3>1, <3>2
  <2>2. ASSUME NEW i \in 1..Len(s), Along(s, dir)[i] = e PROVE \E k \in 1..Len(s) : s[k] = e
    <3>1. Len(s) + 1 - i \in 1..Len(s) /\ s[Len(s) + 1 - i] = e
      BY <1>1, <1>3, <2>2
    <3> QED
      BY <3>1
  <2> QED
    BY <2>1, <2>2
<1> QED
  BY <1>2, <1>3

(* The place of an entry removed, seen in direction dir.                   *)
LEMMA AlongDeleted ==
  ASSUME NEW s \in Seq(Nodes), Distinct(s), NEW k \in 1..Len(s), NEW t, Deleted(s, t, k), NEW dir \in Ways,
         NEW i \in 1..Len(s), Along(s, dir)[i] = s[k]
  PROVE  Deleted(Along(s, dir), Along(t, dir), i)
<1> DEFINE d == Along(s, dir)
           b == Along(t, dir)
<1>1. t \in Seq(Nodes) /\ Len(t) = Len(s) - 1 /\ Len(s) \in Nat
      /\ \A j \in 1..Len(t) : t[j] = IF j < k THEN s[j] ELSE s[j + 1]
  BY LenProperties DEF Deleted
<1>2. d \in Seq(Nodes) /\ Len(d) = Len(s) /\ \A j \in 1..Len(s) : d[j] = IF dir = "next" THEN s[j] ELSE s[Len(s) + 1 - j]
  BY AlongIs
<1>3. b \in Seq(Nodes) /\ Len(b) = Len(t) /\ \A j \in 1..Len(t) : b[j] = IF dir = "next" THEN t[j] ELSE t[Len(t) + 1 - j]
  BY <1>1, AlongIs
<1>4. d[i] = s[k]
  OBVIOUS
<1> HIDE DEF d, b
<1>5. \A j \in 1..Len(b) : b[j] = IF j < i THEN d[j] ELSE d[j + 1]
  <2>1. CASE dir = "next"
    <3>1. i = k
      BY <1>2, <1>4, <2>1 DEF Distinct
    <3> QED
      BY <1>1, <1>2, <1>3, <2>1, <3>1
  <2>2. CASE dir # "next"
    <3>1. Len(s) + 1 - i \in 1..Len(s) /\ s[Len(s) + 1 - i] = s[k]
      BY <1>1, <1>2, <1>4, <2>2
    <3>2. Len(s) + 1 - i = k
      BY <3>1 DEF Distinct
    <3>3. ASSUME NEW j \in 1..Len(b) PROVE b[j] = IF j < i THEN d[j] ELSE d[j + 1]
      <4> DEFINE l == Len(t) + 1 - j
      <4>1. l \in 1..Len(t) /\ b[j] = t[l] /\ l = Len(s) - j
        BY <1>1, <1>3, <2>2
      <4>5. l \in Int /\ j \in 1..(Len(s) - 1) /\ Len(s) \in Nat /\ k \in 1..Len(s)
        BY <1>1, <1>3, <4>1
      <4> HIDE DEF l
      <4>2. t[l] = IF l < k THEN s[l] ELSE s[l + 1]
        BY <1>1, <4>1
      <4>3. CASE j < i
        <5>1. ~(l < k) /\ j \in 1..Len(s) /\ Len(s) + 1 - j = l + 1
          BY <3>2, <4>1, <4>3, <4>5
        <5>2. d[j] = s[l + 1]
          BY <1>2, <2>2, <5>1
        <5> QED
          BY <4>1, <4>2, <4>3, <5>1, <5>2
      <4>4. CASE ~(j < i)
        <5>1. l < k /\ j + 1 \in 1..Len(s) /\ Len(s) + 1 - (j + 1) = l
          BY <3>2, <4>1, <4>4, <4>5
        <5>2. d[j + 1] = s[l]
          BY <1>2, <2>2, <5>1
        <5> QED
          BY <4>1, <4>2, <4>4, <5>1, <5>2
      <4> QED
        BY <4>3, <4>4
    <3> QED
      BY <3>3
  <2> QED
    BY <2>1, <2>2
<1>6. Deleted(d, b, i)
  BY <1>1, <1>2, <1>3, <1>5 DEF Deleted
<1> QED
  BY <1>6 DEF d, b

(* What lies behind a removed entry is what lay behind it.                 *)
LEMMA RestStays ==
  ASSUME NEW d \in Seq(Nodes), NEW h, NEW i \in 1..Len(d), NEW b, Deleted(d, b, i)
  PROVE  /\ b \in Seq(Nodes) /\ i \in 1..(Len(b) + 1) /\ Len(b) = Len(d) - 1
         /\ Cell(b, h, i) = Cell(d, h, i + 1)
         /\ SubSeq(b, i, Len(b)) = SubSeq(d, i + 1, Len(d))
         /\ \A j \in 1..(i - 1) : j \in 1..Len(b) /\ b[j] = d[j]
<1>1. b \in Seq(Nodes) /\ Len(b) = Len(d) - 1 /\ Len(d) \in Nat
      /\ \A j \in 1..Len(b) : b[j] = IF j < i THEN d[j] ELSE d[j + 1]
  BY LenProperties DEF Deleted
<1>2. i \in 1..(Len(b) + 1) /\ i + 1 \in 1..(Len(d) + 1)
  BY <1>1
<1>3. Cell(b, h, i) = Cell(d, h, i + 1)
  BY <1>1 DEF Cell
<1>4. SubSeq(b, i, Len(b)) = SubSeq(d, i + 1, Len(d))
  <2> DEFINE x == SubSeq(b, i, Len(b))
             i1 == i + 1
             y == SubSeq(d, i1, Len(d))
  <2>1. x \in Seq(Nodes) /\ Len(x) = Len(b) + 1 - i /\ \A j \in 1..(Len(b) + 1 - i) : x[j] = b[i + j - 1]
    BY <1>1, <1>2, RestIs
  <2>2. y \in Seq(Nodes) /\ Len(y) = Len(d) + 1 - i1 /\ \A j \in 1..(Len(d) + 1 - i1) : y[j] = d[i1 + j - 1]
    <3> HIDE DEF i1
    <3>1. i1 \in 1..(Len(d) + 1)
      BY <1>2 DEF i1
    <3> QED
      BY <3>1, RestIs
  <2> HIDE DEF x, y
  <2>3. Len(x) = Len(y)
    BY <1>1, <2>1, <2>2
  <2>4. ASSUME NEW j \in 1..Len(x) PROVE x[j] = y[j]
    <3>1. /\ i + j - 1 \in 1..Len(b) /\ ~(i + j - 1 < i) /\ i + j - 1 + 1 = i1 + j - 1
          /\ j \in 1..(Len(b) + 1 - i) /\ j \in 1..(Len(d) + 1 - i1)
      BY <1>1, <2>1
    <3>2. x[j] = b[i + j - 1] /\ y[j] = d[i1 + j - 1]
      BY <2>1, <2>2, <3>1
    <3>3. b[i + j - 1] = d[i + j - 1 + 1]
      BY <1>1, <3>1
    <3> QED
      BY <3>1, <3>2, <3>3
  <2>5. x = y
    BY <2>1, <2>2, <2>3, <2>4, SeqEqual
  <2> QED
    BY <2>5 DEF x, y
<1>5. ASSUME NEW j \in 1..(i - 1) PROVE j \in 1..Len(b) /\ b[j] = d[j]
  <2>1. j \in 1..Len(b) /\ j < i
    BY <1>1
  <2> QED
    BY <1>1, <2>1
<1> QED
  BY <1>1, <1>2, <1>3, <1>4, <1>5

(* What a loop with direction dir, its next cell the j-th, has before it.   *)
Todo(F, h, dir, j) == SubSeq(Along(F[h], dir), j, Len(Along(F[h], dir)))

(* What the pointers show from the j-th cell on, in the direction of a     *)
(* loop.                                                                   *)
LEMMA AheadIsTodo ==
  ASSUME NEW m, NEW st, NEW F, Holds(m, st, F), NEW h \in Heads \ st, NEW dir \in Ways,
         NEW j \in 1..(Len(Along(F[h], dir)) + 1)
  PROVE  Chain(Cell(Along(F[h], dir), h, j), Steps(m, dir)) = Todo(F, h, dir, j)
<1>1. F[h] \in Seq(Nodes) /\ Distinct(F[h]) /\ Ring(m, h, F[h])
  BY ListsHeld
<1>2. Len(Along(F[h], dir)) = Len(F[h])
  BY <1>1, AlongIs
<1>3. j \in 1..(Len(F[h]) + 1)
  BY <1>2
<1>4. Chain(Cell(Along(F[h], dir), h, j), Steps(m, dir)) = SubSeq(Along(F[h], dir), j, Len(F[h]))
  BY <1>1, <1>3, AheadIs
<1> QED
  BY <1>2, <1>4 DEF Todo

(* d is the list s of head h, looked along.                                *)
Track(m, s, h, dir, d) ==
    /\ d \in Seq(Nodes) /\ Len(d) \in Nat /\ Len(d) = Len(s) /\ Distinct(d)
    /\ \A i \in 0..Len(d) : Neighbour(m, Cell(d, h, i), dir) = Cell(d, h, i + 1)
    /\ Cell(d, h, 0) = h /\ Cell(d, h, Len(d) + 1) = h
    /\ \A i \in 1..Len(d) : Cell(d, h, i) = d[i] /\ d[i] \in Nodes /\ d[i] # h
    /\ \A i \in Int : Cell(d, h, i) \in Cells
    /\ \A i \in 1..(Len(d) + 1) : Cell(d, h, i) # h => \E k \in 1..Len(s) : Cell(d, h, i) = s[k]
    /\ \A i \in 1..Len(d) : \E k \in 1..Len(s) : d[i] = s[k]
    /\ \A k \in 1..Len(s) : \E i \in 1..Len(d) : d[i] = s[k]

(* The facts about a list looked along.                                    *)
LEMMA AlongFacts ==
  ASSUME NEW m, NEW st, NEW F, Holds(m, st, F), NEW h \in Heads \ st, NEW dir \in Ways,
         NEW d, d = Along(F[h], dir)
  PROVE  Track(m, F[h], h, dir, d)
<1>1. F[h] \in Seq(Nodes) /\ Distinct(F[h]) /\ Ring(m, h, F[h]) /\ Len(F[h]) \in Nat
  BY ListsHeld
<1>2. d \in Seq(Nodes) /\ Len(d) = Len(F[h]) /\ Distinct(d)
  BY <1>1, AlongIs, AlongDistinct
<1>3. \A i \in 0..Len(d) : Neighbour(m, Cell(d, h, i), dir) = Cell(d, h, i + 1)
  BY <1>1, <1>2, RingAlong
<1>4. /\ Cell(d, h, 0) = h /\ Cell(d, h, Len(d) + 1) = h
      /\ \A i \in 1..Len(d) : Cell(d, h, i) = d[i] /\ d[i] \in Nodes /\ d[i] # h
      /\ \A i \in Int : Cell(d, h, i) \in Cells
  BY <1>2, CellIsCell
<1>5. /\ \A i \in 1..Len(d) : \E k \in 1..Len(F[h]) : d[i] = F[h][k]
      /\ \A k \in 1..Len(F[h]) : \E i \in 1..Len(d) : d[i] = F[h][k]
  <2>1. \A e : (\E k \in 1..Len(F[h]) : F[h][k] = e) <=> \E i \in 1..Len(F[h]) : Along(F[h], dir)[i] = e
    BY <1>1, AlongEntries
  <2> QED
    BY <1>2, <2>1
<1>6. ASSUME NEW i \in 1..(Len(d) + 1), Cell(d, h, i) # h PROVE \E k \in 1..Len(F[h]) : Cell(d, h, i) = F[h][k]
  <2>1. i \in 1..Len(d)
    BY <1>1, <1>2, <1>4, <1>6
  <2> QED
    BY <1>4, <1>5, <2>1
<1> QED
  BY <1>1, <1>2, <1>3, <1>4, <1>5, <1>6 DEF Track

(* Where the loop stands.                                                  *)
LEMMA WhereNext ==
  ASSUME ListInv, InLoop, NEW h, h = walk.of, NEW dir, dir = walk.dir, NEW d, d = Along(Lists[h], dir)
  PROVE  /\ h \in Heads \ stale /\ dir \in Ways /\ walk.pos \in Nodes
         /\ walk = [of |-> h, dir |-> dir, pos |-> walk.pos, n |-> walk.n]
         /\ \E j \in 1..(Len(d) + 1) : /\ walk.n = Cell(d, h, j)
                                       /\ Ahead(walk.n, dir) = Todo(Lists, h, dir, j)
         /\ \A i \in 1..Len(d) : walk.pos = d[i] => /\ walk.n = Cell(d, h, i + 1)
                                                    /\ Ahead(walk.n, dir) = Todo(Lists, h, dir, i + 1)
<1>1. Holds(mem, stale, Lists) /\ WalkInv
  BY DEF ListInv
<1>2. /\ walk \in [of : Heads, dir : Ways, pos : Nodes, n : Cells]
      /\ walk.of \notin stale
      /\ walk.n # walk.of => \E k \in 1..Len(Lists[walk.of]) : walk.n = Lists[walk.of][k]
      /\ \A k \in 1..Len(Lists[walk.of]) : walk.pos = Lists[walk.of][k] =>
                                            walk.n = Neighbour(mem, walk.pos, walk.dir)
  BY <1>1, Zenon DEF WalkInv
<1>3. h \in Heads \ stale /\ dir \in Ways /\ walk.pos \in Nodes
  BY <1>2
<1>4. walk = [of |-> h, dir |-> dir, pos |-> walk.pos, n |-> walk.n]
  BY <1>2
<1>5. /\ d \in Seq(Nodes) /\ Len(d) \in Nat /\ Len(d) = Len(Lists[h]) /\ Distinct(d)
      /\ \A i \in 0..Len(d) : Neighbour(mem, Cell(d, h, i), dir) = Cell(d, h, i + 1)
      /\ Cell(d, h, Len(d) + 1) = h
      /\ \A i \in 1..Len(d) : Cell(d, h, i) = d[i]
      /\ \A i \in 1..Len(d) : \E k \in 1..Len(Lists[h]) : d[i] = Lists[h][k]
      /\ \A k \in 1..Len(Lists[h]) : \E i \in 1..Len(d) : d[i] = Lists[h][k]
  <2>1. Track(mem, Lists[h], h, dir, d)
    BY <1>1, <1>3, AlongFacts
  <2> QED
    BY <2>1 DEF Track
<1>6. ASSUME NEW j \in 1..(Len(d) + 1), walk.n = Cell(d, h, j)
      PROVE  Ahead(walk.n, dir) = Todo(Lists, h, dir, j)
  <2>1. Ahead(walk.n, dir) = Chain(Cell(d, h, j), Steps(mem, dir))
    BY <1>6 DEF Ahead, Steps
  <2> QED
    BY <1>1, <1>3, <2>1, AheadIsTodo
<1>7. \E j \in 1..(Len(d) + 1) : walk.n = Cell(d, h, j)
  <2>1. CASE walk.n = h
    <3>1. Len(d) + 1 \in 1..(Len(d) + 1)
      BY <1>5
    <3> QED
      BY <1>5, <2>1, <3>1
  <2>2. CASE walk.n # h
    <3>1. PICK k \in 1..Len(Lists[h]) : walk.n = Lists[h][k]
      BY <1>2, <2>2
    <3>2. PICK i \in 1..Len(d) : d[i] = Lists[h][k]
      BY <1>5
    <3>3. i \in 1..(Len(d) + 1)
      BY <1>5
    <3> QED
      BY <1>5, <3>1, <3>2, <3>3
  <2> QED
    BY <2>1, <2>2
<1>8. ASSUME NEW i \in 1..Len(d), walk.pos = d[i] PROVE walk.n = Cell(d, h, i + 1)
  <2>1. walk.n = Neighbour(mem, walk.pos, dir)
    BY <1>2, <1>5, <1>8
  <2>2. i \in 0..Len(d)
    BY <1>5
  <2>3. Neighbour(mem, Cell(d, h, i), dir) = Cell(d, h, i + 1)
    BY <1>5, <2>2
  <2>4. Cell(d, h, i) = walk.pos
    BY <1>5, <1>8
  <2> QED
    BY <2>1, <2>3, <2>4
<1>9. \A i \in 1..Len(d) : i + 1 \in 1..(Len(d) + 1)
  BY <1>5
<1> QED
  BY <1>3, <1>4, <1>6, <1>7, <1>8, <1>9

(* A loop that goes to the j-th cell.                                      *)
LEMMA LoopGoes ==
  ASSUME ListInv, mem' = mem, stale' = stale, NEW h \in Heads, Usable(h), NEW dir \in Ways,
         NEW d, d = Along(Lists[h], dir), NEW j \in 1..(Len(d) + 1),
         walk' = Loop(h, dir, Cell(d, h, j), Neighbour(mem, Cell(d, h, j), dir))
  PROVE  /\ ListInv' /\ Lists' = Lists
         /\ j = Len(d) + 1 => AbsWalk' = Promised!NoWalk
         /\ j # Len(d) + 1 => AbsWalk' = [of |-> h, cur |-> d[j], todo |-> Todo(Lists, h, dir, j + 1), put |-> {}]
<1>1. Holds(mem, stale, Lists) /\ h \in Heads \ stale
  BY ListFacts DEF ListInv
<1>2. Lists' = Lists /\ Holds(mem', stale', Lists')
  BY <1>1, ListsAre
<1>3. /\ d \in Seq(Nodes) /\ Len(d) \in Nat /\ Len(d) = Len(Lists[h]) /\ Distinct(d)
      /\ \A i \in 0..Len(d) : Neighbour(mem, Cell(d, h, i), dir) = Cell(d, h, i + 1)
      /\ Cell(d, h, 0) = h /\ Cell(d, h, Len(d) + 1) = h
      /\ \A i \in 1..Len(d) : Cell(d, h, i) = d[i] /\ d[i] \in Nodes /\ d[i] # h
      /\ \A i \in Int : Cell(d, h, i) \in Cells
      /\ \A i \in 1..(Len(d) + 1) : Cell(d, h, i) # h => \E k \in 1..Len(Lists[h]) : Cell(d, h, i) = Lists[h][k]
  <2>1. Track(mem, Lists[h], h, dir, d)
    BY <1>1, AlongFacts
  <2> QED
    BY <2>1 DEF Track
<1>4. CASE j = Len(d) + 1
  <2>1. walk' = NoWalk /\ ~InLoop'
    BY <1>3, <1>4 DEF Loop, InLoop
  <2>2. WalkInv'
    BY <2>1 DEF WalkInv
  <2>3. AbsWalk' = Promised!NoWalk
    BY <2>1 DEF AbsWalk, Promised!NoWalk
  <2> QED
    BY <1>2, <1>4, <2>2, <2>3 DEF ListInv
<1>5. CASE j # Len(d) + 1
  <2>1. j \in 1..Len(d) /\ j \in 0..Len(d) /\ j + 1 \in 1..(Len(d) + 1) /\ j + 1 \in Int
    BY <1>3, <1>5
  <2> DEFINE n2 == Cell(d, h, j + 1)
  <2>2. walk' = [of |-> h, dir |-> dir, pos |-> d[j], n |-> n2]
    BY <1>3, <2>1 DEF Loop
  <2>3. n2 \in Cells /\ d[j] \in Nodes /\ Neighbour(mem, d[j], dir) = n2
        /\ (n2 # h => \E k \in 1..Len(Lists[h]) : n2 = Lists[h][k])
    BY <1>3, <2>1
  <2>4. Chain(n2, Steps(mem, dir)) = Todo(Lists, h, dir, j + 1)
    BY <1>1, <2>1, AheadIsTodo
  <2> HIDE DEF n2
  <2>5. walk'.of = h /\ walk'.dir = dir /\ walk'.pos = d[j] /\ walk'.n = n2
    BY <2>2
  <2>6. h # None
    BY CellsAssumption
  <2>7. InLoop'
    BY <2>5, <2>6 DEF InLoop, NoWalk
  <2>8. WalkInv'
    <3>1. walk' \in [of : Heads, dir : Ways, pos : Nodes, n : Cells]
      BY <2>2, <2>3
    <3>2. walk'.of \notin stale'
      BY <1>1, <2>5
    <3>3. walk'.n # walk'.of => \E k \in 1..Len(Lists'[walk'.of]) : walk'.n = Lists'[walk'.of][k]
      BY <1>2, <2>3, <2>5
    <3>4. walk'.n = Neighbour(mem', walk'.pos, walk'.dir)
      BY <2>3, <2>5
    <3>5. \A k \in 1..Len(Lists'[walk'.of]) : walk'.pos = Lists'[walk'.of][k] =>
                                            walk'.n = Neighbour(mem', walk'.pos, walk'.dir)
      BY <3>4
    <3>6. Neighbour(mem, walk.pos, walk.dir)' = Neighbour(mem', walk'.pos, walk'.dir)
      BY DEF Neighbour
    <3> QED
      BY <3>1, <3>2, <3>3, <3>5, <3>6 DEF WalkInv
  <2>9. Ahead(walk.n, walk.dir)' = Todo(Lists, h, dir, j + 1)
    <3>1. Ahead(walk.n, walk.dir)' = Chain(walk'.n, Steps(mem', walk'.dir))
      BY DEF Ahead, Steps, Neighbour
    <3> QED
      BY <2>4, <2>5, <3>1
  <2>10. AbsWalk' = [of |-> h, cur |-> d[j], todo |-> Todo(Lists, h, dir, j + 1), put |-> {}]
    BY <2>5, <2>7, <2>9 DEF AbsWalk
  <2> QED
    BY <1>2, <1>5, <2>8, <2>10 DEF ListInv
<1> QED
  BY <1>4, <1>5

(* What has been taken out is not left.                                    *)
LEMMA DeletedGone ==
  ASSUME NEW s \in Seq(Nodes), Distinct(s), NEW k \in 1..Len(s), NEW t, Deleted(s, t, k)
  PROVE  \A i \in 1..Len(t) : t[i] # s[k]
<1>1. ASSUME NEW i \in 1..Len(t) PROVE t[i] # s[k]
  <2>1. Len(s) \in Nat /\ Len(t) = Len(s) - 1 /\ t[i] = IF i < k THEN s[i] ELSE s[i + 1]
    BY LenProperties DEF Deleted
  <2>2. i \in 1..Len(s) /\ i + 1 \in 1..Len(s)
    BY <2>1
  <2> QED
    BY <2>1, <2>2 DEF Distinct
<1> QED
  BY <1>1

(* A loop whose node is unlinked goes on where it would have gone.          *)
LEMMA LoopKept ==
  ASSUME ListInv, InLoop, walk' = walk, stale' = stale,
         NEW k \in 1..Len(Lists[walk.of]), walk.pos = Lists[walk.of][k],
         NEW t, Deleted(Lists[walk.of], t, k),
         NEW F, Holds(mem', stale', F), F[walk.of] = t
  PROVE  ListInv' /\ Lists' = F /\ AbsWalk' = AbsWalk
<1> DEFINE h == walk.of
           dir == walk.dir
           s == Lists[h]
           d == Along(s, dir)
           b == Along(t, dir)
<1>1. Lists' = F /\ Holds(mem', stale', Lists') /\ Holds(mem, stale, Lists)
  BY ListsAre DEF ListInv
<1>2. /\ h \in Heads \ stale /\ dir \in Ways
      /\ \A i \in 1..Len(d) : walk.pos = d[i] => /\ walk.n = Cell(d, h, i + 1)
                                                 /\ Ahead(walk.n, dir) = Todo(Lists, h, dir, i + 1)
  BY WhereNext
<1>3. s \in Seq(Nodes) /\ Distinct(s)
  BY <1>1, <1>2, ListsHeld
<1>4. Track(mem, s, h, dir, d) /\ Track(mem', t, h, dir, b)
  BY <1>1, <1>2, AlongFacts
<1>5. PICK i \in 1..Len(d) : d[i] = s[k]
  BY <1>4 DEF Track
<1>6. walk.n = Cell(d, h, i + 1) /\ Ahead(walk.n, dir) = Todo(Lists, h, dir, i + 1)
  BY <1>2, <1>5
<1>7. d \in Seq(Nodes) /\ Len(d) = Len(s)
  BY <1>4 DEF Track
<1>8. Deleted(d, b, i)
  <2>1. i \in 1..Len(s)
    BY <1>7
  <2> QED
    BY <1>2, <1>3, <1>5, <2>1, AlongDeleted
<1>9. /\ i \in 1..(Len(b) + 1)
      /\ Cell(b, h, i) = Cell(d, h, i + 1)
      /\ SubSeq(b, i, Len(b)) = SubSeq(d, i + 1, Len(d))
  <2> HIDE DEF b, d, h, dir, s
  <2> QED
    BY <1>7, <1>8, RestStays, SMTT(30)
<1>10. Ahead(walk.n, walk.dir)' = Ahead(walk.n, dir)
  <2>1. Ahead(walk.n, walk.dir)' = Chain(Cell(b, h, i), Steps(mem', dir))
    BY <1>6, <1>9 DEF Ahead, Steps, Neighbour
  <2>2. Chain(Cell(b, h, i), Steps(mem', dir)) = Todo(F, h, dir, i)
    <3>1. b = Along(F[h], dir)
      OBVIOUS
    <3>2. i \in 1..(Len(Along(F[h], dir)) + 1)
      BY <1>9
    <3> QED
      BY <1>1, <1>2, <3>1, <3>2, AheadIsTodo
  <2>3. Todo(F, h, dir, i) = SubSeq(b, i, Len(b)) /\ Todo(Lists, h, dir, i + 1) = SubSeq(d, i + 1, Len(d))
    BY DEF Todo
  <2> QED
    BY <1>6, <1>9, <2>1, <2>2, <2>3
<1>11. InLoop' /\ AbsWalk' = AbsWalk
  BY <1>10 DEF InLoop, AbsWalk
<1>12. WalkInv'
  <2>1. /\ walk \in [of : Heads, dir : Ways, pos : Nodes, n : Cells]
        /\ h \notin stale
    BY DEF ListInv, WalkInv
  <2>2. walk.n # h => \E l \in 1..Len(t) : walk.n = t[l]
    BY <1>4, <1>6, <1>9 DEF Track
  <2>3. \A l \in 1..Len(t) : walk.pos # t[l]
    BY <1>3, DeletedGone
  <2>4. Lists'[h] = t
    BY <1>1
  <2> HIDE DEF h, s, d, b, dir
  <2>5. /\ walk' \in [of : Heads, dir : Ways, pos : Nodes, n : Cells]
        /\ walk'.of \notin stale'
        /\ walk'.n # walk'.of => \E l \in 1..Len(Lists'[walk'.of]) : walk'.n = Lists'[walk'.of][l]
        /\ \A l \in 1..Len(Lists'[walk'.of]) : walk'.pos # Lists'[walk'.of][l]
    BY <2>1, <2>2, <2>3, <2>4 DEF h
  <2> QED
    BY <2>5 DEF WalkInv
<1> QED
  BY <1>1, <1>11, <1>12 DEF ListInv

(* list_for_each and its relatives set out, and go on.                     *)
LEMMA BeginKeeps ==
  ASSUME ListInv, NEW h \in Heads, Usable(h), NEW dir \in {"next", "prev"}, NEW self \in BOOLEAN,
         NEW e, e \in Range(Content(h)) \/ (e = h /\ self = FALSE), Begin(h, e, dir, self)
  PROVE  ListInv' /\ Promised!AbsNext
<1> DEFINE d == Along(Lists[h], dir)
<1>1. Holds(mem, stale, Lists) /\ h \in Heads \ stale /\ dir \in Ways
  BY ListFacts DEF ListInv, Ways
<1>2. /\ Lists[h] \in Seq(Nodes) /\ Distinct(Lists[h]) /\ Lists[h] = Content(h) /\ Lists[h] # None
      /\ Promised!On(h) = Range(Lists[h]) /\ Range(Lists[h]) \subseteq Nodes
  <2>1. Lists[h] \in Seq(Nodes) /\ Distinct(Lists[h]) /\ Lists[h] = Content(h) /\ Lists[h] # None
    BY ListFacts
  <2>2. Range(Lists[h]) \subseteq Nodes
    BY <2>1, InRange, ElementOfSeq
  <2> QED
    BY <2>1, <2>2, SameOperators DEF Promised!On, Promised!Ready
<1>3. Track(mem, Lists[h], h, dir, d)
  BY <1>1, AlongFacts
<1>4. /\ d \in Seq(Nodes) /\ Len(d) \in Nat /\ Distinct(d)
      /\ \A i \in 0..Len(d) : Neighbour(mem, Cell(d, h, i), dir) = Cell(d, h, i + 1)
      /\ Cell(d, h, 0) = h
      /\ \A i \in 1..Len(d) : Cell(d, h, i) = d[i] /\ d[i] # h
      /\ \A k \in 1..Len(Lists[h]) : \E i \in 1..Len(d) : d[i] = Lists[h][k]
  BY <1>3 DEF Track
<1>5. d = IF dir = "next" THEN Lists[h] ELSE Promised!Reverse(Lists[h])
  BY SameOperators, Zenon DEF Along
<1> HIDE DEF d
<1> DEFINE i == IF e = h THEN 0 ELSE Promised!Place(d, e)
           j == IF self THEN i ELSE i + 1
<1>6. i \in 0..Len(d) /\ Cell(d, h, i) = e /\ (e # h <=> i # 0)
  <2>1. CASE e = h
    BY <1>4, <2>1
  <2>2. CASE e # h
    <3>1. PICK k \in 1..Len(Lists[h]) : Lists[h][k] = e
      BY <1>2, <2>2, InRange
    <3>2. PICK l \in 1..Len(d) : d[l] = e
      BY <1>4, <3>1
    <3>3. Promised!Place(d, e) = l
      BY <1>4, <3>2, PlaceIs
    <3> QED
      BY <1>4, <2>2, <3>2, <3>3
  <2> QED
    BY <2>1, <2>2
<1>7. e # h \/ ~self
  <2>1. ASSUME self, e = h PROVE FALSE
    BY <1>2, <2>1, CellsAssumption
  <2> QED
    BY <2>1
<1>8. /\ j \in 1..(Len(d) + 1)
      /\ (IF self THEN e ELSE Neighbour(mem, e, dir)) = Cell(d, h, j)
  <2> HIDE DEF i
  <2>1. i \in 0..Len(d) /\ Len(d) \in Nat
    BY <1>4, <1>6
  <2>2. j \in 1..(Len(d) + 1)
    BY <1>6, <1>7, <2>1
  <2>3. Neighbour(mem, Cell(d, h, i), dir) = Cell(d, h, i + 1)
    BY <1>4, <2>1
  <2> QED
    BY <1>6, <2>2, <2>3
<1>9. walk' = Loop(h, dir, Cell(d, h, j), Neighbour(mem, Cell(d, h, j), dir))
      /\ walk = NoWalk /\ call' = <<"begin", h, e, dir, self>> /\ mem' = mem /\ stale' = stale
  <2> HIDE DEF j
  <2> QED
    BY <1>8 DEF Begin
<1>10. d = Along(Lists[h], dir)
  BY DEF d
<1>11. /\ ListInv' /\ Lists' = Lists
       /\ j = Len(d) + 1 => AbsWalk' = Promised!NoWalk
       /\ j # Len(d) + 1 => AbsWalk' = [of |-> h, cur |-> d[j], todo |-> Todo(Lists, h, dir, j + 1), put |-> {}]
  <2> HIDE DEF j
  <2> QED
    BY <1>1, <1>8, <1>9, <1>10, LoopGoes
<1> DEFINE todo == SubSeq(d, j, Len(d))
<1>12. /\ todo = <<>> <=> j = Len(d) + 1
       /\ j # Len(d) + 1 => Head(todo) = d[j] /\ Tail(todo) = SubSeq(d, j + 1, Len(d))
  <2> HIDE DEF j
  <2> QED
    BY <1>4, <1>8, RestIs
<1>13. Todo(Lists, h, dir, j + 1) = SubSeq(d, j + 1, Len(d))
  BY <1>10 DEF Todo
<1>14. IF todo = <<>> THEN AbsWalk' = Promised!NoWalk
       ELSE AbsWalk' = [of |-> h, cur |-> Head(todo), todo |-> Tail(todo), put |-> {}]
  <2> HIDE DEF todo, j
  <2> QED
    BY <1>11, <1>12, <1>13
<1>15. AbsWalk = Promised!NoWalk
  BY <1>9 DEF AbsWalk, InLoop, Promised!NoWalk
<1>16. LET ss == IF dir = "next" THEN Lists[h] ELSE Promised!Reverse(Lists[h])
           ii == IF e = h THEN 0 ELSE Promised!Place(ss, e)
           tt == SubSeq(ss, IF self THEN ii ELSE ii + 1, Len(ss))
       IN  IF tt = <<>> THEN AbsWalk' = Promised!NoWalk
           ELSE AbsWalk' = [of |-> h, cur |-> Head(tt), todo |-> Tail(tt), put |-> {}]
  BY <1>5, <1>14, Zenon
<1>17. e \in Promised!On(h) \/ (e = h /\ ~self)
  BY <1>2
<1>18. Promised!Begin(h, e, dir, self)
  <2>1. Promised!Call(<<"begin", h, e, dir, self>>)
    BY <1>9 DEF Promised!Call
  <2> HIDE DEF todo, j, i
  <2> QED
    BY <1>2, <1>11, <1>15, <1>16, <1>17, <2>1, Zenon DEF Promised!Begin, Promised!Ready
<1>19. e \in Heads \cup Nodes
  BY <1>2
<1> QED
  BY <1>11, <1>18, <1>19, AbsSteps

(* One step of a walk, and one node less before it.                        *)
Walked(w, x, y, z) == [w EXCEPT !.cur = x, !.todo = y, !.put = z]
Shorter(w, y) == [w EXCEPT !.todo = y]

(* The record of a walk that goes on,                                      *)
LEMMA WalkRecord ==
  ASSUME NEW a, NEW p, NEW q, NEW t, NEW w, w = [of |-> a, cur |-> p, put |-> q, todo |-> t],
         NEW x, NEW y, NEW z
  PROVE  Walked(w, x, y, z) = [of |-> a, cur |-> x, put |-> z, todo |-> y]
<1>1. w = [f \in {"of", "cur", "put", "todo"} |->
             IF f = "of" THEN a ELSE IF f = "cur" THEN p ELSE IF f = "put" THEN q ELSE t]
  OBVIOUS
<1>2. [w EXCEPT !.cur = x, !.todo = y, !.put = z]
      = [f \in {"of", "cur", "put", "todo"} |->
           IF f = "of" THEN a ELSE IF f = "cur" THEN x ELSE IF f = "put" THEN z ELSE y]
  BY <1>1
<1> QED
  BY <1>2 DEF Walked

(* and that of one with less ahead.                                        *)
LEMMA WalkShorter ==
  ASSUME NEW a, NEW p, NEW q, NEW t, NEW w, w = [of |-> a, cur |-> p, put |-> q, todo |-> t], NEW y
  PROVE  Shorter(w, y) = [of |-> a, cur |-> p, put |-> q, todo |-> y]
<1>1. w = [f \in {"of", "cur", "put", "todo"} |->
             IF f = "of" THEN a ELSE IF f = "cur" THEN p ELSE IF f = "put" THEN q ELSE t]
  OBVIOUS
<1>2. [w EXCEPT !.todo = y]
      = [f \in {"of", "cur", "put", "todo"} |->
           IF f = "of" THEN a ELSE IF f = "cur" THEN p ELSE IF f = "put" THEN q ELSE y]
  BY <1>1
<1> QED
  BY <1>2 DEF Shorter

(* The loop goes on to the next cell, or ends.                             *)
LEMMA AdvanceKeeps ==
  ASSUME ListInv, Advance
  PROVE  ListInv' /\ Promised!AbsNext
<1> DEFINE h == walk.of
           dir == walk.dir
           d == Along(Lists[h], dir)
<1>1. InLoop /\ mem' = mem /\ stale' = stale /\ call' = <<"advance">>
      /\ walk' = Loop(h, dir, walk.n, Neighbour(mem, walk.n, dir))
  BY DEF Advance
<1>2. /\ h \in Heads \ stale /\ dir \in Ways
      /\ walk = [of |-> h, dir |-> dir, pos |-> walk.pos, n |-> walk.n]
      /\ \E j \in 1..(Len(d) + 1) : /\ walk.n = Cell(d, h, j)
                                    /\ Ahead(walk.n, dir) = Todo(Lists, h, dir, j)
  BY <1>1, WhereNext
<1>3. PICK j \in 1..(Len(d) + 1) : walk.n = Cell(d, h, j) /\ Ahead(walk.n, dir) = Todo(Lists, h, dir, j)
  BY <1>2
<1>4. /\ ListInv' /\ Lists' = Lists
      /\ j = Len(d) + 1 => AbsWalk' = Promised!NoWalk
      /\ j # Len(d) + 1 => AbsWalk' = [of |-> h, cur |-> d[j], todo |-> Todo(Lists, h, dir, j + 1), put |-> {}]
  <2>1. Usable(h) /\ h \in Heads
    BY <1>2 DEF Usable
  <2>2. d = Along(Lists[h], dir)
    OBVIOUS
  <2>3. walk' = Loop(h, dir, Cell(d, h, j), Neighbour(mem, Cell(d, h, j), dir))
    BY <1>1, <1>3
  <2> HIDE DEF d, h, dir
  <2> QED
    BY <1>1, <1>2, <2>1, <2>2, <2>3, LoopGoes
<1>5. d \in Seq(Nodes)
  <2>1. Track(mem, Lists[h], h, dir, d)
    BY <1>2, AlongFacts DEF ListInv
  <2> QED
    BY <2>1 DEF Track
<1> DEFINE todo == SubSeq(d, j, Len(d))
<1>6. /\ todo = <<>> <=> j = Len(d) + 1
      /\ j # Len(d) + 1 => Head(todo) = d[j] /\ Tail(todo) = SubSeq(d, j + 1, Len(d))
  <2> HIDE DEF d
  <2> QED
    BY <1>5, RestIs
<1>7. Todo(Lists, h, dir, j + 1) = SubSeq(d, j + 1, Len(d)) /\ Todo(Lists, h, dir, j) = todo
  BY DEF Todo
<1>8. AbsWalk = [of |-> h, cur |-> walk.pos, put |-> {}, todo |-> todo]
  BY <1>1, <1>3, <1>7 DEF AbsWalk
<1>9. AbsWalk # Promised!NoWalk
  <2>1. h # None
    BY <1>2, CellsAssumption
  <2> HIDE DEF todo
  <2>2. AbsWalk.of # Promised!NoWalk.of
    BY <1>8, <2>1 DEF Promised!NoWalk
  <2> QED
    BY <2>2
<1>10. IF todo = <<>> THEN AbsWalk' = Promised!NoWalk
       ELSE AbsWalk' = [AbsWalk EXCEPT !.cur = Head(todo), !.todo = Tail(@),
                                       !.put = IF "now" \in @ THEN {"before"} ELSE {}]
  <2> HIDE DEF todo, d
  <2>1. [AbsWalk EXCEPT !.cur = Head(todo), !.todo = Tail(@), !.put = IF "now" \in @ THEN {"before"} ELSE {}]
        = [of |-> h, cur |-> Head(todo), put |-> {}, todo |-> Tail(todo)]
    <3> DEFINE x == Head(todo)
               y == Tail(todo)
               z == IF "now" \in AbsWalk.put THEN {"before"} ELSE {}
    <3>1. AbsWalk.todo = todo /\ z = {}
      BY <1>8
    <3> HIDE DEF h, x, y, z
    <3>2. Walked(AbsWalk, x, y, z) = [of |-> h, cur |-> x, put |-> z, todo |-> y]
      BY <1>8, WalkRecord
    <3> QED
      BY <3>1, <3>2, Zenon DEF x, y, z, Walked
  <2>2. CASE todo = <<>>
    BY <1>4, <1>6, <2>2
  <2>3. CASE todo # <<>>
    <3>1. AbsWalk' = [of |-> h, cur |-> Head(todo), todo |-> Tail(todo), put |-> {}]
      BY <1>4, <1>6, <1>7, <2>3
    <3> QED
      BY <2>1, <2>3, <3>1
  <2> QED
    BY <2>2, <2>3
<1>11. Promised!Advance
  <2> HIDE DEF todo
  <2>1. AbsWalk.todo = todo
    BY <1>8
  <2>2. Promised!Call(<<"advance">>)
    BY <1>1 DEF Promised!Call
  <2> QED
    BY <1>4, <1>9, <1>10, <2>1, <2>2 DEF Promised!Advance
<1> QED
  BY <1>4, <1>11 DEF Promised!AbsNext

(* The node of the loop, while it is in its list.                          *)
LEMMA PosIs ==
  ASSUME ListInv, InLoop, PosListed, NEW h, h = walk.of
  PROVE  /\ Holds(mem, stale, Lists) /\ h \in Heads \ stale /\ walk.pos \in Nodes
         /\ Lists[h] \in Seq(Nodes) /\ Distinct(Lists[h]) /\ Lists[h] # None
         /\ \E k \in 1..Len(Lists[h]) : walk.pos = Lists[h][k]
         /\ AbsWalk # Promised!NoWalk /\ AbsWalk.of = h /\ AbsWalk.cur = walk.pos
<1>1. h \in Heads \ stale /\ walk.pos \in Nodes
  BY WhereNext
<1>2. Usable(h) /\ h \in Heads
  BY <1>1 DEF Usable
<1>3. Lists[h] \in Seq(Nodes) /\ Distinct(Lists[h]) /\ Lists[h] = Content(h) /\ Lists[h] # None
  BY <1>2, ListFacts
<1>4. \E k \in 1..Len(Lists[h]) : walk.pos = Lists[h][k]
  BY <1>3, InRange DEF PosListed
<1>5. AbsWalk.of = h /\ AbsWalk.cur = walk.pos
  BY DEF AbsWalk
<1>6. AbsWalk # Promised!NoWalk
  <2>1. h # None
    BY <1>1, CellsAssumption
  <2>2. Promised!NoWalk.of = None
    BY DEF Promised!NoWalk
  <2> QED
    BY <1>5, <2>1, <2>2
<1> QED
  BY <1>1, <1>3, <1>4, <1>5, <1>6 DEF ListInv

(* list_del of the current node in a safe loop: what is ahead stays.       *)
LEMMA DeleteCurrentKeeps ==
  ASSUME ListInv, DeleteCurrent
  PROVE  ListInv' /\ Promised!AbsNext
<1> DEFINE h == walk.of
           s == Lists[h]
<1>1. InLoop /\ PosListed /\ walk' = walk /\ stale' = stale /\ call' = <<"remove_current">>
      /\ (mem' = ListDel(mem, walk.pos) \/ mem' = ListDelInit(mem, walk.pos))
  BY DEF DeleteCurrent, Do
<1>2. /\ Holds(mem, stale, Lists) /\ h \in Heads \ stale /\ walk.pos \in Nodes
      /\ s \in Seq(Nodes) /\ Distinct(s)
      /\ \E k \in 1..Len(s) : walk.pos = s[k]
      /\ AbsWalk # Promised!NoWalk /\ AbsWalk.of = h /\ AbsWalk.cur = walk.pos
  BY <1>1, PosIs
<1>3. PICK k \in 1..Len(s) : walk.pos = s[k]
  BY <1>2
<1> DEFINE t == RemoveAt(s, k)
           F == [Lists EXCEPT ![h] = t]
<1>4. Holds(mem', stale', F)
  BY <1>1, <1>2, <1>3, HoldsUnlink
<1>5. Deleted(s, t, k)
  BY <1>2, RemoveAtDeletes
<1>6. F[h] = t
  BY <1>2 DEF Holds
<1>7. ListInv' /\ Lists' = F /\ AbsWalk' = AbsWalk
  <2> HIDE DEF F, t
  <2> QED
    BY <1>1, <1>3, <1>4, <1>5, <1>6, LoopKept
<1>8. Promised!Without(s, walk.pos) = t
  BY <1>2, <1>3, WithoutIs
<1>9. Promised!RemoveCurrent
  <2> HIDE DEF t
  <2>1. Promised!Call(<<"remove_current">>)
    BY <1>1 DEF Promised!Call
  <2> QED
    BY <1>2, <1>7, <1>8, <2>1 DEF Promised!RemoveCurrent
<1> QED
  BY <1>7, <1>9 DEF Promised!AbsNext

(* list_move_tail of the current node, to another list, in a safe loop.    *)
LEMMA MoveCurrentKeeps ==
  ASSUME ListInv, NEW g \in Heads, Usable(g), MoveCurrent(g)
  PROVE  ListInv' /\ Promised!AbsNext
<1> DEFINE h == walk.of
           s == Lists[h]
           n == walk.pos
<1>1. InLoop /\ PosListed /\ walk' = walk /\ stale' = stale /\ call' = <<"move_current", g>>
      /\ g # h /\ mem' = ListMoveTail(mem, n, g)
  BY DEF MoveCurrent, Do
<1>2. /\ Holds(mem, stale, Lists) /\ h \in Heads \ stale /\ n \in Nodes
      /\ s \in Seq(Nodes) /\ Distinct(s)
      /\ \E k \in 1..Len(s) : n = s[k]
      /\ AbsWalk # Promised!NoWalk /\ AbsWalk.of = h /\ AbsWalk.cur = n
  BY <1>1, PosIs
<1>3. PICK k \in 1..Len(s) : n = s[k]
  BY <1>2
<1>4. g \in Heads \ stale /\ Lists[g] # None /\ Lists \in [Heads -> Seq(Nodes) \cup {None}]
  BY <1>2, ListFacts DEF Holds
<1> DEFINE t == RemoveAt(s, k)
           G == [Lists EXCEPT ![h] = t]
           F == [G EXCEPT ![g] = Append(G[g], n)]
<1>5. Deleted(s, t, k)
  BY <1>2, RemoveAtDeletes
<1>6. Holds(mem', stale', F)
  <2>3. Holds(ListDelEntry(mem, s[k]), stale, G) /\ Away(stale, G, s[k])
    <3> HIDE DEF t
    <3> QED
      BY <1>2, <1>5, HoldsDel
  <2>1. Holds(ListDelEntry(mem, n), stale, G) /\ Away(stale, G, n)
    BY <1>3, <2>3
  <2> HIDE DEF G, n
  <2>2. Holds(ListAddTail(ListDelEntry(mem, n), n, g), stale, F)
    BY <1>2, <1>4, <2>1, HoldsInsert
  <2> QED
    BY <1>1, <2>2 DEF ListMoveTail
<1>7. F[h] = t
  BY <1>1, <1>2, <1>4
<1>8. ListInv' /\ Lists' = F /\ AbsWalk' = AbsWalk
  <2> HIDE DEF F, t
  <2> QED
    BY <1>1, <1>3, <1>5, <1>6, <1>7, LoopKept
<1>9. Promised!Without(s, n) = t
  BY <1>2, <1>3, WithoutIs
<1>10. F = [Lists EXCEPT ![h] = Promised!Without(@, n), ![g] = Append(@, n)]
  <2> HIDE DEF t, n
  <2>1. F = [Lists EXCEPT ![h] = t, ![g] = Append(Lists[g], n)]
    BY <1>1, <1>2, <1>4
  <2> QED
    BY <1>1, <1>2, <1>4, <1>9, <2>1
<1>11. Promised!MoveCurrent(g)
  <2>1. Promised!Call(<<"move_current", g>>)
    BY <1>1 DEF Promised!Call
  <2> HIDE DEF F
  <2> QED
    BY <1>2, <1>4, <1>8, <1>10, <2>1 DEF Promised!MoveCurrent, Promised!Ready
<1> QED
  BY <1>8, <1>11 DEF Promised!AbsNext

(* list_del of the node that a safe loop has saved, with                   *)
(* list_safe_reset_next, which takes the one after it.                     *)
LEMMA DeleteNextKeeps ==
  ASSUME ListInv, DeleteNextAndReset
  PROVE  ListInv' /\ Promised!AbsNext
<1> DEFINE h == walk.of
           dir == walk.dir
           s == Lists[h]
           d == Along(s, dir)
<1>1. InLoop /\ PosListed /\ walk.n \in Nodes /\ stale' = stale /\ call' = <<"remove_next">>
      /\ mem' = ListDel(mem, walk.n) /\ walk' = [walk EXCEPT !.n = Neighbour(mem', walk.pos, dir)]
  BY DEF DeleteNextAndReset, Do
<1>2. /\ Holds(mem, stale, Lists) /\ h \in Heads \ stale /\ walk.pos \in Nodes
      /\ s \in Seq(Nodes) /\ Distinct(s)
      /\ \E k \in 1..Len(s) : walk.pos = s[k]
      /\ AbsWalk # Promised!NoWalk /\ AbsWalk.of = h /\ AbsWalk.cur = walk.pos
  BY <1>1, PosIs
<1>3. /\ dir \in Ways /\ walk = [of |-> h, dir |-> dir, pos |-> walk.pos, n |-> walk.n]
      /\ \A i \in 1..Len(d) : walk.pos = d[i] => /\ walk.n = Cell(d, h, i + 1)
                                                 /\ Ahead(walk.n, dir) = Todo(Lists, h, dir, i + 1)
  BY <1>1, WhereNext
<1>4. Track(mem, s, h, dir, d)
  BY <1>2, <1>3, AlongFacts
<1>5. PICK i \in 1..Len(d) : walk.pos = d[i]
  <2>1. \A k \in 1..Len(s) : \E i \in 1..Len(d) : d[i] = s[k]
    BY <1>4 DEF Track
  <2> QED
    BY <1>2, <2>1
<1>6. walk.n = Cell(d, h, i + 1) /\ Ahead(walk.n, dir) = Todo(Lists, h, dir, i + 1)
  BY <1>3, <1>5
<1> DEFINE j == i + 1
<1>7. /\ j \in 1..Len(d) /\ walk.n = d[j] /\ Len(d) \in Nat /\ d \in Seq(Nodes) /\ Len(d) = Len(s)
      /\ j # Len(d) + 1 /\ j \in 1..(Len(d) + 1)
  <2>1. /\ d \in Seq(Nodes) /\ Len(d) \in Nat /\ Cell(d, h, Len(d) + 1) = h
        /\ \A l \in 1..Len(d) : Cell(d, h, l) = d[l] /\ Len(d) = Len(s)
    BY <1>4 DEF Track
  <2>2. h \notin Nodes
    BY <1>2, CellsAssumption
  <2>3. j # Len(d) + 1
    BY <1>1, <1>6, <2>1, <2>2
  <2>4. j \in 1..Len(d)
    BY <2>1, <2>3
  <2> QED
    BY <1>6, <2>1, <2>3, <2>4
<1>8. PICK k \in 1..Len(s) : d[j] = s[k]
  BY <1>4, <1>7 DEF Track
<1> DEFINE t == RemoveAt(s, k)
           F == [Lists EXCEPT ![h] = t]
           b == Along(t, dir)
<1>9. Holds(mem', stale', F)
  <2> HIDE DEF j, d
  <2> QED
    BY <1>1, <1>2, <1>7, <1>8, HoldsUnlink
<1>10. Deleted(s, t, k)
  BY <1>2, RemoveAtDeletes
<1>11. F[h] = t
  BY <1>2 DEF Holds
<1>12. Deleted(d, b, j)
  <2> HIDE DEF j, t
  <2> QED
    BY <1>2, <1>3, <1>7, <1>8, <1>10, AlongDeleted
<1>13. /\ b \in Seq(Nodes) /\ j \in 1..(Len(b) + 1) /\ Len(b) = Len(d) - 1
       /\ SubSeq(b, j, Len(b)) = SubSeq(d, j + 1, Len(d))
       /\ \A l \in 1..(j - 1) : l \in 1..Len(b) /\ b[l] = d[l]
  <2> HIDE DEF j, d, b
  <2> QED
    BY <1>7, <1>12, RestStays
<1>14. i \in 1..(j - 1) /\ b[i] = walk.pos /\ i \in 1..Len(b)
  <2>1. i \in 1..(j - 1)
    BY <1>7
  <2> QED
    BY <1>5, <1>13, <2>1
<1>26. h \in Heads \ stale' /\ b = Along(F[h], dir)
  BY <1>1, <1>2, <1>11
<1>15. Track(mem', t, h, dir, b)
  <2> HIDE DEF F, t, b, h, dir
  <2> QED
    BY <1>3, <1>9, <1>11, <1>26, AlongFacts
<1>16. Neighbour(mem', walk.pos, dir) = Cell(b, h, j)
  <2>1. i \in 0..Len(b)
    BY <1>14
  <2>2. Neighbour(mem', Cell(b, h, i), dir) = Cell(b, h, i + 1) /\ Cell(b, h, i) = b[i]
    BY <1>14, <1>15, <2>1 DEF Track
  <2> QED
    BY <1>14, <2>2
<1> HIDE DEF j
<1>17. walk' = [of |-> h, dir |-> dir, pos |-> walk.pos, n |-> Cell(b, h, j)]
  <2> HIDE DEF b
  <2> DEFINE c == Cell(b, h, j)
             p == walk.pos
  <2>1. walk' = [walk EXCEPT !.n = c] /\ walk = [of |-> h, dir |-> dir, pos |-> p, n |-> walk.n]
    BY <1>1, <1>3, <1>16
  <2> HIDE DEF c, h, dir, p
  <2>2. walk' = [of |-> h, dir |-> dir, pos |-> p, n |-> c]
    BY <2>1
  <2> QED
    BY <2>2 DEF c, p
<1>18. walk'.of = h /\ walk'.dir = dir /\ walk'.pos = walk.pos /\ walk'.n = Cell(b, h, j)
  BY <1>17
<1>19. Ahead(walk.n, walk.dir)' = Tail(SubSeq(d, j, Len(d)))
  <2>1. Ahead(walk.n, walk.dir)' = Chain(Cell(b, h, j), Steps(mem', dir))
    BY <1>18 DEF Ahead, Steps, Neighbour
  <2>2. Chain(Cell(b, h, j), Steps(mem', dir)) = Todo(F, h, dir, j)
    <3> HIDE DEF F, t, b, h, dir
    <3>1. j \in 1..(Len(Along(F[h], dir)) + 1)
      BY <1>13, <1>26
    <3> QED
      BY <1>3, <1>9, <1>26, <3>1, AheadIsTodo
  <2>3. Todo(F, h, dir, j) = SubSeq(b, j, Len(b))
    BY <1>11 DEF Todo
  <2>4. Tail(SubSeq(d, j, Len(d))) = SubSeq(d, j + 1, Len(d))
    BY <1>7, RestIs
  <2> QED
    BY <1>13, <2>1, <2>2, <2>3, <2>4
<1>20. Lists' = F
  BY <1>9, ListsAre
<1>21. ListInv'
  <2>1. Lists'[walk'.of] = t
    BY <1>11, <1>18, <1>20
  <2>2. /\ Cell(b, h, j) \in Cells
        /\ Cell(b, h, j) # h => \E l \in 1..Len(t) : Cell(b, h, j) = t[l]
    BY <1>13, <1>15 DEF Track
  <2> HIDE DEF b, t
  <2>3. walk' \in [of : Heads, dir : Ways, pos : Nodes, n : Cells]
    BY <1>2, <1>3, <1>17, <2>2
  <2>4. walk'.of \notin stale'
    BY <1>1, <1>2, <1>18
  <2>5. walk'.n # walk'.of => \E l \in 1..Len(Lists'[walk'.of]) : walk'.n = Lists'[walk'.of][l]
    BY <1>18, <2>1, <2>2
  <2>6. walk'.n = Neighbour(mem, walk.pos, walk.dir)'
    BY <1>16, <1>18 DEF Neighbour
  <2>7. WalkInv'
    BY <2>3, <2>4, <2>5, <2>6 DEF WalkInv
  <2> QED
    BY <1>9, <1>20, <2>7 DEF ListInv
<1> DEFINE todo == SubSeq(d, j, Len(d))
<1>22. AbsWalk = [of |-> h, cur |-> walk.pos, put |-> {}, todo |-> todo]
       /\ AbsWalk' = [of |-> h, cur |-> walk.pos, put |-> {}, todo |-> Tail(todo)]
  <2>1. Ahead(walk.n, dir) = todo
    BY <1>6 DEF Todo, j
  <2>2. InLoop'
    <3>1. h # None
      BY <1>2, CellsAssumption
    <3> QED
      BY <1>18, <3>1 DEF InLoop, NoWalk
  <2> HIDE DEF todo
  <2>3. AbsWalk = [of |-> h, cur |-> walk.pos, put |-> {}, todo |-> todo]
    BY <1>1, <2>1 DEF AbsWalk
  <2>4. Ahead(walk.n, walk.dir)' = Tail(todo)
    BY <1>19 DEF todo
  <2>5. AbsWalk' = [of |-> h, cur |-> walk.pos, put |-> {}, todo |-> Tail(todo)]
    BY <1>18, <2>2, <2>4 DEF AbsWalk
  <2> QED
    BY <2>3, <2>5
<1>23. Head(todo) = walk.n
  BY <1>7, RestIs
<1>24. Promised!Without(s, walk.n) = t
  BY <1>2, <1>7, <1>8, WithoutIs
<1>25. Promised!RemoveNext
  <2> DEFINE y == Tail(todo)
  <2>1. Promised!Call(<<"remove_next">>)
    BY <1>1 DEF Promised!Call
  <2>2. AbsWalk.todo = todo /\ AbsWalk.of = h
    BY <1>22
  <2>3. AbsWalk' = [AbsWalk EXCEPT !.todo = Tail(@)]
    <3> HIDE DEF y, todo, h
    <3> DEFINE none == {}
    <3>2. AbsWalk = [of |-> h, cur |-> walk.pos, put |-> none, todo |-> todo]
      BY <1>22
    <3> HIDE DEF none
    <3>1. Shorter(AbsWalk, y) = [of |-> h, cur |-> walk.pos, put |-> none, todo |-> y]
      BY <3>2, WalkShorter
    <3> QED
      BY <1>22, <2>2, <3>1, Zenon DEF Shorter, y, none
  <2>4. Lists' = [Lists EXCEPT ![AbsWalk.of] = Promised!Without(@, Head(AbsWalk.todo))]
    <3> HIDE DEF todo, t
    <3> QED
      BY <1>20, <1>23, <1>24, <2>2
  <2> QED
    BY <1>2, <2>1, <2>3, <2>4 DEF Promised!RemoveNext
<1> QED
  BY <1>21, <1>25 DEF Promised!AbsNext
-----------------------------------------------------------------------------
(* The theorems about list.h. *)

(* At the start all lists are empty.                                       *)
LEMMA ListStart ==
  ASSUME Init
  PROVE  ListInv /\ Promised!AbsInit
<1> DEFINE F == [h \in Heads |-> <<>>]
<1>1. mem = [c \in Cells |-> IF c \in Heads THEN [next |-> c, prev |-> c]
                             ELSE [next |-> Poison, prev |-> Poison]]
      /\ stale = {} /\ walk = NoWalk /\ call = <<"start">>
  BY DEF Init
<1>2. mem \in Memory
  BY <1>1 DEF Memory, Cells
<1>3. ASSUME NEW h \in Heads PROVE F[h] \in Seq(Nodes) /\ Ring(mem, h, F[h]) /\ Len(F[h]) = 0
  <2>1. F[h] \in Seq(Nodes) /\ Len(F[h]) = 0
    BY EmptySeq
  <2>2. mem[h].next = h /\ mem[h].prev = h
    BY <1>1 DEF Cells
  <2> HIDE DEF F
  <2>3. \A i \in Int : Cell(F[h], h, i) = h
    BY <2>1 DEF Cell
  <2>4. Ring(mem, h, F[h])
    BY <2>1, <2>2, <2>3 DEF Ring
  <2> QED
    BY <2>1, <2>4
<1>4. F \in [Heads -> Seq(Nodes) \cup {None}]
  BY EmptySeq
<1> HIDE DEF F
<1>5. Apart(stale, F)
  BY <1>3 DEF Apart
<1>6. Holds(mem, stale, F)
  BY <1>1, <1>2, <1>3, <1>4, <1>5 DEF Holds
<1>7. Lists = F
  BY <1>6, ListsSeen, HeldIsSeen
<1>8. ListInv
  BY <1>1, <1>6, <1>7 DEF ListInv, WalkInv, InLoop
<1>9. Promised!AbsInit
  BY <1>1, <1>7 DEF F, Promised!AbsInit, Promised!NoWalk, AbsWalk, InLoop
<1> QED
  BY <1>8, <1>9

(* Every call keeps the invariant and is a step of the promise.            *)
LEMMA ListStep ==
  ASSUME ListInv, Next
  PROVE  ListInv' /\ Promised!AbsNext
<1>1. ASSUME NEW h \in Heads, InitList(h) PROVE ListInv' /\ Promised!AbsNext
  BY <1>1, InitListKeeps
<1>2. ASSUME NEW h \in Heads, Usable(h), OnList(h) PROVE ListInv' /\ Promised!AbsNext
  <2>1. ASSUME NEW n \in Unlisted, Add(h, n) PROVE ListInv' /\ Promised!AbsNext
    BY <1>2, <2>1, AddKeeps
  <2>2. ASSUME NEW e \in Range(Content(h)), NEW n \in Unlisted, Replace(h, e, n)
        PROVE  ListInv' /\ Promised!AbsNext
    BY <1>2, <2>2, ReplaceKeeps
  <2>3. ASSUME NEW e \in Range(Content(h)), Delete(h, e) PROVE ListInv' /\ Promised!AbsNext
    BY <1>2, <2>3, DeleteKeeps
  <2>4. ASSUME NEW e \in Range(Content(h)), NEW g \in Heads, Usable(g), Move(h, g, e)
        PROVE  ListInv' /\ Promised!AbsNext
    BY <1>2, <2>4, MoveKeeps
  <2>5. ASSUME NEW e \in Range(Content(h)), NEW dir \in {"next", "prev"}, NEW self \in BOOLEAN,
               Begin(h, e, dir, self)
        PROVE  ListInv' /\ Promised!AbsNext
    BY <1>2, <2>5, BeginKeeps
  <2>6. ASSUME Rotate(h) PROVE ListInv' /\ Promised!AbsNext
    BY <1>2, <2>6, RotateKeeps
  <2>7. ASSUME MoveCurrent(h) PROVE ListInv' /\ Promised!AbsNext
    BY <1>2, <2>7, MoveCurrentKeeps
  <2>8. ASSUME NEW dir \in {"next", "prev"}, Begin(h, h, dir, FALSE) PROVE ListInv' /\ Promised!AbsNext
    BY <1>2, <2>8, BeginKeeps
  <2>9. ASSUME NEW g \in Heads, NEW init \in BOOLEAN, ReplaceHead(h, g, init)
        PROVE  ListInv' /\ Promised!AbsNext
    BY <1>2, <2>9, ReplaceHeadKeeps
  <2>10. ASSUME NEW g \in Heads, NEW e \in Range(Content(h)) \cup {h}, CutPosition(g, h, e)
         PROVE  ListInv' /\ Promised!AbsNext
    BY <1>2, <2>10, CutKeeps
  <2>11. ASSUME NEW g \in Heads, NEW place \in {"first", "last"}, NEW init \in BOOLEAN,
                Usable(g), Join(g, h, place, init)
         PROVE  ListInv' /\ Promised!AbsNext
    BY <1>2, <2>11, JoinKeeps
  <2> QED
    BY <1>2, <2>1, <2>2, <2>3, <2>4, <2>5, <2>6, <2>7, <2>8, <2>9, <2>10, <2>11 DEF OnList
<1>3. ASSUME Advance PROVE ListInv' /\ Promised!AbsNext
  BY <1>3, AdvanceKeeps
<1>4. ASSUME DeleteCurrent PROVE ListInv' /\ Promised!AbsNext
  BY <1>4, DeleteCurrentKeeps
<1>5. ASSUME DeleteNextAndReset PROVE ListInv' /\ Promised!AbsNext
  BY <1>5, DeleteNextKeeps
<1> QED
  BY <1>1, <1>2, <1>3, <1>4, <1>5 DEF Next

(* A step that changes nothing does, too.                                  *)
LEMMA ListStutters ==
  ASSUME ListInv, UNCHANGED vars
  PROVE  ListInv' /\ UNCHANGED Promised!absVars
<1>1. mem' = mem /\ stale' = stale /\ walk' = walk /\ call' = call
  BY DEF vars
<1>2. Lists' = Lists /\ Holds(mem', stale', Lists')
  BY <1>1, ListsAre DEF ListInv
<1>3. WalkInv'
  BY <1>1, <1>2 DEF ListInv, WalkInv, InLoop, Neighbour
<1>4. AbsWalk' = AbsWalk
  BY <1>1 DEF AbsWalk, InLoop, Ahead, Neighbour
<1> QED
  BY <1>1, <1>2, <1>3, <1>4 DEF ListInv, Promised!absVars

(* The memory of list.h holds disjoint rings, whatever is called.          *)
THEOREM ListInvariant == MCSpec => []ListInv
<1>1. MCInit => ListInv
  BY ListStart DEF MCInit
<1>2. ListInv /\ [MCNext]_<<vars, tgapVars>> => ListInv'
  BY ListStep, ListStutters DEF MCNext
<1> QED
  BY <1>1, <1>2, PTL DEF MCSpec

(* Both ways round a list is the same, and the tests of list.h are right.  *)
THEOREM ListsGoBothWays == MCSpec => []TwoWays
<1>1. ASSUME ListInv PROVE TwoWays
  <2> SUFFICES ASSUME NEW h \in Heads, Usable(h)
               PROVE  LET s == Content(h)
                      IN  /\ Ahead(mem[h].prev, "prev") = Reverse(s)
                          /\ \A g \in Heads \ {h} : Usable(g) => Range(s) \cap Range(Content(g)) = {}
                          /\ ListEmptyCareful(mem, h) = (s = <<>>)
                          /\ ListIsSingular(mem, h) = (Len(s) = 1)
                          /\ \A i \in DOMAIN s : ListIsLast(mem, s[i], h) = (i = Len(s))
    BY DEF TwoWays
  <2> DEFINE s == Lists[h]
  <2>1. Holds(mem, stale, Lists) /\ h \in Heads \ stale
    BY <1>1, ListFacts DEF ListInv
  <2>2. s = Content(h) /\ s \in Seq(Nodes) /\ Distinct(s) /\ Ring(mem, h, s) /\ Len(s) \in Nat
    BY <1>1, ListFacts
  <2>3. /\ mem[h].next = Cell(s, h, 1) /\ mem[h].prev = Cell(s, h, Len(s))
        /\ (ListEmpty(mem, h) <=> s = <<>>) /\ (ListEmpty(mem, h) <=> Len(s) = 0)
    BY <2>1, HeadPointers
  <2>4. \A i \in 1..Len(s) : Cell(s, h, i) = s[i] /\ s[i] \in Nodes /\ s[i] # h
    BY <2>2, CellIsCell
  <2>5. Cell(s, h, Len(s) + 1) = h
    BY <2>2, CellIsCell
  <2>6. Ahead(mem[h].prev, "prev") = Reverse(s)
    <3>1. Chain(Neighbour(mem, h, "prev"), Steps(mem, "prev")) = Along(s, "prev")
      BY <2>2, ListIs DEF Ways
    <3>2. Along(s, "prev") = Reverse(s) /\ Neighbour(mem, h, "prev") = mem[h].prev
      BY DEF Along, Neighbour
    <3>3. Ahead(mem[h].prev, "prev") = Chain(mem[h].prev, Steps(mem, "prev"))
      BY DEF Ahead, Steps
    <3> QED
      BY <3>1, <3>2, <3>3
  <2>7. ASSUME NEW g \in Heads \ {h}, Usable(g) PROVE Range(s) \cap Range(Content(g)) = {}
    <3>1. Content(g) = Lists[g] /\ Lists[g] \in Seq(Nodes) /\ g \in Heads \ stale
      BY <1>1, <2>7, ListFacts
    <3>2. ASSUME NEW e \in Range(s), e \in Range(Lists[g]) PROVE FALSE
      <4>1. PICK i \in 1..Len(s) : s[i] = e
        BY <2>2, InRange
      <4>2. PICK j \in 1..Len(Lists[g]) : Lists[g][j] = e
        BY <3>1, <3>2, InRange
      <4>3. Apart(stale, Lists)
        BY <2>1 DEF Holds
      <4>4. h = g
        BY <2>1, <3>1, <4>1, <4>2, <4>3 DEF Apart
      <4> QED
        BY <4>4
    <3> QED
      BY <3>1, <3>2
  <2>8. ListEmptyCareful(mem, h) <=> s = <<>>
    <3>1. s = <<>> => mem[h].prev = h
      BY <2>3 DEF Cell
    <3> QED
      BY <2>3, <3>1 DEF ListEmptyCareful, ListEmpty
  <2>9. ListIsSingular(mem, h) <=> Len(s) = 1
    <3>1. CASE Len(s) = 0
      BY <2>3, <3>1 DEF ListIsSingular
    <3>2. CASE Len(s) # 0
      <4>1. 1 \in 1..Len(s) /\ Len(s) \in 1..Len(s)
        BY <2>2, <3>2
      <4>2. s[1] = s[Len(s)] <=> Len(s) = 1
        BY <2>2, <4>1 DEF Distinct
      <4> QED
        BY <2>3, <2>4, <3>2, <4>1, <4>2 DEF ListIsSingular
    <3> QED
      BY <3>1, <3>2
  <2>10. ASSUME NEW i \in 1..Len(s) PROVE ListIsLast(mem, s[i], h) <=> i = Len(s)
    <3>1. mem[s[i]].next = Cell(s, h, i + 1)
      BY <2>1, NodePointers
    <3>2. i # Len(s) => i + 1 \in 1..Len(s)
      BY <2>2
    <3>3. Cell(s, h, i + 1) = h <=> i = Len(s)
      BY <2>4, <2>5, <3>2
    <3> QED
      BY <3>1, <3>3 DEF ListIsLast
  <2>11. DOMAIN s = 1..Len(s)
    BY <2>2, LenProperties
  <2>12. /\ ListEmptyCareful(mem, h) \in BOOLEAN /\ ListIsSingular(mem, h) \in BOOLEAN
         /\ \A e : ListIsLast(mem, e, h) \in BOOLEAN
    BY SMTT(30) DEF ListEmptyCareful, ListIsSingular, ListIsLast
  <2> HIDE DEF s
  <2>13. /\ ListEmptyCareful(mem, h) = (s = <<>>)
         /\ ListIsSingular(mem, h) = (Len(s) = 1)
         /\ \A i \in DOMAIN s : ListIsLast(mem, s[i], h) = (i = Len(s))
    BY <2>8, <2>9, <2>10, <2>11, <2>12
  <2> QED
    BY <2>2, <2>6, <2>7, <2>13
<1> QED
  BY <1>1, ListInvariant, PTL

(* Every function and every loop of list.h does what it promises.          *)
THEOREM ListsDoWhatTheyPromise == MCSpec => DoesWhatItPromises
<1>1. MCInit => Promised!AbsInit
  BY ListStart DEF MCInit
<1>2. ListInv /\ [MCNext]_<<vars, tgapVars>> => [Promised!AbsNext]_Promised!absVars
  BY ListStep, ListStutters DEF MCNext
<1> QED
  BY <1>1, <1>2, ListInvariant, PTL DEF MCSpec, DoesWhatItPromises, Promised!AbsSpec
=============================================================================
