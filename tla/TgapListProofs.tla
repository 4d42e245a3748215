--------------------------- MODULE TgapListProofs ---------------------------
(***************************************************************************)
(* Proofs about TgapList, for any finite set of entries and any heads: up  *)
(* to the first call that no comment of lists.h covers, the last pointers  *)
(* are right, free entries have a null link, and every macro and loop does *)
(* to the sequences what ListOperations promises.                          *)
(*                                                                         *)
(* Listing(first, last, link, F) says that the pointers are those of the   *)
(* lists F, which share no entry, and that the links of the others are     *)
(* null.  A loop keeps four pointers beside the lists: OnLoop says that it *)
(* stands at some place of its list and that they are the entries around   *)
(* that place, as far as the macros will use them.  A REMOVE_CURRENT sets  *)
(* __new_prev back but not the variable, an INSERT_BEFORE_CURRENT sets it  *)
(* to an entry that is not the current one: that is why the invariant says *)
(* nothing of it then, and why a change after an insertion may go wrong.   *)
(***************************************************************************)
EXTENDS ListProofs

-----------------------------------------------------------------------------
(* lists.h: the lists of the macros.  A list s has the cells s[1], s[2],   *)
(* ... and, at either end, None.                                           *)

(* The operators of the modules that Tgap instantiates are those of this   *)
(* one.                                                                    *)
LEMMA TgapOperators ==
  /\ \A p, step : Tgap!Chain(p, step) = Chain(p, step)
  /\ \A s : Tgap!Range(s) = Range(s) /\ Tgap!Last(s) = s[Len(s)]
  /\ \A s : Tgap!Promised!Range(s) = Range(s)
  /\ \A s, i, n : Tgap!Promised!InsertAt(s, i, n) = InsertAt(s, i, n)
  /\ \A s, i : Tgap!Promised!RemoveAt(s, i) = RemoveAt(s, i)
<1>1. Tgap!Cardinality(Nodes) = Cardinality(Nodes)
  BY Zenon DEF Tgap!Cardinality, Cardinality
<1>2. Tgap!Paths = Paths
  BY <1>1, Zenon DEF Tgap!Paths, Paths, Tgap!SeqOf, SeqOf
<1>3. \A s, p, step : Tgap!Follows(s, p, step) <=> Follows(s, p, step)
  BY DEF Tgap!Follows, Follows, Tgap!Pointer, Pointer
<1>4. \A p, step : Tgap!Chain(p, step) = Chain(p, step)
  BY <1>2, <1>3, Zenon DEF Tgap!Chain, Chain
<1>5. ASSUME NEW s PROVE Tgap!Range(s) = Range(s) /\ Tgap!Last(s) = s[Len(s)]
  BY DEF Tgap!Range, Tgap!Last, Range
<1>6. ASSUME NEW s PROVE Tgap!Promised!Range(s) = Range(s)
  BY DEF Tgap!Promised!Range, Range
<1>7. ASSUME NEW s, NEW i, NEW n PROVE Tgap!Promised!InsertAt(s, i, n) = InsertAt(s, i, n)
  BY Zenon DEF Tgap!Promised!InsertAt, InsertAt
<1>8. ASSUME NEW s, NEW i PROVE Tgap!Promised!RemoveAt(s, i) = RemoveAt(s, i)
  BY Zenon DEF Tgap!Promised!RemoveAt, RemoveAt
<1> QED
  BY <1>4, <1>5, <1>6, <1>7, <1>8

At(s, i) == Cell(s, None, i)
Links == [Nodes -> Nodes \cup {None}]
Ends == [Heads -> Nodes \cup {None}]

(* p and q are the first and the last pointer of list s.                   *)
Line(p, q, l, s) ==
    p = At(s, 1) /\ q = At(s, Len(s)) /\ \A i \in 1..Len(s) : l[s[i]] = At(s, i + 1)

(* The entries of a list and, outside them, None.                          *)
LEMMA AtIs ==
  ASSUME NEW s \in Seq(Nodes)
  PROVE  /\ Len(s) \in Nat
         /\ \A i \in 1..Len(s) : At(s, i) = s[i] /\ s[i] \in Nodes /\ s[i] # None
         /\ \A i \in Int : i \notin 1..Len(s) => At(s, i) = None
         /\ \A i \in Int : At(s, i) \in Nodes \cup {None}
         /\ \A n \in Nodes : n # None
         /\ At(s, 0) = None /\ At(s, Len(s) + 1) = None
<1>1. Len(s) \in Nat /\ \A i \in 1..Len(s) : s[i] \in Nodes
  BY LenProperties, ElementOfSeq
<1>2. \A n \in Nodes : n # None
  BY CellsAssumption
<1> QED
  BY <1>1, <1>2 DEF At, Cell

(* From its j-th entry on one meets the rest of the list.                  *)
LEMMA LineFollows ==
  ASSUME NEW p, NEW q, NEW l, NEW s \in Seq(Nodes), Distinct(s), Line(p, q, l, s), NEW j \in 1..(Len(s) + 1)
  PROVE  Chain(At(s, j), l) = SubSeq(s, j, Len(s))
<1> DEFINE t == SubSeq(s, j, Len(s))
           c == At(s, j)
<1>1. /\ Len(s) \in Nat
      /\ \A i \in 1..Len(s) : At(s, i) = s[i] /\ s[i] \in Nodes
      /\ At(s, Len(s) + 1) = None /\ None \notin Nodes
  BY AtIs
<1>2. /\ t \in Seq(Nodes) /\ Len(t) = Len(s) + 1 - j
      /\ \A i \in 1..(Len(s) + 1 - j) : t[i] = s[j + i - 1]
  BY RestIs
<1> HIDE DEF t
<1>3. ASSUME NEW i \in 1..Len(t)
      PROVE  (i + j) - 1 \in 1..Len(s) /\ t[i] = s[(i + j) - 1] /\ l[t[i]] = At(s, i + j)
  <2>1. (i + j) - 1 \in 1..Len(s) /\ j + i - 1 = (i + j) - 1 /\ ((i + j) - 1) + 1 = i + j
        /\ i \in 1..(Len(s) + 1 - j)
    BY <1>1, <1>2
  <2>2. t[i] = s[(i + j) - 1]
    BY <1>2, <2>1
  <2>3. l[s[(i + j) - 1]] = At(s, ((i + j) - 1) + 1)
    BY <2>1 DEF Line
  <2> QED
    BY <2>1, <2>2, <2>3
<1>4. ASSUME NEW i \in 1..Len(t) PROVE t[i] = Pointer(t, c, l, i - 1)
  <2>1. t[i] = At(s, (i + j) - 1)
    BY <1>1, <1>3
  <2>2. CASE i = 1
    <3>1. (i + j) - 1 = j /\ i - 1 = 0
      BY <1>1, <2>2
    <3> QED
      BY <2>1, <3>1 DEF Pointer
  <2>3. CASE i # 1
    <3>1. i - 1 \in 1..Len(t) /\ (i - 1) + j = (i + j) - 1 /\ i - 1 # 0
      BY <1>1, <1>2, <2>3
    <3>2. l[t[i - 1]] = At(s, (i + j) - 1)
      BY <1>3, <3>1
    <3> QED
      BY <2>1, <3>1, <3>2 DEF Pointer
  <2> QED
    BY <2>2, <2>3
<1>5. Pointer(t, c, l, Len(t)) = None
  <2>1. CASE Len(t) = 0
    <3>1. j = Len(s) + 1
      BY <1>1, <1>2, <2>1
    <3> QED
      BY <1>1, <2>1, <3>1 DEF Pointer
  <2>2. CASE Len(t) # 0
    <3>1. Len(t) \in 1..Len(t) /\ Len(t) + j = Len(s) + 1
      BY <1>1, <1>2, <2>2
    <3> QED
      BY <1>1, <1>3, <2>2, <3>1 DEF Pointer
  <2> QED
    BY <2>1, <2>2
<1>6. Follows(t, c, l)
  <2>1. DOMAIN t = 1..Len(t)
    BY <1>2, LenProperties
  <2> HIDE DEF c
  <2> QED
    BY <1>1, <1>4, <1>5, <2>1 DEF Follows
<1>7. Distinct(t)
  <2>1. ASSUME NEW i \in 1..Len(t), NEW k \in 1..Len(t), t[i] = t[k] PROVE i = k
    <3>1. (i + j) - 1 = (k + j) - 1
      BY <1>3, <2>1 DEF Distinct
    <3> QED
      BY <1>1, <1>2, <3>1
  <2> QED
    BY <2>1 DEF Distinct
<1>8. Chain(c, l) = t
  <2> HIDE DEF c
  <2> QED
    BY <1>2, <1>6, <1>7, ChainIs
<1> QED
  BY <1>8 DEF c, t

(* What is on a list after an insertion, a removal, a concatenation.       *)
LEMMA InsertedEntries ==
  ASSUME NEW s \in Seq(Nodes), Distinct(s), NEW k \in 0..Len(s), NEW n \in Nodes,
         \A i \in 1..Len(s) : s[i] # n, NEW t, Inserted(s, t, k, n)
  PROVE  /\ t \in Seq(Nodes) /\ Distinct(t)
         /\ \A j \in 1..Len(t) : t[j] = n \/ \E i \in 1..Len(s) : t[j] = s[i]
         /\ \A i \in 1..Len(s) : \E j \in 1..Len(t) : t[j] = s[i]
         /\ \E j \in 1..Len(t) : t[j] = n
<1>1. /\ Len(s) \in Nat /\ t \in Seq(Nodes) /\ Len(t) = Len(s) + 1
      /\ \A i \in 1..Len(t) : t[i] = IF i <= k THEN s[i] ELSE IF i = k + 1 THEN n ELSE s[i - 1]
  BY LenProperties DEF Inserted
<1>2. k + 1 \in 1..Len(t) /\ t[k + 1] = n
  BY <1>1
<1>3. ASSUME NEW i \in 1..Len(t), i # k + 1
      PROVE  LET a == IF i <= k THEN i ELSE i - 1 IN a \in 1..Len(s) /\ t[i] = s[a]
  BY <1>1, <1>3
<1>4. ASSUME NEW i \in 1..Len(s) PROVE \E j \in 1..Len(t) : t[j] = s[i]
  <2>1. CASE i <= k
    BY <1>1, <2>1
  <2>2. CASE i > k
    <3>1. i + 1 \in 1..Len(t) /\ ~(i + 1 <= k) /\ i + 1 # k + 1 /\ (i + 1) - 1 = i
      BY <1>1, <2>2
    <3>2. t[i + 1] = s[i]
      BY <1>1, <3>1
    <3> QED
      BY <3>1, <3>2
  <2> QED
    BY <1>1, <2>1, <2>2
<1>5. ASSUME NEW i \in 1..Len(t), NEW j \in 1..Len(t), t[i] = t[j] PROVE i = j
  <2> DEFINE a == IF i <= k THEN i ELSE i - 1
             b == IF j <= k THEN j ELSE j - 1
  <2>1. CASE i # k + 1 /\ j # k + 1
    <3>1. a \in 1..Len(s) /\ t[i] = s[a] /\ b \in 1..Len(s) /\ t[j] = s[b]
      BY <1>3, <2>1
    <3>2. a = b
      BY <1>5, <3>1 DEF Distinct
    <3> QED
      BY <1>1, <2>1, <3>2
  <2>2. CASE i = k + 1 /\ j # k + 1
    <3>1. b \in 1..Len(s) /\ t[j] = s[b]
      BY <1>3, <2>2
    <3> HIDE DEF b
    <3> QED
      BY <1>2, <1>5, <2>2, <3>1
  <2>3. CASE i # k + 1 /\ j = k + 1
    <3>1. a \in 1..Len(s) /\ t[i] = s[a]
      BY <1>3, <2>3
    <3> HIDE DEF a
    <3> QED
      BY <1>2, <1>5, <2>3, <3>1
  <2> QED
    BY <2>1, <2>2, <2>3
<1>6. ASSUME NEW j \in 1..Len(t) PROVE t[j] = n \/ \E i \in 1..Len(s) : t[j] = s[i]
  BY <1>2, <1>3
<1> QED
  BY <1>1, <1>2, <1>4, <1>5, <1>6 DEF Distinct

(* The entries of a list without its k-th.                                 *)
LEMMA DeletedEntries ==
  ASSUME NEW s \in Seq(Nodes), Distinct(s), NEW k \in 1..Len(s), NEW t, Deleted(s, t, k)
  PROVE  /\ t \in Seq(Nodes) /\ Distinct(t)
         /\ \A j \in 1..Len(t) : t[j] # s[k] /\ \E i \in 1..Len(s) : t[j] = s[i]
         /\ \A i \in 1..Len(s) : i # k => \E j \in 1..Len(t) : t[j] = s[i]
<1>1. /\ Len(s) \in Nat /\ t \in Seq(Nodes) /\ Len(t) = Len(s) - 1
      /\ \A i \in 1..Len(t) : t[i] = IF i < k THEN s[i] ELSE s[i + 1]
  BY LenProperties DEF Deleted
<1>2. ASSUME NEW i \in 1..Len(t)
      PROVE  LET a == IF i < k THEN i ELSE i + 1 IN a \in 1..Len(s) /\ a # k /\ t[i] = s[a]
  BY <1>1
<1>3. ASSUME NEW i \in 1..Len(s), i # k PROVE \E j \in 1..Len(t) : t[j] = s[i]
  <2>1. CASE i < k
    BY <1>1, <2>1
  <2>2. CASE i > k
    <3>1. i - 1 \in 1..Len(t) /\ ~(i - 1 < k) /\ (i - 1) + 1 = i
      BY <1>1, <2>2
    <3>2. t[i - 1] = s[i]
      BY <1>1, <3>1
    <3> QED
      BY <3>1, <3>2
  <2> QED
    BY <1>1, <1>3, <2>1, <2>2
<1>4. ASSUME NEW i \in 1..Len(t), NEW j \in 1..Len(t), t[i] = t[j] PROVE i = j
  <2> DEFINE a == IF i < k THEN i ELSE i + 1
             b == IF j < k THEN j ELSE j + 1
  <2>1. a \in 1..Len(s) /\ t[i] = s[a] /\ b \in 1..Len(s) /\ t[j] = s[b]
    BY <1>2
  <2>2. a = b
    BY <1>4, <2>1 DEF Distinct
  <2> QED
    BY <1>1, <2>2
<1>5. \A j \in 1..Len(t) : t[j] # s[k]
  BY DeletedGone
<1>6. ASSUME NEW j \in 1..Len(t) PROVE \E i \in 1..Len(s) : t[j] = s[i]
  BY <1>2
<1> QED
  BY <1>1, <1>3, <1>4, <1>5, <1>6 DEF Distinct

(* The entries of two lists one behind the other.                          *)
LEMMA PutEntries ==
  ASSUME NEW s \in Seq(Nodes), Distinct(s), NEW u \in Seq(Nodes), Distinct(u),
         \A i \in 1..Len(s), j \in 1..Len(u) : s[i] # u[j], NEW t, Put(s, u, t, Len(s))
  PROVE  /\ t \in Seq(Nodes) /\ Distinct(t) /\ Len(t) = Len(s) + Len(u)
         /\ \A j \in 1..Len(s) : t[j] = s[j]
         /\ \A j \in 1..Len(u) : t[Len(s) + j] = u[j]
         /\ \A j \in 1..Len(t) : j \in 1..Len(s) \/ j - Len(s) \in 1..Len(u)
<1>1. /\ Len(s) \in Nat /\ Len(u) \in Nat /\ t \in Seq(Nodes) /\ Len(t) = Len(s) + Len(u)
      /\ \A i \in 1..Len(t) : t[i] = IF i <= Len(s) THEN s[i]
                                   ELSE IF i <= Len(s) + Len(u) THEN u[i - Len(s)] ELSE s[i - Len(u)]
  BY LenProperties DEF Put
<1>2. \A j \in 1..Len(s) : t[j] = s[j]
  BY <1>1
<1>3. ASSUME NEW j \in 1..Len(u) PROVE t[Len(s) + j] = u[j]
  <2>1. Len(s) + j \in 1..Len(t) /\ ~(Len(s) + j <= Len(s)) /\ Len(s) + j <= Len(s) + Len(u)
        /\ (Len(s) + j) - Len(s) = j
    BY <1>1
  <2> QED
    BY <1>1, <2>1
<1>4. ASSUME NEW j \in 1..Len(t) PROVE j \in 1..Len(s) \/ j - Len(s) \in 1..Len(u)
  BY <1>1
<1>5. ASSUME NEW j \in 1..Len(t), j \notin 1..Len(s) PROVE j - Len(s) \in 1..Len(u) /\ t[j] = u[j - Len(s)]
  <2>1. j - Len(s) \in 1..Len(u) /\ Len(s) + (j - Len(s)) = j
    BY <1>1, <1>5
  <2> QED
    BY <1>3, <2>1
<1>6. ASSUME NEW i \in 1..Len(t), NEW j \in 1..Len(t), t[i] = t[j] PROVE i = j
  <2>1. CASE i \in 1..Len(s) /\ j \in 1..Len(s)
    BY <1>2, <1>6, <2>1 DEF Distinct
  <2>2. CASE i \notin 1..Len(s) /\ j \notin 1..Len(s)
    <3>1. i - Len(s) = j - Len(s)
      BY <1>5, <1>6, <2>2 DEF Distinct
    <3> QED
      BY <1>1, <3>1
  <2>3. CASE i \in 1..Len(s) /\ j \notin 1..Len(s)
    BY <1>2, <1>5, <1>6, <2>3
  <2>4. CASE i \notin 1..Len(s) /\ j \in 1..Len(s)
    BY <1>2, <1>5, <1>6, <2>4
  <2> QED
    BY <2>1, <2>2, <2>3, <2>4
<1> QED
  BY <1>1, <1>2, <1>3, <1>4, <1>6 DEF Distinct

(* Different places hold different entries.                                *)
LEMMA AtDiffers ==
  ASSUME NEW s \in Seq(Nodes), Distinct(s), NEW i \in 1..Len(s), NEW j \in Int, At(s, i) = At(s, j)
  PROVE  i = j
<1>1. At(s, i) = s[i] /\ s[i] # None
  BY AtIs
<1>2. j \in 1..Len(s)
  BY <1>1, AtIs
<1>3. s[j] = s[i]
  BY <1>1, <1>2, AtIs
<1> QED
  BY <1>2, <1>3 DEF Distinct

(* Where the entries of a list are after one has been put in,              *)
LEMMA AtInserted ==
  ASSUME NEW s \in Seq(Nodes), NEW k \in 0..Len(s), NEW n \in Nodes, NEW t, Inserted(s, t, k, n)
  PROVE  \A i \in Int : At(t, i) = IF i <= k THEN At(s, i) ELSE IF i = k + 1 THEN n ELSE At(s, i - 1)
<1>1. /\ Len(s) \in Nat /\ t \in Seq(Nodes) /\ Len(t) = Len(s) + 1
      /\ \A i \in 1..Len(t) : t[i] = IF i <= k THEN s[i] ELSE IF i = k + 1 THEN n ELSE s[i - 1]
  BY LenProperties DEF Inserted
<1>2. /\ \A i \in 1..Len(s) : At(s, i) = s[i]
      /\ \A i \in Int : i \notin 1..Len(s) => At(s, i) = None
      /\ \A i \in 1..Len(t) : At(t, i) = t[i]
      /\ \A i \in Int : i \notin 1..Len(t) => At(t, i) = None
  BY <1>1, AtIs
<1> SUFFICES ASSUME NEW i \in Int
             PROVE  At(t, i) = IF i <= k THEN At(s, i) ELSE IF i = k + 1 THEN n ELSE At(s, i - 1)
  OBVIOUS
<1>3. CASE i <= k
  <2>1. i \in 1..Len(s) <=> i \in 1..Len(t)
    BY <1>1, <1>3
  <2> QED
    BY <1>1, <1>2, <1>3, <2>1
<1>4. CASE i = k + 1
  BY <1>1, <1>2, <1>4
<1>5. CASE i > k + 1
  <2>1. i - 1 \in Int /\ (i - 1 \in 1..Len(s) <=> i \in 1..Len(t)) /\ ~(i <= k) /\ i # k + 1
    BY <1>1, <1>5
  <2> QED
    BY <1>1, <1>2, <2>1
<1> QED
  BY <1>3, <1>4, <1>5

(* and after one has been taken out.                                       *)
LEMMA AtDeleted ==
  ASSUME NEW s \in Seq(Nodes), NEW k \in 1..Len(s), NEW t, Deleted(s, t, k)
  PROVE  \A i \in Int : At(t, i) = IF i < k THEN At(s, i) ELSE At(s, i + 1)
<1>1. /\ Len(s) \in Nat /\ t \in Seq(Nodes) /\ Len(t) = Len(s) - 1
      /\ \A i \in 1..Len(t) : t[i] = IF i < k THEN s[i] ELSE s[i + 1]
  BY LenProperties DEF Deleted
<1>2. /\ \A i \in 1..Len(s) : At(s, i) = s[i]
      /\ \A i \in Int : i \notin 1..Len(s) => At(s, i) = None
      /\ \A i \in 1..Len(t) : At(t, i) = t[i]
      /\ \A i \in Int : i \notin 1..Len(t) => At(t, i) = None
  BY <1>1, AtIs
<1> SUFFICES ASSUME NEW i \in Int
             PROVE  At(t, i) = IF i < k THEN At(s, i) ELSE At(s, i + 1)
  OBVIOUS
<1>3. CASE i < k
  <2>1. i \in 1..Len(s) <=> i \in 1..Len(t)
    BY <1>1, <1>3
  <2> QED
    BY <1>1, <1>2, <1>3, <2>1
<1>4. CASE ~(i < k)
  <2>1. i + 1 \in Int /\ (i + 1 \in 1..Len(s) <=> i \in 1..Len(t))
    BY <1>1, <1>4
  <2> QED
    BY <1>1, <1>2, <1>4, <2>1
<1> QED
  BY <1>3, <1>4

(* l2 is l with the link of n become v and that of p, if there is one, w.  *)
Relinked(l, l2, n, v, p, w) ==
    l2 \in Links /\ \A e \in Nodes : l2[e] = IF e = n THEN v ELSE IF e = p THEN w ELSE l[e]

(* An entry put behind the k-th, one taken out, one list behind another.   *)
LEMMA LineIn ==
  ASSUME NEW p, NEW q, NEW l, NEW s \in Seq(Nodes), Distinct(s), Line(p, q, l, s),
         NEW k \in 0..Len(s), NEW n \in Nodes, \A i \in 1..Len(s) : s[i] # n,
         NEW t, Inserted(s, t, k, n), NEW l2, Relinked(l, l2, n, At(s, k + 1), At(s, k), n)
  PROVE  Line(IF k = 0 THEN n ELSE p, IF k = Len(s) THEN n ELSE q, l2, t)
<1>1. \A i \in Int : At(t, i) = IF i <= k THEN At(s, i) ELSE IF i = k + 1 THEN n ELSE At(s, i - 1)
  BY AtInserted
<1>2. /\ Len(s) \in Nat /\ t \in Seq(Nodes) /\ Len(t) = Len(s) + 1
      /\ \A i \in 1..Len(t) : t[i] = IF i <= k THEN s[i] ELSE IF i = k + 1 THEN n ELSE s[i - 1]
  BY LenProperties DEF Inserted
<1>3. \A i \in 1..Len(s) : At(s, i) = s[i] /\ s[i] \in Nodes
  BY AtIs
<1>4. p = At(s, 1) /\ q = At(s, Len(s)) /\ \A i \in 1..Len(s) : l[s[i]] = At(s, i + 1)
  BY DEF Line
<1>5. (IF k = 0 THEN n ELSE p) = At(t, 1)
  BY <1>1, <1>4
<1>6. (IF k = Len(s) THEN n ELSE q) = At(t, Len(t))
  <2>1. Len(t) \in Int /\ Len(t) - 1 = Len(s) /\ ~(Len(t) <= k) /\ (Len(t) = k + 1 <=> k = Len(s))
    BY <1>2
  <2> QED
    BY <1>1, <1>4, <2>1
<1>7. \A i \in 1..Len(s) : i # k => l2[s[i]] = At(s, i + 1)
  <2> SUFFICES ASSUME NEW i \in 1..Len(s), i # k PROVE l2[s[i]] = At(s, i + 1)
    OBVIOUS
  <2>1. s[i] # n /\ s[i] # At(s, k)
    BY <1>3, AtDiffers
  <2> QED
    BY <1>3, <1>4, <2>1 DEF Relinked
<1>8. k # 0 => k \in 1..Len(s) /\ l2[s[k]] = n
  BY <1>2, <1>3 DEF Relinked
<1>9. l2[n] = At(s, k + 1)
  BY DEF Relinked
<1>10. ASSUME NEW i \in 1..Len(t) PROVE l2[t[i]] = At(t, i + 1)
  <2>1. CASE i < k
    <3>1. i \in 1..Len(s) /\ i # k /\ i <= k /\ i + 1 <= k /\ i + 1 \in Int
      BY <1>2, <2>1
    <3> QED
      BY <1>1, <1>2, <1>7, <3>1
  <2>2. CASE i = k
    <3>1. k # 0 /\ i + 1 \in Int /\ ~(i + 1 <= k) /\ i <= k /\ i + 1 = k + 1
      BY <2>2
    <3> QED
      BY <1>1, <1>2, <1>8, <2>2, <3>1
  <2>3. CASE i = k + 1
    <3>1. i + 1 \in Int /\ ~(i + 1 <= k) /\ i + 1 # k + 1 /\ (i + 1) - 1 = k + 1 /\ ~(i <= k)
      BY <2>3
    <3>2. t[i] = n
      BY <1>2, <2>3, <3>1
    <3>3. At(t, i + 1) = At(s, (i + 1) - 1)
      BY <1>1, <3>1
    <3> QED
      BY <1>9, <3>1, <3>2, <3>3
  <2>4. CASE i > k + 1
    <3>1. /\ i + 1 \in Int /\ ~(i + 1 <= k) /\ i + 1 # k + 1 /\ (i + 1) - 1 = i /\ ~(i <= k) /\ i # k + 1
          /\ i - 1 \in 1..Len(s) /\ i - 1 # k /\ (i - 1) + 1 = i
      BY <1>2, <2>4
    <3>2. t[i] = s[i - 1]
      BY <1>2, <3>1
    <3>3. At(t, i + 1) = At(s, (i + 1) - 1)
      BY <1>1, <3>1
    <3>4. l2[s[i - 1]] = At(s, (i - 1) + 1)
      BY <1>7, <3>1
    <3> QED
      BY <3>1, <3>2, <3>3, <3>4
  <2> QED
    BY <2>1, <2>2, <2>3, <2>4
<1> QED
  BY <1>5, <1>6, <1>10 DEF Line

(* A line without its k-th entry is a line.                                *)
LEMMA LineOut ==
  ASSUME NEW p, NEW q, NEW l, NEW s \in Seq(Nodes), Distinct(s), Line(p, q, l, s),
         NEW k \in 1..Len(s), NEW t, Deleted(s, t, k),
         NEW l2, Relinked(l, l2, s[k], None, At(s, k - 1), At(s, k + 1))
  PROVE  Line(IF k = 1 THEN At(s, 2) ELSE p, IF k = Len(s) THEN At(s, k - 1) ELSE q, l2, t)
<1>1. \A i \in Int : At(t, i) = IF i < k THEN At(s, i) ELSE At(s, i + 1)
  BY AtDeleted
<1>2. /\ Len(s) \in Nat /\ t \in Seq(Nodes) /\ Len(t) = Len(s) - 1
      /\ \A i \in 1..Len(t) : t[i] = IF i < k THEN s[i] ELSE s[i + 1]
  BY LenProperties DEF Deleted
<1>3. \A i \in 1..Len(s) : At(s, i) = s[i] /\ s[i] \in Nodes
  BY AtIs
<1>4. p = At(s, 1) /\ q = At(s, Len(s)) /\ \A i \in 1..Len(s) : l[s[i]] = At(s, i + 1)
  BY DEF Line
<1>5. (IF k = 1 THEN At(s, 2) ELSE p) = At(t, 1)
  <2>1. CASE k = 1
    <3>1. ~(1 < k) /\ 1 + 1 = 2 /\ 1 \in Int
      BY <2>1
    <3> QED
      BY <1>1, <2>1, <3>1
  <2>2. CASE k # 1
    <3>1. 1 < k /\ 1 \in Int
      BY <2>2
    <3> QED
      BY <1>1, <1>4, <2>2, <3>1
  <2> QED
    BY <2>1, <2>2
<1>6. (IF k = Len(s) THEN At(s, k - 1) ELSE q) = At(t, Len(t))
  <2>1. Len(t) \in Int /\ Len(t) + 1 = Len(s) /\ (Len(t) < k <=> k = Len(s)) /\ (k = Len(s) => Len(t) = k - 1)
    BY <1>2
  <2> QED
    BY <1>1, <1>4, <2>1
<1>7. \A i \in 1..Len(s) : i # k /\ i # k - 1 => l2[s[i]] = At(s, i + 1)
  <2> SUFFICES ASSUME NEW i \in 1..Len(s), i # k, i # k - 1 PROVE l2[s[i]] = At(s, i + 1)
    OBVIOUS
  <2>1. s[i] # s[k] /\ s[i] # At(s, k - 1)
    <3>1. k - 1 \in Int
      OBVIOUS
    <3> QED
      BY <1>3, <3>1, AtDiffers
  <2> QED
    BY <1>3, <1>4, <2>1 DEF Relinked
<1>8. k # 1 => k - 1 \in 1..Len(s) /\ l2[s[k - 1]] = At(s, k + 1)
  <2> SUFFICES ASSUME k # 1 PROVE k - 1 \in 1..Len(s) /\ l2[s[k - 1]] = At(s, k + 1)
    OBVIOUS
  <2>1. k - 1 \in 1..Len(s) /\ k - 1 # k
    BY <1>2
  <2>2. s[k - 1] # s[k]
    BY <2>1 DEF Distinct
  <2> QED
    BY <1>3, <2>1, <2>2 DEF Relinked
<1>9. ASSUME NEW i \in 1..Len(t) PROVE l2[t[i]] = At(t, i + 1)
  <2>1. CASE i < k - 1
    <3>1. i \in 1..Len(s) /\ i # k /\ i # k - 1 /\ i < k /\ i + 1 < k /\ i + 1 \in Int
      BY <1>2, <2>1
    <3> QED
      BY <1>1, <1>2, <1>7, <3>1
  <2>2. CASE i = k - 1
    <3>1. k # 1 /\ i + 1 \in Int /\ i < k /\ i + 1 = k /\ ~(i + 1 < k)
      BY <2>2
    <3>2. t[i] = s[k - 1] /\ At(t, i + 1) = At(s, k + 1)
      BY <1>1, <1>2, <2>2, <3>1
    <3> QED
      BY <1>8, <3>1, <3>2
  <2>3. CASE i > k - 1
    <3>1. i + 1 \in 1..Len(s) /\ i + 1 # k /\ i + 1 # k - 1 /\ ~(i < k) /\ ~(i + 1 < k) /\ i + 1 \in Int
      BY <1>2, <2>3
    <3>2. t[i] = s[i + 1] /\ At(t, i + 1) = At(s, (i + 1) + 1)
      BY <1>1, <1>2, <3>1
    <3> QED
      BY <1>7, <3>1, <3>2
  <2> QED
    BY <2>1, <2>2, <2>3
<1> QED
  BY <1>5, <1>6, <1>9 DEF Line

(* The list u behind s; s may be followed by nothing if it is empty.       *)
LEMMA LinePut ==
  ASSUME NEW p, NEW q, NEW l, NEW s \in Seq(Nodes), Distinct(s), Line(p, q, l, s),
         NEW v, NEW w, NEW u \in Seq(Nodes), Distinct(u), Line(v, w, l, u),
         \A i \in 1..Len(s), j \in 1..Len(u) : s[i] # u[j],
         NEW t, Put(s, u, t, Len(s)), Len(s) = 0 \/ Len(u) # 0,
         NEW l2, \A e \in Nodes : l2[e] = IF e = At(s, Len(s)) THEN At(u, 1) ELSE l[e]
  PROVE  Line(IF Len(s) = 0 THEN v ELSE p, w, l2, t)
<1>1. /\ t \in Seq(Nodes) /\ Len(t) = Len(s) + Len(u)
      /\ \A j \in 1..Len(s) : t[j] = s[j]
      /\ \A j \in 1..Len(u) : t[Len(s) + j] = u[j]
      /\ \A j \in 1..Len(t) : j \in 1..Len(s) \/ j - Len(s) \in 1..Len(u)
  BY PutEntries
<1>2. /\ Len(s) \in Nat /\ \A i \in 1..Len(s) : At(s, i) = s[i] /\ s[i] \in Nodes
      /\ Len(u) \in Nat /\ \A i \in 1..Len(u) : At(u, i) = u[i] /\ u[i] \in Nodes
      /\ \A i \in 1..Len(t) : At(t, i) = t[i]
      /\ At(s, 0) = None /\ At(u, Len(u) + 1) = None /\ At(t, Len(t) + 1) = None /\ At(u, 0) = None
      /\ \A n \in Nodes : n # None
  BY <1>1, AtIs
<1>3. /\ p = At(s, 1) /\ \A i \in 1..Len(s) : l[s[i]] = At(s, i + 1)
      /\ v = At(u, 1) /\ w = At(u, Len(u)) /\ \A i \in 1..Len(u) : l[u[i]] = At(u, i + 1)
  BY DEF Line
<1>4. \A i \in 1..Len(s) : At(t, i) = s[i]
  BY <1>1, <1>2
<1>5. \A i \in 1..(Len(u) + 1) : At(t, Len(s) + i) = At(u, i)
  <2> SUFFICES ASSUME NEW i \in 1..(Len(u) + 1) PROVE At(t, Len(s) + i) = At(u, i)
    OBVIOUS
  <2>1. CASE i \in 1..Len(u)
    <3>1. Len(s) + i \in 1..Len(t)
      <4>1. Len(t) = Len(s) + Len(u) /\ Len(s) \in Nat /\ Len(u) \in Nat
        BY <1>1, <1>2
      <4> QED
        BY <2>1, <4>1
    <3>2. At(t, Len(s) + i) = t[Len(s) + i]
      BY <1>2, <3>1
    <3>3. t[Len(s) + i] = u[i] /\ At(u, i) = u[i]
      BY <1>1, <1>2, <2>1
    <3> QED
      BY <3>2, <3>3
  <2>2. CASE i \notin 1..Len(u)
    <3>1. i = Len(u) + 1 /\ Len(s) + i = Len(t) + 1
      <4> DEFINE a == Len(s)
                 b == Len(u)
                 c == Len(t)
      <4>1. c = a + b /\ a \in Nat /\ b \in Nat /\ i \in 1..(b + 1) /\ i \notin 1..b
        BY <1>1, <1>2, <2>2
      <4> HIDE DEF a, b, c
      <4>2. i \in Int /\ 1 <= i /\ i <= b + 1 /\ ~(i <= b)
        BY <4>1
      <4>3. i = b + 1
        BY <4>1, <4>2
      <4>4. a + i = c + 1
        BY <4>1, <4>3
      <4> QED
        BY <4>3, <4>4 DEF a, b, c
    <3> QED
      BY <1>2, <3>1
  <2> QED
    BY <2>1, <2>2
<1>6. (IF Len(s) = 0 THEN v ELSE p) = At(t, 1)
  <2>1. CASE Len(s) = 0
    <3>1. 1 \in 1..(Len(u) + 1) /\ Len(s) + 1 = 1
      BY <1>2, <2>1
    <3> QED
      BY <1>3, <1>5, <2>1, <3>1
  <2>2. CASE Len(s) # 0
    <3>1. 1 \in 1..Len(s)
      BY <1>2, <2>2
    <3> QED
      BY <1>2, <1>3, <1>4, <2>2, <3>1
  <2> QED
    BY <2>1, <2>2
<1>7. w = At(t, Len(t))
  <2>1. CASE Len(u) = 0
    <3>1. Len(s) = 0 /\ Len(t) = 0
      BY <1>1, <1>2, <2>1
    <3>2. At(t, 0) = None
      BY <1>1, AtIs
    <3> QED
      BY <1>2, <1>3, <2>1, <3>1, <3>2
  <2>2. CASE Len(u) # 0
    <3>1. Len(u) \in 1..(Len(u) + 1)
      BY <1>2, <2>2
    <3> QED
      BY <1>1, <1>3, <1>5, <3>1
  <2> QED
    BY <2>1, <2>2
<1>8. ASSUME NEW i \in 1..Len(t) PROVE l2[t[i]] = At(t, i + 1)
  <2>1. CASE i \in 1..Len(s) /\ i # Len(s)
    <3>1. i + 1 \in 1..Len(s) /\ Len(s) \in Int
      BY <1>2, <2>1
    <3>2. s[i] # At(s, Len(s))
      BY <1>2, <2>1, <3>1, AtDiffers
    <3>3. l2[s[i]] = At(s, i + 1)
      BY <1>2, <1>3, <2>1, <3>2
    <3>4. t[i] = s[i]
      BY <1>1, <2>1
    <3>5. At(t, i + 1) = s[i + 1] /\ At(s, i + 1) = s[i + 1]
      BY <1>2, <1>4, <3>1
    <3> QED
      BY <3>3, <3>4, <3>5
  <2>2. CASE i \in 1..Len(s) /\ i = Len(s)
    <3>1. l2[s[i]] = At(u, 1)
      BY <1>2, <2>2
    <3>2. At(t, Len(s) + 1) = At(u, 1)
      BY <1>2, <1>5
    <3> QED
      BY <1>1, <2>2, <3>1, <3>2
  <2>3. CASE i \notin 1..Len(s)
    <3> DEFINE j == i - Len(s)
    <3>1. j \in 1..Len(u) /\ i = Len(s) + j /\ i + 1 = Len(s) + (j + 1) /\ j + 1 \in 1..(Len(u) + 1)
      BY <1>1, <1>2, <2>3
    <3> HIDE DEF j
    <3>2. t[i] = u[j] /\ u[j] # At(s, Len(s))
      <4>1. Len(s) # 0 => Len(s) \in 1..Len(s)
        BY <1>2
      <4> QED
        BY <1>1, <1>2, <3>1, <4>1
    <3>3. l2[u[j]] = At(u, j + 1)
      BY <1>2, <1>3, <3>1, <3>2
    <3> QED
      BY <1>5, <3>1, <3>2, <3>3
  <2> QED
    BY <2>1, <2>2, <2>3
<1> QED
  BY <1>6, <1>7, <1>8 DEF Line

(* The heads f and t and the links l are those of the lists F.             *)
Listing(f, t, l, F) ==
    /\ f \in Ends /\ t \in Ends /\ l \in Links
    /\ F \in [Heads -> Seq(Nodes)]
    /\ \A h \in Heads : Line(f[h], t[h], l, F[h])
    /\ Apart({}, F)
    /\ \A n \in Nodes : Away({}, F, n) => l[n] = None

(* What Listing says of one list.                                          *)
LEMMA ListingFacts ==
  ASSUME NEW f, NEW t, NEW l, NEW F, Listing(f, t, l, F), NEW h \in Heads
  PROVE  /\ F[h] \in Seq(Nodes) /\ Distinct(F[h]) /\ Line(f[h], t[h], l, F[h]) /\ Len(F[h]) \in Nat
         /\ \A g \in Heads \ {h} : \A i \in 1..Len(F[g]), j \in 1..Len(F[h]) : F[g][i] # F[h][j]
<1>1. F[h] \in Seq(Nodes) /\ Line(f[h], t[h], l, F[h])
  BY DEF Listing
<1>2. \A g \in Heads : \A i \in 1..Len(F[g]), j \in 1..Len(F[h]) : F[g][i] = F[h][j] => g = h /\ i = j
  BY DEF Listing, Apart
<1>3. Distinct(F[h])
  BY <1>2 DEF Distinct
<1> QED
  BY <1>1, <1>2, <1>3, LenProperties

(* What one meets from the first entry, and from the j-th, of each list.   *)
LEMMA ListingSeen ==
  ASSUME NEW f, NEW t, NEW l, NEW F, Listing(f, t, l, F), NEW h \in Heads
  PROVE  /\ Chain(f[h], l) = F[h]
         /\ \A j \in 1..(Len(F[h]) + 1) : Chain(At(F[h], j), l) = SubSeq(F[h], j, Len(F[h]))
<1> DEFINE s == F[h]
<1>1. s \in Seq(Nodes) /\ Distinct(s) /\ Line(f[h], t[h], l, s) /\ Len(s) \in Nat
  BY ListingFacts
<1> HIDE DEF s
<1>2. \A j \in 1..(Len(s) + 1) : Chain(At(s, j), l) = SubSeq(s, j, Len(s))
  BY <1>1, LineFollows
<1>3. f[h] = At(s, 1)
  BY <1>1 DEF Line
<1>4. SubSeq(s, 1, Len(s)) = s
  BY <1>1, SubSeqFull
<1>5. 1 \in 1..(Len(s) + 1)
  BY <1>1
<1>6. Chain(f[h], l) = s
  BY <1>2, <1>3, <1>4, <1>5
<1> QED
  BY <1>2, <1>6 DEF s

(* The lists of H are changed, the entries of the others are not touched.  *)
LinksKept(l, l2, F, H) ==
    \A g \in Heads \ H : \A i \in 1..Len(F[g]) : l2[F[g][i]] = l[F[g][i]]
SameElsewhere(f, f2, H) == \A g \in Heads \ H : f2[g] = f[g]
NewLines(f2, t2, l2, F2, H) == \A h \in H : Line(f2[h], t2[h], l2, F2[h])
NullLinks(l2, F2) == \A n \in Nodes : Away({}, F2, n) => l2[n] = None

(* A step that changes the lists of the heads H, and no link of the        *)
(* others, keeps the lists disjoint if the new ones are.                   *)
LEMMA ListingChange ==
  ASSUME NEW f, NEW t, NEW l, NEW F, Listing(f, t, l, F), NEW H \in SUBSET Heads,
         NEW f2 \in Ends, NEW t2 \in Ends, NEW l2 \in Links, NEW F2 \in [Heads -> Seq(Nodes)],
         SameElsewhere(F, F2, H), SameElsewhere(f, f2, H), SameElsewhere(t, t2, H),
         LinksKept(l, l2, F, H), NewLines(f2, t2, l2, F2, H), NewApart({}, F, {}, F2, H), NullLinks(l2, F2)
  PROVE  Listing(f2, t2, l2, F2)
<1>1. ASSUME NEW g \in Heads PROVE Line(f2[g], t2[g], l2, F2[g])
  <2>1. CASE g \in H
    BY <2>1 DEF NewLines
  <2>2. CASE g \notin H
    <3>1. F2[g] = F[g] /\ f2[g] = f[g] /\ t2[g] = t[g]
      BY <2>2 DEF SameElsewhere
    <3>2. Line(f[g], t[g], l, F[g])
      BY DEF Listing
    <3>3. \A i \in 1..Len(F[g]) : l2[F[g][i]] = l[F[g][i]]
      BY <2>2 DEF LinksKept
    <3>4. Line(f[g], t[g], l2, F[g])
      BY <3>2, <3>3 DEF Line
    <3> QED
      BY <3>1, <3>4
  <2> QED
    BY <2>1, <2>2
<1>2. ASSUME NEW g \in Heads, NEW h \in Heads, NEW i \in 1..Len(F2[g]), NEW j \in 1..Len(F2[h]), F2[g][i] = F2[h][j]
      PROVE  g = h /\ i = j
  <2>1. CASE g \in H /\ h \in H
    BY <1>2, <2>1 DEF NewApart
  <2>2. CASE g \notin H /\ h \in H
    BY <1>2, <2>2 DEF NewApart, SameElsewhere
  <2>3. CASE g \in H /\ h \notin H
    BY <1>2, <2>3 DEF NewApart, SameElsewhere
  <2>4. CASE g \notin H /\ h \notin H
    <3>1. F2[g] = F[g] /\ F2[h] = F[h]
      BY <2>4 DEF SameElsewhere
    <3>2. Apart({}, F)
      BY DEF Listing
    <3> QED
      BY <1>2, <3>1, <3>2, SMTT(30) DEF Apart
  <2> QED
    BY <2>1, <2>2, <2>3, <2>4
<1>3. Apart({}, F2)
  BY <1>2 DEF Apart
<1> QED
  BY <1>1, <1>3 DEF Listing, NullLinks

(* The lists, and either end of them, changed at one head.                 *)
LEMMA OneHead ==
  ASSUME NEW S, NEW F \in [Heads -> S], NEW h \in Heads, NEW v \in S
  PROVE  /\ [F EXCEPT ![h] = v] \in [Heads -> S]
         /\ [F EXCEPT ![h] = v][h] = v
         /\ SameElsewhere(F, [F EXCEPT ![h] = v], {h})
BY DEF SameElsewhere

(* A free entry put behind the k-th of list h.                             *)
LEMMA ListingIn ==
  ASSUME NEW f, NEW t, NEW l, NEW F, Listing(f, t, l, F), NEW h \in Heads,
         NEW k \in 0..Len(F[h]), NEW n \in Nodes, Away({}, F, n), NEW s2, Inserted(F[h], s2, k, n),
         NEW l2, Relinked(l, l2, n, At(F[h], k + 1), At(F[h], k), n)
  PROVE  Listing([f EXCEPT ![h] = IF k = 0 THEN n ELSE f[h]],
                 [t EXCEPT ![h] = IF k = Len(F[h]) THEN n ELSE t[h]], l2, [F EXCEPT ![h] = s2])
<1> DEFINE s == F[h]
           p2 == IF k = 0 THEN n ELSE f[h]
           q2 == IF k = Len(s) THEN n ELSE t[h]
           f2 == [f EXCEPT ![h] = p2]
           t2 == [t EXCEPT ![h] = q2]
           F2 == [F EXCEPT ![h] = s2]
<1>1. s \in Seq(Nodes) /\ Distinct(s) /\ Line(f[h], t[h], l, s) /\ Len(s) \in Nat
      /\ f \in Ends /\ t \in Ends /\ F \in [Heads -> Seq(Nodes)]
  BY ListingFacts DEF Listing
<1>2. \A g \in Heads : \A i \in 1..Len(F[g]) : F[g][i] # n
  BY DEF Away
<1>3. \A i \in 1..Len(s) : s[i] # n
  BY <1>2
<1>4. /\ s2 \in Seq(Nodes) /\ Distinct(s2)
      /\ \A j \in 1..Len(s2) : s2[j] = n \/ \E i \in 1..Len(s) : s2[j] = s[i]
      /\ \A i \in 1..Len(s) : \E j \in 1..Len(s2) : s2[j] = s[i]
      /\ \E j \in 1..Len(s2) : s2[j] = n
  <2> HIDE DEF s
  <2>1. Inserted(s, s2, k, n) /\ k \in 0..Len(s)
    BY DEF s
  <2> QED
    BY <1>1, <1>3, <2>1, InsertedEntries
<1>5. p2 \in Nodes \cup {None} /\ q2 \in Nodes \cup {None}
  BY <1>1 DEF Ends
<1>6. Line(p2, q2, l2, s2)
  <2> HIDE DEF s
  <2>1. Inserted(s, s2, k, n) /\ k \in 0..Len(s) /\ Relinked(l, l2, n, At(s, k + 1), At(s, k), n)
    BY DEF s
  <2> QED
    BY <1>1, <1>3, <2>1, LineIn
<1> HIDE DEF p2, q2
<1>7. /\ f2 \in Ends /\ f2[h] = p2 /\ SameElsewhere(f, f2, {h})
      /\ t2 \in Ends /\ t2[h] = q2 /\ SameElsewhere(t, t2, {h})
  BY <1>1, <1>5, OneHead DEF Ends
<1>8. F2 \in [Heads -> Seq(Nodes)] /\ F2[h] = s2 /\ SameElsewhere(F, F2, {h})
  BY <1>1, <1>4, OneHead
<1> HIDE DEF f2, t2, F2
<1>9. At(s, k) = None \/ \E i \in 1..Len(s) : At(s, k) = s[i]
  <2> HIDE DEF s
  <2> QED
    BY <1>1, AtIs
<1>10. \A g \in Heads \ {h} : \A i \in 1..Len(F[g]), j \in 1..Len(s) : F[g][i] # s[j]
  BY ListingFacts
<1>11. l2 \in Links /\ \A e \in Nodes : e # n /\ e # At(s, k) => l2[e] = l[e]
  BY DEF Relinked
<1>12. LinksKept(l, l2, F, {h})
  <2> SUFFICES ASSUME NEW g \in Heads \ {h}, NEW i \in 1..Len(F[g]) PROVE l2[F[g][i]] = l[F[g][i]]
    BY DEF LinksKept
  <2>1. F[g][i] \in Nodes /\ F[g][i] # None
    BY <1>1, AtIs
  <2>2. F[g][i] # At(s, k)
    BY <1>9, <1>10, <2>1
  <2> QED
    BY <1>2, <1>11, <2>1, <2>2
<1>13. NewApart({}, F, {}, F2, {h})
  <2>1. ASSUME NEW g \in Heads \ {h}, NEW i \in 1..Len(F[g]), NEW j \in 1..Len(s2) PROVE F[g][i] # s2[j]
    BY <1>2, <1>4, <1>10
  <2>2. \A i, j \in 1..Len(s2) : s2[i] = s2[j] => i = j
    BY <1>4 DEF Distinct
  <2> QED
    BY <1>8, <2>1, <2>2 DEF NewApart
<1>14. NullLinks(l2, F2)
  <2> SUFFICES ASSUME NEW e \in Nodes, Away({}, F2, e) PROVE l2[e] = None
    BY DEF NullLinks
  <2>1. \A j \in 1..Len(s2) : s2[j] # e
    BY <1>8 DEF Away
  <2>2. e # n /\ \A i \in 1..Len(s) : s[i] # e
    BY <1>4, <2>1
  <2>3. Away({}, F, e)
    <3> SUFFICES ASSUME NEW g \in Heads, NEW i \in 1..Len(F[g]) PROVE F[g][i] # e
      BY DEF Away
    <3>1. CASE g = h
      BY <2>2, <3>1
    <3>2. CASE g # h
      BY <1>8, <3>2 DEF Away, SameElsewhere
    <3> QED
      BY <3>1, <3>2
  <2>4. l[e] = None
    BY <2>3 DEF Listing
  <2>5. e # At(s, k)
    <3>1. e # None
      BY CellsAssumption
    <3> QED
      BY <1>9, <2>2, <3>1
  <2> QED
    BY <1>11, <2>2, <2>4, <2>5
<1>15. NewLines(f2, t2, l2, F2, {h})
  BY <1>6, <1>7, <1>8 DEF NewLines
<1>16. Listing(f2, t2, l2, F2)
  BY <1>7, <1>8, <1>11, <1>12, <1>13, <1>14, <1>15, ListingChange
<1> QED
  BY <1>16 DEF f2, t2, F2, p2, q2, s

(* The k-th entry of list h taken out; it is then free.                    *)
LEMMA ListingOut ==
  ASSUME NEW f, NEW t, NEW l, NEW F, Listing(f, t, l, F), NEW h \in Heads,
         NEW k \in 1..Len(F[h]), NEW s2, Deleted(F[h], s2, k),
         NEW l2, Relinked(l, l2, F[h][k], None, At(F[h], k - 1), At(F[h], k + 1))
  PROVE  /\ Listing([f EXCEPT ![h] = IF k = 1 THEN At(F[h], 2) ELSE f[h]],
                    [t EXCEPT ![h] = IF k = Len(F[h]) THEN At(F[h], k - 1) ELSE t[h]],
                    l2, [F EXCEPT ![h] = s2])
         /\ Away({}, [F EXCEPT ![h] = s2], F[h][k])
<1> DEFINE s == F[h]
           n == s[k]
           p2 == IF k = 1 THEN At(s, 2) ELSE f[h]
           q2 == IF k = Len(s) THEN At(s, k - 1) ELSE t[h]
           f2 == [f EXCEPT ![h] = p2]
           t2 == [t EXCEPT ![h] = q2]
           F2 == [F EXCEPT ![h] = s2]
<1>1. s \in Seq(Nodes) /\ Distinct(s) /\ Line(f[h], t[h], l, s) /\ Len(s) \in Nat
      /\ f \in Ends /\ t \in Ends /\ F \in [Heads -> Seq(Nodes)]
  BY ListingFacts, ZenonT(60) DEF Listing
<1>2. Deleted(s, s2, k) /\ k \in 1..Len(s) /\ k - 1 \in Int /\ Relinked(l, l2, n, None, At(s, k - 1), At(s, k + 1))
  OBVIOUS
<1>3. \A g \in Heads \ {h} : \A i \in 1..Len(F[g]), j \in 1..Len(s) : F[g][i] # s[j]
  BY ListingFacts
<1> HIDE DEF s
<1>4. /\ s2 \in Seq(Nodes) /\ Distinct(s2)
      /\ \A j \in 1..Len(s2) : s2[j] # n /\ \E i \in 1..Len(s) : s2[j] = s[i]
      /\ \A i \in 1..Len(s) : i # k => \E j \in 1..Len(s2) : s2[j] = s[i]
  BY <1>1, <1>2, DeletedEntries
<1>5. Line(p2, q2, l2, s2)
  BY <1>1, <1>2, LineOut
<1>6. p2 \in Nodes \cup {None} /\ q2 \in Nodes \cup {None}
  <2>1. At(s, 2) \in Nodes \cup {None} /\ At(s, k - 1) \in Nodes \cup {None}
    BY <1>1, <1>2, AtIs
  <2> QED
    BY <1>1, <2>1 DEF Ends
<1>7. At(s, k - 1) = None \/ \E i \in 1..Len(s) : i # k /\ At(s, k - 1) = s[i]
  <2>1. CASE k = 1
    BY <1>1, <2>1, AtIs
  <2>2. CASE k # 1
    <3>1. k - 1 \in 1..Len(s) /\ k - 1 # k
      BY <1>1, <1>2, <2>2
    <3> QED
      BY <1>1, <3>1, AtIs
  <2> QED
    BY <2>1, <2>2
<1> HIDE DEF p2, q2
<1>8. /\ f2 \in Ends /\ f2[h] = p2 /\ SameElsewhere(f, f2, {h})
      /\ t2 \in Ends /\ t2[h] = q2 /\ SameElsewhere(t, t2, {h})
  BY <1>1, <1>6, OneHead DEF Ends
<1>9. F2 \in [Heads -> Seq(Nodes)] /\ F2[h] = s2 /\ SameElsewhere(F, F2, {h})
  BY <1>1, <1>4, OneHead
<1> HIDE DEF f2, t2, F2
<1>10. l2 \in Links /\ l2[n] = None /\ \A e \in Nodes : e # n /\ e # At(s, k - 1) => l2[e] = l[e]
  <2>1. n \in Nodes
    BY <1>1, <1>2, AtIs
  <2> HIDE DEF n
  <2> QED
    BY <1>2, <2>1 DEF Relinked
<1>11. LinksKept(l, l2, F, {h})
  <2> SUFFICES ASSUME NEW g \in Heads \ {h}, NEW i \in 1..Len(F[g]) PROVE l2[F[g][i]] = l[F[g][i]]
    BY DEF LinksKept
  <2>1. F[g][i] \in Nodes /\ F[g][i] # None
    BY <1>1, AtIs
  <2>2. F[g][i] # At(s, k - 1) /\ F[g][i] # n
    BY <1>2, <1>3, <1>7, <2>1
  <2> QED
    BY <1>10, <2>1, <2>2
<1>12. NewApart({}, F, {}, F2, {h})
  <2>1. ASSUME NEW g \in Heads \ {h}, NEW i \in 1..Len(F[g]), NEW j \in 1..Len(s2) PROVE F[g][i] # s2[j]
    BY <1>3, <1>4
  <2>2. \A i, j \in 1..Len(s2) : s2[i] = s2[j] => i = j
    BY <1>4 DEF Distinct
  <2> QED
    BY <1>9, <2>1, <2>2 DEF NewApart
<1>13. NullLinks(l2, F2)
  <2> SUFFICES ASSUME NEW e \in Nodes, Away({}, F2, e), e # n PROVE l2[e] = None
    BY <1>10 DEF NullLinks
  <2>1. \A j \in 1..Len(s2) : s2[j] # e
    BY <1>9 DEF Away
  <2>2. \A i \in 1..Len(s) : s[i] # e
    BY <1>4, <2>1
  <2>3. Away({}, F, e)
    <3> SUFFICES ASSUME NEW g \in Heads, NEW i \in 1..Len(F[g]) PROVE F[g][i] # e
      BY DEF Away
    <3>1. CASE g = h
      BY <2>2, <3>1 DEF s
    <3>2. CASE g # h
      BY <1>9, <3>2 DEF Away, SameElsewhere
    <3> QED
      BY <3>1, <3>2
  <2>4. l[e] = None
    BY <2>3 DEF Listing
  <2>5. e # At(s, k - 1)
    <3>1. e # None
      BY CellsAssumption
    <3> QED
      BY <1>7, <2>2, <3>1
  <2> QED
    BY <1>10, <2>4, <2>5
<1>14. NewLines(f2, t2, l2, F2, {h})
  BY <1>5, <1>8, <1>9 DEF NewLines
<1>15. Listing(f2, t2, l2, F2)
  BY <1>8, <1>9, <1>10, <1>11, <1>12, <1>13, <1>14, ListingChange
<1>16. Away({}, F2, n)
  <2> SUFFICES ASSUME NEW g \in Heads, NEW i \in 1..Len(F2[g]) PROVE F2[g][i] # n
    BY DEF Away
  <2>1. CASE g = h
    BY <1>4, <1>9, <2>1
  <2>2. CASE g # h
    <3>1. F2[g] = F[g]
      BY <1>9, <2>2 DEF SameElsewhere
    <3> QED
      BY <1>2, <1>3, <2>2, <3>1
  <2> QED
    BY <2>1, <2>2
<1> QED
  BY <1>15, <1>16 DEF f2, t2, F2, p2, q2, n, s

(* The two pointers tell whether the list is empty.                        *)
LEMMA LineEnds ==
  ASSUME NEW p, NEW q, NEW l, NEW s \in Seq(Nodes), Line(p, q, l, s)
  PROVE  /\ p = None <=> Len(s) = 0
         /\ q = None <=> Len(s) = 0
         /\ Len(s) = 0 <=> s = <<>>
         /\ Len(s) # 0 => p = s[1] /\ q = s[Len(s)] /\ 1 \in 1..Len(s) /\ Len(s) \in 1..Len(s)
<1>1. p = At(s, 1) /\ q = At(s, Len(s)) /\ Len(s) \in Nat
  BY LenProperties DEF Line
<1>2. CASE Len(s) = 0
  <2>1. 1 \in Int /\ 1 \notin 1..Len(s) /\ Len(s) \in Int /\ Len(s) \notin 1..Len(s)
    BY <1>2
  <2>2. p = None /\ q = None
    BY <1>1, <2>1, AtIs
  <2> QED
    BY <1>2, <2>2, EmptySeq
<1>3. CASE Len(s) # 0
  <2>1. 1 \in 1..Len(s) /\ Len(s) \in 1..Len(s)
    BY <1>1, <1>3
  <2>2. p = s[1] /\ q = s[Len(s)] /\ p # None /\ q # None
    BY <1>1, <2>1, AtIs
  <2>3. s # <<>>
    BY <1>3
  <2> QED
    BY <1>3, <2>1, <2>2, <2>3
<1> QED
  BY <1>2, <1>3

(* The lists, and either end of them, changed at two heads.                *)
LEMMA TwoHeads ==
  ASSUME NEW S, NEW F \in [Heads -> S], NEW g \in Heads, NEW h \in Heads, g # h, NEW v \in S, NEW w \in S
  PROVE  /\ [F EXCEPT ![h] = v, ![g] = w] \in [Heads -> S]
         /\ [F EXCEPT ![h] = v, ![g] = w][h] = v
         /\ [F EXCEPT ![h] = v, ![g] = w][g] = w
         /\ SameElsewhere(F, [F EXCEPT ![h] = v, ![g] = w], {g, h})
BY DEF SameElsewhere

(* List g put behind list h, unless only g is empty.                       *)
LEMMA ListingJoin ==
  ASSUME NEW f, NEW t, NEW l, NEW F, Listing(f, t, l, F), NEW g \in Heads, NEW h \in Heads, g # h,
         Len(F[h]) = 0 \/ Len(F[g]) # 0
  PROVE  Listing([f EXCEPT ![h] = IF f[h] = None THEN f[g] ELSE f[h], ![g] = None],
                 [t EXCEPT ![h] = t[g], ![g] = None],
                 IF f[h] = None THEN l ELSE [l EXCEPT ![t[h]] = f[g]],
                 [F EXCEPT ![h] = F[h] \o F[g], ![g] = <<>>])
<1> DEFINE s == F[h]
           u == F[g]
           s2 == s \o u
           p2 == IF f[h] = None THEN f[g] ELSE f[h]
           f2 == [f EXCEPT ![h] = p2, ![g] = None]
           t2 == [t EXCEPT ![h] = t[g], ![g] = None]
           l2 == IF f[h] = None THEN l ELSE [l EXCEPT ![t[h]] = f[g]]
           F2 == [F EXCEPT ![h] = s2, ![g] = <<>>]
<1>1. /\ s \in Seq(Nodes) /\ Distinct(s) /\ Line(f[h], t[h], l, s) /\ Len(s) \in Nat
      /\ u \in Seq(Nodes) /\ Distinct(u) /\ Line(f[g], t[g], l, u) /\ Len(u) \in Nat
      /\ f \in Ends /\ t \in Ends /\ l \in Links /\ F \in [Heads -> Seq(Nodes)]
  BY ListingFacts, ZenonT(60) DEF Listing
<1>2. /\ \A k \in Heads \ {h} : \A i \in 1..Len(F[k]), j \in 1..Len(s) : F[k][i] # s[j]
      /\ \A k \in Heads \ {g} : \A i \in 1..Len(F[k]), j \in 1..Len(u) : F[k][i] # u[j]
  BY ListingFacts
<1>3. \A i \in 1..Len(s), j \in 1..Len(u) : s[i] # u[j]
  BY <1>2
<1>4. Len(s) = 0 \/ Len(u) # 0
  OBVIOUS
<1>5. /\ f[h] \in Nodes \cup {None} /\ t[h] \in Nodes \cup {None}
      /\ f[g] \in Nodes \cup {None} /\ t[g] \in Nodes \cup {None}
  BY <1>1 DEF Ends
<1> HIDE DEF s, u
<1>6. Put(s, u, s2, Len(s))
  BY <1>1, EndsPut
<1> HIDE DEF s2
<1>7. /\ s2 \in Seq(Nodes) /\ Distinct(s2) /\ Len(s2) = Len(s) + Len(u)
      /\ \A j \in 1..Len(s) : s2[j] = s[j]
      /\ \A j \in 1..Len(u) : s2[Len(s) + j] = u[j]
      /\ \A j \in 1..Len(s2) : j \in 1..Len(s) \/ j - Len(s) \in 1..Len(u)
  BY <1>1, <1>3, <1>6, PutEntries
<1>8. /\ f[h] = None <=> Len(s) = 0
      /\ t[h] = None <=> Len(s) = 0
      /\ f[g] = At(u, 1) /\ t[h] = At(s, Len(s))
  <2>1. f[h] = None <=> Len(s) = 0
    BY <1>1, LineEnds
  <2>2. t[h] = None <=> Len(s) = 0
    BY <1>1, LineEnds
  <2>3. f[g] = At(u, 1) /\ t[h] = At(s, Len(s))
    BY <1>1 DEF Line
  <2> QED
    BY <2>1, <2>2, <2>3
<1>9. l2 \in Links /\ \A e \in Nodes : l2[e] = IF e = t[h] THEN f[g] ELSE l[e]
  <2>1. CASE f[h] = None
    BY <1>1, <1>8, <2>1, CellsAssumption
  <2>2. CASE f[h] # None
    <3>1. t[h] \in Nodes
      BY <1>5, <1>8, <2>2
    <3> QED
      BY <1>1, <1>5, <2>2, <3>1 DEF Links
  <2> QED
    BY <2>1, <2>2
<1> HIDE DEF l2
<1>10. Line(IF Len(s) = 0 THEN f[g] ELSE f[h], t[g], l2, s2)
  <2>1. \A e \in Nodes : l2[e] = IF e = At(s, Len(s)) THEN At(u, 1) ELSE l[e]
    BY <1>8, <1>9
  <2> QED
    BY <1>1, <1>3, <1>4, <1>6, <2>1, LinePut
<1>11. p2 = (IF Len(s) = 0 THEN f[g] ELSE f[h]) /\ p2 \in Nodes \cup {None}
  BY <1>5, <1>8
<1> HIDE DEF p2
<1>12. /\ f2 \in Ends /\ f2[h] = p2 /\ f2[g] = None /\ SameElsewhere(f, f2, {g, h})
       /\ t2 \in Ends /\ t2[h] = t[g] /\ t2[g] = None /\ SameElsewhere(t, t2, {g, h})
  <2> DEFINE S == Nodes \cup {None}
  <2>1. f \in [Heads -> S] /\ t \in [Heads -> S] /\ p2 \in S /\ t[g] \in S /\ None \in S
    BY <1>1, <1>5, <1>11 DEF Ends
  <2> HIDE DEF S
  <2>2. /\ [f EXCEPT ![h] = p2, ![g] = None] \in [Heads -> S]
        /\ [f EXCEPT ![h] = p2, ![g] = None][h] = p2
        /\ [f EXCEPT ![h] = p2, ![g] = None][g] = None
        /\ SameElsewhere(f, [f EXCEPT ![h] = p2, ![g] = None], {g, h})
    <3> HIDE DEF f2
    <3> QED
      BY <2>1 DEF SameElsewhere
  <2>3. /\ [t EXCEPT ![h] = t[g], ![g] = None] \in [Heads -> S]
        /\ [t EXCEPT ![h] = t[g], ![g] = None][h] = t[g]
        /\ [t EXCEPT ![h] = t[g], ![g] = None][g] = None
        /\ SameElsewhere(t, [t EXCEPT ![h] = t[g], ![g] = None], {g, h})
    <3> DEFINE v == t[g]
    <3> HIDE DEF v, t2
    <3>1. /\ [t EXCEPT ![h] = v, ![g] = None] \in [Heads -> S]
          /\ [t EXCEPT ![h] = v, ![g] = None][h] = v
          /\ [t EXCEPT ![h] = v, ![g] = None][g] = None
          /\ SameElsewhere(t, [t EXCEPT ![h] = v, ![g] = None], {g, h})
      <4>1. v \in S
        BY <2>1 DEF v
      <4> QED
        BY <2>1, <4>1 DEF SameElsewhere
    <3> QED
      BY <3>1 DEF v
  <2> QED
    BY <2>2, <2>3 DEF S, Ends
<1>13. F2 \in [Heads -> Seq(Nodes)] /\ F2[h] = s2 /\ F2[g] = <<>> /\ SameElsewhere(F, F2, {g, h})
  <2> DEFINE S == Seq(Nodes)
             o == <<>>
  <2>1. F \in [Heads -> S] /\ s2 \in S /\ o \in S
    BY <1>1, <1>7, EmptySeq
  <2> HIDE DEF S, o
  <2>2. /\ [F EXCEPT ![h] = s2, ![g] = o] \in [Heads -> S]
        /\ [F EXCEPT ![h] = s2, ![g] = o][h] = s2
        /\ [F EXCEPT ![h] = s2, ![g] = o][g] = o
        /\ SameElsewhere(F, [F EXCEPT ![h] = s2, ![g] = o], {g, h})
    BY <2>1, TwoHeads, ZenonT(60)
  <2> QED
    BY <2>2 DEF S, o
<1> HIDE DEF f2, t2, F2
<1>14. LinksKept(l, l2, F, {g, h})
  <2> SUFFICES ASSUME NEW k \in Heads \ {g, h}, NEW i \in 1..Len(F[k]) PROVE l2[F[k][i]] = l[F[k][i]]
    BY DEF LinksKept
  <2>1. F[k][i] \in Nodes /\ F[k][i] # None
    BY <1>1, AtIs
  <2>2. t[h] = None \/ \E j \in 1..Len(s) : t[h] = s[j]
    BY <1>1, LineEnds
  <2>3. F[k][i] # t[h]
    BY <1>2, <2>1, <2>2
  <2> QED
    BY <1>9, <2>1, <2>3
<1>15. \A j \in 1..Len(s2) : (\E i \in 1..Len(s) : s2[j] = s[i]) \/ (\E i \in 1..Len(u) : s2[j] = u[i])
  <2> SUFFICES ASSUME NEW j \in 1..Len(s2), j \notin 1..Len(s)
               PROVE  \E i \in 1..Len(u) : s2[j] = u[i]
    BY <1>7
  <2>1. j - Len(s) \in 1..Len(u) /\ Len(s) + (j - Len(s)) = j
    BY <1>1, <1>7
  <2>2. s2[j] = u[j - Len(s)]
    BY <1>7, <2>1
  <2> QED
    BY <2>1, <2>2
<1>16. NewApart({}, F, {}, F2, {g, h})
  <2>1. ASSUME NEW k \in Heads \ {g, h}, NEW i \in 1..Len(F[k]), NEW j \in 1..Len(s2) PROVE F[k][i] # s2[j]
    BY <1>2, <1>15
  <2>2. \A i, j \in 1..Len(s2) : s2[i] = s2[j] => i = j
    BY <1>7 DEF Distinct
  <2>3. Len(F2[g]) = 0
    BY <1>13, EmptySeq
  <2>4. ASSUME NEW k \in {g, h}, NEW r \in {g, h}, NEW i \in 1..Len(F2[k]), NEW j \in 1..Len(F2[r]), F2[k][i] = F2[r][j]
        PROVE  k = r /\ i = j
    <3>1. k = h /\ r = h
      BY <2>3, <2>4
    <3> QED
      BY <1>13, <2>2, <2>4, <3>1
  <2>5. ASSUME NEW k \in Heads \ {g, h}, NEW r \in {g, h}, NEW i \in 1..Len(F[k]), NEW j \in 1..Len(F2[r])
        PROVE  F[k][i] # F2[r][j]
    <3>1. r = h
      BY <2>3, <2>5
    <3> QED
      BY <1>13, <2>1, <2>5, <3>1
  <2> QED
    BY <2>4, <2>5 DEF NewApart
<1>17. NullLinks(l2, F2)
  <2> SUFFICES ASSUME NEW e \in Nodes, Away({}, F2, e) PROVE l2[e] = None
    BY DEF NullLinks
  <2>1. \A j \in 1..Len(s2) : s2[j] # e
    BY <1>13 DEF Away
  <2>2. \A i \in 1..Len(s) : s[i] # e
    <3> SUFFICES ASSUME NEW i \in 1..Len(s) PROVE s[i] # e
      OBVIOUS
    <3>1. i \in 1..Len(s2)
      BY <1>1, <1>7
    <3> QED
      BY <1>7, <2>1, <3>1
  <2>3. \A i \in 1..Len(u) : u[i] # e
    <3> SUFFICES ASSUME NEW i \in 1..Len(u) PROVE u[i] # e
      OBVIOUS
    <3>1. Len(s) + i \in 1..Len(s2)
      BY <1>1, <1>7
    <3> QED
      BY <1>7, <2>1, <3>1
  <2>4. Away({}, F, e)
    <3> SUFFICES ASSUME NEW k \in Heads, NEW i \in 1..Len(F[k]) PROVE F[k][i] # e
      BY DEF Away
    <3>1. CASE k = h
      BY <2>2, <3>1 DEF s
    <3>2. CASE k = g
      BY <2>3, <3>2 DEF u
    <3>3. CASE k # g /\ k # h
      BY <1>13, <3>3 DEF Away, SameElsewhere
    <3> QED
      BY <3>1, <3>2, <3>3
  <2>5. l[e] = None
    BY <2>4 DEF Listing
  <2>6. e # t[h]
    <3>1. t[h] = None \/ \E j \in 1..Len(s) : t[h] = s[j]
      BY <1>1, LineEnds
    <3>2. e # None
      BY CellsAssumption
    <3> QED
      BY <2>2, <3>1, <3>2
  <2> QED
    BY <1>9, <2>5, <2>6
<1>18. NewLines(f2, t2, l2, F2, {g, h})
  <2>1. Line(None, None, l2, <<>>)
    <3>1. <<>> \in Seq(Nodes) /\ Len(<<>>) = 0
      BY EmptySeq
    <3>2. At(<<>>, 1) = None /\ At(<<>>, 0) = None
      BY <3>1 DEF At, Cell
    <3> QED
      BY <3>1, <3>2 DEF Line
  <2> QED
    BY <1>10, <1>11, <1>12, <1>13, <2>1 DEF NewLines
<1>19. Listing(f2, t2, l2, F2)
  BY <1>9, <1>12, <1>13, <1>14, <1>16, <1>17, <1>18, ListingChange
<1> QED
  BY <1>19 DEF f2, t2, l2, F2, p2, s2, s, u

-----------------------------------------------------------------------------
(* What a loop of lists.h keeps: the i-th entry of s is its next one; the  *)
(* one before is __new_prev, but right after an INSERT_BEFORE_CURRENT; the *)
(* two before are the current one and __list_prev, while the current one   *)
(* is in the list and nothing has been inserted.                           *)
StandsAt(w, s, i) ==
    /\ w.next = At(s, i)
    /\ w.put # {"now"} => w.newPrev = At(s, i - 1)
    /\ w.put = {} /\ w.var \in Range(s) => i > 1 /\ w.var = s[i - 1] /\ w.prev = At(s, i - 2)

Loops(w) ==
    /\ w.of \in Heads /\ w.var \in Nodes /\ w.put \in {{}, {"now"}, {"before"}}
    /\ w = [of |-> w.of, var |-> w.var, prev |-> w.prev, newPrev |-> w.newPrev,
            next |-> w.next, put |-> w.put]

OnLoop(w, F) ==
    w # Tgap!NoWalk => Loops(w) /\ \E i \in 1..(Len(F[w.of]) + 1) : StandsAt(w, F[w.of], i)

(* The inductive invariant of lists.h, until a call nothing is promised of.*)
TgapInv == ok \in BOOLEAN /\ (ok => Listing(first, last, link, Tgap!Lists) /\ OnLoop(tgapWalk, Tgap!Lists))

(* The model sees the lists that the pointers are those of.                *)
LEMMA TgapSeen ==
  ASSUME NEW F, Listing(first, last, link, F)
  PROVE  /\ Tgap!Lists = F
         /\ \A h \in Heads : Tgap!Content(h) = F[h] /\ (Tgap!Empty(h) <=> Len(F[h]) = 0) /\ (Tgap!Empty(h) <=> F[h] = <<>>)
         /\ \A n \in Nodes : n \in Tgap!Unlisted <=> Away({}, F, n)
<1>1. ASSUME NEW h \in Heads PROVE Tgap!Content(h) = F[h]
  BY ListingSeen, TgapOperators DEF Tgap!Content
<1>2. F \in [Heads -> Seq(Nodes)]
  BY DEF Listing
<1>3. Tgap!Lists = F
  BY <1>1, <1>2 DEF Tgap!Lists
<1>4. ASSUME NEW h \in Heads PROVE (Tgap!Empty(h) <=> Len(F[h]) = 0) /\ (Tgap!Empty(h) <=> F[h] = <<>>)
  <2>1. F[h] \in Seq(Nodes) /\ Line(first[h], last[h], link, F[h])
    BY ListingFacts
  <2>2. (first[h] = None <=> Len(F[h]) = 0) /\ (Len(F[h]) = 0 <=> F[h] = <<>>)
    BY <2>1, LineEnds
  <2> QED
    BY <2>2 DEF Tgap!Empty
<1>5. ASSUME NEW n \in Nodes PROVE n \in Tgap!Unlisted <=> Away({}, F, n)
  <2>1. n \in Tgap!Unlisted <=> \A h \in Heads : n \notin Range(F[h])
    BY <1>1, TgapOperators DEF Tgap!Unlisted
  <2>2. ASSUME NEW h \in Heads PROVE n \notin Range(F[h]) <=> \A i \in 1..Len(F[h]) : F[h][i] # n
    BY <1>2, InRange
  <2>3. Away({}, F, n) <=> \A h \in Heads : \A i \in 1..Len(F[h]) : F[h][i] # n
    BY DEF Away
  <2> QED
    BY <2>1, <2>2, <2>3
<1> QED
  BY <1>1, <1>3, <1>4, <1>5

(* After a step, too, the model sees these lists.                          *)
LEMMA TgapSeenNext ==
  ASSUME NEW F, Listing(first', last', link', F)
  PROVE  Tgap!Lists' = F
<1>1. ASSUME NEW h \in Heads PROVE Tgap!Chain(first'[h], link') = F[h]
  BY ListingSeen, TgapOperators
<1>2. F \in [Heads -> Seq(Nodes)]
  BY DEF Listing
<1>3. Tgap!Lists' = [h \in Heads |-> Tgap!Chain(first'[h], link')]
  BY DEF Tgap!Lists, Tgap!Content
<1> QED
  BY <1>1, <1>2, <1>3

(* Outside a loop there is nothing ahead.                                  *)
LEMMA NothingAhead == \A l : Chain(None, l) = <<>>
<1> SUFFICES ASSUME NEW l PROVE Chain(None, l) = <<>>
  OBVIOUS
<1>1. <<>> \in Seq(Nodes) /\ Len(<<>>) = 0 /\ DOMAIN <<>> = {}
  BY EmptySeq
<1>2. Follows(<<>>, None, l)
  BY <1>1, CellsAssumption DEF Follows, Pointer
<1>3. Distinct(<<>>)
  BY <1>1 DEF Distinct
<1> QED
  BY <1>1, <1>2, <1>3, ChainIs

(* A loop that is over has nothing ahead.                                  *)
LEMMA NoLoop ==
  /\ tgapWalk = Tgap!NoWalk => Tgap!AbsWalk = Tgap!Promised!NoWalk
  /\ tgapWalk' = Tgap!NoWalk => Tgap!AbsWalk' = Tgap!Promised!NoWalk
<1>1. Tgap!Chain(None, link) = <<>> /\ Tgap!Chain(None, link') = <<>>
  BY NothingAhead, TgapOperators
<1>2. /\ Tgap!NoWalk.of = None /\ Tgap!NoWalk.var = None /\ Tgap!NoWalk.next = None /\ Tgap!NoWalk.put = {}
  BY DEF Tgap!NoWalk
<1>3. Tgap!AbsWalk = [of |-> tgapWalk.of, cur |-> tgapWalk.var, todo |-> Tgap!Chain(tgapWalk.next, link),
                      put |-> tgapWalk.put]
  BY DEF Tgap!AbsWalk
<1>4. Tgap!AbsWalk' = [of |-> tgapWalk'.of, cur |-> tgapWalk'.var, todo |-> Tgap!Chain(tgapWalk'.next, link'),
                       put |-> tgapWalk'.put]
  BY DEF Tgap!AbsWalk
<1>5. Tgap!Promised!NoWalk = [of |-> None, cur |-> None, todo |-> <<>>, put |-> {}]
  BY DEF Tgap!Promised!NoWalk
<1> QED
  BY <1>1, <1>2, <1>3, <1>4, <1>5

(* A call outside loops that leaves the lists F.                           *)
LEMMA TgapOutside ==
  ASSUME NEW c, Tgap!Plain(c), ok, ok' = ok, NEW F, Listing(first', last', link', F)
  PROVE  /\ TgapInv' /\ Tgap!Lists' = F
         /\ Tgap!Promised!Outside(c)
<1>1. tgapCall' = c /\ tgapWalk = Tgap!NoWalk /\ tgapWalk' = tgapWalk
  BY DEF Tgap!Plain, Tgap!Do
<1>2. Tgap!Lists' = F
  BY TgapSeenNext
<1>3. Tgap!AbsWalk = Tgap!Promised!NoWalk /\ Tgap!AbsWalk' = Tgap!AbsWalk
  BY <1>1, NoLoop
<1>4. Tgap!Promised!Outside(c)
  BY <1>1, <1>3 DEF Tgap!Promised!Outside, Tgap!Promised!Call
<1>5. OnLoop(tgapWalk, Tgap!Lists)'
  BY <1>1 DEF OnLoop
<1> QED
  BY <1>2, <1>4, <1>5 DEF TgapInv

(* Every action of the promise that lists.h has is a step of it.           *)
LEMMA TgapSteps ==
  /\ \A h \in Heads, n \in Nodes :
       /\ Tgap!Promised!InsertFirst(h, n) => Tgap!Promised!AbsNext
       /\ Tgap!Promised!InsertLast(h, n) => Tgap!Promised!AbsNext
       /\ Tgap!Promised!Unlink(h, n) => Tgap!Promised!AbsNext
  /\ \A h \in Heads, e, n \in Nodes : Tgap!Promised!InsertAfter(h, e, n) => Tgap!Promised!AbsNext
  /\ \A g, h \in Heads : Tgap!Promised!Join(g, h, "last", TRUE) => Tgap!Promised!AbsNext
  /\ \A h \in Heads : Tgap!Promised!Begin(h, h, "next", FALSE) => Tgap!Promised!AbsNext
<1>1. ASSUME NEW h \in Heads, NEW n \in Nodes, Tgap!Promised!InsertFirst(h, n)
      PROVE  Tgap!Promised!AbsNext
  <2>1. Tgap!Promised!Asked("first")
    BY <1>1 DEF Tgap!Promised!InsertFirst, Tgap!Promised!Outside, Tgap!Promised!Call, Tgap!Promised!Asked
  <2> QED
    BY <1>1, <2>1 DEF Tgap!Promised!AbsNext
<1>2. ASSUME NEW h \in Heads, NEW n \in Nodes, Tgap!Promised!InsertLast(h, n)
      PROVE  Tgap!Promised!AbsNext
  <2>1. Tgap!Promised!Asked("last")
    BY <1>2 DEF Tgap!Promised!InsertLast, Tgap!Promised!Outside, Tgap!Promised!Call, Tgap!Promised!Asked
  <2> QED
    BY <1>2, <2>1 DEF Tgap!Promised!AbsNext
<1>3. ASSUME NEW h \in Heads, NEW n \in Nodes, Tgap!Promised!Unlink(h, n)
      PROVE  Tgap!Promised!AbsNext
  <2>1. Tgap!Promised!Asked("remove")
    BY <1>3 DEF Tgap!Promised!Unlink, Tgap!Promised!Outside, Tgap!Promised!Call, Tgap!Promised!Asked
  <2> QED
    BY <1>3, <2>1 DEF Tgap!Promised!AbsNext
<1>4. ASSUME NEW h \in Heads, NEW e \in Nodes, NEW n \in Nodes, Tgap!Promised!InsertAfter(h, e, n)
      PROVE  Tgap!Promised!AbsNext
  <2>1. Tgap!Promised!Asked("after")
    BY <1>4 DEF Tgap!Promised!InsertAfter, Tgap!Promised!Outside, Tgap!Promised!Call, Tgap!Promised!Asked
  <2> QED
    BY <1>4, <2>1 DEF Tgap!Promised!AbsNext
<1>5. ASSUME NEW g \in Heads, NEW h \in Heads, Tgap!Promised!Join(g, h, "last", TRUE)
      PROVE  Tgap!Promised!AbsNext
  <2>1. Tgap!Promised!Asked("join")
    BY <1>5 DEF Tgap!Promised!Join, Tgap!Promised!Outside, Tgap!Promised!Call, Tgap!Promised!Asked
  <2> QED
    BY <1>5, <2>1 DEF Tgap!Promised!AbsNext, Tgap!Promised!Ends
<1>6. ASSUME NEW h \in Heads, Tgap!Promised!Begin(h, h, "next", FALSE)
      PROVE  Tgap!Promised!AbsNext
  <2>1. Tgap!Promised!Asked("begin")
    BY <1>6 DEF Tgap!Promised!Begin, Tgap!Promised!Call, Tgap!Promised!Asked
  <2> QED
    BY <1>6, <2>1 DEF Tgap!Promised!AbsNext, Tgap!Promised!Directions
<1> QED
  BY <1>1, <1>2, <1>3, <1>4, <1>5, <1>6

(* Where no entry comes twice, each has one place.                         *)
LEMMA TgapPlaceIs ==
  ASSUME NEW s \in Seq(Nodes), Distinct(s), NEW k \in 1..Len(s)
  PROVE  /\ Tgap!Promised!Place(s, s[k]) = k
         /\ Tgap!Promised!Without(s, s[k]) = RemoveAt(s, k)
<1>1. DOMAIN s = 1..Len(s)
  BY LenProperties
<1>2. Tgap!Promised!Place(s, s[k]) = k
  BY <1>1 DEF Tgap!Promised!Place, Distinct
<1>3. s[k] \in Range(s)
  BY InRange
<1> QED
  BY <1>2, <1>3, TgapOperators DEF Tgap!Promised!Without

-----------------------------------------------------------------------------
(* The macros outside loops. *)

(* What the invariant says of one list.                                    *)
LEMMA TgapFacts ==
  ASSUME TgapInv, ok, NEW h \in Heads
  PROVE  LET F == Tgap!Lists
             s == F[h]
         IN  /\ Listing(first, last, link, F)
             /\ s \in Seq(Nodes) /\ Distinct(s) /\ Line(first[h], last[h], link, s) /\ Len(s) \in Nat
             /\ s # None /\ Tgap!Promised!Ready(h)
             /\ Tgap!Content(h) = s /\ Tgap!Promised!On(h) = Range(s)
             /\ Tgap!Empty(h) <=> Len(s) = 0
             /\ Tgap!Empty(h) <=> s = <<>>
             /\ first \in Ends /\ last \in Ends /\ link \in Links
<1> DEFINE F == Tgap!Lists
           s == F[h]
<1>1. Listing(first, last, link, F)
  BY DEF TgapInv
<1>2. s \in Seq(Nodes) /\ Distinct(s) /\ Line(first[h], last[h], link, s) /\ Len(s) \in Nat
  BY <1>1, ListingFacts
<1>3. Tgap!Content(h) = s /\ (Tgap!Empty(h) <=> Len(s) = 0) /\ (Tgap!Empty(h) <=> s = <<>>)
  BY <1>1, TgapSeen
<1>4. s # None
  BY <1>2, DistinctIsPath, CellsAssumption
<1>5. Tgap!Promised!Ready(h)
  BY <1>4 DEF Tgap!Promised!Ready
<1>6. Tgap!Promised!On(h) = Range(s)
  BY <1>5, TgapOperators DEF Tgap!Promised!On
<1>7. first \in Ends /\ last \in Ends /\ link \in Links
  BY <1>1 DEF Listing
<1> QED
  BY <1>1, <1>2, <1>3, <1>4, <1>5, <1>6, <1>7

(* An entry that the model may insert is on no list and its link is null.  *)
LEMMA TgapFree ==
  ASSUME TgapInv, ok, NEW n \in Tgap!Unlisted
  PROVE  n \in Nodes /\ Away({}, Tgap!Lists, n) /\ link[n] = None
<1>1. n \in Nodes
  BY DEF Tgap!Unlisted
<1>2. Listing(first, last, link, Tgap!Lists)
  BY DEF TgapInv
<1>3. Away({}, Tgap!Lists, n)
  BY <1>1, <1>2, TgapSeen
<1> QED
  BY <1>1, <1>2, <1>3 DEF Listing

(* LLIST_INSERT_HEAD.                                                      *)
LEMMA InsertHeadKeeps ==
  ASSUME TgapInv, ok, NEW h \in Heads, NEW n \in Tgap!Unlisted, Tgap!InsertHead(h, n)
  PROVE  TgapInv' /\ Tgap!Promised!AbsNext
<1> DEFINE F == Tgap!Lists
           s == F[h]
           c == <<"first", h, n>>
<1>1. /\ Listing(first, last, link, F) /\ s \in Seq(Nodes) /\ Distinct(s) /\ Len(s) \in Nat
      /\ Line(first[h], last[h], link, s) /\ Tgap!Promised!Ready(h) /\ link \in Links
  BY TgapFacts
<1>2. n \in Nodes /\ Away({}, F, n)
  BY TgapFree
<1>3. /\ Tgap!Plain(c) /\ ok' = ok /\ first' = [first EXCEPT ![h] = n]
      /\ last' = [last EXCEPT ![h] = IF last[h] = None THEN n ELSE last[h]]
      /\ link' = [link EXCEPT ![n] = first[h]]
  BY DEF Tgap!InsertHead
<1>4. last[h] = None <=> 0 = Len(s)
  BY <1>1, LineEnds
<1>5. first[h] = At(s, 0 + 1) /\ At(s, 0) = None /\ \A e \in Nodes : e # None
  BY <1>1, AtIs DEF Line
<1>6. Relinked(link, link', n, At(s, 0 + 1), At(s, 0), n)
  <2>1. link' \in Links
    <3>1. At(s, 0 + 1) \in Nodes \cup {None}
      BY <1>1, AtIs
    <3> QED
      BY <1>1, <1>2, <1>3, <1>5, <3>1 DEF Links
  <2>2. \A e \in Nodes : link'[e] = IF e = n THEN first[h] ELSE link[e]
    BY <1>1, <1>2, <1>3 DEF Links
  <2> QED
    BY <1>5, <2>1, <2>2 DEF Relinked
<1>7. Inserted(s, <<n>> \o s, 0, n) /\ 0 \in 0..Len(s)
  BY <1>1, <1>2, EndsInsert
<1> DEFINE f2 == [first EXCEPT ![h] = IF 0 = 0 THEN n ELSE first[h]]
           t2 == [last EXCEPT ![h] = IF 0 = Len(s) THEN n ELSE last[h]]
           F2 == [F EXCEPT ![h] = <<n>> \o s]
<1>8. Listing(f2, t2, link', F2)
  BY <1>1, <1>2, <1>6, <1>7, ListingIn
<1>9. f2 = first' /\ t2 = last'
  BY <1>3, <1>4
<1> HIDE DEF f2, t2
<1>10. Listing(first', last', link', F2)
  BY <1>8, <1>9
<1>11. TgapInv' /\ F' = F2 /\ Tgap!Promised!Outside(c)
  <2> HIDE DEF F2, c
  <2> QED
    BY <1>3, <1>10, TgapOutside
<1>12. Tgap!Promised!InsertFirst(h, n)
  BY <1>1, <1>11 DEF Tgap!Promised!InsertFirst
<1> QED
  BY <1>2, <1>11, <1>12, TgapSteps

(* What LLIST_INSERT_TAIL does to the pointers.                            *)
LEMMA PutLastPuts ==
  ASSUME NEW f, NEW t, NEW l, NEW F, Listing(f, t, l, F), NEW h \in Heads,
         NEW n \in Nodes, Away({}, F, n), Tgap!PutLast(h, n, f, t, l)
  PROVE  Listing(first', last', link', [F EXCEPT ![h] = Append(F[h], n)])
<1> DEFINE s == F[h]
           k == Len(s)
<1>1. /\ s \in Seq(Nodes) /\ Distinct(s) /\ k \in Nat /\ k \in 0..Len(s)
      /\ Line(f[h], t[h], l, s) /\ l \in Links /\ l[n] = None
  <2>1. s \in Seq(Nodes) /\ Distinct(s) /\ k \in Nat /\ Line(f[h], t[h], l, s)
    BY ListingFacts
  <2>2. l \in Links /\ l[n] = None
    BY DEF Listing
  <2> QED
    BY <2>1, <2>2
<1>2. /\ first' = [f EXCEPT ![h] = IF f[h] = None THEN n ELSE f[h]]
      /\ last' = [t EXCEPT ![h] = n]
      /\ link' = IF f[h] = None THEN l ELSE [l EXCEPT ![t[h]] = n]
  BY DEF Tgap!PutLast
<1>3. f[h] = None <=> k = 0
  BY <1>1, LineEnds
<1>4. t[h] = At(s, k) /\ At(s, k + 1) = None /\ At(s, 0) = None /\ \A e \in Nodes : e # None
  BY <1>1, AtIs DEF Line
<1>5. k # 0 => At(s, k) \in Nodes /\ At(s, k) # n
  <2> SUFFICES ASSUME k # 0 PROVE At(s, k) \in Nodes /\ At(s, k) # n
    OBVIOUS
  <2>1. k \in 1..Len(s)
    BY <1>1
  <2>2. At(s, k) = s[k] /\ s[k] \in Nodes
    BY <1>1, <2>1, AtIs
  <2>3. s[k] # n
    BY <2>1 DEF Away
  <2> QED
    BY <2>2, <2>3
<1>6. Relinked(l, link', n, At(s, k + 1), At(s, k), n)
  <2> HIDE DEF k, s
  <2>1. CASE f[h] = None
    <3>1. link' = l /\ At(s, k) = None
      BY <1>2, <1>3, <1>4, <2>1
    <3> QED
      BY <1>1, <1>4, <3>1 DEF Relinked
  <2>2. CASE f[h] # None
    <3>1. link' = [l EXCEPT ![At(s, k)] = n] /\ At(s, k) \in Nodes /\ At(s, k) # n
      BY <1>2, <1>3, <1>4, <1>5, <2>2
    <3>2. link' \in Links /\ \A e \in Nodes : link'[e] = IF e = At(s, k) THEN n ELSE l[e]
      BY <1>1, <3>1 DEF Links
    <3> QED
      BY <1>1, <1>4, <3>1, <3>2 DEF Relinked
  <2> QED
    BY <2>1, <2>2
<1>7. Inserted(s, Append(s, n), k, n)
  BY <1>1, EndsInsert, Zenon
<1> DEFINE f2 == [f EXCEPT ![h] = IF k = 0 THEN n ELSE f[h]]
           t2 == [t EXCEPT ![h] = IF k = Len(s) THEN n ELSE t[h]]
           F2 == [F EXCEPT ![h] = Append(s, n)]
<1>8. Listing(f2, t2, link', F2)
  <2> DEFINE s2 == Append(s, n)
  <2>1. Inserted(F[h], s2, k, n) /\ k \in 0..Len(F[h]) /\ Relinked(l, link', n, At(F[h], k + 1), At(F[h], k), n)
    BY <1>1, <1>6, <1>7
  <2> HIDE DEF s2, k
  <2>2. Listing([f EXCEPT ![h] = IF k = 0 THEN n ELSE f[h]],
                [t EXCEPT ![h] = IF k = Len(F[h]) THEN n ELSE t[h]], link', [F EXCEPT ![h] = s2])
    BY <2>1, ListingIn
  <2> QED
    BY <2>2 DEF s2
<1>9. f2 = first' /\ t2 = last'
  BY <1>2, <1>3
<1> HIDE DEF f2, t2
<1> QED
  BY <1>8, <1>9

(* LLIST_INSERT_TAIL.                                                      *)
LEMMA InsertTailKeeps ==
  ASSUME TgapInv, ok, NEW h \in Heads, NEW n \in Tgap!Unlisted, Tgap!InsertTail(h, n)
  PROVE  TgapInv' /\ Tgap!Promised!AbsNext
<1> DEFINE F == Tgap!Lists
           c == <<"last", h, n>>
           F2 == [F EXCEPT ![h] = Append(F[h], n)]
<1>1. Listing(first, last, link, F) /\ Tgap!Promised!Ready(h)
  BY TgapFacts
<1>2. n \in Nodes /\ Away({}, F, n)
  BY TgapFree
<1>3. Tgap!Plain(c) /\ ok' = ok /\ Tgap!PutLast(h, n, first, last, link)
  BY DEF Tgap!InsertTail
<1>4. Listing(first', last', link', F2)
  BY <1>1, <1>2, <1>3, PutLastPuts
<1>5. TgapInv' /\ F' = F2 /\ Tgap!Promised!Outside(c)
  <2> HIDE DEF F2, c
  <2> QED
    BY <1>3, <1>4, TgapOutside
<1>6. Tgap!Promised!InsertLast(h, n)
  BY <1>1, <1>5 DEF Tgap!Promised!InsertLast
<1> QED
  BY <1>2, <1>5, <1>6, TgapSteps

(* LLIST_INSERT_AFTER.                                                     *)
LEMMA InsertAfterKeeps ==
  ASSUME TgapInv, ok, NEW h \in Heads, NEW n \in Tgap!Unlisted, NEW e \in Tgap!Range(Tgap!Content(h)),
         Tgap!InsertAfter(h, e, n)
  PROVE  TgapInv' /\ Tgap!Promised!AbsNext
<1> DEFINE F == Tgap!Lists
           s == F[h]
           c == <<"after", h, e, n>>
<1>1. /\ Listing(first, last, link, F) /\ s \in Seq(Nodes) /\ Distinct(s) /\ Len(s) \in Nat
      /\ Line(first[h], last[h], link, s) /\ link \in Links
      /\ Tgap!Content(h) = s /\ Tgap!Promised!On(h) = Range(s)
  BY TgapFacts
<1>2. n \in Nodes /\ Away({}, F, n)
  BY TgapFree
<1>3. /\ Tgap!Plain(c) /\ ok' = ok /\ first' = first
      /\ last' = [last EXCEPT ![h] = IF last[h] = e THEN n ELSE last[h]]
      /\ link' = [link EXCEPT ![n] = link[e], ![e] = n]
  BY DEF Tgap!InsertAfter
<1>4. PICK k \in 1..Len(s) : s[k] = e
  BY <1>1, InRange, TgapOperators
<1>5. e \in Nodes /\ e # n /\ At(s, k) = e
  <2>1. At(s, k) = s[k] /\ s[k] \in Nodes
    BY <1>1, AtIs
  <2> QED
    BY <1>2, <1>4, <2>1 DEF Away
<1>6. link[e] = At(s, k + 1)
  BY <1>1, <1>4 DEF Line
<1>7. last[h] = e <=> k = Len(s)
  <2>1. last[h] = At(s, Len(s)) /\ Len(s) \in Int
    BY <1>1 DEF Line
  <2>2. At(s, k) = At(s, Len(s)) => k = Len(s)
    BY <1>1, <2>1, AtDiffers
  <2> QED
    BY <1>5, <2>1, <2>2
<1>8. Relinked(link, link', n, At(s, k + 1), At(s, k), n)
  <2> HIDE DEF s
  <2>1. At(s, k + 1) \in Nodes \cup {None}
    BY <1>1, AtIs
  <2>2. link' \in Links
    BY <1>1, <1>2, <1>3, <1>5, <1>6, <2>1 DEF Links
  <2>3. \A d \in Nodes : link'[d] = IF d = n THEN At(s, k + 1) ELSE IF d = At(s, k) THEN n ELSE link[d]
    BY <1>1, <1>2, <1>3, <1>5, <1>6 DEF Links
  <2> QED
    BY <2>2, <2>3 DEF Relinked
<1> DEFINE s2 == InsertAt(s, k + 1, n)
           f2 == [first EXCEPT ![h] = IF k = 0 THEN n ELSE first[h]]
           t2 == [last EXCEPT ![h] = IF k = Len(s) THEN n ELSE last[h]]
           F2 == [F EXCEPT ![h] = s2]
<1>9. Listing(f2, t2, link', F2)
  <2>1. k \in 0..Len(s)
    BY <1>1
  <2>2. Inserted(s, s2, k, n)
    BY <1>1, <1>2, <2>1, InsertAtInserts
  <2> HIDE DEF s2
  <2> QED
    BY <1>1, <1>2, <1>8, <2>1, <2>2, ListingIn
<1>10. f2 = first' /\ t2 = last'
  <2>1. first \in [Heads -> Nodes \cup {None}] /\ k # 0
    BY <1>1 DEF Listing, Ends
  <2> QED
    BY <1>3, <1>7, <2>1
<1> HIDE DEF f2, t2
<1>11. Listing(first', last', link', F2)
  BY <1>9, <1>10
<1>12. TgapInv' /\ F' = F2 /\ Tgap!Promised!Outside(c)
  <2> HIDE DEF F2, c
  <2> QED
    BY <1>3, <1>11, TgapOutside
<1>13. Tgap!Promised!Place(s, e) = k
  BY <1>1, <1>4, TgapPlaceIs
<1>14. e \in Tgap!Promised!On(h)
  BY <1>1, TgapOperators
<1>15. Tgap!Promised!InsertAfter(h, e, n)
  BY <1>12, <1>13, <1>14, TgapOperators DEF Tgap!Promised!InsertAfter
<1> QED
  BY <1>2, <1>5, <1>12, <1>15, TgapSteps

(* LLIST_APPEND_LIST.                                                      *)
LEMMA AppendListKeeps ==
  ASSUME TgapInv, ok, NEW h \in Heads, NEW g \in Heads \ {h}, Tgap!AppendList(h, g)
  PROVE  TgapInv' /\ Tgap!Promised!AbsNext
<1> DEFINE F == Tgap!Lists
           c == <<"join", g, h, "last", TRUE>>
           F2 == [F EXCEPT ![h] = F[h] \o F[g], ![g] = <<>>]
<1>1. Listing(first, last, link, F) /\ Tgap!Promised!Ready(h) /\ Tgap!Promised!Ready(g)
  BY TgapFacts
<1>2. /\ Tgap!Plain(c)
      /\ first' = [first EXCEPT ![h] = IF first[h] = None THEN first[g] ELSE first[h], ![g] = None]
      /\ last' = [last EXCEPT ![h] = last[g], ![g] = None]
      /\ link' = IF first[h] = None THEN link ELSE [link EXCEPT ![last[h]] = first[g]]
      /\ ok' = (Tgap!Empty(h) \/ ~Tgap!Empty(g))
  BY DEF Tgap!AppendList, Tgap!Empty
<1>3. /\ Tgap!Empty(h) <=> Len(F[h]) = 0
      /\ Tgap!Empty(g) <=> Len(F[g]) = 0
      /\ Tgap!Empty(h) <=> F[h] = <<>>
      /\ Tgap!Empty(g) <=> F[g] = <<>>
      /\ Tgap!Empty(h) \in BOOLEAN /\ Tgap!Empty(g) \in BOOLEAN
  BY TgapFacts DEF Tgap!Empty
<1>4. CASE Tgap!Empty(h) \/ ~Tgap!Empty(g)
  <2>1. ok' = ok
    BY <1>2, <1>3, <1>4 DEF TgapInv
  <2>2. Listing(first', last', link', F2)
    BY <1>1, <1>2, <1>3, <1>4, ListingJoin
  <2>3. TgapInv' /\ F' = F2 /\ Tgap!Promised!Outside(c)
    <3> HIDE DEF F2, c
    <3> QED
      BY <1>2, <2>1, <2>2, TgapOutside
  <2>4. Tgap!Promised!Join(g, h, "last", TRUE)
    BY <1>1, <2>3 DEF Tgap!Promised!Join
  <2> QED
    BY <2>3, <2>4, TgapSteps
<1>5. CASE ~(Tgap!Empty(h) \/ ~Tgap!Empty(g))
  <2>1. ok' = FALSE
    BY <1>2, <1>5
  <2>2. tgapCall' = c /\ F[g] = <<>> /\ F[h] # <<>>
    BY <1>2, <1>3, <1>5 DEF Tgap!Plain, Tgap!Do
  <2>3. Tgap!Promised!NothingPromised
    BY <2>1, <2>2 DEF Tgap!Promised!NothingPromised
  <2> QED
    BY <2>1, <2>3 DEF TgapInv, Tgap!Promised!AbsNext
<1> QED
  BY <1>4, <1>5

(* The k-th entry taken out of list h, its link cleared.                   *)
TakenOut(h, k) ==
    LET s == Tgap!Lists[h]
    IN  /\ first' = [first EXCEPT ![h] = IF k = 1 THEN At(s, 2) ELSE first[h]]
        /\ last' = [last EXCEPT ![h] = IF k = Len(s) THEN At(s, k - 1) ELSE last[h]]
        /\ Relinked(link, link', s[k], None, At(s, k - 1), At(s, k + 1))

(* Taking out the k-th entry is the removal that is promised.              *)
LEMMA TakeOutKeeps ==
  ASSUME TgapInv, ok, ok' = ok, NEW h \in Heads, NEW k \in 1..Len(Tgap!Lists[h]), TakenOut(h, k),
         NEW e, e = Tgap!Lists[h][k], Tgap!Plain(<<"remove", h, e>>)
  PROVE  TgapInv' /\ Tgap!Promised!AbsNext
<1> DEFINE F == Tgap!Lists
           s == F[h]
           c == <<"remove", h, e>>
           s2 == RemoveAt(s, k)
           F2 == [F EXCEPT ![h] = s2]
<1>1. Listing(first, last, link, F) /\ s \in Seq(Nodes) /\ Distinct(s) /\ Tgap!Promised!Ready(h)
  BY TgapFacts
<1>2. Deleted(s, s2, k)
  BY <1>1, RemoveAtDeletes
<1>3. Listing(first', last', link', F2)
  <2> HIDE DEF s2
  <2> QED
    BY <1>1, <1>2, ListingOut DEF TakenOut
<1>4. TgapInv' /\ F' = F2 /\ Tgap!Promised!Outside(c)
  <2> HIDE DEF F2, c
  <2> QED
    BY <1>3, TgapOutside DEF c
<1>5. Tgap!Promised!Without(s, e) = s2
  BY <1>1, TgapPlaceIs
<1>6. Tgap!Promised!Unlink(h, e)
  <2> HIDE DEF s2
  <2> QED
    BY <1>1, <1>4, <1>5 DEF Tgap!Promised!Unlink
<1>7. e \in Nodes
  BY <1>1, ElementOfSeq
<1> QED
  BY <1>4, <1>6, <1>7, TgapSteps

(* LLIST_REMOVE_HEAD.                                                      *)
LEMMA RemoveHeadKeeps ==
  ASSUME TgapInv, ok, NEW h \in Heads, Tgap!RemoveHead(h)
  PROVE  TgapInv' /\ Tgap!Promised!AbsNext
<1> DEFINE F == Tgap!Lists
           s == F[h]
<1>1. /\ Listing(first, last, link, F) /\ s \in Seq(Nodes) /\ Distinct(s) /\ Len(s) \in Nat
      /\ Line(first[h], last[h], link, s) /\ (Tgap!Empty(h) <=> Len(s) = 0) /\ link \in Links
  BY TgapFacts
<1>2. /\ Tgap!Plain(<<"remove", h, first[h]>>) /\ ~Tgap!Empty(h) /\ ok' = ok
      /\ first' = [first EXCEPT ![h] = link[first[h]]]
      /\ link' = [link EXCEPT ![first[h]] = None]
      /\ last' = [last EXCEPT ![h] = IF last[h] = first[h] THEN None ELSE last[h]]
  BY DEF Tgap!RemoveHead
<1>3. 1 \in 1..Len(s) /\ Len(s) \in 1..Len(s) /\ first[h] = s[1] /\ last[h] = s[Len(s)]
  BY <1>1, <1>2, LineEnds
<1>4. link[first[h]] = At(s, 2)
  <2>1. link[s[1]] = At(s, 1 + 1) /\ 1 + 1 = 2
    BY <1>1, <1>3 DEF Line
  <2> QED
    BY <1>3, <2>1
<1>5. last[h] = first[h] <=> 1 = Len(s)
  BY <1>1, <1>3 DEF Distinct
<1>6. At(s, 1 - 1) = None /\ At(s, 1 + 1) = At(s, 2) /\ At(s, 2) \in Nodes \cup {None} /\ s[1] \in Nodes
      /\ \A e \in Nodes : e # None
  <2>1. 1 - 1 = 0 /\ 1 + 1 = 2
    OBVIOUS
  <2> HIDE DEF s
  <2> QED
    BY <1>1, <1>3, <2>1, AtIs
<1>7. Relinked(link, link', s[1], None, At(s, 1 - 1), At(s, 1 + 1))
  <2> HIDE DEF s
  <2>1. link' \in Links /\ \A e \in Nodes : link'[e] = IF e = s[1] THEN None ELSE link[e]
    BY <1>1, <1>2, <1>3, <1>6 DEF Links
  <2> QED
    BY <1>6, <2>1 DEF Relinked
<1>8. TakenOut(h, 1)
  BY <1>2, <1>4, <1>5, <1>6, <1>7 DEF TakenOut
<1> QED
  BY <1>2, <1>3, <1>8, TakeOutKeeps

(* LLIST_REMOVE: nothing happens to an entry on no list.                    *)
LEMMA Remove1Keeps ==
  ASSUME TgapInv, ok, NEW h \in Heads, NEW n \in Nodes, Tgap!Remove1(h, n)
  PROVE  TgapInv' /\ Tgap!Promised!AbsNext
<1> DEFINE F == Tgap!Lists
           s == F[h]
           before == {e \in Range(s) : link[e] = n}
           found == first[h] = n \/ before # {}
           c == <<"remove", h, n>>
<1>1. /\ Listing(first, last, link, F) /\ s \in Seq(Nodes) /\ Distinct(s) /\ Len(s) \in Nat
      /\ Line(first[h], last[h], link, s) /\ (Tgap!Empty(h) <=> Len(s) = 0)
      /\ link \in Links /\ first \in Ends /\ last \in Ends
      /\ Tgap!Promised!Ready(h) /\ Tgap!Promised!On(h) = Range(s)
  BY TgapFacts
<1>2. Tgap!Range(Tgap!Content(h)) = Range(s)
  BY TgapFacts, TgapOperators
<1>3. /\ Tgap!Plain(c)
      /\ first' = [first EXCEPT ![h] = IF first[h] = n THEN link[n] ELSE first[h]]
      /\ last' = [last EXCEPT ![h] = IF last[h] # n \/ ~found THEN last[h]
                                     ELSE IF first[h] = n THEN None ELSE CHOOSE e \in before : TRUE]
      /\ link' = [e \in Nodes |-> CASE e = n -> None
                                    [] e # n /\ first[h] # n /\ e \in before -> link[n]
                                    [] OTHER -> link[e]]
      /\ ok' = (found \/ n \in Tgap!Unlisted)
  BY <1>2 DEF Tgap!Remove1
<1>4. /\ first[h] = At(s, 1) /\ last[h] = At(s, Len(s))
      /\ \A i \in 1..Len(s) : link[s[i]] = At(s, i + 1) /\ At(s, i) = s[i] /\ s[i] \in Nodes
      /\ \A i \in Int : i \notin 1..Len(s) => At(s, i) = None
      /\ \A e \in Nodes : e # None
  BY <1>1, AtIs DEF Line
<1>5. \A e : e \in Range(s) <=> \E i \in 1..Len(s) : s[i] = e
  BY <1>1, InRange
<1> HIDE DEF s
<1>6. ASSUME NEW k \in 1..Len(s), s[k] = n
      PROVE  /\ first[h] = n <=> k = 1
             /\ last[h] = n <=> k = Len(s)
             /\ link[n] = At(s, k + 1)
             /\ \A e \in Nodes : e \in before <=> k # 1 /\ e = At(s, k - 1)
             /\ k # 1 => At(s, k - 1) \in Nodes
  <2>1. At(s, k) = n /\ k \in Int
    BY <1>4, <1>6
  <2>2. first[h] = n <=> k = 1
    BY <1>1, <1>4, <2>1, AtDiffers
  <2>3. last[h] = n <=> k = Len(s)
    BY <1>1, <1>4, <2>1, AtDiffers
  <2>4. k # 1 => k - 1 \in 1..Len(s) /\ (k - 1) + 1 = k
    BY <1>1
  <2>5. k # 1 => At(s, k - 1) = s[k - 1] /\ s[k - 1] \in Nodes /\ link[s[k - 1]] = n
    <3> SUFFICES ASSUME k # 1 PROVE At(s, k - 1) = s[k - 1] /\ s[k - 1] \in Nodes /\ link[s[k - 1]] = n
      OBVIOUS
    <3>1. link[s[k - 1]] = At(s, (k - 1) + 1)
      BY <1>4, <2>4
    <3> QED
      BY <1>4, <2>1, <2>4, <3>1
  <2>6. ASSUME NEW e \in before PROVE k # 1 /\ e = At(s, k - 1)
    <3>1. PICK i \in 1..Len(s) : s[i] = e
      BY <1>5
    <3>2. link[s[i]] = n /\ link[s[i]] = At(s, i + 1)
      BY <1>4, <3>1
    <3>3. i + 1 \in Int
      OBVIOUS
    <3>4. i + 1 = k
      BY <1>1, <2>1, <3>2, <3>3, AtDiffers
    <3>5. k # 1 /\ i = k - 1
      BY <1>1, <3>4
    <3> QED
      BY <1>4, <3>1, <3>5
  <2>7. ASSUME k # 1 PROVE At(s, k - 1) \in before
    BY <1>5, <2>4, <2>5, <2>7
  <2> QED
    BY <1>4, <1>6, <2>2, <2>3, <2>5, <2>6, <2>7
<1>7. CASE \E k \in 1..Len(s) : s[k] = n
  <2>1. PICK k \in 1..Len(s) : s[k] = n
    BY <1>7
  <2>2. /\ first[h] = n <=> k = 1
        /\ last[h] = n <=> k = Len(s)
        /\ link[n] = At(s, k + 1)
        /\ \A e \in Nodes : e \in before <=> k # 1 /\ e = At(s, k - 1)
        /\ k # 1 => At(s, k - 1) \in Nodes
    BY <1>6, <2>1
  <2>3. found
    BY <2>2
  <2>4. ok' = ok
    BY <1>3, <2>3
  <2>5. first' = [first EXCEPT ![h] = IF k = 1 THEN At(s, 2) ELSE first[h]]
    <3>1. k = 1 => At(s, k + 1) = At(s, 2)
      OBVIOUS
    <3> QED
      BY <1>3, <2>2, <3>1
  <2>6. last' = [last EXCEPT ![h] = IF k = Len(s) THEN At(s, k - 1) ELSE last[h]]
    <3>1. k # 1 => (CHOOSE e \in before : TRUE) = At(s, k - 1)
      <4>1. ASSUME k # 1 PROVE before = {At(s, k - 1)}
        <5>1. before \subseteq Nodes
          BY <1>4, <1>5
        <5> HIDE DEF before
        <5> QED
          BY <2>2, <4>1, <5>1
      <4> HIDE DEF before
      <4> QED
        BY <4>1
    <3>2. k = 1 => At(s, k - 1) = None
      <4>1. 0 \notin 1..Len(s)
        OBVIOUS
      <4> QED
        BY <1>4, <4>1
    <3> HIDE DEF before
    <3> QED
      BY <1>3, <2>2, <2>3, <3>1, <3>2
  <2>7. Relinked(link, link', n, None, At(s, k - 1), At(s, k + 1))
    <3>1. At(s, k + 1) \in Nodes \cup {None}
      BY <1>1, AtIs
    <3>2. \A e \in Nodes : link'[e] = IF e = n THEN None ELSE IF e = At(s, k - 1) THEN At(s, k + 1) ELSE link[e]
      <4> SUFFICES ASSUME NEW e \in Nodes
                   PROVE  link'[e] = IF e = n THEN None ELSE IF e = At(s, k - 1) THEN At(s, k + 1) ELSE link[e]
        OBVIOUS
      <4>1. k = 1 => e # At(s, k - 1)
        <5>1. 0 \notin 1..Len(s)
          OBVIOUS
        <5> QED
          BY <1>4, <5>1
      <4> HIDE DEF before
      <4> QED
        BY <1>3, <2>2, <4>1
    <3>3. link' \in Links
      <4>1. \A e \in Nodes : link[e] \in Nodes \cup {None}
        BY <1>1 DEF Links
      <4>2. \A e \in Nodes : link'[e] \in Nodes \cup {None}
        BY <3>1, <3>2, <4>1
      <4>3. link' = [e \in Nodes |-> link'[e]]
        BY <1>3
      <4> QED
        BY <4>2, <4>3 DEF Links
    <3> QED
      BY <3>2, <3>3 DEF Relinked
  <2>8. TakenOut(h, k)
    BY <2>1, <2>5, <2>6, <2>7 DEF TakenOut, s
  <2> QED
    BY <1>3, <2>1, <2>4, <2>8, TakeOutKeeps DEF s
<1>8. CASE ~(\E k \in 1..Len(s) : s[k] = n)
  <2>1. n \notin Range(s)
    BY <1>5, <1>8
  <2>2. \A i \in Int : At(s, i) # n
    BY <1>4, <1>8
  <2>3. first[h] # n /\ last[h] # n /\ before = {}
    <3>1. ASSUME NEW e \in before PROVE FALSE
      <4>1. PICK i \in 1..Len(s) : s[i] = e
        BY <1>5
      <4>2. i + 1 \in Int /\ At(s, i + 1) = n
        BY <1>4, <4>1
      <4> QED
        BY <2>2, <4>2
    <3>2. first[h] # n /\ last[h] # n
      <4>1. 1 \in Int /\ Len(s) \in Int
        BY <1>1
      <4> QED
        BY <1>4, <2>2, <4>1
    <3> QED
      BY <3>1, <3>2
  <2>4. ok' = (n \in Tgap!Unlisted)
    BY <1>3, <2>3
  <2> HIDE DEF before
  <2>5. CASE n \in Tgap!Unlisted
    <3>1. link[n] = None
      BY <2>5, TgapFree
    <3>2. first' = first /\ last' = last /\ link' = link
      <4>1. first' = [first EXCEPT ![h] = first[h]] /\ last' = [last EXCEPT ![h] = last[h]]
        BY <1>3, <2>3
      <4>2. first' = first /\ last' = last
        BY <1>1, <4>1 DEF Ends
      <4>3. link' = [e \in Nodes |-> link[e]]
        BY <1>3, <2>3, <3>1
      <4> QED
        BY <1>1, <4>2, <4>3 DEF Links
    <3>3. Listing(first', last', link', F)
      BY <1>1, <3>2
    <3>4. ok' = ok
      BY <2>4, <2>5
    <3>5. TgapInv' /\ F' = F /\ Tgap!Promised!Outside(c)
      <4> DEFINE G == Tgap!Lists
      <4>1. Listing(first', last', link', G)
        BY <3>3
      <4> HIDE DEF G, c
      <4>2. TgapInv' /\ Tgap!Lists' = G /\ Tgap!Promised!Outside(c)
        BY <1>3, <3>4, <4>1, TgapOutside
      <4> QED
        BY <4>2 DEF G
    <3>6. Tgap!Promised!Without(s, n) = s
      BY <2>1, TgapOperators DEF Tgap!Promised!Without
    <3>7. F = [F EXCEPT ![h] = s]
      BY DEF s, Tgap!Lists
    <3>8. Tgap!Promised!Unlink(h, n)
      BY <1>1, <3>5, <3>6, <3>7 DEF Tgap!Promised!Unlink, s
    <3> QED
      BY <3>5, <3>8, TgapSteps
  <2>6. CASE n \notin Tgap!Unlisted
    <3>1. ok' = FALSE
      <4>1. (n \in Tgap!Unlisted) = FALSE
        BY <2>6
      <4> QED
        BY <2>4, <4>1, Zenon
    <3>2. tgapCall' = c
      BY <1>3 DEF Tgap!Plain, Tgap!Do
    <3>3. n \notin Tgap!Promised!On(h)
      BY <1>1, <2>1 DEF s
    <3>4. ~Tgap!Promised!Free(n)
      <4>1. PICK g \in Heads : n \in Tgap!Range(Tgap!Content(g))
        BY <2>6 DEF Tgap!Unlisted
      <4>2. n \in Tgap!Promised!On(g)
        BY <4>1, TgapFacts, TgapOperators
      <4> QED
        BY <4>2 DEF Tgap!Promised!Free
    <3>5. Tgap!Promised!NothingPromised
      BY <3>1, <3>2, <3>3, <3>4 DEF Tgap!Promised!NothingPromised
    <3> QED
      BY <3>1, <3>5 DEF TgapInv, Tgap!Promised!AbsNext
  <2> QED
    BY <2>5, <2>6
<1> QED
  BY <1>7, <1>8

-----------------------------------------------------------------------------
(* The loops of lists.h. *)

(* The record of a loop, and the records that differ from it in what a     *)
(* step changes.                                                           *)
WalkOf(a, p, q, r, x, y) ==
    [of |-> a, var |-> p, prev |-> q, newPrev |-> r, next |-> x, put |-> y]
Onward(w, p, q, r, x, y) ==
    [w EXCEPT !.prev = q, !.var = p, !.newPrev = r, !.next = x, !.put = y]
Back(w, r) == [w EXCEPT !.newPrev = r]
Marked(w, r, y) == [w EXCEPT !.newPrev = r, !.put = y]

(* The fields of the record of a loop.                                     *)
LEMMA WalkFields ==
  ASSUME NEW a, NEW p, NEW q, NEW r, NEW x, NEW y, NEW w, w = WalkOf(a, p, q, r, x, y)
  PROVE  w.of = a /\ w.var = p /\ w.prev = q /\ w.newPrev = r /\ w.next = x /\ w.put = y
BY DEF WalkOf

(* What the steps of a loop make of its record.                            *)
LEMMA WalkSteps ==
  ASSUME NEW a, NEW p, NEW q, NEW r, NEW x, NEW y, NEW w, w = WalkOf(a, p, q, r, x, y)
  PROVE  /\ \A p2, q2, r2, x2, y2 : Onward(w, p2, q2, r2, x2, y2) = WalkOf(a, p2, q2, r2, x2, y2)
         /\ \A r2 : Back(w, r2) = WalkOf(a, p, q, r2, x, y)
         /\ \A r2, y2 : Marked(w, r2, y2) = WalkOf(a, p, q, r2, x, y2)
<1> DEFINE N == {"of", "var", "prev", "newPrev", "next", "put"}
           R(p2, q2, r2, x2, y2) ==
             [f \in N |-> IF f = "of" THEN a ELSE IF f = "var" THEN p2 ELSE IF f = "prev" THEN q2
                          ELSE IF f = "newPrev" THEN r2 ELSE IF f = "next" THEN x2 ELSE y2]
<1>1. \A p2, q2, r2, x2, y2 : WalkOf(a, p2, q2, r2, x2, y2) = R(p2, q2, r2, x2, y2)
  BY DEF WalkOf
<1>2. w = R(p, q, r, x, y)
  BY <1>1
<1>3. ASSUME NEW p2, NEW q2, NEW r2, NEW x2, NEW y2
      PROVE  Onward(w, p2, q2, r2, x2, y2) = R(p2, q2, r2, x2, y2)
  BY <1>2 DEF Onward
<1>4. ASSUME NEW r2 PROVE Back(w, r2) = R(p, q, r2, x, y)
  BY <1>2 DEF Back
<1>5. ASSUME NEW r2, NEW y2 PROVE Marked(w, r2, y2) = R(p, q, r2, x, y2)
  BY <1>2 DEF Marked
<1> HIDE DEF R
<1> QED
  BY <1>1, <1>3, <1>4, <1>5

(* A loop that stands at the i-th entry of its list, after a step.          *)
Stands(s, i, p, q, r, x, y) ==
    /\ x = At(s, i)
    /\ y # {"now"} => r = At(s, i - 1)
    /\ y = {} /\ p \in Range(s) => i > 1 /\ p = s[i - 1] /\ q = At(s, i - 2)
Puts == {{}, {"now"}, {"before"}}

(* A step after which the loop stands at the i-th entry of its list keeps  *)
(* the invariant, and shows the walk that is promised.                     *)
LEMMA LoopStands ==
  ASSUME ok, ok' = ok, NEW F, Listing(first', last', link', F),
         NEW a \in Heads, NEW p \in Nodes, NEW q, NEW r, NEW x, NEW y \in Puts,
         tgapWalk' = WalkOf(a, p, q, r, x, y),
         NEW i \in 1..(Len(F[a]) + 1), Stands(F[a], i, p, q, r, x, y)
  PROVE  /\ TgapInv' /\ Tgap!Lists' = F
         /\ Tgap!AbsWalk' = [of |-> a, cur |-> p, todo |-> SubSeq(F[a], i, Len(F[a])), put |-> y]
<1>1. Tgap!Lists' = F
  BY TgapSeenNext
<1> DEFINE w == tgapWalk'
<1>2. w.of = a /\ w.var = p /\ w.prev = q /\ w.newPrev = r /\ w.next = x /\ w.put = y
  BY WalkFields
<1>3. w = [of |-> w.of, var |-> w.var, prev |-> w.prev, newPrev |-> w.newPrev, next |-> w.next, put |-> w.put]
  BY <1>2 DEF WalkOf
<1>4. Loops(w)
  BY <1>2, <1>3 DEF Loops, Puts
<1>5. StandsAt(w, F[w.of], i)
  BY <1>2 DEF StandsAt, Stands
<1>6. OnLoop(w, F)
  BY <1>2, <1>4, <1>5 DEF OnLoop
<1>7. TgapInv'
  <2>1. OnLoop(tgapWalk, Tgap!Lists)'
    BY <1>1, <1>6 DEF OnLoop, StandsAt, Loops
  <2>2. Listing(first, last, link, Tgap!Lists)'
    BY <1>1
  <2>3. ok' \in BOOLEAN
    OBVIOUS
  <2> QED
    BY <2>1, <2>2, <2>3 DEF TgapInv
<1>8. Tgap!Chain(x, link') = SubSeq(F[a], i, Len(F[a]))
  BY ListingSeen, TgapOperators DEF Stands
<1>9. Tgap!AbsWalk' = [of |-> w.of, cur |-> w.var, todo |-> Tgap!Chain(w.next, link'), put |-> w.put]
  BY DEF Tgap!AbsWalk
<1> QED
  BY <1>1, <1>2, <1>7, <1>8, <1>9

(* Where a loop stands.                                                    *)
LEMMA LoopIs ==
  ASSUME TgapInv, ok, Tgap!InLoop
  PROVE  LET w == tgapWalk
             h == w.of
             s == Tgap!Lists[h]
             v == Tgap!AbsWalk
         IN  /\ h \in Heads /\ w.var \in Nodes /\ w.put \in Puts
             /\ w = WalkOf(h, w.var, w.prev, w.newPrev, w.next, w.put)
             /\ \E i \in 1..(Len(s) + 1) :
                  /\ Stands(s, i, w.var, w.prev, w.newPrev, w.next, w.put)
                  /\ v = [of |-> h, cur |-> w.var, put |-> w.put, todo |-> SubSeq(s, i, Len(s))]
             /\ v # Tgap!Promised!NoWalk /\ v.of = h /\ v.cur = w.var /\ v.put = w.put
<1> DEFINE w == tgapWalk
           h == w.of
           F == Tgap!Lists
           s == F[h]
           v == Tgap!AbsWalk
<1>1. Listing(first, last, link, F) /\ Loops(w) /\ \E i \in 1..(Len(s) + 1) : StandsAt(w, s, i)
  BY DEF TgapInv, OnLoop, Tgap!InLoop
<1>2. /\ h \in Heads /\ w.var \in Nodes /\ w.put \in Puts
      /\ w = WalkOf(h, w.var, w.prev, w.newPrev, w.next, w.put)
  BY <1>1 DEF Loops, Puts, WalkOf
<1>3. PICK i \in 1..(Len(s) + 1) : StandsAt(w, s, i)
  BY <1>1
<1>4. Stands(s, i, w.var, w.prev, w.newPrev, w.next, w.put)
  BY <1>3 DEF Stands, StandsAt
<1>5. Tgap!Chain(w.next, link) = SubSeq(s, i, Len(s))
  <2>1. w.next = At(s, i)
    BY <1>4 DEF Stands
  <2>2. \A j \in 1..(Len(s) + 1) : Chain(At(s, j), link) = SubSeq(s, j, Len(s))
    <3> HIDE DEF h, F
    <3> QED
      BY <1>1, <1>2, ListingSeen
  <2>3. Chain(At(s, i), link) = SubSeq(s, i, Len(s))
    BY <2>2
  <2> QED
    BY <2>1, <2>3, TgapOperators
<1>6. v = [of |-> h, cur |-> w.var, put |-> w.put, todo |-> SubSeq(s, i, Len(s))]
  BY <1>5 DEF Tgap!AbsWalk
<1>7. v.of = h /\ v.cur = w.var /\ v.put = w.put
  <2> DEFINE t == SubSeq(s, i, Len(s))
  <2>1. v = [of |-> h, cur |-> w.var, put |-> w.put, todo |-> t]
    BY <1>6
  <2> HIDE DEF t, v
  <2> QED
    BY <2>1
<1>8. v # Tgap!Promised!NoWalk
  <2>1. h # None
    BY <1>2, CellsAssumption
  <2>2. Tgap!Promised!NoWalk.of = None
    BY DEF Tgap!Promised!NoWalk
  <2> QED
    BY <1>7, <2>1, <2>2
<1> QED
  BY <1>2, <1>4, <1>6, <1>7, <1>8

(* TRAVERSE_SAFE_BEGIN: a loop sets out before the first entry.            *)
LEMMA TgapBeginKeeps ==
  ASSUME TgapInv, ok, NEW h \in Heads, Tgap!Begin(h)
  PROVE  TgapInv' /\ Tgap!Promised!AbsNext
<1> DEFINE F == Tgap!Lists
           s == F[h]
           c == <<"begin", h, h, "next", FALSE>>
<1>1. /\ Listing(first, last, link, F) /\ s \in Seq(Nodes) /\ Len(s) \in Nat
      /\ Line(first[h], last[h], link, s) /\ Tgap!Promised!Ready(h)
      /\ (Tgap!Empty(h) <=> Len(s) = 0) /\ (Tgap!Empty(h) <=> s = <<>>)
  BY TgapFacts
<1>2. /\ tgapCall' = c /\ tgapWalk = Tgap!NoWalk
      /\ first' = first /\ last' = last /\ link' = link /\ ok' = ok
      /\ Tgap!Empty(h) => tgapWalk' = Tgap!NoWalk
      /\ ~Tgap!Empty(h) => tgapWalk' = WalkOf(h, first[h], None, first[h], Tgap!NextOf(first[h]), {})
  BY DEF Tgap!Begin, Tgap!Do, WalkOf
<1>3. Listing(first', last', link', F)
  BY <1>1, <1>2
<1>4. Tgap!AbsWalk = Tgap!Promised!NoWalk
  BY <1>2, NoLoop
<1> DEFINE todo == SubSeq(s, 0 + 1, Len(s))
<1>5. todo = s
  <2>1. 0 + 1 = 1
    OBVIOUS
  <2> QED
    BY <1>1, <2>1, SubSeqFull
<1>6. TgapInv' /\ F' = F /\ IF todo = <<>> THEN Tgap!AbsWalk' = Tgap!Promised!NoWalk
                            ELSE Tgap!AbsWalk' = [of |-> h, cur |-> Head(todo), todo |-> Tail(todo), put |-> {}]
  <2>1. CASE Tgap!Empty(h)
    <3>1. tgapWalk' = Tgap!NoWalk
      BY <1>2, <2>1
    <3>2. F' = F
      <4> DEFINE G == Tgap!Lists
      <4>1. Listing(first', last', link', G)
        BY <1>3
      <4> HIDE DEF G
      <4>2. Tgap!Lists' = G
        BY <4>1, TgapSeenNext
      <4> QED
        BY <4>2 DEF G
    <3>3. OnLoop(tgapWalk, Tgap!Lists)'
      BY <3>1 DEF OnLoop
    <3>4. Tgap!AbsWalk' = Tgap!Promised!NoWalk
      BY <3>1, NoLoop
    <3>5. TgapInv'
      BY <1>2, <1>3, <3>2, <3>3 DEF TgapInv
    <3> QED
      BY <1>1, <1>5, <2>1, <3>2, <3>4, <3>5
  <2>2. CASE ~Tgap!Empty(h)
    <3> DEFINE p == first[h]
               x == Tgap!NextOf(p)
               y == {}
    <3>1. 1 \in 1..Len(s) /\ p = s[1] /\ p \in Nodes /\ p # None
      <4>1. 1 \in 1..Len(s) /\ p = s[1]
        BY <1>1, <2>2, LineEnds
      <4> QED
        BY <1>1, <4>1, AtIs
    <3>2. x = At(s, 2)
      <4>1. link[s[1]] = At(s, 1 + 1) /\ 1 + 1 = 2
        BY <1>1, <3>1 DEF Line
      <4> QED
        BY <3>1, <4>1 DEF Tgap!NextOf
    <3>3. tgapWalk' = WalkOf(h, p, None, p, x, y)
      BY <1>2, <2>2
    <3>4. 2 \in 1..(Len(s) + 1) /\ 2 - 1 = 1 /\ 2 - 2 = 0 /\ 2 > 1
      BY <1>1, <3>1
    <3>5. At(s, 0) = None /\ At(s, 1) = s[1]
      BY <1>1, <3>1, AtIs
    <3> HIDE DEF p, x
    <3>6. Stands(s, 2, p, None, p, x, y)
      BY <3>1, <3>2, <3>4, <3>5 DEF Stands
    <3>7. y \in Puts
      BY DEF Puts
    <3> HIDE DEF y
    <3>8. /\ TgapInv' /\ F' = F
          /\ Tgap!AbsWalk' = [of |-> h, cur |-> p, todo |-> SubSeq(s, 2, Len(s)), put |-> y]
      <4> DEFINE G == Tgap!Lists
      <4>1. Listing(first', last', link', G) /\ 2 \in 1..(Len(G[h]) + 1) /\ Stands(G[h], 2, p, None, p, x, y)
        BY <1>3, <3>4, <3>6
      <4> HIDE DEF G
      <4>2. /\ TgapInv' /\ Tgap!Lists' = G
            /\ Tgap!AbsWalk' = [of |-> h, cur |-> p, todo |-> SubSeq(G[h], 2, Len(G[h])), put |-> y]
        BY <1>2, <3>1, <3>3, <3>7, <4>1, LoopStands
      <4> QED
        BY <4>2 DEF G
    <3>9. Head(s) = s[1] /\ Tail(s) = SubSeq(s, 2, Len(s))
      <4>1. /\ 1 \in 1..(Len(s) + 1) /\ 1 # Len(s) + 1 /\ 1 + 1 = 2
        BY <1>1, <3>1
      <4>2. Head(SubSeq(s, 1, Len(s))) = s[1] /\ Tail(SubSeq(s, 1, Len(s))) = SubSeq(s, 1 + 1, Len(s))
        BY <1>1, <4>1, RestIs
      <4> QED
        BY <1>1, <4>1, <4>2, SubSeqFull
    <3>10. Tgap!AbsWalk' = [of |-> h, cur |-> Head(todo), todo |-> Tail(todo), put |-> {}]
      BY <1>5, <3>1, <3>8, <3>9 DEF y
    <3> QED
      BY <1>1, <1>5, <2>2, <3>8, <3>10
  <2> QED
    BY <2>1, <2>2
<1>7. Tgap!Promised!Begin(h, h, "next", FALSE)
  <2>1. Tgap!Promised!Call(c)
    BY <1>2 DEF Tgap!Promised!Call
  <2>2. LET ss == IF "next" = "next" THEN F[h] ELSE Tgap!Promised!Reverse(F[h])
            ii == IF h = h THEN 0 ELSE Tgap!Promised!Place(ss, h)
            tt == SubSeq(ss, IF FALSE THEN ii ELSE ii + 1, Len(ss))
        IN  IF tt = <<>> THEN Tgap!AbsWalk' = Tgap!Promised!NoWalk
            ELSE Tgap!AbsWalk' = [of |-> h, cur |-> Head(tt), todo |-> Tail(tt), put |-> {}]
    BY <1>6, Zenon
  <2>3. h \in Tgap!Promised!On(h) \/ (h = h /\ ~FALSE)
    OBVIOUS
  <2> HIDE DEF todo
  <2> QED
    BY <1>1, <1>4, <1>6, <2>1, <2>2, <2>3, Zenon DEF Tgap!Promised!Begin
<1> QED
  BY <1>6, <1>7, TgapSteps

(* The loop goes on to the next entry, or ends.                            *)
LEMMA TgapAdvanceKeeps ==
  ASSUME TgapInv, ok, Tgap!Advance
  PROVE  TgapInv' /\ Tgap!Promised!AbsNext
<1> DEFINE F == Tgap!Lists
           w == tgapWalk
           h == w.of
           s == F[h]
           v == Tgap!AbsWalk
           p2 == w.next
           x2 == Tgap!NextOf(w.next)
           y2 == IF "now" \in w.put THEN {"before"} ELSE {}
<1>1. /\ tgapCall' = <<"advance">> /\ Tgap!InLoop
      /\ first' = first /\ last' = last /\ link' = link /\ ok' = ok
      /\ w.next = None => tgapWalk' = Tgap!NoWalk
      /\ w.next # None => tgapWalk' = Onward(w, p2, w.newPrev, p2, x2, y2)
  BY DEF Tgap!Advance, Tgap!Do, Onward
<1>2. /\ h \in Heads /\ w.var \in Nodes /\ w.put \in Puts
      /\ w = WalkOf(h, w.var, w.prev, w.newPrev, w.next, w.put)
      /\ \E i \in 1..(Len(s) + 1) :
           /\ Stands(s, i, w.var, w.prev, w.newPrev, w.next, w.put)
           /\ v = [of |-> h, cur |-> w.var, put |-> w.put, todo |-> SubSeq(s, i, Len(s))]
      /\ v # Tgap!Promised!NoWalk /\ v.of = h /\ v.cur = w.var /\ v.put = w.put
  BY <1>1, LoopIs
<1>3. PICK i \in 1..(Len(s) + 1) :
        /\ Stands(s, i, w.var, w.prev, w.newPrev, w.next, w.put)
        /\ v = [of |-> h, cur |-> w.var, put |-> w.put, todo |-> SubSeq(s, i, Len(s))]
  BY <1>2
<1>4. /\ Listing(first, last, link, F) /\ s \in Seq(Nodes) /\ Distinct(s) /\ Len(s) \in Nat
      /\ Line(first[h], last[h], link, s)
  <2> DEFINE k == h
  <2>1. k \in Heads
    BY <1>2
  <2> HIDE DEF k
  <2>2. /\ Listing(first, last, link, F) /\ F[k] \in Seq(Nodes) /\ Distinct(F[k]) /\ Len(F[k]) \in Nat
        /\ Line(first[k], last[k], link, F[k])
    BY <2>1, TgapFacts
  <2> QED
    BY <2>2 DEF k
<1>5. Listing(first', last', link', F)
  BY <1>1, <1>4
<1> DEFINE todo == SubSeq(s, i, Len(s))
<1>6. /\ todo = <<>> <=> i = Len(s) + 1
      /\ i # Len(s) + 1 => Head(todo) = s[i] /\ Tail(todo) = SubSeq(s, i + 1, Len(s))
  <2> HIDE DEF s
  <2> QED
    BY <1>4, RestIs
<1>7. w.next = At(s, i) /\ (w.next = None <=> i = Len(s) + 1)
  <2>1. w.next = At(s, i)
    BY <1>3 DEF Stands
  <2> HIDE DEF s, w
  <2>2. i # Len(s) + 1 => i \in 1..Len(s)
    BY <1>4
  <2> QED
    BY <1>4, <2>1, <2>2, AtIs
<1>8. v.todo = todo
  <2> DEFINE t == todo
  <2>1. v = [of |-> h, cur |-> w.var, put |-> w.put, todo |-> t]
    BY <1>3
  <2> HIDE DEF t, v, w
  <2>2. v.todo = t
    BY <2>1
  <2> QED
    BY <2>2 DEF t
<1>9. TgapInv' /\ F' = F /\ IF todo = <<>> THEN Tgap!AbsWalk' = Tgap!Promised!NoWalk
                            ELSE Tgap!AbsWalk' = Walked(v, Head(todo), Tail(todo), y2)
  <2>1. CASE w.next = None
    <3>1. tgapWalk' = Tgap!NoWalk
      BY <1>1, <2>1
    <3>2. F' = F
      <4> DEFINE G == Tgap!Lists
      <4>1. Listing(first', last', link', G)
        BY <1>5
      <4> HIDE DEF G
      <4>2. Tgap!Lists' = G
        BY <4>1, TgapSeenNext
      <4> QED
        BY <4>2 DEF G
    <3>3. OnLoop(tgapWalk, Tgap!Lists)'
      BY <3>1 DEF OnLoop
    <3>4. Tgap!AbsWalk' = Tgap!Promised!NoWalk
      BY <3>1, NoLoop
    <3>5. TgapInv'
      BY <1>1, <1>5, <3>2, <3>3 DEF TgapInv
    <3> QED
      BY <1>6, <1>7, <2>1, <3>2, <3>4, <3>5
  <2>2. CASE w.next # None
    <3>1. i \in 1..Len(s) /\ i # Len(s) + 1
      BY <1>4, <1>7, <2>2
    <3>2. p2 = s[i] /\ p2 \in Nodes /\ At(s, i) = s[i]
      <4> HIDE DEF s, w
      <4> QED
        BY <1>4, <1>7, <3>1, AtIs
    <3>3. x2 = At(s, i + 1)
      <4>1. link[s[i]] = At(s, i + 1)
        BY <1>4, <3>1 DEF Line
      <4> QED
        BY <2>2, <3>2, <4>1 DEF Tgap!NextOf
    <3>4. tgapWalk' = WalkOf(h, p2, w.newPrev, p2, x2, y2)
      <4> DEFINE a == h
                 q == w.var
                 r == w.prev
                 n == w.newPrev
                 x == w.next
                 y == w.put
      <4>1. w = WalkOf(a, q, r, n, x, y)
        BY <1>2
      <4>2. tgapWalk' = Onward(w, p2, n, p2, x2, y2)
        BY <1>1, <2>2
      <4> HIDE DEF a, q, r, n, x, y, w, p2, x2, y2
      <4>3. tgapWalk' = WalkOf(a, p2, n, p2, x2, y2)
        BY <4>1, <4>2, WalkSteps
      <4> QED
        BY <4>3 DEF a, n
    <3>5. y2 \in Puts /\ y2 # {"now"}
      <4>1. {"before"} # {"now"} /\ {} # {"now"}
        <5>1. "before" # "now"
          OBVIOUS
        <5> QED
          BY <5>1
      <4> QED
        BY <4>1 DEF Puts
    <3>6. y2 = {} => w.newPrev = At(s, i - 1)
      <4>1. w.put # {"now"} => w.newPrev = At(s, i - 1)
        BY <1>3 DEF Stands
      <4>2. w.put = {"now"} => y2 = {"before"}
        OBVIOUS
      <4> QED
        BY <4>1, <4>2
    <3>7. Stands(s, i + 1, p2, w.newPrev, p2, x2, y2)
      <4>1. (i + 1) - 1 = i /\ (i + 1) - 2 = i - 1 /\ i + 1 > 1
        BY <3>1
      <4> HIDE DEF p2, x2, y2, s
      <4> QED
        BY <1>7, <3>2, <3>3, <3>6, <4>1 DEF Stands
    <3>8. i + 1 \in 1..(Len(s) + 1)
      BY <1>4, <3>1
    <3>9. /\ TgapInv' /\ F' = F
          /\ Tgap!AbsWalk' = [of |-> h, cur |-> p2, todo |-> SubSeq(s, i + 1, Len(s)), put |-> y2]
      <4> DEFINE G == Tgap!Lists
                 a == h
                 r == w.newPrev
      <4>1. /\ Listing(first', last', link', G) /\ i + 1 \in 1..(Len(G[a]) + 1)
            /\ Stands(G[a], i + 1, p2, r, p2, x2, y2)
            /\ a \in Heads /\ tgapWalk' = WalkOf(a, p2, r, p2, x2, y2)
        BY <1>2, <1>5, <3>4, <3>7, <3>8
      <4> HIDE DEF G, a, r, p2, x2, y2
      <4>2. /\ TgapInv' /\ Tgap!Lists' = G
            /\ Tgap!AbsWalk' = [of |-> a, cur |-> p2, todo |-> SubSeq(G[a], i + 1, Len(G[a])), put |-> y2]
        BY <1>1, <3>2, <3>5, <4>1, LoopStands
      <4> QED
        BY <4>2 DEF G, a
    <3>10. Walked(v, Head(todo), Tail(todo), y2)
           = [of |-> h, cur |-> Head(todo), put |-> y2, todo |-> Tail(todo)]
      <4> DEFINE a == h
                 q == w.var
                 y == w.put
                 t == todo
                 b == Head(todo)
                 z == Tail(todo)
      <4>1. v = [of |-> a, cur |-> q, put |-> y, todo |-> t]
        BY <1>3
      <4> HIDE DEF a, q, y, t, b, z, v, y2
      <4>2. Walked(v, b, z, y2) = [of |-> a, cur |-> b, put |-> y2, todo |-> z]
        BY <4>1, WalkRecord
      <4> QED
        BY <4>2 DEF a, b, z
    <3>11. Tgap!AbsWalk' = Walked(v, Head(todo), Tail(todo), y2) /\ todo # <<>>
      <4>1. Head(todo) = p2 /\ Tail(todo) = SubSeq(s, i + 1, Len(s)) /\ todo # <<>>
        BY <1>6, <3>1, <3>2
      <4> HIDE DEF todo, y2, p2, s
      <4> QED
        BY <3>9, <3>10, <4>1
    <3> HIDE DEF todo, y2
    <3> QED
      BY <3>9, <3>11
  <2> QED
    BY <2>1, <2>2
<1>10. Tgap!Promised!Advance
  <2>1. Tgap!Promised!Call(<<"advance">>)
    BY <1>1 DEF Tgap!Promised!Call
  <2>2. IF v.todo = <<>> THEN Tgap!AbsWalk' = Tgap!Promised!NoWalk
        ELSE Tgap!AbsWalk' = [v EXCEPT !.cur = Head(v.todo), !.todo = Tail(@),
                                       !.put = IF "now" \in @ THEN {"before"} ELSE {}]
    <3>1. y2 = IF "now" \in v.put THEN {"before"} ELSE {}
      BY <1>2
    <3>2. CASE todo = <<>>
      BY <1>8, <1>9, <3>2
    <3>3. CASE todo # <<>>
      <4>1. Tgap!AbsWalk' = Walked(v, Head(v.todo), Tail(v.todo), IF "now" \in v.put THEN {"before"} ELSE {})
        <5> HIDE DEF todo, y2
        <5> QED
          BY <1>8, <1>9, <3>1, <3>3
      <4> HIDE DEF todo, v
      <4> QED
        BY <1>8, <3>3, <4>1, Zenon DEF Walked
    <3> QED
      BY <3>2, <3>3
  <2> QED
    BY <1>2, <1>9, <2>1, <2>2 DEF Tgap!Promised!Advance
<1> QED
  BY <1>9, <1>10 DEF Tgap!Promised!AbsNext

(* A change in a loop after an INSERT_BEFORE_CURRENT: nothing is promised.  *)
LEMMA NothingAfterInsert ==
  ASSUME TgapInv, ok, Tgap!InLoop, tgapWalk.put # {}, ok' = FALSE,
         tgapCall'[1] \in {"remove_current", "move_current", "before"}
  PROVE  TgapInv' /\ Tgap!Promised!AbsNext
<1>1. Tgap!AbsWalk.put # {}
  BY LoopIs
<1>2. Tgap!Promised!NothingPromised
  BY <1>1 DEF Tgap!Promised!NothingPromised
<1> QED
  BY <1>2 DEF TgapInv, Tgap!Promised!AbsNext

(* Where a loop stands whose current entry, the k-th, is still in the list *)
(* and has nothing inserted before it.                                     *)
Current(k) ==
    LET w == tgapWalk
        s == Tgap!Lists[w.of]
    IN  /\ k \in 1..Len(s) /\ k + 1 \in 1..(Len(s) + 1)
        /\ w.var = s[k] /\ w.newPrev = s[k] /\ w.prev = At(s, k - 1) /\ w.next = At(s, k + 1)
        /\ w = WalkOf(w.of, s[k], At(s, k - 1), s[k], At(s, k + 1), {})
        /\ Tgap!AbsWalk = [of |-> w.of, cur |-> s[k], put |-> {}, todo |-> SubSeq(s, k + 1, Len(s))]

(* AtCurrent, with nothing inserted before: the current entry is the k-th, *)
(* for some k.                                                             *)
LEMMA CurrentIs ==
  ASSUME TgapInv, ok, Tgap!AtCurrent, tgapWalk.put = {}
  PROVE  \E k \in Nat : Current(k)
<1> DEFINE F == Tgap!Lists
           w == tgapWalk
           h == w.of
           s == F[h]
           v == Tgap!AbsWalk
<1>1. Tgap!InLoop /\ w.var \in Tgap!Range(Tgap!Content(h))
  BY DEF Tgap!AtCurrent
<1>2. /\ h \in Heads /\ w.var \in Nodes /\ w.put \in Puts
      /\ w = WalkOf(h, w.var, w.prev, w.newPrev, w.next, w.put)
      /\ \E i \in 1..(Len(s) + 1) :
           /\ Stands(s, i, w.var, w.prev, w.newPrev, w.next, w.put)
           /\ v = [of |-> h, cur |-> w.var, put |-> w.put, todo |-> SubSeq(s, i, Len(s))]
  BY <1>1, LoopIs
<1>3. PICK i \in 1..(Len(s) + 1) :
        /\ Stands(s, i, w.var, w.prev, w.newPrev, w.next, w.put)
        /\ v = [of |-> h, cur |-> w.var, put |-> w.put, todo |-> SubSeq(s, i, Len(s))]
  BY <1>2
<1>4. s \in Seq(Nodes) /\ Len(s) \in Nat /\ Tgap!Content(h) = s
  <2> DEFINE k == h
  <2>1. k \in Heads
    BY <1>2
  <2> HIDE DEF k
  <2>2. F[k] \in Seq(Nodes) /\ Len(F[k]) \in Nat /\ Tgap!Content(k) = F[k]
    BY <2>1, TgapFacts
  <2> QED
    BY <2>2 DEF k
<1>5. w.var \in Range(s)
  BY <1>1, <1>4, TgapOperators
<1>6. {} # {"now"}
  OBVIOUS
<1>7. /\ w.next = At(s, i) /\ w.newPrev = At(s, i - 1) /\ i > 1 /\ w.var = s[i - 1] /\ w.prev = At(s, i - 2)
  <2> HIDE DEF s, w
  <2>1. w.put = {}
    BY DEF w
  <2> QED
    BY <1>3, <1>5, <1>6, <2>1 DEF Stands
<1> DEFINE k == i - 1
<1>8. k \in Nat /\ k \in 1..Len(s) /\ k + 1 \in 1..(Len(s) + 1) /\ i = k + 1 /\ i - 2 = k - 1
  BY <1>4, <1>7
<1>9. At(s, k) = s[k]
  <2> HIDE DEF s, k
  <2> QED
    BY <1>4, <1>8, AtIs
<1>10. w.var = s[k] /\ w.newPrev = s[k] /\ w.prev = At(s, k - 1) /\ w.next = At(s, k + 1)
  BY <1>7, <1>8, <1>9
<1>11. Current(k)
  <2> HIDE DEF k
  <2> QED
    BY <1>2, <1>3, <1>8, <1>10 DEF Current
<1> QED
  BY <1>8, <1>11

(* The heads and links without the current entry, the k-th of its list.    *)
WithoutCurrent(k) ==
    LET h == tgapWalk.of
        s == Tgap!Lists[h]
        s2 == RemoveAt(s, k)
        F2 == [Tgap!Lists EXCEPT ![h] = s2]
    IN  /\ Listing(Tgap!FirstUnlinked, Tgap!LastUnlinked, Tgap!Unlinked, F2)
        /\ Away({}, F2, s[k])
        /\ h \in Heads /\ s \in Seq(Nodes) /\ Distinct(s) /\ s2 \in Seq(Nodes)
        /\ k \in 1..Len(s) /\ k \in 1..(Len(s2) + 1) /\ s[k] \in Nodes
        /\ At(s2, k) = At(s, k + 1) /\ At(s2, k - 1) = At(s, k - 1)
        /\ SubSeq(s2, k, Len(s2)) = SubSeq(s, k + 1, Len(s))
        /\ s[k] \notin Range(s2)
        /\ Tgap!Promised!Without(s, s[k]) = s2

(* What follows the k-th entry follows the place it left.                  *)
LEMMA RestLeft ==
  ASSUME NEW d \in Seq(Nodes), NEW i \in 1..Len(d), NEW b, Deleted(d, b, i)
  PROVE  /\ b \in Seq(Nodes) /\ i \in 1..(Len(b) + 1)
         /\ SubSeq(b, i, Len(b)) = SubSeq(d, i + 1, Len(d))
BY RestStays

(* Unlinking the current entry, as REMOVE_CURRENT and MOVE_CURRENT do,     *)
(* leaves heads and links that are those of the lists without it.          *)
LEMMA CurrentOut ==
  ASSUME TgapInv, ok, Tgap!InLoop, NEW k \in Nat, Current(k)
  PROVE  WithoutCurrent(k)
<1> DEFINE h == tgapWalk.of
           s == Tgap!Lists[h]
           s2 == RemoveAt(s, k)
           F == Tgap!Lists
           w == tgapWalk
           f2 == [first EXCEPT ![h] = IF k = 1 THEN At(s, 2) ELSE first[h]]
           t2 == [last EXCEPT ![h] = IF k = Len(s) THEN At(s, k - 1) ELSE last[h]]
           l2 == Tgap!Unlinked
           F2 == [F EXCEPT ![h] = s2]
<1>1. h \in Heads
  BY LoopIs
<1>2. /\ Listing(first, last, link, F) /\ s \in Seq(Nodes) /\ Distinct(s) /\ Len(s) \in Nat
      /\ first \in Ends /\ last \in Ends /\ link \in Links
  BY <1>1, TgapFacts
<1>3. /\ k \in 1..Len(s) /\ w.newPrev = s[k] /\ w.prev = At(s, k - 1) /\ w.next = At(s, k + 1)
  BY DEF Current
<1>4. /\ \A i \in 1..Len(s) : At(s, i) = s[i] /\ s[i] \in Nodes /\ s[i] # None
      /\ \A i \in Int : i \notin 1..Len(s) => At(s, i) = None
      /\ \A i \in Int : At(s, i) \in Nodes \cup {None}
      /\ \A n \in Nodes : n # None
  BY <1>2, AtIs
<1>5. w.prev = None <=> k = 1
  <2>1. k - 1 \in Int /\ (k - 1 \in 1..Len(s) <=> k # 1)
    BY <1>2, <1>3
  <2> QED
    BY <1>3, <1>4, <2>1
<1>6. w.next = None <=> k = Len(s)
  <2>1. k + 1 \in Int /\ (k + 1 \in 1..Len(s) <=> k # Len(s))
    BY <1>2, <1>3
  <2> QED
    BY <1>3, <1>4, <2>1
<1>7. Tgap!FirstUnlinked = f2
  <2>1. CASE k = 1
    <3>1. k + 1 = 2
      BY <2>1
    <3> QED
      BY <1>3, <1>5, <2>1, <3>1 DEF Tgap!FirstUnlinked
  <2>2. CASE k # 1
    BY <1>2, <1>5, <2>2 DEF Tgap!FirstUnlinked, Ends
  <2> QED
    BY <2>1, <2>2
<1>8. Tgap!LastUnlinked = t2
  <2>1. CASE k = Len(s)
    BY <1>3, <1>6, <2>1 DEF Tgap!LastUnlinked
  <2>2. CASE k # Len(s)
    BY <1>2, <1>6, <2>2 DEF Tgap!LastUnlinked, Ends
  <2> QED
    BY <2>1, <2>2
<1>9. s[k] \in Nodes
  BY <1>3, <1>4
<1>10. Relinked(link, l2, s[k], None, At(s, k - 1), At(s, k + 1))
  <2> DEFINE p == At(s, k - 1)
             x == At(s, k + 1)
             n == s[k]
             m == [link EXCEPT ![n] = None]
  <2>1. p \in Nodes \cup {None} /\ x \in Nodes \cup {None} /\ n \in Nodes
    <3>1. k - 1 \in Int /\ k + 1 \in Int
      BY <1>3
    <3> QED
      BY <1>4, <1>9, <3>1
  <2>2. p # n
    <3>1. k - 1 \in Int /\ k - 1 # k
      BY <1>3
    <3> QED
      BY <1>2, <1>3, <1>4, <3>1, AtDiffers
  <2>3. l2 = IF p = None THEN m ELSE [m EXCEPT ![p] = x]
    BY <1>3 DEF Tgap!Unlinked, Tgap!UnlinkedAll
  <2> HIDE DEF p, x, n, l2
  <2>4. m \in Links /\ \A e \in Nodes : m[e] = IF e = n THEN None ELSE link[e]
    BY <1>2, <2>1 DEF Links
  <2> HIDE DEF m
  <2>5. l2 \in Links
    BY <2>1, <2>3, <2>4 DEF Links
  <2>6. \A e \in Nodes : l2[e] = IF e = n THEN None ELSE IF e = p THEN x ELSE link[e]
    BY <1>4, <2>1, <2>2, <2>3, <2>4 DEF Links
  <2>7. Relinked(link, l2, n, None, p, x)
    BY <2>5, <2>6 DEF Relinked
  <2> QED
    BY <2>7 DEF n, p, x
<1> HIDE DEF l2
<1>11. Deleted(s, s2, k)
  BY <1>2, <1>3, RemoveAtDeletes
<1>12. Listing(f2, t2, l2, F2) /\ Away({}, F2, s[k])
  <2>1. s = F[h]
    OBVIOUS
  <2> HIDE DEF F
  <2>2. k \in 1..Len(F[h]) /\ Deleted(F[h], s2, k)
        /\ Relinked(link, l2, F[h][k], None, At(F[h], k - 1), At(F[h], k + 1))
    BY <1>3, <1>10, <1>11, <2>1
  <2>3. /\ Listing([first EXCEPT ![h] = IF k = 1 THEN At(F[h], 2) ELSE first[h]],
                   [last EXCEPT ![h] = IF k = Len(F[h]) THEN At(F[h], k - 1) ELSE last[h]], l2, F2)
        /\ Away({}, F2, F[h][k])
    BY <1>1, <1>2, <2>2, ListingOut
  <2> QED
    BY <2>1, <2>3
<1>13. /\ s2 \in Seq(Nodes) /\ k \in 1..(Len(s2) + 1)
       /\ SubSeq(s2, k, Len(s2)) = SubSeq(s, k + 1, Len(s))
  <2> HIDE DEF s, s2
  <2> QED
    BY <1>2, <1>3, <1>11, RestLeft
<1>14. At(s2, k) = At(s, k + 1) /\ At(s2, k - 1) = At(s, k - 1)
  <2>1. k \in Int /\ ~(k < k) /\ k - 1 \in Int /\ k - 1 < k
    BY <1>3
  <2>2. \A i \in Int : At(s2, i) = IF i < k THEN At(s, i) ELSE At(s, i + 1)
    BY <1>2, <1>3, <1>11, AtDeleted
  <2> QED
    BY <2>1, <2>2
<1>15. s[k] \notin Range(s2)
  <2>1. \A i \in 1..Len(s2) : s2[i] # s[k]
    BY <1>2, <1>3, <1>11, DeletedGone
  <2> QED
    BY <1>13, <2>1, InRange
<1>16. Tgap!Promised!Without(s, s[k]) = s2
  BY <1>2, <1>3, TgapPlaceIs
<1> QED
  BY <1>1, <1>2, <1>3, <1>7, <1>8, <1>9, <1>12, <1>13, <1>14, <1>15, <1>16 DEF l2, WithoutCurrent

(* REMOVE_CURRENT.                                                         *)
LEMMA RemoveCurrentKeeps ==
  ASSUME TgapInv, ok, Tgap!RemoveCurrent
  PROVE  TgapInv' /\ Tgap!Promised!AbsNext
<1> DEFINE w == tgapWalk
           F == Tgap!Lists
<1>1. /\ tgapCall' = <<"remove_current">> /\ Tgap!AtCurrent /\ Tgap!InLoop
      /\ first' = Tgap!FirstUnlinked /\ last' = Tgap!LastUnlinked /\ link' = Tgap!Unlinked
      /\ tgapWalk' = Back(w, w.prev)
      /\ ok' = (w.put = {})
  BY DEF Tgap!RemoveCurrent, Tgap!Do, Tgap!AtCurrent, Back
<1>2. CASE w.put # {}
  BY <1>1, <1>2, NothingAfterInsert
<1>3. CASE w.put = {}
  <2>1. PICK k \in Nat : Current(k)
    BY <1>1, <1>3, CurrentIs
  <2> DEFINE h == w.of
             s == F[h]
             s2 == RemoveAt(s, k)
             F2 == [F EXCEPT ![h] = s2]
             e == s[k]
             y == {}
             q == At(s, k - 1)
             x == At(s, k + 1)
  <2>2. /\ Listing(Tgap!FirstUnlinked, Tgap!LastUnlinked, Tgap!Unlinked, F2)
        /\ h \in Heads /\ e \in Nodes /\ s2 \in Seq(Nodes)
        /\ k \in 1..Len(s) /\ k \in 1..(Len(s2) + 1)
        /\ At(s2, k) = x /\ At(s2, k - 1) = q
        /\ SubSeq(s2, k, Len(s2)) = SubSeq(s, k + 1, Len(s))
        /\ e \notin Range(s2)
        /\ Tgap!Promised!Without(s, e) = s2
    <3>1. WithoutCurrent(k)
      BY <1>1, <2>1, CurrentOut
    <3> QED
      BY <3>1 DEF WithoutCurrent
  <2>3. /\ w = WalkOf(h, e, q, e, x, y) /\ w.prev = q
        /\ Tgap!AbsWalk = [of |-> h, cur |-> e, put |-> y, todo |-> SubSeq(s, k + 1, Len(s))]
    BY <2>1 DEF Current
  <2>4. F2[h] = s2
    <3>1. F \in [Heads -> Seq(Nodes)]
      BY DEF TgapInv, Listing
    <3> HIDE DEF F, s2
    <3> QED
      BY <2>2, <3>1
  <2>5. Listing(first', last', link', F2)
    BY <1>1, <2>2
  <2>6. ok' = ok
    BY <1>1, <1>3 DEF TgapInv
  <2>7. tgapWalk' = WalkOf(h, e, q, q, x, y)
    <3>1. tgapWalk' = Back(w, q)
      BY <1>1, <2>3
    <3> DEFINE a == h
    <3>2. w = WalkOf(a, e, q, e, x, y)
      BY <2>3
    <3> HIDE DEF a, e, q, x, y, w
    <3>3. Back(w, q) = WalkOf(a, e, q, q, x, y)
      BY <3>2, WalkSteps
    <3> QED
      BY <3>1, <3>3 DEF a
  <2>8. Stands(s2, k, e, q, q, x, y)
    <3> HIDE DEF s2, e, q, x, y
    <3> QED
      BY <2>2 DEF Stands
  <2>9. y \in Puts
    BY DEF Puts
  <2>10. /\ TgapInv' /\ Tgap!Lists' = F2
         /\ Tgap!AbsWalk' = [of |-> h, cur |-> e, todo |-> SubSeq(s2, k, Len(s2)), put |-> y]
    <3> DEFINE G == F2
               a == h
    <3>1. Listing(first', last', link', G) /\ a \in Heads /\ tgapWalk' = WalkOf(a, e, q, q, x, y)
          /\ k \in 1..(Len(G[a]) + 1) /\ Stands(G[a], k, e, q, q, x, y) /\ G[a] = s2 /\ e \in Nodes
      BY <2>2, <2>4, <2>5, <2>7, <2>8
    <3> HIDE DEF G, a, s2, e, q, x, y
    <3>2. /\ TgapInv' /\ Tgap!Lists' = G
          /\ Tgap!AbsWalk' = [of |-> a, cur |-> e, todo |-> SubSeq(G[a], k, Len(G[a])), put |-> y]
      BY <2>6, <2>9, <3>1, LoopStands
    <3> QED
      BY <3>1, <3>2 DEF G, a
  <2>11. Tgap!AbsWalk' = Tgap!AbsWalk
    <3> HIDE DEF s2, e, y
    <3> QED
      BY <2>2, <2>3, <2>10
  <2>12. Tgap!AbsWalk # Tgap!Promised!NoWalk /\ Tgap!AbsWalk.of = h /\ Tgap!AbsWalk.cur = e
    <3>1. w.var = e
      BY <2>1 DEF Current
    <3> QED
      BY <1>1, <3>1, LoopIs
  <2>13. Tgap!Promised!RemoveCurrent
    <3>1. Tgap!Promised!Call(<<"remove_current">>)
      BY <1>1, <2>6 DEF Tgap!Promised!Call
    <3> HIDE DEF s2, e
    <3> QED
      BY <2>2, <2>10, <2>11, <2>12, <3>1 DEF Tgap!Promised!RemoveCurrent
  <2> QED
    BY <2>10, <2>13 DEF Tgap!Promised!AbsNext
<1> QED
  BY <1>2, <1>3

(* MOVE_CURRENT.                                                           *)
LEMMA TgapMoveCurrentKeeps ==
  ASSUME TgapInv, ok, NEW g \in Heads, Tgap!MoveCurrent(g)
  PROVE  TgapInv' /\ Tgap!Promised!AbsNext
<1> DEFINE w == tgapWalk
           F == Tgap!Lists
<1>1. /\ tgapCall' = <<"move_current", g>> /\ Tgap!AtCurrent /\ Tgap!InLoop /\ g # w.of
      /\ Tgap!PutLast(g, w.newPrev, Tgap!FirstUnlinked, Tgap!LastUnlinked, Tgap!Unlinked)
      /\ tgapWalk' = Back(w, w.prev)
      /\ ok' = (w.put = {})
  BY DEF Tgap!MoveCurrent, Tgap!Do, Tgap!AtCurrent, Back
<1>2. CASE w.put # {}
  BY <1>1, <1>2, NothingAfterInsert
<1>3. CASE w.put = {}
  <2>1. PICK k \in Nat : Current(k)
    BY <1>1, <1>3, CurrentIs
  <2> DEFINE h == w.of
             s == F[h]
             s2 == RemoveAt(s, k)
             F2 == [F EXCEPT ![h] = s2]
             e == s[k]
             y == {}
             q == At(s, k - 1)
             x == At(s, k + 1)
             F3 == [F EXCEPT ![h] = s2, ![g] = Append(F[g], e)]
  <2>2. /\ Listing(Tgap!FirstUnlinked, Tgap!LastUnlinked, Tgap!Unlinked, F2) /\ Away({}, F2, e)
        /\ h \in Heads /\ e \in Nodes /\ s2 \in Seq(Nodes)
        /\ k \in 1..Len(s) /\ k \in 1..(Len(s2) + 1)
        /\ At(s2, k) = x /\ At(s2, k - 1) = q
        /\ SubSeq(s2, k, Len(s2)) = SubSeq(s, k + 1, Len(s))
        /\ e \notin Range(s2)
        /\ Tgap!Promised!Without(s, e) = s2
    <3>1. WithoutCurrent(k)
      BY <1>1, <2>1, CurrentOut
    <3> QED
      BY <3>1 DEF WithoutCurrent
  <2>3. /\ w = WalkOf(h, e, q, e, x, y) /\ w.prev = q /\ w.newPrev = e
        /\ Tgap!AbsWalk = [of |-> h, cur |-> e, put |-> y, todo |-> SubSeq(s, k + 1, Len(s))]
    BY <2>1 DEF Current
  <2>4. F3[h] = s2 /\ F3 = [F2 EXCEPT ![g] = Append(F2[g], e)]
    <3>1. F \in [Heads -> Seq(Nodes)]
      BY DEF TgapInv, Listing
    <3> HIDE DEF F, s2, e
    <3> QED
      BY <1>1, <2>2, <3>1
  <2>5. Listing(first', last', link', F3)
    <3>1. Tgap!PutLast(g, e, Tgap!FirstUnlinked, Tgap!LastUnlinked, Tgap!Unlinked)
      BY <1>1, <2>3
    <3> HIDE DEF F2, e
    <3>2. Listing(first', last', link', [F2 EXCEPT ![g] = Append(F2[g], e)])
      BY <2>2, <3>1, PutLastPuts
    <3> HIDE DEF F3
    <3> QED
      BY <2>4, <3>2
  <2>6. ok' = ok
    BY <1>1, <1>3 DEF TgapInv
  <2>7. tgapWalk' = WalkOf(h, e, q, q, x, y)
    <3>1. tgapWalk' = Back(w, q)
      BY <1>1, <2>3
    <3> DEFINE a == h
    <3>2. w = WalkOf(a, e, q, e, x, y)
      BY <2>3
    <3> HIDE DEF a, e, q, x, y, w
    <3>3. Back(w, q) = WalkOf(a, e, q, q, x, y)
      BY <3>2, WalkSteps
    <3> QED
      BY <3>1, <3>3 DEF a
  <2>8. Stands(s2, k, e, q, q, x, y)
    <3> HIDE DEF s2, e, q, x, y
    <3> QED
      BY <2>2 DEF Stands
  <2>9. y \in Puts
    BY DEF Puts
  <2>10. /\ TgapInv' /\ Tgap!Lists' = F3
         /\ Tgap!AbsWalk' = [of |-> h, cur |-> e, todo |-> SubSeq(s2, k, Len(s2)), put |-> y]
    <3> DEFINE G == F3
               a == h
    <3>1. Listing(first', last', link', G) /\ a \in Heads /\ tgapWalk' = WalkOf(a, e, q, q, x, y)
          /\ k \in 1..(Len(G[a]) + 1) /\ Stands(G[a], k, e, q, q, x, y) /\ G[a] = s2 /\ e \in Nodes
      BY <2>2, <2>4, <2>5, <2>7, <2>8
    <3> HIDE DEF G, a, s2, e, q, x, y
    <3>2. /\ TgapInv' /\ Tgap!Lists' = G
          /\ Tgap!AbsWalk' = [of |-> a, cur |-> e, todo |-> SubSeq(G[a], k, Len(G[a])), put |-> y]
      BY <2>6, <2>9, <3>1, LoopStands
    <3> QED
      BY <3>1, <3>2 DEF G, a
  <2>11. Tgap!AbsWalk' = Tgap!AbsWalk
    <3> HIDE DEF s2, e, y
    <3> QED
      BY <2>2, <2>3, <2>10
  <2>12. Tgap!AbsWalk # Tgap!Promised!NoWalk /\ Tgap!AbsWalk.of = h /\ Tgap!AbsWalk.cur = e
    <3>1. w.var = e
      BY <2>1 DEF Current
    <3> QED
      BY <1>1, <3>1, LoopIs
  <2>13. Tgap!Promised!MoveCurrent(g)
    <3>1. Tgap!Promised!Call(<<"move_current", g>>)
      BY <1>1, <2>6 DEF Tgap!Promised!Call
    <3>2. Tgap!Promised!Ready(g)
      BY TgapFacts
    <3>3. F' = [F EXCEPT ![h] = Tgap!Promised!Without(F[h], e), ![g] = Append(F[g], e)]
      <4> HIDE DEF s2, e
      <4> QED
        BY <2>2, <2>10
    <3>4. [F EXCEPT ![h] = Tgap!Promised!Without(F[h], e), ![g] = Append(F[g], e)]
          = [F EXCEPT ![h] = Tgap!Promised!Without(@, e), ![g] = Append(@, e)]
      <4> DEFINE r == Tgap!Promised!Without(F[h], e)
      <4>1. [F EXCEPT ![h] = r][g] = F[g]
        BY <1>1
      <4> HIDE DEF e, F, h
      <4> QED
        BY <4>1
    <3> HIDE DEF s2, e
    <3> QED
      BY <2>10, <2>11, <2>12, <3>1, <3>2, <3>3, <3>4 DEF Tgap!Promised!MoveCurrent
  <2> QED
    BY <2>10, <2>13 DEF Tgap!Promised!AbsNext
<1> QED
  BY <1>2, <1>3

(* A sequence with an entry put before its k-th one.                       *)
LEMMA PutBefore ==
  ASSUME NEW s \in Seq(Nodes), NEW k \in 1..Len(s), NEW n \in Nodes,
         NEW s2, s2 = InsertAt(s, k, n)
  PROVE  /\ Inserted(s, s2, k - 1, n) /\ k - 1 \in 0..Len(s)
         /\ s2 \in Seq(Nodes) /\ k + 2 \in 1..(Len(s2) + 1)
         /\ SubSeq(s2, k + 2, Len(s2)) = SubSeq(s, k + 1, Len(s))
         /\ At(s2, k + 2) = At(s, k + 1)
<1> DEFINE j == k - 1
<1>1. j \in 0..Len(s) /\ j + 1 = k /\ Len(s) \in Nat
  BY LenProperties
<1>2. Inserted(s, s2, j, n)
  <2>1. Inserted(s, InsertAt(s, j + 1, n), j, n)
    <3> HIDE DEF j
    <3> QED
      BY <1>1, InsertAtInserts
  <2> QED
    BY <1>1, <2>1
<1>3. /\ s2 \in Seq(Nodes) /\ Len(s2) = Len(s) + 1
      /\ \A i \in 1..Len(s2) : s2[i] = IF i <= j THEN s[i] ELSE IF i = k THEN n ELSE s[i - 1]
  BY <1>1, <1>2 DEF Inserted
<1>4. Deleted(s2, s, k)
  <2>1. ASSUME NEW i \in 1..Len(s) PROVE s[i] = IF i < k THEN s2[i] ELSE s2[i + 1]
    <3>1. CASE i < k
      <4>1. i \in 1..Len(s2) /\ i <= j
        BY <1>1, <1>3, <3>1
      <4> QED
        BY <1>3, <3>1, <4>1
    <3>2. CASE ~(i < k)
      <4>1. i + 1 \in 1..Len(s2) /\ ~(i + 1 <= j) /\ i + 1 # k /\ (i + 1) - 1 = i
        BY <1>1, <1>3, <3>2
      <4> QED
        BY <1>3, <3>2, <4>1
    <3> QED
      BY <3>1, <3>2
  <2>2. Len(s) = Len(s2) - 1
    BY <1>1, <1>3
  <2> QED
    BY <2>1, <2>2 DEF Deleted
<1>5. k \in 1..Len(s2) /\ k \in 1..(Len(s) + 1) /\ k + 1 \in 1..(Len(s2) + 1) /\ k # Len(s) + 1
      /\ k + 1 # Len(s2) + 1 /\ (k + 1) + 1 = k + 2 /\ k + 2 \in 1..(Len(s2) + 1)
  BY <1>1, <1>3
<1>6. SubSeq(s, k, Len(s)) = SubSeq(s2, k + 1, Len(s2))
  BY <1>3, <1>4, <1>5, RestLeft
<1>7. Tail(SubSeq(s, k, Len(s))) = SubSeq(s, k + 1, Len(s))
  BY <1>5, RestIs
<1>8. Tail(SubSeq(s2, k + 1, Len(s2))) = SubSeq(s2, k + 2, Len(s2))
  <2> DEFINE i == k + 1
  <2>1. i \in 1..(Len(s2) + 1) /\ i # Len(s2) + 1 /\ i + 1 = k + 2
    BY <1>5
  <2> HIDE DEF i
  <2>2. Tail(SubSeq(s2, i, Len(s2))) = SubSeq(s2, i + 1, Len(s2))
    BY <1>3, <2>1, RestIs
  <2> QED
    BY <2>1, <2>2 DEF i
<1>9. At(s2, k + 2) = At(s, k + 1)
  <2>1. /\ k + 2 \in Int /\ ~(k + 2 <= j) /\ k + 2 # j + 1 /\ (k + 2) - 1 = k + 1
    OBVIOUS
  <2>2. \A i \in Int : At(s2, i) = IF i <= j THEN At(s, i) ELSE IF i = j + 1 THEN n ELSE At(s, i - 1)
    BY <1>1, <1>2, AtInserted
  <2> HIDE DEF j
  <2> QED
    BY <2>1, <2>2
<1> QED
  BY <1>1, <1>2, <1>3, <1>5, <1>6, <1>7, <1>8, <1>9

(* The pointers after INSERT_BEFORE_CURRENT, the current entry being the   *)
(* k-th of its list and nothing having been inserted before it.            *)
LEMMA BeforeLinks ==
  ASSUME TgapInv, ok, NEW n \in Tgap!Unlisted, Tgap!InsertBeforeCurrent(n),
         NEW k \in Nat, Current(k), NEW h \in Heads, h = tgapWalk.of,
         NEW s, s = Tgap!Lists[h]
  PROVE  Listing(first', last', link', [Tgap!Lists EXCEPT ![h] = InsertAt(s, k, n)])
<1> DEFINE F == Tgap!Lists
           w == tgapWalk
           q == At(s, k - 1)
           s2 == InsertAt(s, k, n)
<1>1. /\ Listing(first, last, link, F) /\ s \in Seq(Nodes) /\ Distinct(s) /\ Len(s) \in Nat
      /\ Line(first[h], last[h], link, s)
      /\ first \in Ends /\ last \in Ends /\ link \in Links
  BY TgapFacts
<1>2. n \in Nodes /\ Away({}, F, n)
  BY TgapFree
<1>3. k \in 1..Len(s) /\ w.prev = q /\ k - 1 \in Int /\ (k - 1) + 1 = k
  BY DEF Current
<1>4. /\ q = None => link' = [link EXCEPT ![n] = first[h]] /\ first' = [first EXCEPT ![h] = n]
      /\ q # None => link' = [link EXCEPT ![n] = link[q], ![q] = n] /\ first' = first
      /\ last' = last
  BY <1>3 DEF Tgap!InsertBeforeCurrent
<1>5. /\ \A i \in 1..Len(s) : At(s, i) = s[i] /\ s[i] \in Nodes /\ s[i] # None
      /\ \A i \in Int : i \notin 1..Len(s) => At(s, i) = None
      /\ \A e \in Nodes : e # None
  BY <1>1, AtIs
<1>6. q = None <=> k = 1
  <2>1. k - 1 \in 1..Len(s) <=> k # 1
    BY <1>1, <1>3
  <2> QED
    BY <1>3, <1>5, <2>1
<1>7. Relinked(link, link', n, At(s, k), q, n)
  <2>1. At(s, k) \in Nodes
    BY <1>3, <1>5
  <2>2. CASE k = 1
    <3>1. link' = [link EXCEPT ![n] = At(s, k)]
      <4>1. first[h] = At(s, k)
        BY <1>1, <2>2 DEF Line
      <4> QED
        BY <1>4, <1>6, <2>2, <4>1
    <3>2. link' \in Links /\ \A e \in Nodes : link'[e] = IF e = n THEN At(s, k) ELSE link[e]
      <4> HIDE DEF q
      <4> QED
        BY <1>1, <1>2, <2>1, <3>1 DEF Links
    <3> HIDE DEF q
    <3> QED
      BY <1>5, <1>6, <2>2, <3>2 DEF Relinked
  <2>3. CASE k # 1
    <3> DEFINE i == k - 1
    <3>1. i \in 1..Len(s) /\ i + 1 = k
      BY <1>1, <1>3, <2>3
    <3> HIDE DEF i
    <3>2. s[i] \in Nodes /\ s[i] # n /\ link[s[i]] = At(s, i + 1) /\ At(s, i) = s[i]
      BY <1>1, <1>2, <1>5, <3>1 DEF Away, Line
    <3>3. q \in Nodes /\ q # n /\ link[q] = At(s, k)
      BY <3>1, <3>2 DEF i
    <3>4. link' = [link EXCEPT ![n] = At(s, k), ![q] = n]
      <4> HIDE DEF q
      <4> QED
        BY <1>4, <1>6, <2>3, <3>3
    <3> HIDE DEF q
    <3>5. link' \in Links /\ \A e \in Nodes : link'[e] = IF e = n THEN At(s, k) ELSE IF e = q THEN n ELSE link[e]
      BY <1>1, <1>2, <2>1, <3>3, <3>4 DEF Links
    <3> QED
      BY <3>5 DEF Relinked
  <2> QED
    BY <2>2, <2>3
<1> DEFINE j == k - 1
           f2 == [first EXCEPT ![h] = IF j = 0 THEN n ELSE first[h]]
           t2 == [last EXCEPT ![h] = IF j = Len(s) THEN n ELSE last[h]]
<1>8. j \in 0..Len(s) /\ Inserted(s, s2, j, n) /\ j + 1 = k /\ j # Len(s) /\ (j = 0 <=> k = 1)
  <2>1. Inserted(s, s2, k - 1, n)
    BY <1>1, <1>2, <1>3, PutBefore
  <2> QED
    BY <1>1, <1>3, <2>1
<1>9. Listing(f2, t2, link', [F EXCEPT ![h] = s2])
  <2>1. j \in 0..Len(F[h]) /\ Inserted(F[h], s2, j, n) /\ Relinked(link, link', n, At(F[h], j + 1), At(F[h], j), n)
    BY <1>7, <1>8
  <2> HIDE DEF s2, j
  <2>2. Listing([first EXCEPT ![h] = IF j = 0 THEN n ELSE first[h]],
                [last EXCEPT ![h] = IF j = Len(F[h]) THEN n ELSE last[h]], link', [F EXCEPT ![h] = s2])
    BY <1>1, <1>2, <2>1, ListingIn
  <2> QED
    BY <2>2
<1>10. f2 = first' /\ t2 = last'
  <2>1. first = [first EXCEPT ![h] = first[h]] /\ last = [last EXCEPT ![h] = last[h]]
    BY <1>1 DEF Ends
  <2> HIDE DEF q, j
  <2> QED
    BY <1>4, <1>6, <1>8, <2>1
<1> HIDE DEF f2, t2, s2
<1> QED
  BY <1>9, <1>10 DEF s2

(* The promised walk with a node inserted before the current one.          *)
Noted(w, z) == [w EXCEPT !.put = z]

(* The promised walk keeps its other fields.                               *)
LEMMA WalkNoted ==
  ASSUME NEW a, NEW p, NEW q, NEW t, NEW w, w = [of |-> a, cur |-> p, put |-> q, todo |-> t], NEW z
  PROVE  Noted(w, z) = [of |-> a, cur |-> p, put |-> z, todo |-> t]
<1>1. w = [f \in {"of", "cur", "put", "todo"} |->
             IF f = "of" THEN a ELSE IF f = "cur" THEN p ELSE IF f = "put" THEN q ELSE t]
  OBVIOUS
<1>2. [w EXCEPT !.put = z]
      = [f \in {"of", "cur", "put", "todo"} |->
           IF f = "of" THEN a ELSE IF f = "cur" THEN p ELSE IF f = "put" THEN z ELSE t]
  BY <1>1
<1> QED
  BY <1>2 DEF Noted

(* INSERT_BEFORE_CURRENT.                                                  *)
LEMMA InsertBeforeCurrentKeeps ==
  ASSUME TgapInv, ok, NEW n \in Tgap!Unlisted, Tgap!InsertBeforeCurrent(n)
  PROVE  TgapInv' /\ Tgap!Promised!AbsNext
<1> DEFINE w == tgapWalk
           F == Tgap!Lists
<1>1. /\ tgapCall' = <<"before", n>> /\ Tgap!AtCurrent /\ Tgap!InLoop
      /\ tgapWalk' = Marked(w, n, w.put \cup {"now"})
      /\ ok' = (w.put = {})
  BY DEF Tgap!InsertBeforeCurrent, Tgap!Do, Tgap!AtCurrent, Marked
<1>2. CASE w.put # {}
  BY <1>1, <1>2, NothingAfterInsert
<1>3. CASE w.put = {}
  <2>1. PICK k \in Nat : Current(k)
    BY <1>1, <1>3, CurrentIs
  <2> DEFINE h == w.of
             s == F[h]
             s2 == InsertAt(s, k, n)
             F2 == [F EXCEPT ![h] = s2]
             e == s[k]
             y == {}
             z == {"now"}
             q == At(s, k - 1)
             x == At(s, k + 1)
             todo == SubSeq(s, k + 1, Len(s))
  <2>2. /\ k \in 1..Len(s) /\ w.var = e /\ w.put = y
        /\ w = WalkOf(h, e, q, e, x, y)
        /\ Tgap!AbsWalk = [of |-> h, cur |-> e, put |-> y, todo |-> todo]
    BY <1>3, <2>1 DEF Current
  <2>3. h \in Heads /\ Tgap!AbsWalk # Tgap!Promised!NoWalk /\ Tgap!AbsWalk.of = h /\ Tgap!AbsWalk.cur = e
        /\ Tgap!AbsWalk.put = y
    BY <1>1, <2>2, LoopIs
  <2>4. Listing(first', last', link', F2)
    <3> DEFINE a == h
               d == s
    <3>1. a \in Heads /\ a = tgapWalk.of /\ d = Tgap!Lists[a]
      BY <2>3
    <3>2. F2 = [Tgap!Lists EXCEPT ![a] = InsertAt(d, k, n)]
      OBVIOUS
    <3> HIDE DEF a, d, F2
    <3> QED
      BY <2>1, <3>1, <3>2, BeforeLinks
  <2>5. s \in Seq(Nodes) /\ Distinct(s) /\ n \in Nodes
    <3> DEFINE a == h
    <3>1. a \in Heads
      BY <2>3
    <3> HIDE DEF a
    <3>2. F[a] \in Seq(Nodes) /\ Distinct(F[a])
      BY <3>1, TgapFacts
    <3>3. n \in Nodes
      BY TgapFree
    <3> QED
      BY <3>2, <3>3 DEF a
  <2>6. e \in Nodes
    <3> HIDE DEF s
    <3> QED
      BY <2>2, <2>5, ElementOfSeq
  <2>7. /\ k + 2 \in 1..(Len(s2) + 1) /\ At(s2, k + 2) = x
        /\ SubSeq(s2, k + 2, Len(s2)) = todo
    <3> HIDE DEF s
    <3> QED
      BY <2>2, <2>5, PutBefore
  <2>8. F2[h] = s2
    <3>1. F \in [Heads -> Seq(Nodes)]
      BY DEF TgapInv, Listing
    <3> HIDE DEF F, s2
    <3> QED
      BY <2>3, <3>1
  <2>9. ok' = ok
    BY <1>1, <1>3 DEF TgapInv
  <2>10. tgapWalk' = WalkOf(h, e, q, n, x, z)
    <3>1. tgapWalk' = Marked(w, n, z)
      <4>1. w.put \cup {"now"} = z
        BY <1>3
      <4> QED
        BY <1>1, <4>1
    <3> DEFINE a == h
    <3>2. w = WalkOf(a, e, q, e, x, y)
      BY <2>2
    <3> HIDE DEF a, e, q, x, y, z, w
    <3>3. Marked(w, n, z) = WalkOf(a, e, q, n, x, z)
      BY <3>2, WalkSteps
    <3> QED
      BY <3>1, <3>3 DEF a
  <2>11. z # {} /\ z \in Puts
    BY DEF Puts
  <2>12. Stands(s2, k + 2, e, q, n, x, z)
    <3> HIDE DEF s2, e, q, x
    <3> QED
      BY <2>7, <2>11 DEF Stands
  <2>13. /\ TgapInv' /\ F' = F2
         /\ Tgap!AbsWalk' = [of |-> h, cur |-> e, todo |-> todo, put |-> z]
    <3> DEFINE G == F2
               a == h
               i == k + 2
    <3>1. Listing(first', last', link', G) /\ a \in Heads /\ tgapWalk' = WalkOf(a, e, q, n, x, z)
          /\ i \in 1..(Len(G[a]) + 1) /\ Stands(G[a], i, e, q, n, x, z) /\ G[a] = s2 /\ e \in Nodes
          /\ SubSeq(s2, i, Len(s2)) = todo
      BY <2>3, <2>4, <2>6, <2>7, <2>8, <2>10, <2>12
    <3> HIDE DEF G, a, s2, e, q, x, z, i, todo
    <3>2. /\ TgapInv' /\ Tgap!Lists' = G
          /\ Tgap!AbsWalk' = [of |-> a, cur |-> e, todo |-> SubSeq(G[a], i, Len(G[a])), put |-> z]
      BY <2>9, <2>11, <3>1, LoopStands
    <3> QED
      BY <3>1, <3>2 DEF G, a
  <2>14. Tgap!AbsWalk' = Noted(Tgap!AbsWalk, z)
    <3> DEFINE v == Tgap!AbsWalk
               a == h
               v2 == Tgap!AbsWalk'
    <3>1. v = [of |-> a, cur |-> e, put |-> y, todo |-> todo]
      BY <2>2
    <3>2. v2 = [of |-> a, cur |-> e, put |-> z, todo |-> todo]
      BY <2>13
    <3> HIDE DEF a, v, e, y, z, todo, v2
    <3>3. Noted(v, z) = [of |-> a, cur |-> e, put |-> z, todo |-> todo]
      BY <3>1, WalkNoted
    <3>4. v2 = Noted(v, z)
      BY <3>2, <3>3
    <3> QED
      BY <3>4 DEF v, v2
  <2>15. Tgap!Promised!InsertBefore(n)
    <3>1. Tgap!Promised!Call(<<"before", n>>)
      BY <1>1, <2>9 DEF Tgap!Promised!Call
    <3>2. Tgap!Promised!Place(s, e) = k
      <4> HIDE DEF s
      <4> QED
        BY <2>2, <2>5, TgapPlaceIs
    <3>3. F' = [F EXCEPT ![h] = InsertAt(F[h], Tgap!Promised!Place(F[h], e), n)]
      BY <2>13, <3>2
    <3>4. Tgap!AbsWalk' = [Tgap!AbsWalk EXCEPT !.put = Tgap!AbsWalk.put \cup {"now"}]
      <4> DEFINE v == Tgap!AbsWalk
      <4>1. v.put \cup {"now"} = z
        BY <2>3
      <4> HIDE DEF v, z
      <4>2. Noted(v, z) = [v EXCEPT !.put = v.put \cup {"now"}]
        BY <4>1 DEF Noted
      <4> QED
        BY <2>14, <4>2 DEF v
    <3> HIDE DEF e
    <3> QED
      BY <2>3, <3>1, <3>3, <3>4, TgapOperators DEF Tgap!Promised!InsertBefore
  <2>16. n \in Nodes
    BY <2>5
  <2> QED
    BY <2>13, <2>15, <2>16 DEF Tgap!Promised!AbsNext
<1> QED
  BY <1>2, <1>3

-----------------------------------------------------------------------------
(* The theorems about lists.h. *)

(* Lists that are all empty.                                               *)
LEMMA TgapStart ==
  ASSUME Tgap!Init
  PROVE  TgapInv /\ Tgap!Promised!AbsInit
<1> DEFINE F == [h \in Heads |-> <<>>]
<1>1. /\ first = [h \in Heads |-> None] /\ last = [h \in Heads |-> None]
      /\ link = [n \in Nodes |-> None]
      /\ tgapWalk = Tgap!NoWalk /\ tgapCall = <<"start">> /\ ok = TRUE
  BY DEF Tgap!Init
<1>2. first \in Ends /\ last \in Ends /\ link \in Links
  BY <1>1 DEF Ends, Links
<1>3. ASSUME NEW h \in Heads
      PROVE  F[h] \in Seq(Nodes) /\ Len(F[h]) = 0 /\ Line(first[h], last[h], link, F[h])
  <2>1. F[h] \in Seq(Nodes) /\ Len(F[h]) = 0
    BY EmptySeq
  <2>2. first[h] = None /\ last[h] = None
    BY <1>1
  <2> HIDE DEF F
  <2>3. At(F[h], 1) = None /\ At(F[h], Len(F[h])) = None
    BY <2>1, AtIs
  <2> QED
    BY <2>1, <2>2, <2>3 DEF Line
<1>4. F \in [Heads -> Seq(Nodes)]
  BY EmptySeq
<1>5. \A n \in Nodes : link[n] = None
  BY <1>1
<1> HIDE DEF F
<1>6. Apart({}, F)
  BY <1>3 DEF Apart
<1>7. Listing(first, last, link, F)
  BY <1>2, <1>3, <1>4, <1>5, <1>6 DEF Listing
<1>8. Tgap!Lists = F
  BY <1>7, TgapSeen
<1>9. TgapInv
  BY <1>1, <1>7, <1>8 DEF TgapInv, OnLoop
<1>10. Tgap!AbsWalk = Tgap!Promised!NoWalk
  BY <1>1, NoLoop
<1>11. Tgap!Promised!AbsInit
  BY <1>1, <1>8, <1>10 DEF F, Tgap!Promised!AbsInit
<1> QED
  BY <1>9, <1>11

(* A call of a macro keeps the invariant and is a step of the promise.     *)
LEMMA TgapStep ==
  ASSUME TgapInv, Tgap!Next
  PROVE  TgapInv' /\ Tgap!Promised!AbsNext
<1>1. ok
  BY DEF Tgap!Next
<1>2. ASSUME NEW h \in Heads, Tgap!RemoveHead(h) PROVE TgapInv' /\ Tgap!Promised!AbsNext
  BY <1>1, <1>2, RemoveHeadKeeps
<1>3. ASSUME NEW h \in Heads, Tgap!Begin(h) PROVE TgapInv' /\ Tgap!Promised!AbsNext
  BY <1>1, <1>3, TgapBeginKeeps
<1>4. ASSUME NEW h \in Heads, Tgap!MoveCurrent(h) PROVE TgapInv' /\ Tgap!Promised!AbsNext
  BY <1>1, <1>4, TgapMoveCurrentKeeps
<1>5. ASSUME NEW h \in Heads, NEW g \in Heads \ {h}, Tgap!AppendList(h, g)
      PROVE  TgapInv' /\ Tgap!Promised!AbsNext
  BY <1>1, <1>5, AppendListKeeps
<1>6. ASSUME NEW h \in Heads, NEW n \in Nodes, Tgap!Remove1(h, n)
      PROVE  TgapInv' /\ Tgap!Promised!AbsNext
  BY <1>1, <1>6, Remove1Keeps
<1>7. ASSUME NEW h \in Heads, NEW n \in Tgap!Unlisted, Tgap!InsertHead(h, n)
      PROVE  TgapInv' /\ Tgap!Promised!AbsNext
  BY <1>1, <1>7, InsertHeadKeeps
<1>8. ASSUME NEW h \in Heads, NEW n \in Tgap!Unlisted, Tgap!InsertTail(h, n)
      PROVE  TgapInv' /\ Tgap!Promised!AbsNext
  BY <1>1, <1>8, InsertTailKeeps
<1>9. ASSUME NEW h \in Heads, NEW n \in Tgap!Unlisted, NEW e \in Tgap!Range(Tgap!Content(h)),
             Tgap!InsertAfter(h, e, n)
      PROVE  TgapInv' /\ Tgap!Promised!AbsNext
  BY <1>1, <1>9, InsertAfterKeeps
<1>10. ASSUME Tgap!Advance PROVE TgapInv' /\ Tgap!Promised!AbsNext
  BY <1>1, <1>10, TgapAdvanceKeeps
<1>11. ASSUME Tgap!RemoveCurrent PROVE TgapInv' /\ Tgap!Promised!AbsNext
  BY <1>1, <1>11, RemoveCurrentKeeps
<1>12. ASSUME NEW n \in Tgap!Unlisted, Tgap!InsertBeforeCurrent(n)
       PROVE  TgapInv' /\ Tgap!Promised!AbsNext
  BY <1>1, <1>12, InsertBeforeCurrentKeeps
<1> QED
  BY <1>2, <1>3, <1>4, <1>5, <1>6, <1>7, <1>8, <1>9, <1>10, <1>11, <1>12 DEF Tgap!Next

(* A step that changes nothing keeps the invariant.                        *)
LEMMA TgapStutters ==
  ASSUME TgapInv, UNCHANGED tgapVars
  PROVE  TgapInv' /\ UNCHANGED Tgap!Promised!absVars
<1>1. /\ first' = first /\ last' = last /\ link' = link
      /\ tgapWalk' = tgapWalk /\ tgapCall' = tgapCall /\ ok' = ok
  BY DEF tgapVars
<1>2. Tgap!Lists' = Tgap!Lists
  BY <1>1 DEF Tgap!Lists, Tgap!Content
<1>3. Tgap!AbsWalk' = Tgap!AbsWalk
  BY <1>1 DEF Tgap!AbsWalk
<1>4. OnLoop(tgapWalk, Tgap!Lists)' <=> OnLoop(tgapWalk, Tgap!Lists)
  BY <1>1, <1>2 DEF OnLoop, Loops, StandsAt
<1>5. Listing(first, last, link, Tgap!Lists)' <=> Listing(first, last, link, Tgap!Lists)
  BY <1>1, <1>2
<1> QED
  BY <1>1, <1>2, <1>3, <1>4, <1>5 DEF TgapInv, Tgap!Promised!absVars

(* The heads and links of lists.h are those of lists that share nothing,   *)
(* and a loop stands in its list, as long as a comment covers the calls.   *)
THEOREM TgapInvariant == MCSpec => []TgapInv
<1>1. MCInit => TgapInv
  BY TgapStart DEF MCInit
<1>2. TgapInv /\ [MCNext]_<<vars, tgapVars>> => TgapInv'
  BY TgapStep, TgapStutters DEF MCNext
<1> QED
  BY <1>1, <1>2, PTL DEF MCSpec

(* INSERT_TAIL and APPEND_LIST may rely on last and on null links: last is *)
(* the last entry of each list, and the link of a free entry is null.      *)
THEOREM TailIsAlwaysKnown == MCSpec => []TailIsKnown
<1>1. ASSUME TgapInv PROVE TailIsKnown
  <2> SUFFICES ASSUME ok
               PROVE  /\ \A h \in Heads : last[h] = IF Tgap!Empty(h) THEN None ELSE Tgap!Last(Tgap!Content(h))
                      /\ \A n \in Nodes : n \in Tgap!Unlisted => link[n] = None
    BY DEF TailIsKnown, Tgap!TailIsKnown
  <2>1. ASSUME NEW h \in Heads
        PROVE  last[h] = IF Tgap!Empty(h) THEN None ELSE Tgap!Last(Tgap!Content(h))
    <3> DEFINE s == Tgap!Lists[h]
    <3>1. /\ s \in Seq(Nodes) /\ Line(first[h], last[h], link, s)
          /\ Tgap!Content(h) = s /\ (Tgap!Empty(h) <=> Len(s) = 0)
      BY <1>1, TgapFacts
    <3> HIDE DEF s
    <3>2. (last[h] = None <=> Len(s) = 0) /\ (Len(s) # 0 => last[h] = s[Len(s)])
      BY <3>1, LineEnds
    <3> QED
      BY <3>1, <3>2, TgapOperators
  <2>2. ASSUME NEW n \in Tgap!Unlisted PROVE link[n] = None
    BY <1>1, TgapFree
  <2> QED
    BY <2>1, <2>2
<1> QED
  BY <1>1, TgapInvariant, PTL

(* Every macro and every loop of lists.h does what its comment says, until *)
(* the first call that none covers.                                        *)
THEOREM MacrosKeepTheirPromises == MCSpec => MacrosDoWhatTheyPromise
<1>1. MCInit => Tgap!Promised!AbsInit
  BY TgapStart DEF MCInit
<1>2. TgapInv /\ [MCNext]_<<vars, tgapVars>> => [Tgap!Promised!AbsNext]_Tgap!Promised!absVars
  BY TgapStep, TgapStutters DEF MCNext
<1> QED
  BY <1>1, <1>2, TgapInvariant, PTL
     DEF MCSpec, MacrosDoWhatTheyPromise, Tgap!DoesWhatItPromises, Tgap!Promised!AbsSpec
=============================================================================
