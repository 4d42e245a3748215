----------------------------- MODULE LinuxList ------------------------------
(***************************************************************************)
(* src/inc/list.h, pointer by pointer: circular doubly linked lists whose  *)
(* heads are cells like the nodes.  The operators on a memory m are the    *)
(* inline functions, their stores in program order; the actions are calls  *)
(* that respect the comments of list.h.  A loop (list_for_each...) keeps   *)
(* pos and n; its body unlinks pos, or the entry after it followed by      *)
(* list_safe_reset_next, or nothing.                                       *)
(***************************************************************************)
EXTENDS Chains

CONSTANT Poison         \* LIST_POISON1, LIST_POISON2 and pointers nobody has set

ASSUME PoisonIsNoCell == Poison \notin Heads \cup Nodes \cup {None}

VARIABLES mem,            \* cell -> its next and prev
          stale,          \* heads whose list has been spliced away
          walk,           \* of, dir, pos, n of the loop under way
          call            \* the last call

vars == <<mem, stale, walk, call>>

Cells == Heads \cup Nodes
NoWalk == [of |-> None, dir |-> "next", pos |-> None, n |-> None]

-----------------------------------------------------------------------------
(* The functions. *)

InitHead(m, h) == [m EXCEPT ![h] = [next |-> h, prev |-> h]]

ListAdd(m, new, prev, next) ==
    [m EXCEPT ![next].prev = new, ![new].next = next,
              ![new].prev = prev, ![prev].next = new]

ListInsert(m, new, head) == ListAdd(m, new, head, m[head].next)
ListAddTail(m, new, head) == ListAdd(m, new, m[head].prev, head)

ListDelBetween(m, prev, next) == [m EXCEPT ![next].prev = prev, ![prev].next = next]
ListDelEntry(m, e) == ListDelBetween(m, m[e].prev, m[e].next)
ListDel(m, e) == [ListDelEntry(m, e) EXCEPT ![e] = [next |-> Poison, prev |-> Poison]]
ListDelInit(m, e) == InitHead(ListDelEntry(m, e), e)

ListReplace(m, old, new) ==
    LET m1 == [m EXCEPT ![new].next = m[old].next, ![m[old].next].prev = new]
    IN  [m1 EXCEPT ![new].prev = m1[old].prev, ![m1[old].prev].next = new]
ListReplaceInit(m, old, new) == InitHead(ListReplace(m, old, new), old)

ListMove(m, e, head) == ListInsert(ListDelEntry(m, e), e, head)
ListMoveTail(m, e, head) == ListAddTail(ListDelEntry(m, e), e, head)

ListEmpty(m, head) == m[head].next = head
ListEmptyCareful(m, head) == m[head].next = head /\ m[head].prev = head
ListIsLast(m, e, head) == m[e].next = head
ListIsSingular(m, head) == ~ListEmpty(m, head) /\ m[head].next = m[head].prev

ListRotateLeft(m, head) ==
    IF ListEmpty(m, head) THEN m ELSE ListMoveTail(m, m[head].next, head)

CutBehind_KeepsPrev(m, list, head, e) ==
    [m EXCEPT ![list] = [next |-> m[head].next, prev |-> e],
              ![m[head].next].prev = list, ![e].next = list, ![head].next = m[e].next]

CutBehind(m, list, head, e) ==
    [m EXCEPT ![list] = [next |-> m[head].next, prev |-> e],
              ![m[head].next].prev = list, ![e].next = list,
              ![head].next = m[e].next, ![m[e].next].prev = head]

ListCutPosition_HeadIsNoEntry(m, list, head, e) ==
    IF ListEmpty(m, head) \/ (ListIsSingular(m, head) /\ e # m[head].next) THEN m
    ELSE IF e = head THEN InitHead(m, list) ELSE CutBehind(m, list, head, e)

ListCutPosition(m, list, head, e) ==
    IF \/ ListEmpty(m, head)
       \/ ListIsSingular(m, head) /\ e \notin {m[head].next, head} THEN m
    ELSE IF e = head THEN InitHead(m, list) ELSE CutBehind(m, list, head, e)

Splice(m, list, prev, next) ==
    [m EXCEPT ![m[list].next].prev = prev, ![prev].next = m[list].next,
              ![m[list].prev].next = next, ![next].prev = m[list].prev]
ListSplice(m, list, head) ==
    IF ListEmpty(m, list) THEN m ELSE Splice(m, list, head, m[head].next)
ListSpliceTail(m, list, head) ==
    IF ListEmpty(m, list) THEN m ELSE Splice(m, list, m[head].prev, head)
ListSpliceInit(m, list, head) ==
    IF ListEmpty(m, list) THEN m ELSE InitHead(ListSplice(m, list, head), list)
ListSpliceTailInit(m, list, head) ==
    IF ListEmpty(m, list) THEN m ELSE InitHead(ListSpliceTail(m, list, head), list)

(* list_next_entry and list_prev_entry *)
Neighbour(m, p, dir) == IF dir = "next" THEN m[p].next ELSE m[p].prev

-----------------------------------------------------------------------------
(* The cells from p on, in direction dir: what a loop visits.              *)
Ahead(p, dir) == Chain(p, [n \in Nodes |-> Neighbour(mem, n, dir)])

Content(h) == Ahead(mem[h].next, "next")
Usable(h) == h \notin stale
Unlisted == {n \in Nodes : \A h \in Heads : Usable(h) => n \notin Range(Content(h))}

Init ==
    /\ mem = [c \in Cells |-> IF c \in Heads THEN [next |-> c, prev |-> c]
                              ELSE [next |-> Poison, prev |-> Poison]]
    /\ stale = {}
    /\ walk = NoWalk
    /\ call = <<"start">>

Do(c, m) == call' = c /\ mem' = m
Plain(c, m) == Do(c, m) /\ walk = NoWalk /\ UNCHANGED <<stale, walk>>

Add(h, n) ==
    \/ Plain(<<"first", h, n>>, ListInsert(mem, n, h))
    \/ Plain(<<"last", h, n>>, ListAddTail(mem, n, h))
    \/ \E e \in Range(Content(h)) : Plain(<<"after", h, e, n>>, ListInsert(mem, n, e))

Delete(h, n) ==
    \/ Plain(<<"remove", h, n>>, ListDel(mem, n))
    \/ Plain(<<"remove", h, n>>, ListDelInit(mem, n))

Replace(h, e, n) ==
    \/ Plain(<<"replace", h, e, n>>, ListReplace(mem, e, n))
    \/ Plain(<<"replace", h, e, n>>, ListReplaceInit(mem, e, n))

(* The new head holds no list its owner still needs. *)
ReplaceHead(h, g, init) ==
    /\ walk = NoWalk /\ g # h /\ (Usable(g) => ListEmpty(mem, g))
    /\ Do(<<"replace_head", h, g, init>>,
          IF init THEN ListReplaceInit(mem, h, g) ELSE ListReplace(mem, h, g))
    /\ stale' = (stale \ {g}) \cup (IF init THEN {} ELSE {h})
    /\ UNCHANGED walk

Move(g, h, n) ==
    \/ Plain(<<"move", n, h, "first">>, ListMove(mem, n, h))
    \/ Plain(<<"move", n, h, "last">>, ListMoveTail(mem, n, h))

Rotate(h) == Plain(<<"rotate", h>>, ListRotateLeft(mem, h))

(* "an empty list or a list you do not care about losing its data": a list *)
(* that is not empty is lost only if there is something to cut.            *)
CutPosition(g, h, e) ==
    /\ walk = NoWalk /\ g # h
    /\ Do(<<"cut", g, h, e>>, ListCutPosition(mem, g, h, e))
    /\ stale' = IF ListEmpty(mem, h) THEN stale ELSE stale \ {g}
    /\ UNCHANGED walk

Join(g, h, place, init) ==
    /\ walk = NoWalk /\ g # h
    /\ Do(<<"join", g, h, place, init>>,
          CASE place = "first" /\ init -> ListSpliceInit(mem, g, h)
            [] place = "first" /\ ~init -> ListSplice(mem, g, h)
            [] place = "last" /\ init -> ListSpliceTailInit(mem, g, h)
            [] place = "last" /\ ~init -> ListSpliceTail(mem, g, h))
    /\ stale' = IF init \/ ListEmpty(mem, g) THEN stale ELSE stale \cup {g}
    /\ UNCHANGED walk

InitList(h) ==
    /\ walk = NoWalk
    /\ Do(<<"init", h>>, InitHead(mem, h))
    /\ stale' = stale \ {h}
    /\ UNCHANGED walk

-----------------------------------------------------------------------------
(* Loops: list_for_each (e = h), ..._continue and ..._from (self), either   *)
(* way.  The loops that are not _safe read pos's own pointer when they     *)
(* advance, which is n as long as the body leaves pos alone.               *)
Loop(h, dir, pos, n) == IF pos = h THEN NoWalk ELSE [of |-> h, dir |-> dir, pos |-> pos, n |-> n]

Begin(h, e, dir, self) ==
    /\ walk = NoWalk
    /\ LET pos == IF self THEN e ELSE Neighbour(mem, e, dir)
       IN  walk' = Loop(h, dir, pos, Neighbour(mem, pos, dir))
    /\ call' = <<"begin", h, e, dir, self>>
    /\ UNCHANGED <<mem, stale>>

InLoop == walk # NoWalk
PosListed == walk.pos \in Range(Content(walk.of))

Advance ==
    /\ InLoop
    /\ walk' = Loop(walk.of, walk.dir, walk.n, Neighbour(mem, walk.n, walk.dir))
    /\ call' = <<"advance">>
    /\ UNCHANGED <<mem, stale>>

DeleteCurrent ==
    /\ InLoop /\ PosListed
    /\ \/ Do(<<"remove_current">>, ListDel(mem, walk.pos))
       \/ Do(<<"remove_current">>, ListDelInit(mem, walk.pos))
    /\ UNCHANGED <<stale, walk>>

MoveCurrent(h) ==
    /\ InLoop /\ PosListed /\ h # walk.of
    /\ Do(<<"move_current", h>>, ListMoveTail(mem, walk.pos, h))
    /\ UNCHANGED <<stale, walk>>

(* pos stays pinned in the list, and list_safe_reset_next follows. *)
DeleteNextAndReset ==
    /\ InLoop /\ PosListed /\ walk.n \in Nodes
    /\ Do(<<"remove_next">>, ListDel(mem, walk.n))
    /\ walk' = [walk EXCEPT !.n = Neighbour(mem', walk.pos, walk.dir)]
    /\ UNCHANGED stale

OnList(h) ==
    \/ \E n \in Unlisted : Add(h, n)
    \/ \E e \in Range(Content(h)), n \in Unlisted : Replace(h, e, n)
    \/ \E e \in Range(Content(h)) :
         \/ Delete(h, e)
         \/ \E g \in Heads : Usable(g) /\ Move(h, g, e)
         \/ \E dir \in {"next", "prev"}, self \in BOOLEAN : Begin(h, e, dir, self)
    \/ Rotate(h)
    \/ MoveCurrent(h)
    \/ \E dir \in {"next", "prev"} : Begin(h, h, dir, FALSE)
    \/ \E g \in Heads :
         \/ \E init \in BOOLEAN : ReplaceHead(h, g, init)
         \/ \E e \in Range(Content(h)) \cup {h} : CutPosition(g, h, e)
         \/ \E place \in {"first", "last"}, init \in BOOLEAN : Usable(g) /\ Join(g, h, place, init)

Next ==
    \/ \E h \in Heads : InitList(h) \/ (Usable(h) /\ OnList(h))
    \/ Advance \/ DeleteCurrent \/ DeleteNextAndReset

Spec == Init /\ [][Next]_vars

-----------------------------------------------------------------------------
Lists == [h \in Heads |-> IF Usable(h) THEN Content(h) ELSE None]
AbsWalk ==
    IF ~InLoop THEN [of |-> None, cur |-> None, todo |-> <<>>, put |-> {}]
    ELSE [of |-> walk.of, cur |-> walk.pos, put |-> {},
          todo |-> Ahead(walk.n, walk.dir)]

Promised == INSTANCE ListOperations WITH lists <- Lists, walk <- AbsWalk, ok <- TRUE

(* Every function of list.h does to the sequences what its comment says,   *)
(* and a loop visits every entry ahead of it once, in order, whatever its  *)
(* body unlinks.                                                           *)
DoesWhatItPromises == Promised!AbsSpec

(* Seen backwards every list is the reverse of itself seen forwards, no    *)
(* node is on two lists, and the tests of list.h agree with the sequences. *)
TwoWays ==
    \A h \in Heads : Usable(h) =>
      LET s == Content(h)
      IN  /\ Ahead(mem[h].prev, "prev") = Reverse(s)
          /\ \A g \in Heads \ {h} : Usable(g) => Range(s) \cap Range(Content(g)) = {}
          /\ ListEmptyCareful(mem, h) = (s = <<>>)
          /\ ListIsSingular(mem, h) = (Len(s) = 1)
          /\ \A i \in DOMAIN s : ListIsLast(mem, s[i], h) = (i = Len(s))
=============================================================================
