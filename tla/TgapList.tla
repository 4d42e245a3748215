------------------------------ MODULE TgapList ------------------------------
(***************************************************************************)
(* The macros of src/other/ipc/include/lists.h: singly linked lists with a *)
(* pointer to the first and one to the last entry.  Entries come out of    *)
(* calloc, with a null link.  In a TRAVERSE_SAFE loop the macros keep      *)
(* __list_prev, __new_prev and __list_next beside the caller's variable.   *)
(* The mutex in the head is left to the callers.                           *)
(***************************************************************************)
EXTENDS Chains

VARIABLES first, last,    \* the two pointers of each head
          link,           \* field.next of each entry
          walk,           \* the loop under way: of, var, prev, newPrev, next; and put
          call,           \* the last call
          ok              \* FALSE after a call that does what no comment of lists.h says

vars == <<first, last, link, walk, call, ok>>

NoWalk == [of |-> None, var |-> None, prev |-> None, newPrev |-> None,
           next |-> None, put |-> {}]

Content(h) == Chain(first[h], link)
Unlisted == {n \in Nodes : \A h \in Heads : n \notin Range(Content(h))}
Empty(h) == first[h] = None

Init ==
    /\ first = [h \in Heads |-> None]
    /\ last = [h \in Heads |-> None]
    /\ link = [n \in Nodes |-> None]
    /\ walk = NoWalk
    /\ call = <<"start">>
    /\ ok = TRUE

Do(c) == call' = c
Plain(c) == Do(c) /\ walk = NoWalk /\ UNCHANGED walk

-----------------------------------------------------------------------------
InsertHead(h, n) ==
    /\ Plain(<<"first", h, n>>)
    /\ link' = [link EXCEPT ![n] = first[h]]
    /\ first' = [first EXCEPT ![h] = n]
    /\ last' = [last EXCEPT ![h] = IF @ = None THEN n ELSE @]
    /\ UNCHANGED ok

InsertAfter_KeepsLast(h, e, n) ==
    /\ Plain(<<"after", h, e, n>>)
    /\ link' = [link EXCEPT ![n] = link[e], ![e] = n]
    /\ UNCHANGED <<first, last, ok>>

InsertAfter(h, e, n) ==
    /\ Plain(<<"after", h, e, n>>)
    /\ link' = [link EXCEPT ![n] = link[e], ![e] = n]
    /\ last' = [last EXCEPT ![h] = IF @ = e THEN n ELSE @]
    /\ UNCHANGED <<first, ok>>

(* What INSERT_TAIL does to the pointers, once "link" has become l and the *)
(* heads f and t.  The link of the entry itself is not touched.            *)
PutLast(h, n, f, t, l) ==
    /\ first' = [f EXCEPT ![h] = IF @ = None THEN n ELSE @]
    /\ last' = [t EXCEPT ![h] = n]
    /\ link' = IF f[h] = None THEN l ELSE [l EXCEPT ![t[h]] = n]

InsertTail(h, n) ==
    /\ Plain(<<"last", h, n>>)
    /\ PutLast(h, n, first, last, link)
    /\ UNCHANGED ok

(* An empty list g leaves h without its last pointer.                      *)
AppendList(h, g) ==
    /\ Plain(<<"join", g, h, "last", TRUE>>)
    /\ first' = [first EXCEPT ![h] = IF @ = None THEN first[g] ELSE @, ![g] = None]
    /\ last' = [last EXCEPT ![h] = last[g], ![g] = None]
    /\ link' = IF Empty(h) THEN link ELSE [link EXCEPT ![last[h]] = first[g]]
    /\ ok' = (Empty(h) \/ ~Empty(g))

RemoveHead(h) ==
    /\ Plain(<<"remove", h, first[h]>>)
    /\ ~Empty(h)
    /\ first' = [first EXCEPT ![h] = link[first[h]]]
    /\ link' = [link EXCEPT ![first[h]] = None]
    /\ last' = [last EXCEPT ![h] = IF @ = first[h] THEN None ELSE @]
    /\ UNCHANGED ok

(* n is searched for, but its link is cleared whether it is found or not   *)
(* (lists.h:759), although :739 says that the removed entry is not         *)
(* modified in any way; and n may be on another list, which it ends then.  *)
Remove1(h, n) ==
    /\ Plain(<<"remove", h, n>>)
    /\ LET before == {e \in Range(Content(h)) : link[e] = n}
           found == first[h] = n \/ before # {}
       IN  /\ first' = [first EXCEPT ![h] = IF @ = n THEN link[n] ELSE @]
           /\ last' = [last EXCEPT ![h] =
                  IF @ # n \/ ~found THEN @
                  ELSE IF first[h] = n THEN None ELSE CHOOSE e \in before : TRUE]
           /\ link' = [e \in Nodes |-> CASE e = n -> None
                                         [] e # n /\ first[h] # n /\ e \in before -> link[n]
                                         [] OTHER -> link[e]]
           /\ ok' = (found \/ n \in Unlisted)

-----------------------------------------------------------------------------
NextOf(p) == IF p = None THEN None ELSE link[p]
InLoop == walk # NoWalk

Begin(h) ==
    /\ Do(<<"begin", h, h, "next", FALSE>>)
    /\ walk = NoWalk
    /\ walk' = IF Empty(h) THEN NoWalk
               ELSE [of |-> h, var |-> first[h], prev |-> None, newPrev |-> first[h],
                     next |-> NextOf(first[h]), put |-> {}]
    /\ UNCHANGED <<first, last, link, ok>>

Advance ==
    /\ Do(<<"advance">>)
    /\ InLoop
    /\ walk' = IF walk.next = None THEN NoWalk
               ELSE [walk EXCEPT !.prev = walk.newPrev, !.var = walk.next,
                                 !.newPrev = walk.next, !.next = NextOf(walk.next),
                                 !.put = IF "now" \in @ THEN {"before"} ELSE {}]
    /\ UNCHANGED <<first, last, link, ok>>

(* The current entry has not been removed yet. *)
AtCurrent == InLoop /\ walk.var \in Range(Content(walk.of))

(* REMOVE_CURRENT clears the link of __new_prev: the current entry, or the *)
(* one just inserted before it.                                            *)
UnlinkedAll == [link EXCEPT ![walk.newPrev] = None]
Unlinked == IF walk.prev = None THEN UnlinkedAll
            ELSE [UnlinkedAll EXCEPT ![walk.prev] = walk.next]
FirstUnlinked == IF walk.prev = None THEN [first EXCEPT ![walk.of] = walk.next] ELSE first
LastUnlinked == IF walk.next = None THEN [last EXCEPT ![walk.of] = walk.prev] ELSE last

RemoveCurrent_KeepsNewPrev ==
    /\ Do(<<"remove_current">>)
    /\ AtCurrent
    /\ first' = FirstUnlinked
    /\ last' = LastUnlinked
    /\ link' = Unlinked
    /\ ok' = (walk.put = {})
    /\ UNCHANGED walk

RemoveCurrent ==
    /\ Do(<<"remove_current">>)
    /\ AtCurrent
    /\ first' = FirstUnlinked
    /\ last' = LastUnlinked
    /\ link' = Unlinked
    /\ walk' = [walk EXCEPT !.newPrev = walk.prev]
    /\ ok' = (walk.put = {})

MoveCurrent(h) ==
    /\ Do(<<"move_current", h>>)
    /\ AtCurrent /\ h # walk.of
    /\ PutLast(h, walk.newPrev, FirstUnlinked, LastUnlinked, Unlinked)
    /\ walk' = [walk EXCEPT !.newPrev = walk.prev]
    /\ ok' = (walk.put = {})

InsertBeforeCurrent(n) ==
    /\ Do(<<"before", n>>)
    /\ AtCurrent
    /\ IF walk.prev = None
       THEN /\ link' = [link EXCEPT ![n] = first[walk.of]]
            /\ first' = [first EXCEPT ![walk.of] = n]
       ELSE /\ link' = [link EXCEPT ![n] = link[walk.prev], ![walk.prev] = n]
            /\ UNCHANGED first
    /\ walk' = [walk EXCEPT !.newPrev = n, !.put = @ \cup {"now"}]
    /\ ok' = (walk.put = {})
    /\ UNCHANGED last

Next ==
    /\ ok
    /\ \/ \E h \in Heads :
            \/ RemoveHead(h) \/ Begin(h) \/ MoveCurrent(h)
            \/ \E g \in Heads \ {h} : AppendList(h, g)
            \/ \E n \in Nodes : Remove1(h, n)
            \/ \E n \in Unlisted : InsertHead(h, n) \/ InsertTail(h, n)
            \/ \E n \in Unlisted, e \in Range(Content(h)) : InsertAfter(h, e, n)
       \/ Advance \/ RemoveCurrent
       \/ \E n \in Unlisted : InsertBeforeCurrent(n)

Spec == Init /\ [][Next]_vars

-----------------------------------------------------------------------------
Lists == [h \in Heads |-> Content(h)]
AbsWalk ==
    [of |-> walk.of, cur |-> walk.var, todo |-> Chain(walk.next, link), put |-> walk.put]

Promised == INSTANCE ListOperations WITH lists <- Lists, walk <- AbsWalk

(* Every macro of lists.h does to the sequences what its comment says, but *)
(* for the three cases of NothingPromised.                                 *)
DoesWhatItPromises == Promised!AbsSpec

(* Until then "last" is the last entry, and an entry on no list has a null *)
(* link: INSERT_TAIL relies on both, for it does not touch the link of the *)
(* entry it appends.  That an entry can be appended again after a REMOVE   *)
(* is due to :759; were it not modified, as :739 promises, it would bring  *)
(* along what followed it.  APPEND_LIST of an empty list (:703) is one of  *)
(* the three cases: it leaves a list with entries without its last.        *)
TailIsKnown ==
    ok => /\ \A h \in Heads : last[h] = IF Empty(h) THEN None ELSE Last(Content(h))
          /\ \A n \in Nodes : n \in Unlisted => link[n] = None
=============================================================================
