--------------------------- MODULE ListOperations ---------------------------
(***************************************************************************)
(* What the two list libraries of the repository, list.h and lists.h,      *)
(* promise: lists are sequences of nodes, a call is one change of them,    *)
(* and a safe walk visits what is ahead of it while its loop body unlinks  *)
(* nodes.  The last call is part of the state, so that an implementation   *)
(* has to do what its caller asked for and not something another call does.*)
(***************************************************************************)
EXTENDS Sequences, SequencesExt, FiniteSets

CONSTANTS Heads, Nodes,
          None            \* no node, no list

VARIABLES lists,          \* Heads -> what each list holds, None: head to be initialised again
          walk,           \* the loop under way: its list, its node, the nodes ahead, and
                          \* whether a node was put before the current or the last one
          call,           \* the last call and its arguments
          ok              \* FALSE after a call of which nothing is promised

absVars == <<lists, walk, call, ok>>

Ready(h) == lists[h] # None
On(h) == IF Ready(h) THEN Range(lists[h]) ELSE {}
Free(n) == \A h \in Heads : n \notin On(h)
Place(s, n) == CHOOSE i \in DOMAIN s : s[i] = n
Without(s, n) == IF n \in Range(s) THEN RemoveAt(s, Place(s, n)) ELSE s
NoWalk == [of |-> None, cur |-> None, todo |-> <<>>, put |-> {}]

AbsInit ==
    /\ lists = [h \in Heads |-> <<>>]
    /\ walk = NoWalk
    /\ call = <<"start">>
    /\ ok = TRUE

Call(c) == call' = c /\ ok' = ok
Outside(c) == Call(c) /\ walk = NoWalk /\ walk' = walk

-----------------------------------------------------------------------------
(* Calls outside loops. *)

InitList(h) == Outside(<<"init", h>>) /\ lists' = [lists EXCEPT ![h] = <<>>]

InsertFirst(h, n) ==
    Outside(<<"first", h, n>>) /\ Ready(h) /\ lists' = [lists EXCEPT ![h] = <<n>> \o @]

InsertLast(h, n) ==
    Outside(<<"last", h, n>>) /\ Ready(h) /\ lists' = [lists EXCEPT ![h] = Append(@, n)]

InsertAfter(h, e, n) ==
    /\ Outside(<<"after", h, e, n>>) /\ e \in On(h)
    /\ lists' = [lists EXCEPT ![h] = InsertAt(@, Place(@, e) + 1, n)]

Unlink(h, n) ==
    /\ Outside(<<"remove", h, n>>) /\ Ready(h)
    /\ lists' = [lists EXCEPT ![h] = Without(@, n)]

Replace(h, e, n) ==
    /\ Outside(<<"replace", h, e, n>>) /\ e \in On(h)
    /\ lists' = [lists EXCEPT ![h] = [@ EXCEPT ![Place(lists[h], e)] = n]]

(* The list of head g becomes that of head h; init: g stays usable. *)
ReplaceHead(g, h, init) ==
    /\ Outside(<<"replace_head", g, h, init>>) /\ Ready(g)
    /\ lists' = [lists EXCEPT ![g] = IF init THEN <<>> ELSE None, ![h] = lists[g]]

MoveTo(g, h, n, place) ==
    /\ Outside(<<"move", n, h, place>>) /\ n \in On(g) /\ Ready(h)
    /\ LET rest == [lists EXCEPT ![g] = Without(@, n)]
       IN  lists' = [rest EXCEPT ![h] = IF place = "first" THEN <<n>> \o @ ELSE Append(@, n)]

RotateLeft(h) ==
    /\ Outside(<<"rotate", h>>) /\ Ready(h)
    /\ lists' = [lists EXCEPT ![h] = IF @ = <<>> THEN @ ELSE Append(Tail(@), Head(@))]

(* The part of h up to e goes to g, all of it out of g; e = h: nothing goes. *)
Cut(g, h, e) ==
    /\ Outside(<<"cut", g, h, e>>) /\ Ready(h) /\ e \in On(h) \cup {h}
    /\ lists' = IF lists[h] = <<>> THEN lists
                ELSE LET k == IF e = h THEN 0 ELSE Place(lists[h], e)
                     IN  [lists EXCEPT ![g] = SubSeq(lists[h], 1, k),
                                       ![h] = SubSeq(@, k + 1, Len(@))]

Join(g, h, place, init) ==
    /\ Outside(<<"join", g, h, place, init>>) /\ Ready(g) /\ Ready(h)
    /\ lists' = [lists EXCEPT
                   ![h] = IF place = "first" THEN lists[g] \o @ ELSE @ \o lists[g],
                   ![g] = IF init \/ @ = <<>> THEN <<>> ELSE None]

-----------------------------------------------------------------------------
(* Loops that tolerate the unlinking of the current node. *)

(* From e on, or from its neighbour, e being a node of h or h itself.       *)
Begin(h, e, dir, self) ==
    /\ Call(<<"begin", h, e, dir, self>>)
    /\ walk = NoWalk /\ Ready(h)
    /\ e \in On(h) \/ (e = h /\ ~self)
    /\ LET s == IF dir = "next" THEN lists[h] ELSE Reverse(lists[h])
           i == IF e = h THEN 0 ELSE Place(s, e)
           todo == SubSeq(s, IF self THEN i ELSE i + 1, Len(s))
       IN  IF todo = <<>> THEN walk' = NoWalk
           ELSE walk' = [of |-> h, cur |-> Head(todo), todo |-> Tail(todo), put |-> {}]
    /\ UNCHANGED lists

Advance ==
    /\ Call(<<"advance">>)
    /\ walk # NoWalk
    /\ IF walk.todo = <<>> THEN walk' = NoWalk
       ELSE walk' = [walk EXCEPT !.cur = Head(walk.todo), !.todo = Tail(@),
                                 !.put = IF "now" \in @ THEN {"before"} ELSE {}]
    /\ UNCHANGED lists

RemoveCurrent ==
    /\ Call(<<"remove_current">>)
    /\ walk # NoWalk
    /\ lists' = [lists EXCEPT ![walk.of] = Without(@, walk.cur)]
    /\ UNCHANGED walk

MoveCurrent(h) ==
    /\ Call(<<"move_current", h>>)
    /\ walk # NoWalk /\ Ready(h)
    /\ lists' = [lists EXCEPT ![walk.of] = Without(@, walk.cur), ![h] = Append(@, walk.cur)]
    /\ UNCHANGED walk

RemoveNext ==
    /\ Call(<<"remove_next">>)
    /\ walk # NoWalk
    /\ lists' = [lists EXCEPT ![walk.of] = Without(@, Head(walk.todo))]
    /\ walk' = [walk EXCEPT !.todo = Tail(@)]

InsertBefore(n) ==
    /\ Call(<<"before", n>>)
    /\ walk # NoWalk
    /\ lists' = [lists EXCEPT ![walk.of] = InsertAt(@, Place(@, walk.cur), n)]
    /\ walk' = [walk EXCEPT !.put = @ \cup {"now"}]

(***************************************************************************)
(* The calls of which nothing is promised: a list with entries followed by *)
(* an empty one (lists.h:697), a removal from a list that does not hold    *)
(* the entry while another one does (lists.h:741), and a change in a loop  *)
(* right after an INSERT_BEFORE_CURRENT (lists.h:543).                     *)
(***************************************************************************)
NothingPromised ==
    /\ ok' = FALSE
    /\ \/ \E g, h \in Heads : /\ call' = <<"join", g, h, "last", TRUE>>
                              /\ lists[g] = <<>> /\ lists[h] # <<>>
       \/ \E h \in Heads, n \in Nodes : /\ call' = <<"remove", h, n>>
                                        /\ n \notin On(h) /\ ~Free(n)
       \/ /\ walk.put # {}
          /\ call'[1] \in {"remove_current", "move_current", "before"}

Directions == {"next", "prev"}
Ends == {"first", "last"}

Asked(name) == call'[1] = name

AbsNext ==
    \/ NothingPromised
    \/ Advance \/ RemoveCurrent \/ RemoveNext
    \/ \E n \in Nodes : InsertBefore(n)
    \/ \E h \in Heads : InitList(h) \/ RotateLeft(h) \/ MoveCurrent(h)
    \/ Asked("first") /\ \E h \in Heads, n \in Nodes : InsertFirst(h, n)
    \/ Asked("last") /\ \E h \in Heads, n \in Nodes : InsertLast(h, n)
    \/ Asked("remove") /\ \E h \in Heads, n \in Nodes : Unlink(h, n)
    \/ Asked("after") /\ \E h \in Heads, e, n \in Nodes : InsertAfter(h, e, n)
    \/ Asked("replace") /\ \E h \in Heads, e, n \in Nodes : Replace(h, e, n)
    \/ Asked("replace_head") /\ \E g, h \in Heads, init \in BOOLEAN : ReplaceHead(g, h, init)
    \/ Asked("move") /\ \E g, h \in Heads, n \in Nodes, place \in Ends : MoveTo(g, h, n, place)
    \/ Asked("cut") /\ \E g, h \in Heads, e \in Heads \cup Nodes : Cut(g, h, e)
    \/ Asked("join") /\ \E g, h \in Heads, place \in Ends, init \in BOOLEAN : Join(g, h, place, init)
    \/ Asked("begin") /\ \E h \in Heads, e \in Heads \cup Nodes, dir \in Directions, self \in BOOLEAN :
                             Begin(h, e, dir, self)

AbsSpec == AbsInit /\ [][AbsNext]_absVars
=============================================================================
