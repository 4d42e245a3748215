------------------------------ MODULE FrameList ------------------------------
(***************************************************************************)
(* The list frame_head of src/src/extBB.c at the level of its pointers.    *)
(* producer_list allocates a node for every frame, fills it and links it   *)
(* at the tail with list_add_tail of src/inc/list.h; print_list, which the *)
(* main thread runs before it returns, walks the list and prints it.  The  *)
(* two share the global variable tmp_list, which each assigns and then     *)
(* dereferences, and nothing keeps one from running while the other does.  *)
(*                                                                         *)
(* The k-th malloc of a node returns node k: nodes are never freed.  The   *)
(* ring is left out, as it only delays the producer; one step is one       *)
(* access to a shared pointer or field.                                    *)
(***************************************************************************)
EXTENDS Integers, Sequences

CONSTANTS MaxFrames,   \* bound: the longest BB.bin considered, in frames
          Junk         \* the content of memory nobody has written to

Nodes  == 1 .. MaxFrames
frame_head == 0                    \* the address of the head
Places == Nodes \cup {frame_head}

ASSUME FrameListAssumption == MaxFrames \in Nat /\ Junk \notin Places

VARIABLES
  next, prev,      \* the two pointers of each node and of the head
  data, len,       \* the fields of each node; a frame's are its number
  tmp_list,        \* the global both threads use
  ppc, nread,      \* the producer: where it is, the frame it is at,
  new, tail,       \* ... and the arguments of its __list_add
  mpc, pos,        \* the main thread: where it is, its place in the list,
  line, printed,   \* ... the line it is printing and those it has printed
                   \* (bound: the first MaxFrames + 1 of them)
  raced            \* history: whether one thread has assigned tmp_list while
                   \* the other was using it

heap     == <<next, prev, data, len>>
producer == <<ppc, nread, new, tail>>
main     == <<mpc, pos, line, printed>>
vars     == <<heap, tmp_list, producer, main, raced>>

ProducerPC == {"malloc", "data", "len", "call",
               "next_prev", "new_next", "new_prev", "prev_next", "done"}
MainPC     == {"wait", "next", "assign", "print", "done"}

NoLine == [data |-> Junk, len |-> Junk, read |-> {}]

ProducerUses == ppc \in {"data", "len", "call"}
PrinterUses  == mpc = "print"

(* The producer's steps end when main returns.                             *)
ProducerGoes(from, to) == mpc # "done" /\ ppc = from /\ ppc' = to

MainGoes(from, to) == mpc = from /\ mpc' = to

-----------------------------------------------------------------------------
(* Plausible slips, for the properties below not to hold with them.        *)

(* list_insert instead of list_add_tail.                                   *)
CallAddTail_Insert ==
  /\ ProducerGoes("call", "next_prev")
  /\ new' = tmp_list
  /\ tail' = frame_head
  /\ UNCHANGED <<heap, tmp_list, nread, main, raced>>

(* The node is published before its own pointers are set.                  *)
SetNextPrev_PublishesEarly ==
  /\ ProducerGoes("next_prev", "new_next")
  /\ prev' = [prev EXCEPT ![frame_head] = new]
  /\ next' = [next EXCEPT ![tail] = new]
  /\ UNCHANGED <<data, len, tmp_list, nread, new, tail, main, raced>>

(* The loop ends at the last node rather than at the head.                 *)
FollowNext_StopsAtLast ==
  /\ MainGoes("next", IF next[pos] = frame_head \/ next[next[pos]] = frame_head
                      THEN "done" ELSE "assign")
  /\ pos' = next[pos]
  /\ UNCHANGED <<heap, tmp_list, producer, line, printed, raced>>

(* The end of the circular list is looked for as a null pointer.           *)
FollowNext_UntilNull ==
  /\ MainGoes("next", IF next[pos] = frame_head THEN "next" ELSE "assign")
  /\ pos' = next[pos]
  /\ UNCHANGED <<heap, tmp_list, producer, line, printed, raced>>

-----------------------------------------------------------------------------
Init ==
  /\ next = [n \in Places |-> IF n = frame_head THEN frame_head ELSE Junk]
  /\ prev = next
  /\ data = [n \in Nodes |-> Junk] /\ len = data
  /\ tmp_list = Junk
  /\ ppc = "malloc" /\ nread = 0 /\ new = frame_head /\ tail = frame_head
  /\ mpc = "wait" /\ pos = frame_head /\ line = NoLine /\ printed = << >>
  /\ raced = FALSE

-----------------------------------------------------------------------------
(* producer_list, from the malloc of a node to list_add_tail               *)

Malloc ==
  /\ ProducerGoes("malloc", "data")
  /\ nread < MaxFrames
  /\ nread' = nread + 1
  /\ tmp_list' = nread'
  /\ raced' = (raced \/ PrinterUses)
  /\ UNCHANGED <<heap, new, tail, main>>

FillData ==
  /\ ProducerGoes("data", "len")
  /\ data' = [data EXCEPT ![tmp_list] = nread]
  /\ UNCHANGED <<next, prev, len, tmp_list, nread, new, tail, main, raced>>

FillLen ==
  /\ ProducerGoes("len", "call")
  /\ len' = [len EXCEPT ![tmp_list] = nread]
  /\ UNCHANGED <<next, prev, data, tmp_list, nread, new, tail, main, raced>>

(* list_add_tail(&tmp_list->list, &frame_head) evaluates its arguments     *)
(* and calls __list_add(new, head->prev, head).                            *)
CallAddTail ==
  /\ ProducerGoes("call", "next_prev")
  /\ new' = tmp_list
  /\ tail' = prev[frame_head]
  /\ UNCHANGED <<heap, tmp_list, nread, main, raced>>

(* __list_add: next->prev = new                                            *)
SetNextPrev ==
  /\ ProducerGoes("next_prev", "new_next")
  /\ prev' = [prev EXCEPT ![frame_head] = new]
  /\ UNCHANGED <<next, data, len, tmp_list, nread, new, tail, main, raced>>

(* __list_add: new->next = next                                            *)
SetNewNext ==
  /\ ProducerGoes("new_next", "new_prev")
  /\ next' = [next EXCEPT ![new] = frame_head]
  /\ UNCHANGED <<prev, data, len, tmp_list, nread, new, tail, main, raced>>

(* __list_add: new->prev = prev                                            *)
SetNewPrev ==
  /\ ProducerGoes("new_prev", "prev_next")
  /\ prev' = [prev EXCEPT ![new] = tail]
  /\ UNCHANGED <<next, data, len, tmp_list, nread, new, tail, main, raced>>

(* __list_add: prev->next = new                                            *)
SetPrevNext ==
  /\ ProducerGoes("prev_next", "malloc")
  /\ next' = [next EXCEPT ![tail] = new]
  /\ UNCHANGED <<prev, data, len, tmp_list, nread, new, tail, main, raced>>

(* The file has no further frame.                                          *)
EndOfFile ==
  /\ ProducerGoes("malloc", "done")
  /\ UNCHANGED <<heap, tmp_list, nread, new, tail, main, raced>>

Producer == \/ Malloc \/ FillData \/ FillLen \/ CallAddTail
            \/ SetNextPrev \/ SetNewNext \/ SetNewPrev \/ SetPrevNext
            \/ EndOfFile

-----------------------------------------------------------------------------
(* print_list, called by main some time after the threads have started     *)

StartPrint ==
  /\ MainGoes("wait", "next")
  /\ UNCHANGED <<heap, tmp_list, producer, pos, line, printed, raced>>

(* list_for_each: pos = pos->next and the test of pos against the head.    *)
FollowNext ==
  /\ MainGoes("next", IF next[pos] = frame_head THEN "done" ELSE "assign")
  /\ pos' = next[pos]
  /\ UNCHANGED <<heap, tmp_list, producer, line, printed, raced>>

(* tmp_list = list_entry(pos, struct frame_list, list)                     *)
AssignTmp ==
  /\ MainGoes("assign", "print")
  /\ tmp_list' = pos
  /\ raced' = (raced \/ ProducerUses)
  /\ UNCHANGED <<heap, producer, pos, line, printed>>

(* The arguments of printf: two loads through tmp_list, in either order.   *)
LoadField ==
  /\ mpc = "print"
  /\ \E f \in {"data", "len"} \ line.read :
       line' = [line EXCEPT ![f] = IF f = "data" THEN data[tmp_list]
                                                 ELSE len[tmp_list],
                            !.read = @ \cup {f}]
  /\ UNCHANGED <<heap, tmp_list, producer, mpc, pos, printed, raced>>

PrintLine ==
  /\ MainGoes("print", "next")
  /\ line.read = {"data", "len"}
  /\ printed' = IF Len(printed) <= MaxFrames
                THEN Append(printed, <<line.data, line.len>>) ELSE printed
  /\ line' = NoLine
  /\ UNCHANGED <<heap, tmp_list, producer, pos, raced>>

PrintList == FollowNext \/ AssignTmp \/ LoadField \/ PrintLine

-----------------------------------------------------------------------------
Next == Producer \/ StartPrint \/ PrintList

Spec == Init /\ [][Next]_vars

(* Both threads are scheduled; nothing makes print_list start.             *)
FairSpec == Spec /\ WF_vars(Producer) /\ WF_vars(PrintList)

-----------------------------------------------------------------------------
(* Nodes completely linked so far: nodes 1 to Linked.                      *)
Linked == IF ppc \in {"malloc", "done"} THEN nread ELSE nread - 1

(* The list is frame_head, 1, ..., Linked, frame_head along next, and back along prev, *)
(* except that the head's prev is moved first.                             *)
Intact ==
  /\ \A k \in 0 .. Linked :
        next[k] = IF k = Linked THEN frame_head ELSE k + 1
  /\ \A k \in 1 .. Linked : prev[k] = k - 1 /\ data[k] = k /\ len[k] = k
  /\ prev[frame_head] = IF ppc \in {"new_next", "new_prev", "prev_next"}
                  THEN nread ELSE Linked

(* What the producer knows of the node in its hands.                       *)
InHand ==
  /\ ProducerUses => tmp_list = nread
  /\ ppc \notin {"malloc", "data", "done"} => data[nread] = nread
  /\ ppc \notin {"malloc", "data", "len", "done"} => len[nread] = nread
  /\ ppc \in {"next_prev", "new_next", "new_prev", "prev_next"} =>
        new = nread /\ tail = Linked
  /\ ppc \in {"new_prev", "prev_next"} => next[nread] = frame_head
  /\ ppc = "prev_next" => prev[nread] = Linked

(* How far print_list has come.                                            *)
PrintedUpTo(k) == printed = [i \in 1 .. k |-> <<i, i>>]
Printing ==
  /\ mpc \in {"wait", "next"} => pos \in 0 .. Linked /\ PrintedUpTo(pos)
  /\ mpc = "wait" => pos = frame_head
  /\ mpc \in {"assign", "print"} => pos \in 1 .. Linked /\ PrintedUpTo(pos - 1)
  /\ mpc = "print" => tmp_list = pos
  /\ "data" \in line.read => mpc = "print" /\ line.data = pos
  /\ "len" \in line.read => mpc = "print" /\ line.len = pos

(* The threads only ever put nodes into tmp_list.                          *)
Control ==
  /\ ppc \notin {"malloc", "done"} => nread >= 1
  /\ ProducerUses => tmp_list \in Nodes
  /\ ppc \in {"next_prev", "new_next", "new_prev", "prev_next"} => new \in Nodes
  /\ mpc = "assign" => pos \in Nodes
  /\ mpc = "print" => tmp_list \in Nodes
  /\ Len(printed) <= MaxFrames + 1

(* What can be reached along next has its own next set, whatever the race  *)
(* has done to the order; so has the place the next node is linked behind. *)
SafeWalk ==
  /\ next[frame_head] # Junk
  /\ \A n \in Places : next[n] # Junk => next[next[n]] # Junk
  /\ ppc \in {"malloc", "data", "len", "call", "next_prev", "done"} =>
        prev[frame_head] # Junk /\ next[prev[frame_head]] # Junk
  /\ ppc \in {"next_prev", "new_next", "new_prev", "prev_next"} =>
        next[tail] # Junk
  /\ ppc \in {"new_next", "new_prev", "prev_next"} => prev[frame_head] = new
  /\ ppc \in {"new_prev", "prev_next"} => next[new] # Junk
  /\ next[pos] # Junk

-----------------------------------------------------------------------------
(* Properties                                                              *)

(* The types of the variables: __list_add is only ever called with nodes.  *)
TypeOK ==
  /\ next \in [Places -> Places \cup {Junk}]
  /\ prev \in [Places -> Places \cup {Junk}]
  /\ data \in [Nodes -> Nodes \cup {Junk}]
  /\ len \in [Nodes -> Nodes \cup {Junk}]
  /\ tmp_list \in Nodes \cup {Junk}
  /\ ppc \in ProducerPC /\ nread \in 0 .. MaxFrames
  /\ new \in Places /\ tail \in Places
  /\ mpc \in MainPC /\ pos \in Places
  /\ line \in [data : Nodes \cup {Junk}, len : Nodes \cup {Junk},
               read : SUBSET {"data", "len"}]
  /\ printed \in Seq((Nodes \cup {Junk}) \X (Nodes \cup {Junk}))
  /\ raced \in BOOLEAN

(* As long as the threads have not met on tmp_list, the list is the frames *)
(* in file order, at every single store of list_add_tail, and print_list   *)
(* has printed the first of them.                                          *)
IntactUnlessRaced == ~raced => Intact /\ InHand /\ Printing

(* print_list never follows a pointer nobody has set, even when the race   *)
(* has relinked nodes: list_add_tail publishes a node last.                *)
WalkStaysInList == mpc \in {"next", "assign", "print"} => next[pos] \in Places

(* What every step preserves, with the race and without it.                *)
ListInv == TypeOK /\ Control /\ SafeWalk /\ IntactUnlessRaced

(* When print_list ends, it has printed every frame listed by then, those  *)
(* listed during the walk included.                                        *)
PrintsWholeList ==
  [][mpc' = "done" /\ mpc # "done" /\ ~raced => PrintedUpTo(Linked)]_vars

(* print_list ends, and with it the program, unless the race has happened: *)
(* then a node may have been linked behind itself.                         *)
PrintEnds == mpc = "next" ~> (mpc = "done" \/ raced)

(* print_list prints the values of each node of the list (the comment at   *)
(* its head): the lines are the frames of the file, in order.              *)
PrintsEachNode == PrintedUpTo(Len(printed))

=============================================================================
