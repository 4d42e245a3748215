------------------------------- MODULE Chains -------------------------------
(***************************************************************************)
(* What one meets in following pointers from node to node, for the two     *)
(* list libraries list.h and lists.h.  The definition is by index and not  *)
(* recursive, so that it can be reasoned about.                            *)
(***************************************************************************)
EXTENDS Sequences, SequencesExt, FiniteSets

CONSTANTS
    Heads, Nodes,
    None            \* no node, no list, a null pointer

(* As long as there are nodes. *)
Paths == SeqOf(Nodes, Cardinality(Nodes))

ASSUME CellsAssumption ==
    /\ Heads \cap Nodes = {} /\ IsFiniteSet(Nodes)
    /\ None \notin Heads \cup Nodes \cup Paths

(* The pointer behind the first i nodes of s, the one in hand being p.     *)
Pointer(s, p, step, i) == IF i = 0 THEN p ELSE step[s[i]]

(* The nodes from p on, along step, until a pointer leads to no node.      *)
Follows(s, p, step) ==
    /\ \A i \in DOMAIN s : s[i] = Pointer(s, p, step, i - 1)
    /\ Pointer(s, p, step, Len(s)) \notin Nodes

Chain(p, step) == CHOOSE s \in Paths : Follows(s, p, step)
=============================================================================
