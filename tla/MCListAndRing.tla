--------------------------- MODULE MCListAndRing ----------------------------
(* The list of frames, and the ring of the first version of the program:   *)
(* a behaviour exercises one of them.                                      *)
EXTENDS FrameList, BusyRing

VARIABLE part       \* the one that runs

bothVars == <<part, vars, ringVars>>

MCInit ==
    /\ part \in {"list", "ring"}
    /\ Init /\ RingInit
    /\ part # "ring" => total = 0 /\ ending = "clean"

List(A) == part = "list" /\ A /\ UNCHANGED <<part, ringVars>>
InRing(A) == part = "ring" /\ A /\ UNCHANGED <<part, vars>>

MCNext == List(Next) \/ InRing(RingNext)

(* FairSpec of the one and RingFairSpec of the other.                      *)
MCSpec ==
    /\ MCInit /\ [][MCNext]_bothVars
    /\ WF_bothVars(List(Producer)) /\ WF_bothVars(List(PrintList))
    /\ WF_bothVars(InRing(RingConsumer))
=============================================================================
