------------------------------ MODULE MCLists -------------------------------
(* The two list libraries side by side: a behaviour exercises one of them. *)
EXTENDS LinuxList, TLC

VARIABLES first, last, link, tgapWalk, tgapCall, ok

Tgap == INSTANCE TgapList WITH walk <- tgapWalk, call <- tgapCall

tgapVars == <<first, last, link, tgapWalk, tgapCall, ok>>

MCInit == Init /\ Tgap!Init
MCNext ==
    \/ Next /\ tgapCall = <<"start">> /\ UNCHANGED tgapVars
    \/ Tgap!Next /\ call = <<"start">> /\ UNCHANGED vars
MCSpec == MCInit /\ [][MCNext]_<<vars, tgapVars>>

(* The macros of lists.h, likewise.                                        *)
MacrosDoWhatTheyPromise == Tgap!DoesWhatItPromises
TailIsKnown == Tgap!TailIsKnown

Interchangeable == Permutations(Heads) \cup Permutations(Nodes)
=============================================================================
