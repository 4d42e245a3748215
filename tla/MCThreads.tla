------------------------------ MODULE MCThreads -----------------------------
(* What the threads of the IP-camera daemon share: the list of messages    *)
(* (MessageQueue) and the log (LogFiles).  A behaviour exercises one.      *)
EXTENDS MessageQueue, LogFiles

VARIABLE part       \* the one that runs

MCInit == part \in {"messages", "log"} /\ Init /\ LogInit

Messages == part = "messages" /\ Next
Lines == part = "log" /\ LogNext

MCNext ==
    /\ UNCHANGED part
    /\ \/ Messages /\ UNCHANGED logVars
       \/ Lines /\ UNCHANGED vars

MCSpec == MCInit /\ [][MCNext]_<<part, vars, logVars>>
=============================================================================
