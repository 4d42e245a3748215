---------------------------- MODULE MessageQueue ----------------------------
(* How requests come to the parser thread of the IP-camera daemon:         *)
(* ipc_main.c starts the threads of vs_thread.c; the socket thread accepts *)
(* connections, puts what it receives in one call into a node at the end   *)
(* of the list members and sets the flag of syn_ctrl (vs_socket.c,         *)
(* receiver.c, listsOperator.c); the parser thread takes nodes from the    *)
(* head (parser.c, sem.c).  What a request does is in RequestHandlers.     *)
(*                                                                         *)
(* Three things of the code shape the model.  thread_syn_wait asks whether *)
(* the pointer to the flag is null, so it never waits.  The parser takes a *)
(* second node whether or not the first was there; when none is there      *)
(* either, it follows a null pointer.  And list_node_add copies to a       *)
(* pointer that calloc has just set to null: the daemon dies of it, or the *)
(* build gives the node room and it holds what was received.               *)
(*                                                                         *)
(* thread_stop_all changes nothing, as its loop ends before the first      *)
(* turn: the quit flags stay 0 and are left out, and so is the entry of    *)
(* g_vs_sock for the last sender, which nobody reads.  External: the peers *)
(* and their sockets, and the web thread, which may end at any time.       *)
(***************************************************************************)
EXTENDS Naturals, Sequences, FiniteSetsExt

CONSTANTS
    Fds,            \* descriptors of accepted connections
    MaxSent,        \* bound: messages the peers send
    MaxConnections  \* bound: connections they make

ASSUME MessageAssumption == Fds \subseteq Nat \ {0} /\ MaxSent \in Nat /\ MaxConnections \in Nat

VARIABLES
    daemon,         \* "runs", "ended" or "died"
    toStart,        \* threads that thread_start has still to create
    threadID,       \* those it has created
    at,             \* where each thread is
    read_fds,       \* what select reported and is not yet looked at
    buf,            \* what it received last
    g_sock_fd,      \* connections select watches
    members,        \* the list: nodes, each with what one recv gave
    flag,           \* syn_ctrl.flag
    node,           \* list_node of the parser: none, or one node
    peer,           \* per descriptor: state, connection, data under way
    connections, sent, added,   \* so far: connections, messages, nodes
    handled         \* the requests the parser worked on, in order

network == <<peer, connections, sent>>
sockets == <<read_fds, buf, g_sock_fd>>
queue == <<members, flag, added>>
parser == <<node, handled>>
main == <<daemon, toStart, threadID>>
vars == <<main, at, sockets, queue, parser, network>>

Listening == 0                      \* the two listening sockets, first in the scan
Nobody == [state |-> "none", connection |-> 0, data |-> <<>>]
Waiting == MaxConnections - connections

Init ==
    /\ daemon = "runs" /\ toStart = <<"socket", "parser", "shm">> /\ threadID = <<>>
    /\ at = [socket |-> "none", parser |-> "none", shm |-> "none"]
    /\ read_fds = {} /\ buf = <<>> /\ g_sock_fd = {}
    /\ members = <<>> /\ flag = 0 /\ node = <<>>
    /\ peer = [f \in Fds |-> Nobody]
    /\ connections = 0 /\ sent = 0 /\ added = 0 /\ handled = <<>>

Go(thread, from, to) ==
    daemon = "runs" /\ at[thread] = from /\ at' = [at EXCEPT ![thread] = to]
Dies == daemon' = "died" /\ UNCHANGED <<toStart, threadID>>

-----------------------------------------------------------------------------
(* Plausible slips.                                                        *)

(* The new node goes to the head of the list.                              *)
Insert_Head(n) == members' = <<n>> \o members

(* The parser looks for a first node before each of two.                   *)
GetSecond_OneMore ==
    /\ at.parser = "second"
    /\ IF Len(members) < 2
       THEN Go("parser", "second", "dead") /\ Dies /\ UNCHANGED <<members, node>>
       ELSE Go("parser", "second", "core") /\ UNCHANGED main
            /\ node' = <<members[2]>> /\ members' = SubSeq(members, 3, Len(members))
    /\ UNCHANGED <<sockets, flag, added, handled, network>>

-----------------------------------------------------------------------------
(* Threads.                                                                *)

FirstStep == [socket |-> "setup_msg", parser |-> "first", shm |-> "web"]

(* vs_thread_create does not look at what thread_create returns: a thread  *)
(* that could not be created is missing, and its slot is the next one's.   *)
ThreadStart ==
    /\ daemon = "runs" /\ toStart # <<>> /\ toStart' = Tail(toStart)
    /\ \/ /\ threadID' = Append(threadID, Head(toStart))
          /\ at' = [at EXCEPT ![Head(toStart)] = FirstStep[Head(toStart)]]
       \/ UNCHANGED <<threadID, at>>
    /\ UNCHANGED <<daemon, sockets, queue, parser, network>>

(* thread_wait joins the first and the third; then main returns.           *)
ThreadWait ==
    /\ daemon = "runs" /\ toStart = <<>>
    /\ \A k \in {1, 3} \cap DOMAIN threadID : at[threadID[k]] = "ended"
    /\ daemon' = "ended"
    /\ UNCHANGED <<toStart, threadID, at, sockets, queue, parser, network>>

WebThreadEnds ==
    /\ Go("shm", "web", "ended")
    /\ UNCHANGED <<main, sockets, queue, parser, network>>

-----------------------------------------------------------------------------
(* thread_socket_msg_main                                                  *)

(* socket_setup, for the port of messages and that of video.               *)
Setup(from, to) ==
    /\ Go("socket", from, to) \/ Go("socket", from, "ended")
    /\ UNCHANGED <<main, sockets, queue, parser, network>>

Readable == {f \in g_sock_fd : peer[f].data # <<>> \/ peer[f].state # "up"}
            \cup {f \in {Listening} : Waiting > 0}

Select ==
    /\ \/ Go("socket", "select", "scan") /\ Readable # {} /\ read_fds' = Readable
       \/ Go("socket", "select", "ended") /\ UNCHANGED read_fds
    /\ UNCHANGED <<main, buf, g_sock_fd, queue, parser, network>>

(* The descriptors that were ready, from the lowest.                       *)
Scanned(f, to) ==
    /\ Go("socket", "scan", to)
    /\ f \in read_fds /\ \A g \in read_fds : f <= g
    /\ read_fds' = read_fds \ {f}

(* accept; without a free descriptor it fails and the peer goes on waiting *)
Accept ==
    /\ Scanned(Listening, "scan")
    /\ IF Fds \subseteq g_sock_fd THEN UNCHANGED <<g_sock_fd, network>>
       ELSE LET newfd == Min(Fds \ g_sock_fd) IN
            /\ g_sock_fd' = g_sock_fd \cup {newfd}
            /\ connections' = connections + 1
            /\ peer' = [peer EXCEPT ![newfd] = [Nobody EXCEPT !.state = "up", !.connection = connections']]
            /\ UNCHANGED sent
    /\ UNCHANGED <<main, buf, queue, parser>>

(* recv gives one message or several that came together.                   *)
Receive(f) ==
    /\ Scanned(f, "add")
    /\ \E k \in 1..Len(peer[f].data) :
          /\ buf' = SubSeq(peer[f].data, 1, k)
          /\ peer' = [peer EXCEPT ![f].data = SubSeq(@, k + 1, Len(@))]
    /\ UNCHANGED <<main, g_sock_fd, queue, parser, connections, sent>>

ReceiveEnd(f) ==
    /\ Scanned(f, "scan") /\ peer[f].data = <<>> /\ peer[f].state = "closed"
    /\ g_sock_fd' = g_sock_fd \ {f}
    /\ peer' = [peer EXCEPT ![f] = Nobody]
    /\ UNCHANGED <<main, buf, queue, parser, connections, sent>>

(* An error is logged; the end of the connection follows it.               *)
ReceiveError(f) ==
    /\ Scanned(f, "scan") /\ peer[f].state = "reset"
    /\ peer' = [peer EXCEPT ![f].state = "closed"]
    /\ UNCHANGED <<main, buf, g_sock_fd, queue, parser, connections, sent>>

Scan == Accept \/ \E f \in Fds : Receive(f) \/ ReceiveEnd(f) \/ ReceiveError(f)

ScanEnds ==
    /\ read_fds = {} /\ Go("socket", "scan", "select")
    /\ UNCHANGED <<main, sockets, queue, parser, network>>

Insert(n) == members' = Append(members, n)

(* receiver_core: what list_node_add returns is not looked at.             *)
ListNodeAdd ==
    /\ \/ /\ Go("socket", "add", "set") /\ UNCHANGED main
          /\ Insert([number |-> added + 1, data |-> buf]) /\ added' = added + 1
       \/ Go("socket", "add", "set") /\ UNCHANGED <<main, members, added>>
       \/ Go("socket", "add", "dead") /\ Dies /\ UNCHANGED <<members, added>>
    /\ UNCHANGED <<sockets, flag, parser, network>>

FlagSet ==
    /\ Go("socket", "set", "scan")
    /\ flag' = 1 /\ buf' = <<>>
    /\ UNCHANGED <<main, read_fds, g_sock_fd, members, added, parser, network>>

SocketThread ==
    \/ Setup("setup_msg", "setup_video") \/ Setup("setup_video", "select")
    \/ Select \/ Scan \/ ScanEnds \/ ListNodeAdd \/ FlagSet

-----------------------------------------------------------------------------
(* thread_parser_main                                                      *)

(* A first node that is there is overwritten by the second.                *)
GetFirst ==
    /\ Go("parser", "first", IF members = <<>> THEN "clear" ELSE "second")
    /\ members' = IF members = <<>> THEN members ELSE Tail(members)
    /\ UNCHANGED <<main, sockets, flag, added, parser, network>>

(* thread_syn_flag_clr, thread_syn_wait.                                   *)
FlagClr ==
    /\ Go("parser", "clear", "second") /\ flag' = 0
    /\ UNCHANGED <<main, sockets, members, added, parser, network>>

GetSecond ==
    /\ IF members = <<>>
       THEN Go("parser", "second", "dead") /\ Dies /\ UNCHANGED <<members, node>>
       ELSE Go("parser", "second", "core") /\ UNCHANGED main
            /\ node' = <<Head(members)>> /\ members' = Tail(members)
    /\ UNCHANGED <<sockets, flag, added, handled, network>>

(* parser_core sees the head of the node's data: the first request in it.  *)
ParserCore ==
    /\ Go("parser", "core", "first")
    /\ handled' = Append(handled, [number |-> node[1].number, request |-> Head(node[1].data)])
    /\ node' = <<>>
    /\ UNCHANGED <<main, sockets, queue, network>>

ParserThread == GetFirst \/ FlagClr \/ GetSecond \/ ParserCore

-----------------------------------------------------------------------------
(* The peers.                                                              *)
Send(f) ==
    /\ daemon = "runs" /\ peer[f].state = "up" /\ sent < MaxSent /\ sent' = sent + 1
    /\ peer' = [peer EXCEPT ![f].data = Append(@, [connection |-> peer[f].connection, number |-> sent'])]
    /\ UNCHANGED <<main, at, sockets, queue, parser, connections>>

Leave(f) ==
    /\ daemon = "runs" /\ peer[f].state = "up"
    /\ \/ peer' = [peer EXCEPT ![f].state = "closed"]
       \/ peer' = [peer EXCEPT ![f].state = "reset", ![f].data = <<>>]
    /\ UNCHANGED <<main, at, sockets, queue, parser, connections, sent>>

Peers == \E f \in Fds : Send(f) \/ Leave(f)

Next == ThreadStart \/ ThreadWait \/ WebThreadEnds \/ SocketThread \/ ParserThread \/ Peers

Spec == Init /\ [][Next]_vars
-----------------------------------------------------------------------------
(* The requests of a connection are worked on in the order in which they   *)
(* were sent, none twice, whatever else is connected, closed and opened    *)
(* again on the same descriptor meanwhile.                                 *)
HandledInOrder ==
    \A j, k \in DOMAIN handled :
        j < k /\ handled[j].request.connection = handled[k].request.connection
            => handled[j].request.number < handled[k].request.number

(* What the second list_node_get costs: a node may be lost, but never two  *)
(* in a row: the node after it is worked on, unless the daemon dies.       *)
Taken == {n \in 1..added : \A k \in DOMAIN members : members[k].number # n}
         \ {node[k].number : k \in DOMAIN node}
LostNodes == {n \in Taken : \A k \in DOMAIN handled : handled[k].number # n}
NoTwoLostInARow == \A n \in LostNodes : n + 1 \notin LostNodes
=============================================================================
