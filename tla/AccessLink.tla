----------------------------- MODULE AccessLink -----------------------------
(* The connection of the IP-camera daemon to the access server             *)
(* (vs_socket.c): thread_access_reconnnet_main connects, starts a thread   *)
(* that receives, registers, waits for the end of that thread and begins   *)
(* anew; when connecting fails it sleeps and tries again.  No socket is    *)
(* ever closed.  vs_socket.h declares the thread; what would start it is   *)
(* not in the repository.                                                  *)
(*                                                                         *)
(* External: the server; the registration, one send; the buffers that the  *)
(* received data go to, left out.  A join of thread 0, of which pthreads   *)
(* says nothing, returns or kills the daemon; so does a send on a          *)
(* connection that the server has ended (SIGPIPE, which nobody handles).   *)
(***************************************************************************)
EXTENDS Naturals

CONSTANTS MaxSockets        \* descriptors the process may have open

VARIABLES
    link,           \* where thread_access_reconnnet_main is
    g_vs_sock,      \* the socket to the access server, or 0
    th,             \* th_recv_from_con_sockfd: the socket its thread serves, or 0
    receivers,      \* sockets served by a thread_recv_from_con
    sockets,        \* sockets made; their descriptors are 1..sockets
    alive,          \* those whose connection the server keeps
    server,         \* TRUE: it accepts connections
    address         \* FALSE: ip_server_access_1 is no address, or there is no port

vars == <<link, g_vs_sock, th, receivers, sockets, alive, server, address>>

Init ==
    /\ link = "connect" /\ g_vs_sock = 0 /\ th = 0 /\ receivers = {}
    /\ sockets = 0 /\ alive = {}
    /\ server \in BOOLEAN /\ address \in BOOLEAN

Go(from, to) == link = from /\ link' = to
Runs == link # "dead"

-----------------------------------------------------------------------------
(* A slip: the end of the connection is not the end of the thread.         *)
ReceiveEnd_GoesOn(f) ==
    /\ Runs /\ f \in receivers \ alive
    /\ g_vs_sock' = 0
    /\ UNCHANGED <<link, th, receivers, sockets, alive, server, address>>

-----------------------------------------------------------------------------
(* vs_connect: socket, inet_aton, connect.                                 *)
NoSocket ==
    /\ sockets = MaxSockets /\ Go("connect", "sleep")
    /\ UNCHANGED <<g_vs_sock, th, receivers, sockets, alive, server, address>>

NewSocket == sockets < MaxSockets /\ sockets' = sockets + 1

(* Without a port there is not even a socket.  inet_aton leaves errno      *)
(* alone: what is returned may be 0, a success.                            *)
BadAddress ==
    /\ ~address
    /\ \/ Go("connect", "sleep") /\ UNCHANGED sockets
       \/ NewSocket /\ (Go("connect", "sleep") \/ Go("connect", "register"))
    /\ UNCHANGED <<g_vs_sock, th, receivers, alive, server, address>>

Refused ==
    /\ address /\ ~server /\ NewSocket
    /\ Go("connect", "sleep")
    /\ UNCHANGED <<g_vs_sock, th, receivers, alive, server, address>>

Connected ==
    /\ address /\ server /\ NewSocket
    /\ Go("connect", "create")
    /\ g_vs_sock' = sockets' /\ alive' = alive \cup {sockets'}
    /\ UNCHANGED <<th, receivers, server, address>>

(* pthread_create, whose result is not looked at.                          *)
CreateReceiver ==
    /\ Go("create", "register")
    /\ \/ th' = g_vs_sock /\ receivers' = receivers \cup {g_vs_sock}
       \/ UNCHANGED <<th, receivers>>
    /\ UNCHANGED <<g_vs_sock, sockets, alive, server, address>>

Sleep ==
    /\ Go("sleep", "connect")
    /\ UNCHANGED <<g_vs_sock, th, receivers, sockets, alive, server, address>>

(* rountin_termRegister_req; package_send and vs_send send nothing to 0.   *)
Register ==
    /\ \/ Go("register", "join")
       \/ Go("register", "dead") /\ g_vs_sock \notin alive \cup {0}
    /\ UNCHANGED <<g_vs_sock, th, receivers, sockets, alive, server, address>>

Join ==
    /\ \/ Go("join", "connect") /\ th \notin receivers
       \/ Go("join", "dead") /\ th = 0
    /\ th' = 0
    /\ UNCHANGED <<g_vs_sock, receivers, sockets, alive, server, address>>

ReconnectThread ==
    \/ NoSocket \/ BadAddress \/ Refused \/ Connected
    \/ CreateReceiver \/ Sleep \/ Register \/ Join

-----------------------------------------------------------------------------
(* thread_recv_from_con: the connection has ended, or select fails.        *)
ReceiveEnd(f) ==
    /\ Runs /\ f \in receivers \ alive
    /\ receivers' = receivers \ {f} /\ g_vs_sock' = 0
    /\ UNCHANGED <<link, th, sockets, alive, server, address>>

SelectError(f) ==
    /\ Runs /\ f \in receivers
    /\ receivers' = receivers \ {f}
    /\ UNCHANGED <<link, g_vs_sock, th, sockets, alive, server, address>>

-----------------------------------------------------------------------------
(* The server ends a connection, goes down with all of them, comes back.   *)
Hangup(f) ==
    /\ f \in alive /\ alive' = alive \ {f}
    /\ UNCHANGED <<link, g_vs_sock, th, receivers, sockets, server, address>>
ServerDown ==
    /\ server /\ server' = FALSE /\ alive' = {}
    /\ UNCHANGED <<link, g_vs_sock, th, receivers, sockets, address>>
ServerUp ==
    /\ ~server /\ server' = TRUE
    /\ UNCHANGED <<link, g_vs_sock, th, receivers, sockets, alive, address>>

Socks == 1..MaxSockets

Next ==
    \/ ReconnectThread
    \/ \E f \in Socks : ReceiveEnd(f) \/ SelectError(f) \/ Hangup(f)
    \/ ServerDown \/ ServerUp

(* The two threads are scheduled; nothing is asked of the server.          *)
Fairness ==
    /\ WF_vars(ReconnectThread)
    /\ \A f \in Socks : WF_vars(ReceiveEnd(f))

Spec == Init /\ [][Next]_vars /\ Fairness
-----------------------------------------------------------------------------
(* When the server stays up, the daemon ends up connected to it, with a    *)
(* thread that receives, however often it was refused and cut off before:  *)
(* unless it died, or has used up its descriptors by trying.               *)
Linked == g_vs_sock \in alive \cap receivers
Reconnects ==
    address /\ <>[]server => <>[](Linked \/ sockets = MaxSockets \/ ~Runs)
=============================================================================
