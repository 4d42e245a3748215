------------------------- MODULE MessageQueueProofs -------------------------
(* Proofs about MessageQueue: what the second list_node_get of the parser  *)
(* costs and what it leaves alone, for any number of descriptors, messages *)
(* and connections.                                                        *)
(*                                                                         *)
(* Both properties speak of handled only, and neither is inductive: where  *)
(* a request is on its way to the parser, from its peer over the buffer of *)
(* recv and the list to list_node, decides what handled may become.  The   *)
(* invariant says that the order of a connection holds along all of this   *)
(* way, and that the numbers of the nodes are consecutive in the list.     *)
(***************************************************************************)
EXTENDS MessageQueue, TLAPS

Request == [connection : Nat, number : Nat]
Node == [number : Nat, data : Seq(Request) \ {<<>>}]

Result == [number : Nat, request : Request]
Peer == [state : {"none", "up", "closed", "reset"}, connection : Nat, data : Seq(Request)]
Places ==
  [socket : {"none", "setup_msg", "setup_video", "select", "scan", "add", "set", "ended", "dead"},
   parser : {"none", "first", "clear", "second", "core", "dead"},
   shm : {"none", "web", "ended"}]

TypeOK ==
  /\ daemon \in {"runs", "ended", "died"}
  /\ at \in Places
  /\ buf \in Seq(Request) /\ members \in Seq(Node)
  /\ node \in Seq(Node) /\ Len(node) <= 1
  /\ peer \in [Fds -> Peer]
  /\ connections \in Nat /\ sent \in Nat /\ added \in Nat
  /\ handled \in Seq(Result)

(* A thread is somewhere only when it has been started, in the order of    *)
(* toStart; the parser has a node just while it works on it.               *)
Started ==
  /\ \/ toStart = <<"socket", "parser", "shm">> /\ at.parser = "none" /\ at.socket = "none"
     \/ toStart = <<"parser", "shm">> /\ at.parser = "none"
     \/ toStart = <<"shm">>
     \/ toStart = <<>>
  /\ (at.parser = "core") <=> (node # <<>>)
  /\ at.socket = "add" => buf # <<>>

-----------------------------------------------------------------------------
(* The order of the requests.                                              *)

Older(r, s) == r.connection = s.connection => r.number < s.number
AllOlder(q, s) == \A k \in DOMAIN q : \A i \in DOMAIN q[k].data : Older(q[k].data[i], s)

(* Everything the parser has worked on, has, or will find in the list.     *)
AheadOf(s) ==
  /\ \A k \in DOMAIN handled : Older(handled[k].request, s)
  /\ AllOlder(node, s) /\ AllOlder(members, s)

(* From the parser to the end of the list.                                 *)
NodeIsNext ==
  \A k \in DOMAIN node : \A i \in DOMAIN node[k].data :
      \A h \in DOMAIN handled : Older(handled[h].request, node[k].data[i])
ListIsNext ==
  \A k \in DOMAIN members : \A i \in DOMAIN members[k].data :
      /\ \A h \in DOMAIN handled : Older(handled[h].request, members[k].data[i])
      /\ AllOlder(node, members[k].data[i])
ListInOrder ==
  \A j, k \in DOMAIN members : j < k =>
      \A i \in DOMAIN members[k].data : \A h \in DOMAIN members[j].data :
          Older(members[j].data[h], members[k].data[i])

(* What recv gave and is not in the list yet.                              *)
BufferIsNext == at.socket = "add" => \A i \in DOMAIN buf : AheadOf(buf[i])

(* What is still with the peers.                                           *)
PeersAreNext ==
  \A f \in Fds : \A i \in DOMAIN peer[f].data :
      /\ AheadOf(peer[f].data[i])
      /\ at.socket = "add" => \A h \in DOMAIN buf : Older(buf[h], peer[f].data[i])

(* The data of a descriptor is that of its connection, in order.           *)
Streams ==
  \A f \in Fds : \A i \in DOMAIN peer[f].data :
      /\ peer[f].state # "none"
      /\ peer[f].data[i].connection = peer[f].connection
      /\ \A h \in DOMAIN peer[f].data : h < i => peer[f].data[h].number < peer[f].data[i].number

(* A connection is on one descriptor.                                      *)
OneDescriptor ==
  \A f \in Fds : peer[f].state # "none" =>
      /\ peer[f].connection <= connections
      /\ \A g \in Fds \ {f} : peer[g].state # "none" => peer[f].connection # peer[g].connection

(* Numbers up to sent are given away.                                      *)
NumbersSent ==
  /\ \A k \in DOMAIN handled : handled[k].request.number <= sent
  /\ \A k \in DOMAIN node : \A i \in DOMAIN node[k].data : node[k].data[i].number <= sent
  /\ \A k \in DOMAIN members : \A i \in DOMAIN members[k].data : members[k].data[i].number <= sent
  /\ at.socket = "add" => \A i \in DOMAIN buf : buf[i].number <= sent
  /\ \A f \in Fds : \A i \in DOMAIN peer[f].data : peer[f].data[i].number <= sent

-----------------------------------------------------------------------------
(* The numbers of the nodes.                                               *)

(* The nodes the parser has taken are the first of those added.            *)
Gone == added - Len(members)
Done(n) == \E k \in DOMAIN handled : handled[k].number = n

Consecutive ==
  /\ Len(members) <= added
  /\ \A k \in DOMAIN members : members[k].number = Gone + k
  /\ \A k \in DOMAIN node : node[k].number = Gone

(* Of two nodes in a row that are taken, and with which the parser is      *)
(* through, it worked on one.                                              *)
OneOfTwo ==
  \A n \in 1 .. Gone - 1 : Done(n) \/ Done(n + 1) \/ (n + 1 = Gone /\ node # <<>>)

(* Before it looks for a first node the parser worked on the last it took; *)
(* before it looks for the second it may have dropped that one.            *)
LastTaken ==
  /\ at.parser = "none" => Gone = 0
  /\ at.parser \in {"first", "clear"} => Gone = 0 \/ Done(Gone)
  /\ at.parser = "second" => Gone <= 1 \/ Done(Gone) \/ Done(Gone - 1)

QueueInv ==
  /\ TypeOK /\ Started
  /\ HandledInOrder /\ NodeIsNext /\ ListIsNext /\ ListInOrder /\ BufferIsNext /\ PeersAreNext
  /\ Streams /\ OneDescriptor /\ NumbersSent
  /\ Consecutive /\ OneOfTwo /\ LastTaken

-----------------------------------------------------------------------------
(* Initially no node has been taken.                                       *)
LEMMA NothingTaken ==
  ASSUME members = <<>>, added = 0 PROVE Gone = 0
<1>1. Len(members) = 0
  OBVIOUS
<1>2. \A a, b \in Nat : a = b => a - b = 0
  OBVIOUS
<1> QED
  BY <1>1, <1>2 DEF Gone

LEMMA InitQueue == Init => QueueInv
<1> SUFFICES ASSUME Init PROVE QueueInv
  OBVIOUS
<1> USE DEF Init, Nobody
<1>1. TypeOK
  <2>1. Nobody \in Peer
    BY DEF Peer
  <2>2. peer \in [Fds -> Peer]
    BY <2>1
  <2> QED
    BY <2>2 DEF TypeOK, Places
<1>2. Started
  BY DEF Started
<1>3. HandledInOrder /\ NodeIsNext /\ ListIsNext /\ ListInOrder /\ BufferIsNext /\ PeersAreNext
  BY DEF HandledInOrder, NodeIsNext, ListIsNext, ListInOrder, BufferIsNext, PeersAreNext, AllOlder, AheadOf
<1>4. Streams /\ OneDescriptor /\ NumbersSent
  BY DEF Streams, OneDescriptor, NumbersSent
<1>5. Consecutive /\ OneOfTwo /\ LastTaken
  BY NothingTaken DEF Consecutive, OneOfTwo, LastTaken
<1> QED
  BY <1>1, <1>2, <1>3, <1>4, <1>5 DEF QueueInv

(* A step that touches neither the list, the parser nor the counters, and  *)
(* takes data from the peers at most to drop it.                           *)
LEMMA QuietStep ==
  ASSUME QueueInv, UNCHANGED <<members, node, handled, added, sent>>,
         at'.socket = "add" => at.socket = "add" /\ buf' = buf,
         \A f \in Fds : peer'[f].data = peer[f].data \/ peer'[f].data = <<>>,
         TypeOK', Started', LastTaken', Streams', OneDescriptor'
  PROVE  QueueInv'
<1> USE DEF QueueInv
<1>1. (HandledInOrder /\ NodeIsNext /\ ListIsNext /\ ListInOrder)'
  BY DEF HandledInOrder, NodeIsNext, ListIsNext, ListInOrder, AllOlder, Older
<1>2. BufferIsNext'
  BY DEF BufferIsNext, AllOlder, AheadOf, Older
<1>3. PeersAreNext'
  BY DEF PeersAreNext, AllOlder, AheadOf, Older
<1>4. NumbersSent'
  BY DEF NumbersSent
<1>5. (Consecutive /\ OneOfTwo)'
  BY DEF Consecutive, OneOfTwo, Gone, Done
<1> QED
  BY <1>1, <1>2, <1>3, <1>4, <1>5

(* A step of which the peers know nothing.                                 *)
LEMMA PeersStay ==
  ASSUME Streams, OneDescriptor, UNCHANGED <<peer, connections>>
  PROVE  /\ Streams' /\ OneDescriptor'
         /\ \A f \in Fds : peer'[f].data = peer[f].data \/ peer'[f].data = <<>>
  BY DEF Streams, OneDescriptor

(* main starts a thread.                                                   *)
LEMMA ThreadStartStep ==
  ASSUME QueueInv, ThreadStart PROVE QueueInv'
<1> USE DEF QueueInv, ThreadStart, sockets, queue, parser, network
<1>1. at' \in Places
  <2>1. CASE at' = at
    BY <2>1 DEF TypeOK
  <2>2. CASE toStart = <<"socket", "parser", "shm">> /\ at' # at
    BY <2>2 DEF TypeOK, FirstStep, Places
  <2>3. CASE toStart = <<"parser", "shm">> /\ at' # at
    BY <2>3 DEF TypeOK, FirstStep, Places
  <2>4. CASE toStart = <<"shm">> /\ at' # at
    BY <2>4 DEF TypeOK, FirstStep, Places
  <2> QED
    BY <2>1, <2>2, <2>3, <2>4 DEF Started
<1>2. TypeOK'
  BY <1>1 DEF TypeOK
<1>3. Started' /\ (at'.socket = "add" => at.socket = "add")
  <2>1. CASE toStart = <<"socket", "parser", "shm">>
    BY <2>1 DEF TypeOK, FirstStep, Started, Places
  <2>2. CASE toStart = <<"parser", "shm">>
    BY <2>2 DEF TypeOK, FirstStep, Started, Places
  <2>3. CASE toStart = <<"shm">>
    BY <2>3 DEF TypeOK, FirstStep, Started, Places
  <2> QED
    BY <2>1, <2>2, <2>3 DEF Started
<1>4. at'.parser = at.parser \/ (at.parser = "none" /\ at'.parser = "first")
  <2>1. CASE toStart = <<"socket", "parser", "shm">>
    BY <2>1 DEF TypeOK, FirstStep, Places
  <2>2. CASE toStart = <<"parser", "shm">>
    BY <2>2 DEF TypeOK, FirstStep, Started, Places
  <2>3. CASE toStart = <<"shm">>
    BY <2>3 DEF TypeOK, FirstStep, Places
  <2> QED
    BY <2>1, <2>2, <2>3 DEF Started
<1>5. LastTaken'
  BY <1>4 DEF LastTaken, Gone, Done
<1> QED
  BY <1>2, <1>3, <1>5, PeersStay, QuietStep

(* Threads that end, and the socket thread while it waits.                 *)
LEMMA WaitStep ==
  ASSUME QueueInv,
         ThreadWait \/ WebThreadEnds \/ Setup("setup_msg", "setup_video")
           \/ Setup("setup_video", "select") \/ Select \/ ScanEnds \/ FlagSet \/ FlagClr
  PROVE  QueueInv'
<1> USE DEF QueueInv, ThreadWait, WebThreadEnds, Setup, Select, ScanEnds, FlagSet, FlagClr,
            Go, sockets, queue, parser, network, main
<1>1. UNCHANGED <<members, node, handled, added, sent, peer, connections>>
  OBVIOUS
<1>2. at' \in Places
  BY DEF TypeOK, Places
<1>3. daemon' \in {"runs", "ended", "died"} /\ (buf' = buf \/ buf' = <<>>)
  BY DEF TypeOK
<1>4. TypeOK'
  <2>1. <<>> \in Seq(Request)
    OBVIOUS
  <2> HIDE DEF ThreadWait, WebThreadEnds, Setup, Select, ScanEnds, FlagSet, FlagClr
  <2> QED
    BY <1>1, <1>2, <1>3, <2>1 DEF TypeOK
<1>5. /\ Started' /\ LastTaken'
      /\ at'.socket = "add" => at.socket = "add" /\ buf' = buf
  BY <1>1 DEF TypeOK, Started, LastTaken, Gone, Done, Places
<1> QED
  BY <1>1, <1>4, <1>5, PeersStay, QuietStep

(* What accept makes of a free entry.                                      *)
LEMMA NewPeer ==
  ASSUME NEW c \in Nat
  PROVE  LET n == [Nobody EXCEPT !.state = "up", !.connection = c]
         IN  n \in Peer /\ n.state = "up" /\ n.connection = c /\ n.data = <<>>
<1>1. <<>> \in Seq(Request)
  OBVIOUS
<1>2. Nobody \in Peer
  BY <1>1 DEF Nobody, Peer
<1> QED
  BY <1>1, <1>2 DEF Nobody, Peer

(* accept: the new connection is on no other descriptor.                   *)
LEMMA AcceptStep ==
  ASSUME QueueInv, Accept PROVE QueueInv'
<1> DEFINE New(n) == n.state = "up" /\ n.connection = connections + 1 /\ n.data = <<>>
<1>1. /\ UNCHANGED <<members, node, handled, added, sent, buf, toStart, daemon>>
      /\ at.socket = "scan" /\ at' = [at EXCEPT !["socket"] = "scan"]
  BY DEF Accept, Scanned, Go, queue, parser, main, network
<1>2. at' = at
  BY <1>1 DEF TypeOK, Places, QueueInv
<1>3. TypeOK /\ connections \in Nat /\ (\A f \in Fds : peer[f] \in Peer /\ peer[f].connection \in Nat)
  BY DEF QueueInv, TypeOK, Peer
<1>4. \/ UNCHANGED <<peer, connections>>
      \/ /\ connections' = connections + 1
         /\ \E newfd : \E n \in Peer : New(n) /\ peer' = [peer EXCEPT ![newfd] = n]
  <2>1. PICK n : n = [Nobody EXCEPT !.state = "up", !.connection = connections + 1]
    OBVIOUS
  <2>2. n \in Peer /\ New(n)
    <3>1. connections + 1 \in Nat
      BY <1>3
    <3> QED
      BY <2>1, <3>1, NewPeer
  <2>3. CASE Fds \subseteq g_sock_fd
    BY <2>3 DEF Accept, network
  <2>4. CASE ~(Fds \subseteq g_sock_fd)
    <3>1. connections' = connections + 1 /\ \E newfd : peer' = [peer EXCEPT ![newfd] = n]
      BY <2>1, <2>4 DEF Accept
    <3> QED
      BY <2>2, <3>1
  <2> QED
    BY <2>3, <2>4
<1>5. Started' /\ LastTaken'
  BY <1>1, <1>2 DEF Started, LastTaken, Gone, Done, QueueInv
<1>6. CASE UNCHANGED <<peer, connections>>
  <2>1. TypeOK'
    BY <1>1, <1>2, <1>3, <1>6 DEF TypeOK
  <2> QED
    BY <1>1, <1>2, <1>5, <1>6, <2>1, PeersStay, QuietStep DEF QueueInv
<1>7. CASE ~UNCHANGED <<peer, connections>>
  <2>1. PICK newfd : \E n \in Peer : New(n) /\ peer' = [peer EXCEPT ![newfd] = n]
    BY <1>4, <1>7
  <2>2. PICK n \in Peer : New(n) /\ peer' = [peer EXCEPT ![newfd] = n]
    BY <2>1
  <2>3. connections' = connections + 1
    BY <1>4, <1>7
  <2>4. \A f \in Fds : peer'[f] = peer[f] \/ (f = newfd /\ peer'[f] = n)
    BY <1>3, <2>2 DEF TypeOK
  <2>5. peer' \in [Fds -> Peer]
    BY <1>3, <2>2 DEF TypeOK
  <2>6. TypeOK'
    BY <1>1, <1>2, <1>3, <2>3, <2>5 DEF TypeOK
  <2>7. Streams' /\ \A f \in Fds : peer'[f].data = peer[f].data \/ peer'[f].data = <<>>
    BY <2>2, <2>4 DEF Streams, QueueInv
  <2>8. OneDescriptor'
    BY <1>3, <2>2, <2>3, <2>4 DEF OneDescriptor, QueueInv
  <2> QED
    BY <1>1, <1>2, <1>5, <2>6, <2>7, <2>8, QuietStep
<1> QED
  BY <1>6, <1>7

(* The end of a connection, or of a part of it: the data is dropped or     *)
(* stays, and the connection stays unless the descriptor gets free.        *)
LEMMA PeerEnds ==
  ASSUME QueueInv, NEW f \in Fds, NEW n \in Peer, peer' = [peer EXCEPT ![f] = n],
         n.data = peer[f].data \/ n.data = <<>>,
         n.state = "none" => n.data = <<>>,
         n.state # "none" => peer[f].state # "none" /\ n.connection = peer[f].connection,
         UNCHANGED <<members, node, handled, added, sent, buf, toStart, daemon, connections, at>>
  PROVE  QueueInv'
<1>1. TypeOK /\ (\A g \in Fds : peer[g] \in Peer /\ peer[g].connection \in Nat)
  BY DEF QueueInv, TypeOK, Peer
<1>2. \A g \in Fds : peer'[g] = IF g = f THEN n ELSE peer[g]
  BY <1>1 DEF TypeOK
<1>3. TypeOK'
  <2>1. peer' \in [Fds -> Peer]
    BY <1>1 DEF TypeOK
  <2> QED
    BY <1>1, <2>1 DEF TypeOK
<1>4. Started' /\ LastTaken'
  BY DEF Started, LastTaken, Gone, Done, QueueInv
<1>5. Streams' /\ \A g \in Fds : peer'[g].data = peer[g].data \/ peer'[g].data = <<>>
  BY <1>2 DEF Streams, QueueInv
<1>6. OneDescriptor'
  BY <1>1, <1>2 DEF OneDescriptor, QueueInv
<1> QED
  BY <1>3, <1>4, <1>5, <1>6, QuietStep

(* The end of a connection, seen by the socket thread or made by the peer. *)
LEMMA EndStep ==
  ASSUME QueueInv, NEW f \in Fds, ReceiveEnd(f) \/ ReceiveError(f) \/ Leave(f)
  PROVE  QueueInv'
<1>1. peer[f] \in Peer /\ <<>> \in Seq(Request)
  BY DEF QueueInv, TypeOK
<1>2. UNCHANGED <<members, node, handled, added, sent, buf, toStart, daemon, connections, at>>
  <2>1. CASE ReceiveEnd(f) \/ ReceiveError(f)
    <3>1. at.socket = "scan" /\ at' = [at EXCEPT !["socket"] = "scan"]
      BY <2>1 DEF ReceiveEnd, ReceiveError, Scanned, Go
    <3>2. at' = at
      BY <3>1 DEF TypeOK, Places, QueueInv
    <3> QED
      BY <2>1, <3>2 DEF ReceiveEnd, ReceiveError, queue, parser, main
  <2>2. CASE Leave(f)
    BY <2>2 DEF Leave, queue, parser, main, sockets
  <2> QED
    BY <2>1, <2>2
<1>3. CASE ReceiveEnd(f)
  <2>1. Nobody \in Peer
    BY <1>1 DEF Nobody, Peer
  <2> QED
    BY <1>2, <1>3, <2>1, PeerEnds DEF ReceiveEnd, Nobody
<1>4. CASE peer' = [peer EXCEPT ![f].state = "closed"] /\ peer[f].state # "none"
  <2>1. PICK n : n = [peer[f] EXCEPT !.state = "closed"]
    OBVIOUS
  <2>2. n \in Peer /\ n.state = "closed" /\ n.data = peer[f].data /\ n.connection = peer[f].connection
    BY <1>1, <2>1 DEF Peer
  <2> QED
    BY <1>2, <1>4, <2>1, <2>2, PeerEnds
<1>5. CASE peer' = [peer EXCEPT ![f].state = "reset", ![f].data = <<>>] /\ peer[f].state = "up"
  <2>1. PICK n : n = [[peer[f] EXCEPT !.state = "reset"] EXCEPT !.data = <<>>]
    OBVIOUS
  <2>2. n \in Peer /\ n.state = "reset" /\ n.data = <<>> /\ n.connection = peer[f].connection
    BY <1>1, <2>1 DEF Peer
  <2>3. peer' = [peer EXCEPT ![f] = n]
    BY <1>5, <2>1 DEF QueueInv, TypeOK
  <2> QED
    BY <1>2, <1>5, <2>2, <2>3, PeerEnds
<1> QED
  BY <1>3, <1>4, <1>5 DEF Leave, ReceiveError

(* What a step leaves alone that touches neither the list nor the parser.  *)
LEMMA QueueStays ==
  ASSUME QueueInv, UNCHANGED <<members, node, handled, added>>
  PROVE  /\ (HandledInOrder /\ NodeIsNext /\ ListIsNext /\ ListInOrder /\ Consecutive /\ OneOfTwo)'
         /\ \A s : AheadOf(s) => AheadOf(s)'
<1>1. (HandledInOrder /\ NodeIsNext /\ ListIsNext /\ ListInOrder)'
  BY DEF QueueInv, HandledInOrder, NodeIsNext, ListIsNext, ListInOrder, AllOlder, Older
<1>2. (Consecutive /\ OneOfTwo)'
  BY DEF QueueInv, Consecutive, OneOfTwo, Gone, Done
<1>3. \A s : AheadOf(s) => AheadOf(s)'
  BY DEF AheadOf, AllOlder, Older
<1> QED
  BY <1>1, <1>2, <1>3

(* What the sequences of requests and nodes hold.                          *)
LEMMA Elements ==
  ASSUME TypeOK
  PROVE  /\ \A k \in DOMAIN handled : handled[k].request \in Request
         /\ \A k \in DOMAIN node : node[k] \in Node /\ \A i \in DOMAIN node[k].data : node[k].data[i] \in Request
         /\ \A k \in DOMAIN members : members[k] \in Node /\ \A i \in DOMAIN members[k].data : members[k].data[i] \in Request
         /\ \A i \in DOMAIN buf : buf[i] \in Request
         /\ \A f \in Fds : peer[f] \in Peer /\ peer[f].data \in Seq(Request)
                           /\ \A i \in DOMAIN peer[f].data : peer[f].data[i] \in Request
<1>1. \A s \in Seq(Request) : \A i \in DOMAIN s : s[i] \in Request
  OBVIOUS
<1>2. \A s \in Seq(Node) : \A i \in DOMAIN s : s[i] \in Node
  OBVIOUS
<1>3. \A n \in Node : n.data \in Seq(Request)
  BY DEF Node
<1>4. \A n \in Peer : n.data \in Seq(Request)
  BY DEF Peer
<1>5. \A k \in DOMAIN handled : handled[k].request \in Request
  <2>1. \A s \in Seq(Result) : \A k \in DOMAIN s : s[k] \in Result
    OBVIOUS
  <2>2. \A n \in Result : n.request \in Request
    BY DEF Result
  <2> QED
    BY <2>1, <2>2 DEF TypeOK
<1>6. /\ node \in Seq(Node) /\ members \in Seq(Node) /\ buf \in Seq(Request)
      /\ \A f \in Fds : peer[f] \in Peer
  BY DEF TypeOK
<1> QED
  BY <1>1, <1>2, <1>3, <1>4, <1>5, <1>6

(* Their fields are numbers.                                               *)
LEMMA Fields == \A r \in Request : r.number \in Nat /\ r.connection \in Nat
  BY DEF Request

(* A new message has the highest number so far.                            *)
LEMMA SendStep ==
  ASSUME QueueInv, NEW f \in Fds, Send(f) PROVE QueueInv'
<1>1. UNCHANGED <<members, node, handled, added, buf, at, toStart, daemon, connections>>
  BY DEF Send, queue, parser, main, sockets
<1>2. TypeOK /\ peer \in [Fds -> Peer] /\ sent \in Nat /\ \A g \in Fds : peer[g].connection \in Nat
  BY DEF QueueInv, TypeOK, Peer
<1>3. PICK r : r = [connection |-> peer[f].connection, number |-> sent + 1]
  OBVIOUS
<1>4. r \in Request /\ r.number = sent + 1 /\ r.connection = peer[f].connection
  BY <1>2, <1>3 DEF Request
<1>5. PICK n : n = [peer[f] EXCEPT !.data = Append(peer[f].data, r)]
  OBVIOUS
<1>6. n \in Peer /\ n.data = Append(peer[f].data, r) /\ n.state = peer[f].state /\ n.connection = peer[f].connection
  <2>1. peer[f] \in Peer /\ Append(peer[f].data, r) \in Seq(Request)
    BY <1>2, <1>4, Elements
  <2> QED
    BY <1>5, <2>1 DEF Peer
<1>7. sent' = sent + 1 /\ peer[f].state = "up" /\ peer' = [peer EXCEPT ![f] = n]
  BY <1>3, <1>5 DEF Send
<1>8. \A g \in Fds : peer'[g] = IF g = f THEN n ELSE peer[g]
  BY <1>2, <1>7
<1>9. TypeOK'
  <2>1. peer' \in [Fds -> Peer] /\ sent' \in Nat
    BY <1>2, <1>6, <1>7
  <2> QED
    BY <1>1, <1>2, <2>1 DEF TypeOK
<1>10. Started' /\ LastTaken'
  BY <1>1 DEF QueueInv, Started, LastTaken, Gone, Done
<1>11. AheadOf(r) /\ (at.socket = "add" => \A h \in DOMAIN buf : Older(buf[h], r))
  <2>1. \A x \in Request : x.number <= sent => Older(x, r)
    BY <1>2, <1>4, Fields DEF Older
  <2> QED
    BY <1>2, <2>1, Elements DEF AheadOf, AllOlder, QueueInv, NumbersSent
<1>12. ASSUME NEW g \in Fds, NEW i \in DOMAIN peer'[g].data
       PROVE  \/ i \in DOMAIN peer[g].data /\ peer'[g].data[i] = peer[g].data[i]
              \/ g = f /\ i = Len(peer[f].data) + 1 /\ peer'[g].data[i] = r
  <2>1. \A s \in Seq(Request) : \A j \in DOMAIN Append(s, r) :
           \/ j \in DOMAIN s /\ Append(s, r)[j] = s[j]
           \/ j = Len(s) + 1 /\ Append(s, r)[j] = r
    BY <1>4
  <2> QED
    BY <1>2, <1>6, <1>8, <1>12, <2>1, Elements
<1>13. PeersAreNext'
  <2>1. ASSUME NEW g \in Fds, NEW i \in DOMAIN peer'[g].data
        PROVE  /\ AheadOf(peer'[g].data[i])
               /\ at.socket = "add" => \A h \in DOMAIN buf : Older(buf[h], peer'[g].data[i])
    BY <1>11, <1>12 DEF QueueInv, PeersAreNext
  <2> QED
    BY <1>1, <2>1, QueueStays DEF PeersAreNext, Older
<1>14. BufferIsNext'
  BY <1>1, QueueStays DEF QueueInv, BufferIsNext
<1>15. NumbersSent'
  <2>1. \A x \in Request : x.number <= sent => x.number <= sent'
    BY <1>2, <1>7, Fields
  <2>2. r.number <= sent'
    BY <1>2, <1>4, <1>7
  <2>3. \A g \in Fds : \A i \in DOMAIN peer'[g].data : peer'[g].data[i].number <= sent'
    BY <1>2, <1>12, <2>1, <2>2, Elements DEF QueueInv, NumbersSent
  <2> QED
    BY <1>1, <1>2, <2>1, <2>3, Elements DEF QueueInv, NumbersSent
<1>16. Streams'
  <2>1. \A i \in DOMAIN peer[f].data : peer[f].data[i].number < r.number
    BY <1>2, <1>4, Elements, Fields DEF QueueInv, NumbersSent
  <2>2. \A i \in DOMAIN peer[f].data : i < Len(peer[f].data) + 1 /\ i \in Nat
    BY <1>2, Elements
  <2>3. \A g \in Fds : peer'[g].state = peer[g].state /\ peer'[g].connection = peer[g].connection
    BY <1>6, <1>8
  <2>4. Len(peer[f].data) \in Nat
    BY <1>2, Elements
  <2> QED
    BY <1>4, <1>7, <1>12, <2>1, <2>2, <2>3, <2>4 DEF QueueInv, Streams
<1>17. OneDescriptor'
  BY <1>1, <1>6, <1>8 DEF QueueInv, OneDescriptor
<1> QED
  BY <1>1, <1>9, <1>10, <1>13, <1>14, <1>15, <1>16, <1>17, QueueStays DEF QueueInv

(* recv: the front of what the peer has sent goes to the buffer.           *)
LEMMA ReceiveStep ==
  ASSUME QueueInv, NEW f \in Fds, Receive(f) PROVE QueueInv'
<1>1. UNCHANGED <<members, node, handled, added, toStart, daemon, connections, sent>>
  BY DEF Receive, queue, parser, main, sockets
<1>2. TypeOK /\ peer \in [Fds -> Peer] /\ sent \in Nat /\ peer[f].data \in Seq(Request)
  BY Elements DEF QueueInv, TypeOK
<1>3. at.socket = "scan" /\ at' = [at EXCEPT !["socket"] = "add"]
  BY DEF Receive, Scanned, Go
<1>4. at' \in Places /\ at'.socket = "add" /\ at'.parser = at.parser
  BY <1>2, <1>3 DEF TypeOK, Places
<1>5. PICK k \in 1 .. Len(peer[f].data) :
         /\ buf' = SubSeq(peer[f].data, 1, k)
         /\ peer' = [peer EXCEPT ![f].data = SubSeq(peer[f].data, k + 1, Len(peer[f].data))]
  BY DEF Receive
<1>6. /\ buf' \in Seq(Request) /\ buf' # <<>>
      /\ \A i \in DOMAIN buf' : i \in DOMAIN peer[f].data /\ i <= k /\ buf'[i] = peer[f].data[i]
  BY <1>2, <1>5
<1>7. PICK rest : rest = SubSeq(peer[f].data, k + 1, Len(peer[f].data))
  OBVIOUS
<1>8. /\ rest \in Seq(Request)
      /\ \A i \in DOMAIN rest : i + k \in DOMAIN peer[f].data /\ i \in Nat /\ i > 0 /\ rest[i] = peer[f].data[i + k]
  BY <1>2, <1>7
<1>9. PICK n : n = [peer[f] EXCEPT !.data = rest]
  OBVIOUS
<1>10. n \in Peer /\ n.data = rest /\ n.state = peer[f].state /\ n.connection = peer[f].connection
  BY <1>2, <1>8, <1>9 DEF Peer
<1>11. peer' = [peer EXCEPT ![f] = n] /\ \A g \in Fds : peer'[g] = IF g = f THEN n ELSE peer[g]
  BY <1>2, <1>5, <1>7, <1>9
<1>12. TypeOK'
  <2>1. peer' \in [Fds -> Peer]
    BY <1>2, <1>10, <1>11
  <2> QED
    BY <1>1, <1>2, <1>4, <1>6, <2>1 DEF TypeOK
<1>13. Started' /\ LastTaken'
  BY <1>1, <1>3, <1>4, <1>6 DEF QueueInv, Started, LastTaken, Gone, Done
<1>14. BufferIsNext'
  <2>1. \A i \in DOMAIN buf' : AheadOf(buf'[i])
    BY <1>6 DEF QueueInv, PeersAreNext
  <2> QED
    BY <1>1, <2>1, QueueStays DEF BufferIsNext
<1>15. ASSUME NEW g \in Fds, NEW i \in DOMAIN peer'[g].data
       PROVE  \/ g # f /\ i \in DOMAIN peer[g].data /\ peer'[g].data[i] = peer[g].data[i]
              \/ g = f /\ i + k \in DOMAIN peer[f].data /\ peer'[g].data[i] = peer[f].data[i + k]
  BY <1>8, <1>10, <1>11, <1>15
<1>16. PeersAreNext'
  <2>1. ASSUME NEW g \in Fds, NEW i \in DOMAIN peer'[g].data
        PROVE  AheadOf(peer'[g].data[i])
    BY <1>15 DEF QueueInv, PeersAreNext
  <2>2. ASSUME NEW g \in Fds, NEW i \in DOMAIN peer'[g].data, NEW h \in DOMAIN buf'
        PROVE  Older(buf'[h], peer'[g].data[i])
    <3>1. CASE g = f
      <4>1. i \in Nat /\ i > 0
        BY <1>8, <1>10, <1>11, <3>1
      <4>2. h \in Nat /\ h <= k /\ k \in Nat
        BY <1>2, <1>6
      <4>3. h < i + k
        BY <4>1, <4>2
      <4> QED
        BY <1>6, <1>15, <3>1, <4>3 DEF QueueInv, Streams, Older
    <3>2. CASE g # f
      <4>1. buf'[h].connection = peer[f].connection /\ peer[f].state # "none"
        BY <1>6 DEF QueueInv, Streams
      <4>2. peer'[g].data[i].connection = peer[g].connection /\ peer[g].state # "none"
        BY <1>15, <3>2 DEF QueueInv, Streams
      <4> QED
        BY <3>2, <4>1, <4>2 DEF QueueInv, OneDescriptor, Older
    <3> QED
      BY <3>1, <3>2
  <2> QED
    BY <1>1, <2>1, <2>2, QueueStays DEF PeersAreNext, Older
<1>17. Streams'
  <2>1. ASSUME NEW g \in Fds, NEW i \in DOMAIN peer'[g].data, NEW h \in DOMAIN peer'[g].data, h < i
        PROVE  peer'[g].data[h].number < peer'[g].data[i].number
    <3>1. CASE g = f
      <4>1. i \in Nat /\ h \in Nat /\ k \in Nat
        BY <1>5, <1>2, <1>8, <1>10, <1>11, <3>1
      <4>2. h + k < i + k
        BY <2>1, <4>1
      <4> QED
        BY <1>15, <3>1, <4>2 DEF QueueInv, Streams
    <3>2. CASE g # f
      BY <1>15, <2>1, <3>2 DEF QueueInv, Streams
    <3> QED
      BY <3>1, <3>2
  <2>2. \A g \in Fds : peer'[g].state = peer[g].state /\ peer'[g].connection = peer[g].connection
    BY <1>10, <1>11
  <2> QED
    BY <1>15, <2>1, <2>2 DEF QueueInv, Streams
<1>18. OneDescriptor'
  BY <1>1, <1>10, <1>11 DEF QueueInv, OneDescriptor
<1>19. NumbersSent'
  <2>1. \A i \in DOMAIN buf' : buf'[i].number <= sent
    BY <1>6 DEF QueueInv, NumbersSent
  <2>2. \A g \in Fds : \A i \in DOMAIN peer'[g].data : peer'[g].data[i].number <= sent
    BY <1>15 DEF QueueInv, NumbersSent
  <2> QED
    BY <1>1, <2>1, <2>2 DEF QueueInv, NumbersSent
<1> QED
  BY <1>1, <1>12, <1>13, <1>14, <1>16, <1>17, <1>18, <1>19, QueueStays DEF QueueInv

(* list_node_add: what recv gave becomes the last node of the list, or is  *)
(* lost, or the daemon dies.                                               *)
LEMMA AddStep ==
  ASSUME QueueInv, ListNodeAdd PROVE QueueInv'
<1>1. /\ UNCHANGED <<node, handled, toStart, connections, sent, peer, buf>>
      /\ at.socket = "add" /\ \E to \in {"set", "dead"} : at' = [at EXCEPT !["socket"] = to]
  BY DEF ListNodeAdd, Go, main, sockets, parser, network, Dies
<1>2. TypeOK /\ daemon' \in {"runs", "ended", "died"}
  BY DEF QueueInv, TypeOK, ListNodeAdd, main, Dies
<1>3. at' \in Places /\ at'.socket # "add" /\ at'.parser = at.parser /\ at'.socket # "none"
  BY <1>1, <1>2 DEF TypeOK, Places
<1>4. Started'
  BY <1>1, <1>3 DEF QueueInv, Started
<1>5. CASE UNCHANGED <<members, added>>
  <2>1. TypeOK'
    BY <1>1, <1>2, <1>3, <1>5 DEF TypeOK
  <2>2. LastTaken'
    BY <1>1, <1>3, <1>5 DEF QueueInv, LastTaken, Gone, Done
  <2> QED
    BY <1>1, <1>3, <1>4, <1>5, <2>1, <2>2, PeersStay, QuietStep DEF QueueInv
<1>6. CASE ~UNCHANGED <<members, added>>
  <2>1. PICK n : n = [number |-> added + 1, data |-> buf]
    OBVIOUS
  <2>2. n \in Node /\ n.number = added + 1 /\ n.data = buf
    BY <1>1, <1>2, <2>1 DEF QueueInv, Started, TypeOK, Node
  <2>3. added' = added + 1 /\ members' = Append(members, n)
    BY <1>6, <2>1 DEF ListNodeAdd, Insert
  <2>4. TypeOK'
    BY <1>1, <1>2, <1>3, <2>2, <2>3 DEF TypeOK
  <2>5. members \in Seq(Node) /\ Len(members) \in Nat /\ Len(members') = Len(members) + 1 /\ added \in Nat
    BY <1>2, <2>2, <2>3 DEF TypeOK
  <2>6. \A k \in DOMAIN members' : \/ k \in DOMAIN members /\ members'[k] = members[k]
                                   \/ k = Len(members) + 1 /\ members'[k] = n
    BY <2>2, <2>3, <2>5
  <2>7. Gone' = Gone
    BY <2>3, <2>5 DEF Gone
  <2>8. LastTaken' /\ OneOfTwo'
    BY <1>1, <1>3, <2>7 DEF QueueInv, LastTaken, OneOfTwo, Done
  <2>9. Consecutive'
    <3>1. added + 1 = Gone + (Len(members) + 1) /\ Len(members') <= added'
      BY <2>3, <2>5 DEF Gone, QueueInv, Consecutive
    <3> QED
      BY <1>1, <2>2, <2>6, <2>7, <3>1 DEF QueueInv, Consecutive
  <2>10. HandledInOrder' /\ NodeIsNext'
    BY <1>1 DEF QueueInv, HandledInOrder, NodeIsNext, Older
  <2>11. \A i \in DOMAIN buf : AheadOf(buf[i])
    BY <1>1 DEF QueueInv, BufferIsNext
  <2>12. ListIsNext'
    BY <1>1, <2>2, <2>6, <2>11 DEF QueueInv, ListIsNext, AheadOf, AllOlder, Older
  <2>13. ListInOrder'
    <3>1. ASSUME NEW j \in DOMAIN members', NEW k \in DOMAIN members', j < k,
                 NEW i \in DOMAIN members'[k].data, NEW h \in DOMAIN members'[j].data
          PROVE  Older(members'[j].data[h], members'[k].data[i])
      <4>1. j \in DOMAIN members
        BY <2>5, <2>6, <3>1
      <4> QED
        BY <2>2, <2>5, <2>6, <2>11, <3>1, <4>1 DEF QueueInv, ListInOrder, AheadOf, AllOlder
    <3> QED
      BY <3>1 DEF ListInOrder, Older
  <2>14. PeersAreNext' /\ BufferIsNext'
    <3>1. ASSUME NEW f \in Fds, NEW i \in DOMAIN peer[f].data PROVE AheadOf(peer[f].data[i])'
      <4>1. AheadOf(peer[f].data[i]) /\ \A h \in DOMAIN buf : Older(buf[h], peer[f].data[i])
        BY <1>1 DEF QueueInv, PeersAreNext
      <4> QED
        BY <1>1, <2>2, <2>6, <4>1 DEF AheadOf, AllOlder, Older
    <3> QED
      BY <1>1, <1>3, <3>1 DEF PeersAreNext, BufferIsNext
  <2>15. Streams' /\ OneDescriptor'
    BY <1>1, PeersStay DEF QueueInv
  <2>16. NumbersSent'
    BY <1>1, <1>3, <2>2, <2>6 DEF QueueInv, NumbersSent
  <2> QED
    BY <1>4, <2>4, <2>8, <2>9, <2>10, <2>12, <2>13, <2>14, <2>15, <2>16 DEF QueueInv
<1> QED
  BY <1>5, <1>6

(* list_node_get: the first node leaves the list.  The rest is in order,   *)
(* after it.                                                               *)
LEMMA TakeHead ==
  ASSUME QueueInv, members # <<>>, members' = Tail(members), UNCHANGED added
  PROVE  /\ members' \in Seq(Node) /\ Head(members) = members[1] /\ 1 \in DOMAIN members
         /\ \A k \in DOMAIN members' : /\ k + 1 \in DOMAIN members /\ members'[k] = members[k + 1]
                                       /\ k \in Nat /\ 1 < k + 1
         /\ Gone \in Nat /\ Gone' = Gone + 1 /\ members[1].number = Gone + 1
         /\ Len(members') <= added
<1>1. members \in Seq(Node) /\ added \in Nat /\ Len(members) <= added
  BY DEF QueueInv, TypeOK, Consecutive
<1>2. members' \in Seq(Node) /\ Head(members) = members[1] /\ 1 \in DOMAIN members
  BY <1>1
<1>3. \A k \in DOMAIN members' : /\ k + 1 \in DOMAIN members /\ members'[k] = members[k + 1]
                                 /\ k \in Nat /\ 1 < k + 1
  BY <1>1
<1>4. Len(members') = Len(members) - 1 /\ Len(members) \in Nat /\ Len(members) > 0
  BY <1>1
<1>5. Gone \in Nat /\ Gone' = Gone + 1 /\ Len(members') <= added
  BY <1>1, <1>4 DEF Gone
<1>6. members[1].number = Gone + 1
  BY <1>2 DEF QueueInv, Consecutive
<1> QED
  BY <1>2, <1>3, <1>5, <1>6

(* What a step of the parser that moves it leaves alone.                   *)
LEMMA ParserMoves ==
  ASSUME QueueInv, UNCHANGED <<sent, added, peer, connections, buf, toStart>>,
         at.parser # "none", NEW to \in {"first", "second", "core", "dead"},
         at' = [at EXCEPT !["parser"] = to]
  PROVE  /\ Streams' /\ OneDescriptor'
         /\ at' \in Places /\ at'.socket = at.socket /\ at'.parser = to
<1>1. Streams' /\ OneDescriptor'
  BY PeersStay DEF QueueInv
<1>2. at' \in Places /\ at'.socket = at.socket /\ at'.parser = to
  BY DEF QueueInv, TypeOK, Places
<1> QED
  BY <1>1, <1>2

(* The parser takes the first node, which it will overwrite; or there is   *)
(* none, and it goes to clear the flag.                                    *)
LEMMA GetFirstStep ==
  ASSUME QueueInv, GetFirst PROVE QueueInv'
<1>1. /\ UNCHANGED <<sent, added, peer, connections, buf, toStart, daemon, node, handled>>
      /\ at.parser = "first"
  BY DEF GetFirst, Go, main, sockets, parser, network
<1>2. TypeOK /\ node = <<>>
  BY <1>1 DEF QueueInv, Started
<1>3. CASE members = <<>>
  <2>1. members' = members /\ at' = [at EXCEPT !["parser"] = "clear"]
    BY <1>3 DEF GetFirst, Go
  <2>2. at' \in Places /\ at'.socket = at.socket /\ at'.parser = "clear"
    BY <1>2, <2>1 DEF TypeOK, Places
  <2>3. TypeOK'
    BY <1>1, <1>2, <2>1, <2>2 DEF TypeOK
  <2>4. Started' /\ LastTaken'
    BY <1>1, <1>2, <2>1, <2>2 DEF QueueInv, Started, LastTaken, Gone, Done
  <2> QED
    BY <1>1, <2>1, <2>2, <2>3, <2>4, PeersStay, QuietStep DEF QueueInv
<1>4. CASE members # <<>>
  <2>1. members' = Tail(members) /\ at' = [at EXCEPT !["parser"] = "second"]
    BY <1>4 DEF GetFirst, Go
  <2>2. Streams' /\ OneDescriptor' /\ at' \in Places /\ at'.socket = at.socket /\ at'.parser = "second"
    BY <1>1, <2>1, ParserMoves
  <2>3. TypeOK'
    BY <1>1, <1>2, <1>4, <2>1, <2>2, TakeHead DEF TypeOK
  <2>4. Started'
    BY <1>1, <1>2, <2>2 DEF QueueInv, Started
  <2>5. LastTaken'
    <3>1. Gone = 0 \/ \E k \in DOMAIN handled' : handled'[k].number = Gone
      BY <1>1 DEF QueueInv, LastTaken, Done
    <3>2. Gone' = Gone + 1 /\ Gone \in Nat /\ Gone' - 1 = Gone
      BY <1>1, <1>4, <2>1, TakeHead
    <3> QED
      BY <2>2, <3>1, <3>2 DEF LastTaken, Done
  <2>6. OneOfTwo'
    <3>1. ASSUME NEW n \in 1 .. Gone' - 1 PROVE Done(n)' \/ Done(n + 1)'
      <4>1. n \in 1 .. Gone /\ Gone \in Nat
        BY <1>1, <1>4, <2>1, TakeHead
      <4>2. CASE n = Gone
        BY <1>1, <4>1, <4>2 DEF QueueInv, LastTaken, Done
      <4>3. CASE n # Gone
        <5>1. n \in 1 .. Gone - 1
          BY <4>1, <4>3
        <5> QED
          BY <1>1, <1>2, <5>1 DEF QueueInv, OneOfTwo, Done
      <4> QED
        BY <4>2, <4>3
    <3> QED
      BY <3>1 DEF OneOfTwo, Done
  <2>7. Consecutive'
    <3>1. \A k \in DOMAIN members' : Gone + (k + 1) = Gone' + k
      BY <1>1, <1>4, <2>1, TakeHead
    <3> QED
      BY <1>1, <1>2, <1>4, <2>1, <3>1, TakeHead DEF QueueInv, Consecutive
  <2>8. HandledInOrder' /\ NodeIsNext'
    BY <1>1 DEF QueueInv, HandledInOrder, NodeIsNext, Older
  <2>9. ListIsNext'
    BY <1>1, <1>4, <2>1, TakeHead DEF QueueInv, ListIsNext, AllOlder, Older
  <2>10. ListInOrder'
    <3>1. \A j, k \in DOMAIN members' : j < k => j + 1 < k + 1
      BY <1>1, <1>4, <2>1, TakeHead
    <3> QED
      BY <1>1, <1>4, <2>1, <3>1, TakeHead DEF QueueInv, ListInOrder, Older
  <2>11. \A s : AheadOf(s) => AheadOf(s)'
    BY <1>1, <1>4, <2>1, TakeHead DEF AheadOf, AllOlder, Older
  <2>12. BufferIsNext' /\ PeersAreNext'
    BY <1>1, <2>2, <2>11 DEF QueueInv, BufferIsNext, PeersAreNext, Older
  <2>13. NumbersSent'
    BY <1>1, <1>4, <2>1, <2>2, TakeHead DEF QueueInv, NumbersSent
  <2> QED
    BY <2>2, <2>3, <2>4, <2>5, <2>6, <2>7, <2>8, <2>9, <2>10, <2>12, <2>13 DEF QueueInv
<1> QED
  BY <1>3, <1>4

(* The second node is the one the parser works on; without one the daemon  *)
(* dies.                                                                   *)
LEMMA GetSecondStep ==
  ASSUME QueueInv, GetSecond PROVE QueueInv'
<1>1. UNCHANGED <<sent, added, peer, connections, buf, toStart, handled>> /\ at.parser = "second"
  BY DEF GetSecond, Go, main, sockets, network, Dies
<1>2. TypeOK /\ node = <<>> /\ daemon' \in {"runs", "ended", "died"}
  BY <1>1 DEF QueueInv, Started, GetSecond, TypeOK, main, Dies
<1>3. CASE members = <<>>
  <2>1. members' = members /\ node' = node /\ at' = [at EXCEPT !["parser"] = "dead"]
    BY <1>3 DEF GetSecond, Go
  <2>2. at' \in Places /\ at'.socket = at.socket /\ at'.parser = "dead"
    BY <1>1, <2>1, ParserMoves
  <2>3. TypeOK'
    BY <1>1, <1>2, <2>1, <2>2 DEF TypeOK
  <2>4. Started' /\ LastTaken'
    BY <1>1, <1>2, <2>1, <2>2 DEF QueueInv, Started, LastTaken
  <2> QED
    BY <1>1, <2>1, <2>2, <2>3, <2>4, PeersStay, QuietStep DEF QueueInv
<1>4. CASE members # <<>>
  <2>1. /\ members' = Tail(members) /\ at' = [at EXCEPT !["parser"] = "core"]
        /\ node' = <<members[1]>>
    BY <1>1, <1>4, TakeHead DEF GetSecond, Go
  <2>2. Streams' /\ OneDescriptor' /\ at' \in Places /\ at'.socket = at.socket /\ at'.parser = "core"
    BY <1>1, <2>1, ParserMoves
  <2>3. /\ node' \in Seq(Node) /\ Len(node') <= 1 /\ node' # <<>>
        /\ \A k \in DOMAIN node' : node'[k] = members[1]
    BY <1>1, <1>2, <1>4, <2>1, TakeHead, Elements
  <2>4. TypeOK'
    BY <1>1, <1>2, <1>4, <2>1, <2>2, <2>3, TakeHead DEF TypeOK
  <2>5. Started' /\ LastTaken'
    BY <1>1, <1>2, <2>2, <2>3 DEF QueueInv, Started, LastTaken
  <2>6. OneOfTwo'
    <3>1. ASSUME NEW n \in 1 .. Gone' - 1, n + 1 # Gone' PROVE Done(n)' \/ Done(n + 1)'
      <4>1. n \in 1 .. Gone - 1
        BY <1>1, <1>4, <2>1, <3>1, TakeHead
      <4> QED
        BY <1>1, <1>2, <4>1 DEF QueueInv, OneOfTwo, Done
    <3> QED
      BY <2>3, <3>1 DEF OneOfTwo, Done
  <2>7. Consecutive'
    <3>1. \A k \in DOMAIN members' : Gone + (k + 1) = Gone' + k
      BY <1>1, <1>4, <2>1, TakeHead
    <3> QED
      BY <1>1, <1>2, <1>4, <2>1, <2>3, <3>1, TakeHead DEF QueueInv, Consecutive
  <2>8. HandledInOrder'
    BY <1>1 DEF QueueInv, HandledInOrder, Older
  <2>9. NodeIsNext'
    BY <1>1, <1>4, <2>1, <2>3, TakeHead DEF QueueInv, ListIsNext, NodeIsNext, Older
  <2>10. ListIsNext'
    <3>1. ASSUME NEW k \in DOMAIN members', NEW i \in DOMAIN members'[k].data
          PROVE  \A h \in DOMAIN handled : Older(handled[h].request, members'[k].data[i])
      BY <1>1, <1>4, <2>1, TakeHead DEF QueueInv, ListIsNext
    <3>2. ASSUME NEW k \in DOMAIN members', NEW i \in DOMAIN members'[k].data,
                 NEW h \in DOMAIN members[1].data
          PROVE  Older(members[1].data[h], members'[k].data[i])
      BY <1>1, <1>4, <2>1, TakeHead DEF QueueInv, ListInOrder
    <3> QED
      BY <1>1, <2>3, <3>1, <3>2 DEF ListIsNext, AllOlder, Older
  <2>11. ListInOrder'
    <3>1. \A j, k \in DOMAIN members' : j < k => j + 1 < k + 1
      BY <1>1, <1>4, <2>1, TakeHead
    <3> QED
      BY <1>1, <1>4, <2>1, <3>1, TakeHead DEF QueueInv, ListInOrder, Older
  <2>12. \A s : AheadOf(s) => AheadOf(s)'
    BY <1>1, <1>4, <2>1, <2>3, TakeHead DEF AheadOf, AllOlder, Older
  <2>13. BufferIsNext' /\ PeersAreNext'
    BY <1>1, <2>2, <2>12 DEF QueueInv, BufferIsNext, PeersAreNext, Older
  <2>14. NumbersSent'
    BY <1>1, <1>4, <2>1, <2>2, <2>3, TakeHead DEF QueueInv, NumbersSent
  <2> QED
    BY <2>2, <2>4, <2>5, <2>6, <2>7, <2>8, <2>9, <2>10, <2>11, <2>13, <2>14 DEF QueueInv
<1> QED
  BY <1>3, <1>4

(* parser_core: the first request of the node is worked on, after all that *)
(* were before it and before all that come after the node.                 *)
LEMMA CoreStep ==
  ASSUME QueueInv, ParserCore PROVE QueueInv'
<1>1. /\ UNCHANGED <<sent, added, peer, connections, buf, toStart, daemon, members>>
      /\ at.parser = "core" /\ at' = [at EXCEPT !["parser"] = "first"] /\ node' = <<>>
  BY DEF ParserCore, Go, main, sockets, network, queue
<1>2. TypeOK /\ node # <<>>
  BY <1>1 DEF QueueInv, Started
<1>3. /\ 1 \in DOMAIN node /\ node[1] \in Node
      /\ \A k \in DOMAIN node : k = 1
  BY <1>2, Elements DEF TypeOK
<1>4. /\ node[1].data \in Seq(Request) /\ node[1].number \in Nat
      /\ 1 \in DOMAIN node[1].data /\ Head(node[1].data) = node[1].data[1]
  <2>1. node[1].data \in Seq(Request) /\ node[1].data # <<>> /\ node[1].number \in Nat
    BY <1>3 DEF Node
  <2> QED
    BY <2>1
<1>5. PICK r : r = [number |-> node[1].number, request |-> node[1].data[1]]
  OBVIOUS
<1>6. r \in Result /\ r.number = node[1].number /\ r.request = node[1].data[1]
  BY <1>2, <1>3, <1>4, <1>5, Elements DEF Result
<1>7. handled' = Append(handled, r) /\ handled \in Seq(Result)
  BY <1>2, <1>4, <1>5 DEF ParserCore, TypeOK
<1>8. /\ handled' \in Seq(Result)
      /\ \A k \in DOMAIN handled' : \/ k \in DOMAIN handled /\ handled'[k] = handled[k]
                                    \/ k = Len(handled) + 1 /\ handled'[k] = r
      /\ \A k \in DOMAIN handled : k \in DOMAIN handled' /\ handled'[k] = handled[k]
      /\ Len(handled) + 1 \in DOMAIN handled' /\ handled'[Len(handled) + 1] = r
  BY <1>6, <1>7
<1>9. Streams' /\ OneDescriptor' /\ at' \in Places /\ at'.socket = at.socket /\ at'.parser = "first"
  BY <1>1, ParserMoves
<1>10. TypeOK'
  BY <1>1, <1>2, <1>8, <1>9 DEF TypeOK
<1>11. Started'
  BY <1>1, <1>9 DEF QueueInv, Started
<1>12. Gone' = Gone /\ r.number = Gone
  BY <1>1, <1>3, <1>6 DEF Gone, QueueInv, Consecutive
<1>13. /\ \A n : Done(n) => Done(n)'
       /\ \E k \in DOMAIN handled' : handled'[k].number = Gone
  BY <1>8, <1>12 DEF Done
<1>14. LastTaken'
  BY <1>9, <1>12, <1>13 DEF LastTaken, Done
<1>15. OneOfTwo'
  BY <1>12, <1>13 DEF QueueInv, OneOfTwo, Done
<1>16. Consecutive'
  BY <1>1, <1>12 DEF QueueInv, Consecutive
<1>17. HandledInOrder'
  <2>1. \A k \in DOMAIN handled : k < Len(handled) + 1 /\ ~(Len(handled) + 1 < k)
    BY <1>7
  <2>2. ~(Len(handled) + 1 < Len(handled) + 1)
    BY <1>7
  <2>3. \A k \in DOMAIN handled : Older(handled[k].request, r.request)
    BY <1>3, <1>4, <1>6 DEF QueueInv, NodeIsNext
  <2> QED
    BY <1>8, <2>1, <2>2, <2>3 DEF QueueInv, HandledInOrder, Older
<1>18. NodeIsNext'
  BY <1>1 DEF NodeIsNext
<1>19. \A s : AllOlder(node, s) => Older(r.request, s)
  BY <1>3, <1>4, <1>6 DEF AllOlder
<1>20. \A s : /\ AllOlder(node, s)
              /\ \A k \in DOMAIN handled : Older(handled[k].request, s)
              => \A k \in DOMAIN handled' : Older(handled'[k].request, s)
  BY <1>8, <1>19
<1>21. ListIsNext'
  <2>1. \A k \in DOMAIN members : \A i \in DOMAIN members[k].data :
            \A h \in DOMAIN handled' : Older(handled'[h].request, members[k].data[i])
    BY <1>20 DEF QueueInv, ListIsNext
  <2> QED
    BY <1>1, <2>1 DEF ListIsNext, AllOlder, Older
<1>22. ListInOrder'
  BY <1>1 DEF QueueInv, ListInOrder, Older
<1>23. \A s : AheadOf(s) => AheadOf(s)'
  <2>1. \A s : AheadOf(s) => \A k \in DOMAIN handled' : Older(handled'[k].request, s)
    BY <1>20 DEF AheadOf
  <2>2. \A s : AheadOf(s) => AllOlder(members, s)
    BY DEF AheadOf
  <2> QED
    BY <1>1, <2>1, <2>2 DEF AheadOf, AllOlder, Older
<1>24. BufferIsNext' /\ PeersAreNext'
  BY <1>1, <1>9, <1>23 DEF QueueInv, BufferIsNext, PeersAreNext, Older
<1>25. NumbersSent'
  BY <1>1, <1>3, <1>4, <1>6, <1>8, <1>9 DEF QueueInv, NumbersSent
<1> QED
  BY <1>9, <1>10, <1>11, <1>14, <1>15, <1>16, <1>17, <1>18, <1>21, <1>22, <1>24, <1>25 DEF QueueInv

-----------------------------------------------------------------------------
(* Every step of the daemon and of its peers keeps the invariant.          *)
LEMMA QueueStep == QueueInv /\ [Next]_vars => QueueInv'
<1> SUFFICES ASSUME QueueInv, [Next]_vars PROVE QueueInv'
  OBVIOUS
<1>1. CASE ThreadStart
  BY <1>1, ThreadStartStep
<1>2. CASE ThreadWait \/ WebThreadEnds \/ FlagClr
  BY <1>2, WaitStep
<1>3. CASE SocketThread
  BY <1>3, WaitStep, AcceptStep, ReceiveStep, EndStep, AddStep DEF SocketThread, Scan
<1>4. CASE GetFirst \/ GetSecond \/ ParserCore
  BY <1>4, GetFirstStep, GetSecondStep, CoreStep
<1>5. CASE Peers
  BY <1>5, SendStep, EndStep DEF Peers
<1>6. CASE UNCHANGED vars
  <2>1. /\ UNCHANGED <<members, node, handled, added, sent, buf, toStart, daemon, connections, at, peer>>
    BY <1>6 DEF vars, main, sockets, queue, parser, network
  <2>2. TypeOK' /\ Started' /\ LastTaken'
    BY <2>1 DEF QueueInv, TypeOK, Started, LastTaken, Gone, Done
  <2> QED
    BY <2>1, <2>2, PeersStay, QuietStep DEF QueueInv
<1> QED
  BY <1>1, <1>2, <1>3, <1>4, <1>5, <1>6 DEF Next, ParserThread

(* The invariant holds in every state, for any number of descriptors,      *)
(* messages and connections.                                               *)
THEOREM QueueInvariant == Spec => []QueueInv
<1> QED
  BY InitQueue, QueueStep, PTL DEF Spec

(* The requests of a connection are worked on in the order in which they   *)
(* were sent, and none twice, although recv joins what was sent apart, the *)
(* parser drops nodes, and descriptors are used again.                     *)
THEOREM InOrder == Spec => []HandledInOrder
<1>1. QueueInv => HandledInOrder
  BY DEF QueueInv
<1> QED
  BY <1>1, QueueInvariant, PTL

(* What the invariant says of the nodes that were lost.                    *)
LEMMA LostAreGone ==
  ASSUME QueueInv, NEW n \in LostNodes
  PROVE  n \in 1 .. Gone /\ ~Done(n) /\ \A k \in DOMAIN node : node[k].number # n
<1>1. n \in 1 .. added /\ ~Done(n) /\ (\A k \in DOMAIN node : node[k].number # n)
      /\ \A k \in DOMAIN members : members[k].number # n
  BY DEF LostNodes, Taken, Done
<1>2. members \in Seq(Node) /\ added \in Nat /\ Len(members) \in Nat /\ Len(members) <= added
  BY DEF QueueInv, TypeOK, Consecutive
<1>3. CASE n > Gone
  <2>1. n - Gone \in DOMAIN members /\ Gone + (n - Gone) = n
    BY <1>1, <1>2, <1>3 DEF Gone
  <2> QED
    BY <1>1, <2>1 DEF QueueInv, Consecutive
<1>4. CASE ~(n > Gone)
  BY <1>1, <1>2, <1>4 DEF Gone
<1> QED
  BY <1>3, <1>4

(* The parser may lose a node, the one it takes first, but the next one it *)
(* works on: of two nodes in a row at most one is lost.                    *)
THEOREM NotTwoInARow == Spec => []NoTwoLostInARow
<1>1. QueueInv => NoTwoLostInARow
  <2> SUFFICES ASSUME QueueInv, NEW n \in LostNodes, n + 1 \in LostNodes PROVE FALSE
    BY DEF NoTwoLostInARow
  <2>1. /\ n \in 1 .. Gone /\ ~Done(n)
        /\ n + 1 \in 1 .. Gone /\ ~Done(n + 1) /\ \A k \in DOMAIN node : node[k].number # n + 1
    BY LostAreGone
  <2>2. n \in 1 .. Gone - 1
    <3>1. Gone \in Int
      BY DEF Gone, QueueInv, TypeOK
    <3> QED
      BY <2>1, <3>1
  <2>3. n + 1 = Gone /\ node # <<>>
    BY <2>1, <2>2 DEF QueueInv, OneOfTwo
  <2>4. 1 \in DOMAIN node /\ node[1].number = Gone
    BY <2>3 DEF QueueInv, TypeOK, Consecutive
  <2> QED
    BY <2>1, <2>3, <2>4
<1> QED
  BY <1>1, QueueInvariant, PTL
=============================================================================
