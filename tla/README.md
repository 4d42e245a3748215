# TLA+ models of multithreading4H264

The repository holds a producer/consumer program in C that streams an H.264
file, and beside it, under `src/other/ipc`, the sources of an IP-camera daemon.
This directory models their concurrency: TLC checks the models on small
instances, TLAPS proves the central results for every size. `extBB.c` below is
`src/src/extBB.c`, `shm.c` and the other daemon files are in
`src/other/ipc/src`. `PROJECT.json` gives the source lines of every definition.

## 1. The system

### The streaming program `pc` (extBB.c, recv.c, misc.c, list.h)

`main` forks `./recv_process` (recv.c), listens on port 2020, accepts its one
connection, and starts two threads. `producer_list` cuts BB.bin into frames at
their markers; each frame is sent over the socket, kept in a linked list and
queued in a ring of 20 slots. `consumer_list` writes queued frames to BB.h264.
A key press ends `getchar()`; `main` then forks `ffmpeg` on the file, waits for
a child, prints the list and returns. The Makefile builds without
optimisation, with `LINUX_LIST` and one consumer thread.

| part | state | operations | talks to |
| --- | --- | --- | --- |
| producer | position in the file, `put`, its copy of `count` | read a frame, wait `s_empty`, send, list, store, `count++`, post `s_full`, set `fin` | ring, list, socket |
| consumers | `get`, `m` | test `fin` and `count`, wait `s_full`, lock, write, advance, `count--`, unlock, post `s_empty` | ring, file |
| list | `next`/`prev`, the fields of the nodes, the global `tmp_list` | `list_add_tail`, `list_for_each`, `print_list` | producer, main |
| processes | stdio buffers, file, connection, port, children | fork, exec, listen, connect, read, reset, signals, `waitpid`, exit | each other |
| v0 (`oneprodcons.c`) | `put`, `get`, `fin`, `m` | spin while full or empty, store, free, write | - |

What must be right: every frame once and in order in each sink; no slot
overwritten or leaked; no endless waiting; the end of the file noticed; the
file whole although its stdio buffer is forked; the stream whole although
`main` returns under the threads; `print_list` printing the list that is
being built. What makes it hard: `count` is updated under no common lock,
`fin` and `tmp_list` are shared and unprotected, errors of `bind`, `send` and
`execv` are not looked at, and children, signals and resets come in any order.

### The IP-camera daemon (src/other/ipc)

Threads for the sockets, the parser, the web pages and video share `g_config`,
a flag with a condition variable and a thread table. It is a fragment:
generated headers and several called functions are not in the repository, and
some files do not compile as committed (`vs_thread.c:50`, `receiver.c:17`,
`rtv.c:744`). What such a line is meant to do is clear each time; the models
follow what the code around it does.

| part | state | operations | talks to |
| --- | --- | --- | --- |
| web pages (shm.c, config.c) | segment, two semaphores, `g_config`, config.txt, quit flag | wait, find the handler, handle, save, answer, tear down, start again | CGI processes (external) |
| messages (vs_socket.c, receiver.c, listsOperator.c, parser.c, sem.c, vs_thread.c, ipc_main.c) | watched descriptors, receive buffer, list `members`, flag, thread table | create and join threads, select, accept, receive, add a node, take nodes | peers; request routines |
| request routines (protocol.c, sm_routine.c) | request in hand, `g_config`, config.txt, settings of both sides, `syn_ctrl_rtv` | look up, validate, read or set, save, signal, answer | web pages, over `g_config` and the file; logger |
| XML (vs_xml_parser_new.c, vs_xml.c) | one node per structure met, descriptions, cells | start and end of a tag, text, write a structure | request routines |
| logger (logger.c) | two files, `log_file_select` | measure, choose, delete, open, append; send both | every thread; `log_get` |
| camera (rtv.c) | palette, size, driver's buffers, output frames | choose palette and size, give buffers, grab, convert | the driver |
| access server (vs_socket.c) | `g_vs_sock`, receiving thread | connect, register, receive, join, try again | the server |
| lists (list.h, lists.h) | pointers of heads and nodes | every function and macro | everything above |

What must be right: a request is handled once and answered to the CGI that
made it, through crashes and restarts; what was confirmed is in the file; the
requests of a connection are handled in order; a document is read as its
description says, and what is written is read back; an old picture does not
pass for a new one; log files stay small enough to be sent, oldest line first;
a lost connection comes back. What makes it hard: two threads write the same
file, the log has no lock, results are not looked at, the daemon dies or
restarts at any point, and the condition variable is never waited for.

## 2. Modules

| module | models | proofs |
| --- | --- | --- |
| `FrameDelivery` | abstract: three sinks, each frame once and in order, the file at most `Size` behind | |
| `FramePipeline` | producer and consumers of extBB.c, one step per access to shared state; implements `FrameDelivery` | `FramePipelineProofs` |
| `Processes` | `pc`, `recv_process`, `ffmpeg`, user, network and files, with the threads replaced by `FrameDelivery` | `ProcessesProofs` |
| `FrameList` | list.h pointers: `producer_list` against `print_list` | `ListAndRingProofs` |
| `BusyRing` | v0, busy waiting | `ListAndRingProofs` |
| `CgiChannel` | `thread_shm_main`, its handlers, CGIs, crashes and restarts | `CgiChannelProofs` |
| `MessageQueue` | threads of ipc_main.c; socket thread, list of messages, parser thread | `MessageQueueProofs` |
| `RequestHandlers` | `sm_handler` and every routine its table reaches, beside the web thread's saves and restores | `DaemonProofs` |
| `XmlStruct` | `xml2struct` and `struct2xml` with the descriptions of vs_xml.c, beside a reader with a stack | |
| `LogFiles` | `logger` in several threads, restarts, `routine_log_get_req` | `DaemonProofs` |
| `VideoCapture` | `rtv_init`, `videoGrab`, the driver | `DaemonProofs` |
| `AccessLink` | connecting, receiving and reconnecting to the access server | |
| `ListOperations` | abstract: a list is a sequence; what every operation and loop promises | |
| `Chains` | what one meets in following pointers from node to node | |
| `LinuxList` | list.h, pointer by pointer; implements `ListOperations` | `ListProofs` |
| `TgapList` | lists.h, pointer by pointer; implements `ListOperations` but for three kinds of calls | `TgapListProofs` |

Each `MC...` module gives one or more modules to TLC. `MCLists`,
`MCListAndRing`, `MCThreads` and `MCParts` put modules that share nothing
into one run: a behaviour exercises one of them (`part` says which; in
`MCLists` it is the first call that decides), so the state graph is the union,
not the product, of theirs. So that such a run checks the very definitions the
theorems are about, they extend `BusyRing`, `LogFiles`, `RequestHandlers` and
`VideoCapture`, whose initial states and steps are named apart (`RingInit`,
`LogNext`, `RoutineSpec`, `CameraSpec`). Composition: `Processes`
instantiates `FrameDelivery` for what the threads do to the sinks;
`FramePipeline` implements `FrameDelivery` (run `pipeline_two`, theorem
`PipelineImplementsDelivery`), so what `Processes` shows holds with the real
threads inside. The definitions named `X_Y` at the head of a module are
variants of `X` with a plausible mistake in them; no specification uses them.
They document what each property is sensitive to.

**FramePipeline.** A frame is its number; a step of the scan is one action
(`ReadFrame`), the end of the file is `EndOfFile` (sets `fin`) or `ShortRead`
(a file that ends inside a marker: the producer returns without setting
`fin`). `count++` and `count--` are a load and a store each. `ppc` and `cpc`
name the next statement. `send` and `malloc` succeed here.

**Processes.** The stdio buffer is a sequence of frames that `fork` copies and
`exec` and signals discard. It is flushed at exit and, in any portion, before.
Only `recv_process` connects, and Ctrl-C is pressed at most once. With `bind`
failing, `listen` picks an unknown port. `circle` says that the last node of
the list is linked behind itself, which `print_list` can make of a node that
the producer links at the same time (`FrameList` has the single steps);
`print_list` does not come to its end (`Exit`) while that is so.

**FrameList.** Memory never written to reads as `Junk`. Node k is the k-th
malloc. `tmp_list` is assigned and dereferenced in separate steps by both
threads; a line of `print_list` reads its two fields in either order, since C
does not order arguments. `raced` becomes true when one thread assigns
`tmp_list` between the other's assignment and use. What happens then stays in
the model: a node linked behind itself makes `next[1] = 1`, and the walk is
endless, so `printed` stops growing at `MaxFrames + 1`.

**BusyRing.** `list_is_full` and `list_is_empty` hold `m` for one comparison
and are one step each; `count` is only printed in v0 and is left out. Freed
memory may read as anything (`Garbage`). `too_early` is history: the frames
whose memory was freed before they were written. These only may come out as
garbage, in their place.

**CgiChannel.** The fields a page sets together are one parameter. A handler
is one step, except that the writing of config.txt is a step of its own
(`Save`), so that the daemon may die between the two. The choice of the
handler (`Match`) and its run (`Handle...`) are separate: another CGI may
write the segment in between. `mixed` and `lost` are history: `mixed`, a CGI
has not had the segment to itself; `lost`, a semaphore token is missing or
left over (a CGI killed while waiting, a crash within a request, a page
without a handler). A start of the daemon with nobody waiting, or a loss of
power, clears `lost`, as it sets the semaphores to zero. The table of handlers
has no terminating entry: an unknown page is either skipped without an answer
or kills the daemon. config.txt does not hold `week_plan` (comment at
shm.c:177).

**MessageQueue.** A message is its connection and number; `recv` gives one or
several that came together, of which `parser_core` sees the first only. A
thread may be missing (nobody looks at the result of its creation), `calloc`
may fail, and `list_node_add`, which copies through a pointer that calloc has
just set to null, either kills the daemon or, where the build gives a node room,
works. `thread_syn_wait` tests the pointer to the flag for null and never waits,
so the parser follows a null pointer when its second look finds no node.

**RequestHandlers.** One step per effect that another thread or a death of the
daemon can come between. `here` are the parameters in `g_config` and config.txt,
`there` those behind the `tgap_` functions. `accepted` is what a client has
been promised; `late` marks promises made after a restore, which throws them
away. A password inside the ranges of `passwd_check` stops the parser thread.
`rountin_common_res_data` may find no memory for an answer: then it sends
nothing, and no routine looks at its -1.

**XmlStruct.** A structure is a row of cells, a tag's value is its number, and
`reader` is a second reader, with a stack, that does what the descriptions
say. Sizes and offsets are counted in cells. The documents it is compared on
(`RegularStart`) have leaves, unknown tags and elements too many in the outermost
structure only: in a sub-structure there are sub-structures that have room.
After another tag there, `end_xml` (:642-650) does not leave the sub-structure;
that is not exercised. The structures written have any few of their units
filled, or all but a few; a unit is an element of an array, or the single
leaves of a structure. `RoundTrip` says exactly what comes back of them.

**LogFiles.** A line has length 1. `which` counts the files of a name, so that
a thread that has a deleted file open writes to no file that is left.
`overlap`, `mixed` and `late` are history; `SentInOrder` says under which of
them nothing is promised.

**VideoCapture.** A picture is the number of the capture. A buffer may be
refused at start and each time it is given back; `VIDIOCSYNC` waits for a
buffer the driver has and fails for one it has not.

**AccessLink.** Descriptors are used up: no socket is closed. A join of thread
0 and a send on a dead connection may kill the daemon.

**LinuxList, TgapList.** Every function is an operator on memories (the `next`
and `prev` of heads and nodes, or `first`, `last` and `link`), its stores in the
order of the code. The list behind a pointer is the path that `Chain` finds by
index: each node is where the pointer of the one before leads, and the last
pointer leads to no node. These sequences and the rest of a loop's way are the
refinement mapping to `ListOperations` (`Lists`, `AbsWalk`), whose steps are
those that the comments of the headers promise. `call` names the call under
way, so that a step of the pointers implements the promise of its own call and
not of some other. A `stale` head still points into nodes that a splice or a
replacement took away; nothing is promised of it until it is initialised or
written again. Calls the headers forbid (adding an entry twice, deleting one
ahead of an unprotected loop) are not made.

## 3. Runs

| run | instance | what it shows |
| --- | --- | --- |
| `pipeline_two` | ring of 2, two consumers, up to 4 frames | slots are conserved, output is in order and without gaps, nothing unwritten is overwritten, at most a ring of frames is lost at the end, the pipeline implements `FrameDelivery`; a consumer with a frame returns its slot, and after a clean end leaves or waits |
| `pipeline_built` | ring of 3, one consumer, up to 6 frames | the pipeline gets stuck only after an update of `count` was lost |
| `endless_wait` (violation) | ring of 2, one consumer, 3 frames | it does get stuck: see findings |
| `processes` | 3 frames, `Size` 2 | file and stream are whole after a regular end, whatever fails or overlaps; `pc` dies only after Ctrl-C; a key ends the program, unless the list becomes a circle under `print_list` |
| `list_and_ring` | list: 3 frames; ring of 3, up to 6 frames | the walk never follows an unset pointer; unless raced the list is intact at every store and is printed whole. v0: every frame in its place, with its data unless freed too early; no overwriting; it ends unless it has caught up |
| `print_race` (violation) | 3 frames | see findings |
| `cgi` | two CGIs, 3 requests of 6 kinds, 1 crash or power loss | tokens are accounted for, a CGI with the segment to itself gets its own answer and finds alarm settings saved, and nobody waits for ever unless a token was lost |
| `week_plan` (violation) | every request once, one restart | see findings |
| `lists` | two lists, three nodes, any calls | list.h does what sequences do, forwards and backwards; lists.h too, but for the calls named below |
| `threads` | messages: 3, 2 descriptors, 2 connections; log: 2 threads, 5 lines, files of 2, 1 restart | order per connection; of two nodes in a row at most one is lost; log files stay within what `log_get` can send, and are sent in order |
| `parts` | XML: 6 tags, arrays of 2, structures with up to 3 units filled or 3 empty; requests: 3, 2 values, 2 deaths; camera: 2 buffers, 2 output frames, 3 pictures, 3 sizes; link: 4 descriptors | regular documents are read as described, and a structure comes back field by field, but under the names it is written with; what was accepted is saved, what was refused changed nothing, each request is answered once unless its answer has no head or no memory; an old picture never passes for a new one; the link comes back |
| `round_trip` (violation) | the test's structure, same bounds | see findings |

**Why the bounds are enough.** A ring of 2 (or 3) fills, empties and wraps
with 4 (or 6) frames; two consumers are the fewest that contend for `m` and
pass the test of `count` for the same frame; the list needs three nodes to
have a head, a middle and a tail; a `Size` of 2 with three frames lets a sink
lag by all a ring allows. In `cgi` a token left over by a killed CGI needs a
second request to be taken and a third to be answered wrongly, and a crash
or power loss may come anywhere among them. Three list nodes and a second list
give every position of an entry, and splicing of and into an empty, a single
and a longer list. Three messages over two connections need both descriptors
and the reuse of one; six tags nest the deepest description twice and return
to the first sibling; three units of a structure fill an array of two and
something beside it, or leave gaps in several arrays; two values distinguish a
repeated from a changed setting;
five lines fill both log files and begin the first anew while a second thread
is inside; three pictures bring two buffers round once, failing or not; four
descriptors allow three failures before the link may stand. The proofs have no bounds.
Deadlock is not checked where the threads or processes really end (the
configurations say so); in `cgi` it is, with a self-loop for requests used up.

**Fairness.** Weak fairness of each thread or process: the kernel schedules
them, and the unoptimised build really loads `fin`, `count` and `tmp_list`
every time round a loop. Only `semop` in `cgi` gets strong fairness: the kernel
serves System V waiters first come, first served. Nothing makes the producer
of v0 read on, the user ask for the listing or Ctrl-C come.
In `parts` the two threads of the link are scheduled; nothing is asked of the
server, and `Reconnects` speaks of servers that stay up.
In `cgi` whatever starts the daemon does so again; it is not in the
repository, `shm.c:631` relies on it.

## 4. Proofs

Every safety invariant, action property and refinement that a passing run
checks is a theorem for all values of the constants, except the two of
`XmlStruct` (below). All theorems are about the specifications without
fairness. The proof modules about
`FramePipeline`, `FrameList`, `CgiChannel`, `Processes` and `MessageQueue`
assume only the named `ASSUME`s of these modules: a ring of at least one slot, a
finite non-empty set of consumers or CGIs, natural-number bounds, distinct
model values. So do those about the lists: finitely many nodes, heads and nodes
distinct, and `None` and `Poison` neither (`CellsAssumption`, `PoisonIsNoCell`);
there may be any number of heads. The others state what they need in the
theorem: a ring of at least one slot and a natural number of frames
(`BusyRing`), at least one buffer and one output frame (`VideoCapture`), a finite set of threads and files
that may hold more than a line (`LogFiles`; the order of the log needs only that
`Half` is a number), nothing (`RequestHandlers`). `StuckMeansLostUpdate` is
about one consumer, which is what `main` starts.

**FramePipelineProofs.** `PipelineInv` is inductive. `OutputInFileOrder` alone
is not: that the next write is frame `Len(fh264) + 1` needs the contents of
the ring (`RingInv`: occupied slots, from `get` on, hold the next frames); that
a store does not hit an occupied slot needs the account of the slots
(`SlotConservation`: semaphores plus threads between a wait and its post make
`Size`) and of announced frames (`FullInv`); that two consumers do not write
the same slot needs `MutexInv`; and what is stored needs `ProducerInv`.
Nothing in it mentions `count`: order and capacity do not depend on it, only
progress does. From it follow the bound on the tail, that nothing unwritten is
overwritten, and the refinement of `FrameDelivery`, step by step.

`StuckOnlyByLostUpdate` is about `count`. With one consumer `CountInv` is
inductive beside it: `count` is never negative and is positive from the
consumer's test until it stores. A consumer stuck in its wait has found `count`
positive, and by the account of the frames none is queued; a producer stuck in
its wait has `count` at 0 and a full ring: either way the two disagree.

**ListAndRingProofs.** Two unrelated parts. For the list of frames `ListInv` is
inductive. `SafeWalk` (what can be reached has its own `next` set, and so has the place of the next link) holds with the
race and gives `WalkIsSafe`: `list_add_tail` publishes a node last.
`IntactUnlessRaced` describes every intermediate state of `list_add_tail`.

For the ring of v0 `RingInv` is an account: the frames stored and not yet
passed are as many as `put` is ahead of `get` around the ring, and lie behind
`get` in the order of the file. It holds at every place of both threads, a
frame being stored before `put` moves and written before `get` does. One slot
stays free (`list_is_full`), so equal positions mean empty. `FreedInTime` says
which frames may have lost their data: those freed while behind `Len(fh264)`.

**ProcessesProofs.** `ProcessInv`: the file and the buffer of `pc` together are
what the consumers wrote, however the buffer was flushed, unless a failed exec
of `ffmpeg` flushed its copy too (`FileAndBuffer`); nothing but Ctrl-C disturbs
the connection (`Connection`); and a child is born where `main` forks it
(`Children`). With these the three other properties are inductive: without
Ctrl-C and once there is a connection, `recv_process` ends only after `pc`, so
the child that `waitpid` reports is `ffmpeg`.

**CgiChannelProofs.** `ChannelInv` is inductive. `TokenAccount` needs the
finiteness of the set of CGIs and types only; `OwnAnswer` needs it, to know
that where one CGI is alone and posts, no older answer is under way, with
`Alone` (the request in the segment is its own) and `AnswerBeforeToken`.
`SavedBeforeAnswered` needs where the request is (`SavedOnTheWay`): the handler
is that of the page, has set the schedule before the file is written, and the
file is written before a page that saves is answered.

**MessageQueueProofs.** `HandledInOrder` speaks of `handled` only; what it may
become depends on everything on the way there. `QueueInv` says that the numbers
of a connection ascend from the peer over the receive buffer, the list and the
node in hand to what has been handled (`AheadOf`, `NodeIsNext`, `ListIsNext`,
`ListInOrder`, `BufferIsNext`, `PeersAreNext`), and that a connection is on one
descriptor (`OneDescriptor`). `NoTwoLostInARow` rests on the numbers of the
nodes, which are consecutive in the list (`Consecutive`), and on what the parser
has done with the last node it took, at each of its places (`LastTaken`).

**DaemonProofs.** Three unrelated parts. A log file is bounded by counting
the threads that have seen room in it and will add a line to it
(`LinesAndAdding`); their set changes by at most one with each step. The order
of what `log_get` sends needs that the lines of one file are all older than those
of the other (`FilesInOrder`), and where the line under way will go
(`WhereItGoes`). For the camera, `CameraInv` counts from the buffer to take
next: the filled buffers come first, in the order of their pictures
(`FilledInOrder`), then those the driver has, in its order (`GivenInOrder`,
`FilledFirst`), and refused ones lie in between. So the buffer that is taken
holds, if it is filled, the oldest picture not put out yet, and one that was
refused is not filled.

Of the message handlers, the parser's routine, the web thread and a death of
the daemon interleave at every step, so `RoutineInv` says for each place of the
routine what holds of the file, the parameters of both sides, the answers, and
what the request has changed. `InForceIsSaved` and `NothingYet` are what the
three properties lack to be inductive.

**ListProofs.** A chain of pointers through distinct nodes is the only one from
its first pointer (`ChainsAgree`, by the least place of a difference), so the
`CHOOSE` of `Chain` finds it (`ChainIs`) and needs no induction over lists.
`ListInv` says that there are sequences `F`, one for each head in use, that
share no node, each of which with its head is a ring in both directions
(`Holds`), and that a loop's `n` is an entry of its list or the head, the one
ahead of `pos` unless the body has unlinked `pos` (`WalkInv`). Each function stores into two
to five cells; what these become is one formula for all of them, and the new
rings follow cell by cell from the sequence cut or joined at that place. So
there is a lemma for each function (which `F` it makes), and on it one for each
action, that the invariant is kept and that the step is that of
`ListOperations`. `ListsGoBothWays` reads both directions and the tests of
list.h off a ring; `ListsDoWhatTheyPromise` is the refinement, of the initial
states and of every step.

**TgapListProofs.** The same for lists that go one way. `Listing`: the two
pointers of a head are the ends of its sequence, the links lead from entry to
entry, and a free entry has a null link; this is what `INSERT_TAIL` relies on
and what `TailIsAlwaysKnown` says. `TgapInv` holds it as long as `ok`, up to
the first of the calls nothing is promised of, and adds `OnLoop`: the four
pointers of a safe loop are the entries around its place. It says nothing of
`__new_prev` after an insertion, and this is why a removal or a second
insertion at that place is excepted. `MacrosKeepTheirPromises` is the refinement.

**Only model-checked.**

- Liveness (`TakenIsReturned`, `FinStopsConsumers`, `PrintEnds`,
  `EndsUnlessCaughtUp`, `KeyEndsProgram`, `EveryRequestAnswered`,
  `Reconnects`): fairness and ENABLED are out of the prover's reach.
- `ReadsAsWritten` and `RoundTrip`: the parser finds the place of a structure by
  a recursive walk over its siblings (`Siblings`), and a structure is written by
  a recursion over the tree of descriptions (`MakeXmlString`). That the two
  agree for every tree and every number of siblings is an induction over data,
  and a proof module cannot even extend a module with such operators: the
  prover loses its SMT backend there. TLC compares them on every regular
  document of `MaxTags` tags and on the structures of section 2.

Facts by induction over data are not provable with the installed backends and
are avoided in the proofs: sequences are characterised by index, sums by
cardinalities, and a least counterexample stands where one would use induction.

## 5. Findings

- **endless_wait.** `count++` (extBB.c:164, no lock) races with `count--`
  (:194, under `m`); a lost decrement lets the consumer pass the test "avoid
  comsumer endless waiting" (:184) with no frame to come, and it waits for ever.
- **print_race.** `print_list` reads through the global `tmp_list` that the
  producer assigns: it prints nodes that are not filled yet, not "each node"
  (extBB.c:332). If the race relinks the first node, printing never ends.
- **round_trip.** `struct2xml` writes a sub-structure under the name of its
  description (vs_xml_parser_new.c:1116), `xml2struct` looks for that of its
  field: the test's `StoreRecord2` (:237, :863) comes back as `StoreRecord`, and
  an account in a request (every `passwd` field of vs_xml.c), written as
  `<s_opera_passwd>`, not at all.
- **week_plan.** The week plan is not copied back from the schedules at
  initialisation, as shm.c:178 says it is.

Seen while modelling, without a run of their own:

- Operation 4, "unmount" (shm.c:409), calls `sd_format` (:405) and blanks the
  card (`HandleSdcrtl`); vs_sd.c:224 has an `sd_umount` that nothing calls.
- "The removed entry is not freed nor modified in any way" (lists.h:739), but
  `TGAP_LIST_REMOVE` nulls its link (:759), even when it did not find it; on
  another list it ends that list there. `TailIsKnown` relies on :759: with the
  link kept, as promised, the next `INSERT_TAIL` would bring back what followed.
- `rountin_common_res_data` "at present returns 0" (sm_routine.c:151), but -1
  without memory (:172); its callers ignore that, and the request has no answer.
- "please input exit to quit" (misc.c:141), but Ctrl-C ends `recv_process`, and
  the next `send` to it kills `pc` with SIGPIPE (`SendAfterReset`;
  `KilledOnlyAfterCtrlC` allows it).
- `recv_process` is forked before `pc` listens; its only `connect` may be
  refused with nothing wrong about "port and ip" (recv.c:51), and `pc` then
  waits in `accept` for ever. So it does when `bind` failed, which nobody looks at.
- A BB.bin that ends inside a marker makes the producer return without `fin`
  (extBB.c:135): the consumer spins for ever (`ShortRead`). The scan takes two
  shorts at a zero short (:137), and an odd run of them hides a marker.
- `TGAP_LIST_INSERT_BEFORE_CURRENT` (lists.h:543) makes the new entry the
  predecessor the next iteration works with; removing there drops the entry
  before it, another insertion is misplaced. `TGAP_LIST_APPEND_LIST` of an
  empty list loses the tail (:703). These are the calls excepted above.
- A document with the siblings A B A B writes the second B over the first one's
  place (vs_xml_parser_new.c:470 describes the counting); such documents are
  outside `ReadsAsWritten`.
- `thread_syn_wait` (sem.c:51) tests a pointer instead of the flag: the parser
  does not block as parser.c:45 says, and dies on an empty list.
- The success answers of `rtv_str` and `ip_rt_set` have commands that
  `vs_get_headtype` does not know and are never sent (sm_routine.c:1170 says
  they are); `ip_set` answers before the left side is written.
- `passwd_check` (sm_routine.c:365) loops for ever on a character inside its
  ranges. `pw_add`, `pw_del` and `logout` have no entry in `cmd2Handler`.
- `thread_stop_all` (vs_thread.c:173) stops nothing: its loop condition is the
  increment, 0 at first.
- `check_palettesize` (rtv.c:278) promises an available size, but keeps the one
  asked for when VGA is the only larger one. Without buffers, `videoGrab` dies
  of a remainder by 0 (:696); `get_jpegsize` may return more than the buffer holds.
- `add_area` stores its areas in the week plan (shm.c:277).

## 6. Not modelled

- CARRAY build: the pipeline with a copy of each frame freed after the post
  (extBB.c:88), selected by a define that extBB.h does not set. The scanner of
  BB.bin: arithmetic on bytes; it is one action of the pipeline models.
- Earlier experiments in `src/other/*.c` (p1, p1b, p2, p2b, p3, Li_bb2):
  single-step variations of the two programs that are modelled; Li_bb2.c says
  of itself that it does not run correctly. Tutorial snippets (client.c,
  server.c, queue.c, getlanip.c): nothing uses them.
- `findxml_string`, the conversions of values and `buf_construct_xml`: text.
- vs_sd.c: shell commands and their output; config.c's reader: text. Package
  heads, byte order and encryption.
- In vs_socket.c: `thread_socket_msg_usr_main`, abandoned according to its
  comment; `vs_reconnect` and `vs_send_real`, which nothing calls; the ring of
  received video, whose functions are not in the repository.
- Locks inside lists.h heads: `MessageQueue` takes an operation under them as
  one step.

## 7. Plan

All components with concurrency of their own are modelled, and their safety
properties are proved, as are the two list libraries. What could come next:

1. `RequestHandlers` composed with `CgiChannel` over `g_config` and config.txt:
   today the web thread of `RequestHandlers` is the part of `CgiChannel` that
   writes the file.
2. The week plan and the timers of config.c; the scanner against a direct
   definition of frames over bounded inputs.
