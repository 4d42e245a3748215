------------------------------ MODULE LogFiles ------------------------------
(* The log of the IP-camera daemon: logger (logger.c) appends lines to two *)
(* files in turn, without a lock although every thread calls it, and       *)
(* routine_log_get_req (sm_routine.c) sends both, the older first.  A line *)
(* is its number, in the order of the calls, and has length 1; the time    *)
(* stamp and the levels are wording.                                       *)
(*                                                                         *)
(* External: the file system.  A file that is deleted while a thread has   *)
(* it open takes the thread's line with it.  The daemon may die between    *)
(* any two steps; the files stay.                                          *)
(***************************************************************************)
EXTENDS Naturals, Sequences, FiniteSets

CONSTANTS
    Threads,        \* that call logger
    Half,           \* MAX_LEN_XML / 2: a file grows to less than that; > 1
    MaxLines,       \* bound: calls of logger
    MaxRestarts     \* bound: deaths of the daemon

VARIABLES
    log,            \* per file: does it exist, which one of its name, lines
    log_file_select,
    writer,         \* per thread: where it is, its line, file and choice
    lines,          \* calls so far
    reader,         \* routine_log_get_req: where it is, what it has read, and
                    \* whether the files had changed places before it read
    overlap,        \* two threads have been in logger at a time
    mixed,          \* a restart went back to LOG_1 while LOG_2 is newer
    restarts

files == <<log, log_file_select>>
ghosts == <<overlap, mixed>>
logVars == <<files, writer, lines, reader, ghosts, restarts>>

LOG_1 == 1
LOG_2 == 2
Idle == [at |-> "idle", line |-> 0, choice |-> 0, file |-> 0, which |-> 0]
NoReader == [at |-> "idle", older |-> 0, newer |-> 0, got |-> <<>>, late |-> FALSE]

LogInit ==
    /\ log = [f \in {LOG_1, LOG_2} |-> [exists |-> FALSE, which |-> 0, lines |-> <<>>]]
    /\ log_file_select = 0
    /\ writer = [t \in Threads |-> Idle]
    /\ lines = 0 /\ reader = NoReader
    /\ overlap = FALSE /\ mixed = FALSE /\ restarts = 0

Step(t, from, w) == writer[t].at = from /\ writer' = [writer EXCEPT ![t] = w]

-----------------------------------------------------------------------------
(* Plausible slips.                                                        *)

(* A file may grow to the half and over it.                                *)
Room_AtTheLimit(f) == Len(log[f].lines) < Half

(* The file that is to be written anew is kept.                            *)
Unlink_Nothing(t) ==
    /\ Step(t, "unlink", [writer[t] EXCEPT !.at = "open"])
    /\ UNCHANGED <<files, lines, reader, ghosts, restarts>>

-----------------------------------------------------------------------------
(* logger.                                                                 *)

(* logger_size_check: is there room; for a file that is missing there is.  *)
Room(f) == Len(log[f].lines) + 1 < Half

Call(t) ==
    /\ lines < MaxLines /\ lines' = lines + 1
    /\ Step(t, "idle", [Idle EXCEPT !.at = "read", !.line = lines'])
    /\ overlap' = (overlap \/ \E u \in Threads \ {t} : writer[u].at # "idle")
    /\ UNCHANGED <<files, reader, mixed, restarts>>

(* log_file_select is compared with 0, 1 and 2 one after the other         *)
(* (logger.c:310, :347, :371); the choice is that of the comparison that   *)
(* holds, the last read.  When another thread changes 2 to 1 between the   *)
(* last two none holds, the line goes to a null file, and the daemon dies, *)
(* as it may at every step (Restart).                                      *)
ReadSelect(t) ==
    /\ Step(t, "read", [writer[t] EXCEPT !.at = "choose", !.choice = log_file_select])
    /\ UNCHANGED <<files, lines, reader, ghosts, restarts>>

(* The file in use, if it has room, else the other, deleted first; after a *)
(* start, LOG_1 or LOG_2 if one has room, else LOG_1, deleted first.       *)
Choose(t) ==
    LET s == writer[t].choice
        Chosen(at, f) == Step(t, "choose", [writer[t] EXCEPT !.at = at, !.file = f])
    IN  /\ \/ s # 0 /\ Room(s)  /\ Chosen("open", s)
           \/ s # 0 /\ ~Room(s) /\ Chosen("unlink", 3 - s)
           \/ s = 0 /\ Room(LOG_1)  /\ Chosen("open", LOG_1)
           \/ s = 0 /\ ~Room(LOG_1) /\ Room(LOG_2)  /\ Chosen("open", LOG_2)
           \/ s = 0 /\ ~Room(LOG_1) /\ ~Room(LOG_2) /\ Chosen("unlink", LOG_1)
        /\ UNCHANGED <<files, lines, reader, ghosts, restarts>>

Unlink(t) ==
    /\ Step(t, "unlink", [writer[t] EXCEPT !.at = "open"])
    /\ log' = [log EXCEPT ![writer[t].file] = [@ EXCEPT !.exists = FALSE, !.lines = <<>>]]
    /\ UNCHANGED <<log_file_select, lines, reader, ghosts, restarts>>

Newest(f) == IF log[f].lines = <<>> THEN 0 ELSE log[f].lines[Len(log[f].lines)]

(* fopen creates a file that is missing; when it fails the line is lost.   *)
Open(t) ==
    LET f == writer[t].file
        which == IF log[f].exists THEN log[f].which ELSE log[f].which + 1
    IN  /\ \/ /\ Step(t, "open", [writer[t] EXCEPT !.at = "write", !.which = which])
              /\ log' = [log EXCEPT ![f] = [@ EXCEPT !.exists = TRUE, !.which = which]]
              /\ log_file_select' = f
              /\ mixed' = (mixed \/ (log_file_select = 0 /\ Newest(3 - f) > Newest(f)))
           \/ Step(t, "open", Idle) /\ UNCHANGED <<files, mixed>>
        /\ UNCHANGED <<lines, reader, overlap, restarts>>

Write(t) ==
    LET w == writer[t]
        There == log[w.file].exists /\ log[w.file].which = w.which
    IN  /\ Step(t, "write", Idle)
        /\ log' = IF There THEN [log EXCEPT ![w.file].lines = Append(@, w.line)] ELSE log
        /\ UNCHANGED <<log_file_select, lines, reader, ghosts, restarts>>

Logger(t) == Call(t) \/ ReadSelect(t) \/ Choose(t) \/ Unlink(t) \/ Open(t) \/ Write(t)

-----------------------------------------------------------------------------
(* routine_log_get_req, from where the account is known to be good.        *)

(* file_read takes no more than half of what an answer holds.              *)
Contents(f) == IF Len(log[f].lines) > Half THEN SubSeq(log[f].lines, 1, Half) ELSE log[f].lines

(* Nothing logged since the start: an error, whatever the files hold.      *)
BeginLogGet ==
    /\ reader.at \in {"idle", "sent", "error"}
    /\ reader' = CASE log_file_select = 0 -> [NoReader EXCEPT !.at = "error"]
                   [] log_file_select = 1 -> [NoReader EXCEPT !.at = "older", !.older = LOG_2, !.newer = LOG_1]
                   [] log_file_select = 2 -> [NoReader EXCEPT !.at = "older", !.older = LOG_1, !.newer = LOG_2]
    /\ UNCHANGED <<files, writer, lines, ghosts, restarts>>

(* Only LOG_2 may be missing.                                              *)
ReadOlder ==
    /\ reader.at = "older"
    /\ reader' = IF log[reader.older].exists \/ reader.older = LOG_2
                 THEN [reader EXCEPT !.at = "newer", !.got = Contents(reader.older),
                                    !.late = (log_file_select # reader.newer)]
                 ELSE [NoReader EXCEPT !.at = "error"]
    /\ UNCHANGED <<files, writer, lines, ghosts, restarts>>

ReadNewer ==
    /\ reader.at = "newer"
    /\ reader' = IF log[reader.newer].exists
                 THEN [reader EXCEPT !.at = "sent", !.got = @ \o Contents(reader.newer)]
                 ELSE [NoReader EXCEPT !.at = "error"]
    /\ UNCHANGED <<files, writer, lines, ghosts, restarts>>

Restart ==
    /\ restarts < MaxRestarts /\ restarts' = restarts + 1
    /\ log_file_select' = 0
    /\ writer' = [t \in Threads |-> Idle] /\ reader' = NoReader
    /\ UNCHANGED <<log, lines, ghosts>>

LogNext == (\E t \in Threads : Logger(t)) \/ BeginLogGet \/ ReadOlder \/ ReadNewer \/ Restart

LogSpec == LogInit /\ [][LogNext]_logVars
-----------------------------------------------------------------------------
(* A file is left before it reaches the half of an answer, but for the     *)
(* lines of threads that saw room at the same time: it never passes that   *)
(* by more than one line for each other thread, whatever was decided       *)
(* before the files changed, and over restarts.                            *)
FilesStaySmall ==
    \A f \in {LOG_1, LOG_2} : Len(log[f].lines) < Half + Cardinality(Threads) - 1

(* What log_get sends is in the order of the calls, without a line twice,  *)
(* also when the files change places between its two reads; unless two     *)
(* threads were in logger at a time, a restart went on with the older      *)
(* file, or the files changed places before the first read.                *)
SentInOrder ==
    reader.at = "sent" /\ ~overlap /\ ~mixed /\ ~reader.late =>
        \A j, k \in DOMAIN reader.got : j < k => reader.got[j] < reader.got[k]
=============================================================================
