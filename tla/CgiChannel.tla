----------------------------- MODULE CgiChannel -----------------------------
(***************************************************************************)
(* The web pages of the IP-camera daemon (src/other/ipc/src/shm.c).  A CGI *)
(* process writes a request into the shared memory segment, posts sem_id,  *)
(* waits for sem_id_cgi and reads the answer from the segment;             *)
(* thread_shm_main waits for sem_id, calls the handler of the page and     *)
(* posts sem_id_cgi.  Handlers set fields of g_config, and two pages also  *)
(* write the configuration file.                                           *)
(*                                                                         *)
(* The CGI programs are external: their protocol is the one shm.c expects. *)
(* Nothing keeps two of them from running at once, a web server may kill   *)
(* one, and the daemon may die or the camera lose its power at any time;   *)
(* what starts the daemon again is external too.  The semaphores and the   *)
(* segment survive the daemon, but not the camera.                         *)
(*                                                                         *)
(* The fields a page sets together are one parameter with one value.  What *)
(* pages show, the device they drive (vs_vm_set_D1_CIF, vs_alarm_para_set, *)
(* vs_photo_browse, vs_delete_photo) and errors of semop are left out.     *)
(***************************************************************************)
EXTENDS Integers, FiniteSets

CONSTANTS
  Cgis,         \* CGI processes that may run at the same time
  NoCgi,        \* none of them
  Values,       \* values a page may send; 0 is the factory setting
  AskedRequests,  \* bound: the requests that are made
  MaxRequests,  \* bound: requests made
  MaxStops      \* bound: deaths of the daemon and losses of power

ASSUME CgiAssumption ==
  /\ IsFiniteSet(Cgis) /\ NoCgi \notin Cgis
  /\ Values \subseteq Nat \ {0}
  /\ MaxRequests \in Nat /\ MaxStops \in Nat

VARIABLES
  exists,               \* the segment and the semaphores are there
  sem_id, sem_id_cgi,   \* the values of the semaphores
  shm,                  \* the segment: page, send_rev, data, result;
                        \* by: who wrote the request, answer: to whom the
                        \* last answer in it was given
  tpc,                  \* where thread_shm_main is, "down" without a daemon
  quit,                 \* thread_quit_flag of the thread
  g_config, file,       \* the parameters in force, and in config.txt
  card,                 \* what is on the SD card
  handler,              \* the handler it has chosen
  cpc,                  \* where each CGI is
  mixed,                \* the CGIs that run now do not each have the
                        \* segment, or an answer of their own, to themselves
  lost,                 \* a token or an answer was lost, or is one too many
  asks, stops           \* requests and stops so far

sems    == <<exists, sem_id, sem_id_cgi>>
config  == <<g_config, file>>
cgi     == <<cpc, mixed, asks>>
vars    == <<sems, shm, tpc, handler, quit, config, card, cgi, lost, stops>>

Params == {"alarm", "week_plan", "schedule", "DetectGrade", "store", "sdconf",
           "network", "connect", "osd", "VENC", "photo", "photo_del"}

(* The entries of map_CGI_flag2Handler, by what their handlers use: both   *)
(* directions, a setting, nothing but reading.                             *)
TwoWayPages   == {"detect_action", "add_area", "photo_search"}
SettingPages  == {"storeconf", "sdconf", "network", "connect", "osd", "venc",
                  "photo_delete"}
ReadingPages  == {"login_action", "advc", "sd_card", "misc", "update"}
ControlPages  == {"sdcrtl", "restore", "reboot"}
HandledPages  == TwoWayPages \cup SettingPages \cup ReadingPages \cup ControlPages

(* ID_CGI_PHOTO has a number in shm.h, and no entry in the table.          *)
Pages == HandledPages \cup {"photo"}

(* send_rev: 0 the CGI sends, 1 it receives.  The data of sdcrtl are the   *)
(* operation: 1 refresh, 2 clear, 3 format, 4 unmount.                     *)
Requests ==
       [page : TwoWayPages \cup SettingPages, send_rev : {0}, data : Values]
  \cup [page : TwoWayPages, send_rev : {1}, data : {0}]
  \cup [page : {"sdcrtl"}, send_rev : {0}, data : 1 .. 4]
  \cup [page : ReadingPages \cup {"restore", "reboot", "photo"},
        send_rev : {0}, data : {0}]

ASSUME AskedAssumption == AskedRequests \subseteq Requests

(* A zeroed segment: page number 0 is login_action.                        *)
Zeroed == [page |-> "login_action", send_rev |-> 0, data |-> 0,
           result |-> "suc", by |-> NoCgi, answer |-> NoCgi]

(* The parameters that the handler of a page sets from the data of a       *)
(* request.  Page add_area stores its detection areas in week_plan.        *)
SetsOf(page) ==
  CASE page = "detect_action" -> {"alarm", "week_plan", "schedule"}
    [] page = "add_area"      -> {"DetectGrade", "week_plan", "schedule"}
    [] page = "storeconf"     -> {"store"}
    [] page = "sdconf"        -> {"sdconf"}
    [] page = "network"       -> {"network"}
    [] page = "connect"       -> {"connect"}
    [] page = "osd"           -> {"osd"}
    [] page = "venc"          -> {"VENC"}
    [] page = "photo_search"  -> {"photo"}
    [] page = "photo_delete"  -> {"photo_del"}
    [] OTHER                  -> {}

(* The pages whose handler ends with the writing of config.txt.            *)
SavingPages == {"detect_action", "add_area"}

Factory == [p \in Params |-> 0]

(* What config.txt keeps of g_config: the schedules instead of week_plan.  *)
Written(g) == [g EXCEPT !["week_plan"] = 0]

Waiting == {c \in Cgis : cpc[c] = "wait"}
Reading == \E c \in Cgis : cpc[c] = "read"

(* A handler ends, with the segment as given but for the result.           *)
AnswerWith(segment, ret) ==
  /\ handler' = "none"
  /\ shm' = [segment EXCEPT !.result = ret, !.answer = shm.by]

(* The daemon is gone, and its memory with it.                             *)
DaemonEnds ==
  /\ tpc' = "down" /\ handler' = "none" /\ quit' = FALSE
  /\ g_config' = Factory
  /\ file' = file

ThreadGoes(from, to) == tpc = from /\ tpc' = to
CgiGoes(c, from, to) == cpc[c] = from /\ cpc' = [cpc EXCEPT ![c] = to]

Init ==
  /\ exists = FALSE /\ sem_id = 0 /\ sem_id_cgi = 0
  /\ shm = Zeroed
  /\ tpc = "down" /\ handler = "none" /\ quit = FALSE
  /\ file = Factory /\ g_config = Factory
  /\ card = "photos"
  /\ cpc = [c \in Cgis |-> "idle"]
  /\ mixed = FALSE /\ lost = FALSE
  /\ asks = 0 /\ stops = 0

-----------------------------------------------------------------------------
(* Plausible slips: with one of them in place, the property it belongs to  *)
(* does not hold.                                                          *)

(* sem_creat without SETVAL: the semaphores keep what they held.           *)
Start_KeepsTokens ==
  /\ ThreadGoes("down", "p")
  /\ exists' = TRUE
  /\ shm' = IF exists THEN shm ELSE Zeroed
  /\ g_config' = file
  /\ mixed' = (mixed \/ (Reading /\ (lost \/ ~exists)))
  /\ lost' = (Waiting # {})
  /\ UNCHANGED <<sem_id, sem_id_cgi, handler, quit, file, card, cpc, asks, stops>>

(* The CGI is let on as soon as its page is known.                         *)
Match_PostsFirst ==
  /\ ThreadGoes("match", "handle")
  /\ shm.page \in HandledPages /\ handler' = shm.page
  /\ sem_id_cgi' = sem_id_cgi + 1
  /\ UNCHANGED <<exists, sem_id, shm, quit, config, card, cgi, lost, stops>>

(* Page detect_action leaves the writing of the file to page add_area.     *)
HandleSetting_AlertNotSaved ==
  /\ \/ handler \in TwoWayPages /\ shm.send_rev = 0
     \/ handler \in SettingPages
  /\ ThreadGoes("handle", IF handler = "add_area" THEN "save" ELSE "reply")
  /\ g_config' = [p \in Params |-> IF p \in SetsOf(handler) THEN shm.data
                                                            ELSE g_config[p]]
  /\ AnswerWith(shm, "suc")
  /\ UNCHANGED <<sems, quit, file, card, cgi, lost, stops>>

(* A handler that returns -1 is not followed by v(sem_id_cgi).             *)
Reply_OnSuccess ==
  /\ ThreadGoes("reply", IF quit THEN "teardown" ELSE "p")
  /\ sem_id_cgi' = IF shm.result = "suc" THEN sem_id_cgi + 1 ELSE sem_id_cgi
  /\ UNCHANGED <<exists, sem_id, shm, handler, quit, config, card, cgi, lost, stops>>

-----------------------------------------------------------------------------
(* The daemon                                                              *)

(* config_read, then the set-up of thread_shm_main: shmget opens a segment *)
(* that is still there, sem_creat sets both semaphores to zero.            *)
Start ==
  /\ ThreadGoes("down", "p")
  /\ exists' = TRUE /\ sem_id' = 0 /\ sem_id_cgi' = 0
  /\ shm' = IF exists THEN shm ELSE Zeroed
  /\ g_config' = file
  /\ mixed' = (mixed \/ (Reading /\ (lost \/ ~exists)))
  /\ lost' = (Waiting # {})
  /\ UNCHANGED <<handler, quit, file, card, cpc, asks, stops>>

P ==
  /\ ThreadGoes("p", "match")
  /\ sem_id > 0 /\ sem_id' = sem_id - 1
  /\ UNCHANGED <<exists, sem_id_cgi, shm, handler, quit, config, card, cgi, lost, stops>>

(* cgi_getHandlerMatch                                                     *)
Match ==
  /\ ThreadGoes("match", "handle")
  /\ shm.page \in HandledPages /\ handler' = shm.page
  /\ UNCHANGED <<sems, shm, quit, config, card, cgi, lost, stops>>

(* The table has no terminating entry.  What lies behind it may end the    *)
(* search, and the thread goes on without an answer, or the daemon dies.   *)
NoMatch ==
  /\ tpc = "match" /\ shm.page \notin HandledPages
  /\ \/ tpc' = "p" /\ UNCHANGED <<handler, quit, config>>
     \/ DaemonEnds
  /\ lost' = TRUE
  /\ UNCHANGED <<sems, shm, card, cgi, stops>>

(* The handlers of the pages that set parameters.  They find in the        *)
(* segment what is there by now, which another CGI may have written.       *)
HandleSetting ==
  /\ \/ handler \in TwoWayPages /\ shm.send_rev = 0
     \/ handler \in SettingPages
  /\ ThreadGoes("handle", IF handler \in SavingPages THEN "save" ELSE "reply")
  /\ g_config' = [p \in Params |-> IF p \in SetsOf(handler) THEN shm.data
                                                            ELSE g_config[p]]
  /\ AnswerWith(shm, "suc")
  /\ UNCHANGED <<sems, quit, file, card, cgi, lost, stops>>

(* The handlers that only fill the segment.  That of advc zeroes all of it *)
(* first, the page number and the request included.                        *)
HandleReading ==
  /\ ThreadGoes("handle", "reply")
  /\ \/ handler \in TwoWayPages /\ shm.send_rev = 1
     \/ handler \in (ReadingPages \ {"login_action"}) \cup {"reboot"}
  /\ AnswerWith(IF handler = "advc" THEN [Zeroed EXCEPT !.by = shm.by] ELSE shm,
                "suc")
  /\ UNCHANGED <<sems, quit, config, card, cgi, lost, stops>>

HandleLogin ==
  /\ ThreadGoes("handle", "reply")
  /\ handler = "login_action"
  /\ \E ret \in {"suc", "err"} : AnswerWith(shm, ret)
  /\ UNCHANGED <<sems, quit, config, card, cgi, lost, stops>>

(* handler_cgi_para_sdcrtl: refresh and clear do nothing, format and       *)
(* unmount both call sd_format.                                            *)
HandleSdcrtl ==
  /\ ThreadGoes("handle", "reply")
  /\ handler = "sdcrtl"
  /\ card' = IF shm.data \in {3, 4} THEN "blank" ELSE card
  /\ AnswerWith(shm, "suc")
  /\ UNCHANGED <<sems, quit, config, cgi, lost, stops>>

(* vs_restore puts the factory settings into the file, vs_stop_thread      *)
(* sets the quit flags.                                                    *)
HandleRestore ==
  /\ ThreadGoes("handle", "reply")
  /\ handler = "restore"
  /\ file' = Factory /\ quit' = TRUE
  /\ AnswerWith(shm, "suc")
  /\ UNCHANGED <<sems, g_config, card, cgi, lost, stops>>

(* vs_config_write or vs_file_opt_conf_write, last in its handler.         *)
Save ==
  /\ ThreadGoes("save", "reply")
  /\ file' = Written(g_config)
  /\ UNCHANGED <<sems, shm, handler, quit, g_config, card, cgi, lost, stops>>

Reply ==
  /\ ThreadGoes("reply", IF quit THEN "teardown" ELSE "p")
  /\ sem_id_cgi' = sem_id_cgi + 1
  /\ UNCHANGED <<exists, sem_id, shm, handler, quit, config, card, cgi, lost, stops>>

(* The loop is left: segment and semaphores are removed, and the daemon    *)
(* ends with its threads.  A CGI that waits, or is about to post, fails; a *)
(* CGI that is reading keeps the segment until it is done.                 *)
Teardown ==
  /\ tpc = "teardown" /\ DaemonEnds
  /\ exists' = FALSE /\ sem_id' = 0 /\ sem_id_cgi' = 0
  /\ cpc' = [c \in Cgis |-> IF cpc[c] \in {"post", "wait"} THEN "idle" ELSE cpc[c]]
  /\ mixed' = (mixed \/ (Reading /\ lost)) /\ lost' = FALSE
  /\ UNCHANGED <<shm, card, asks, stops>>

Thread == \/ Start \/ P \/ Match \/ NoMatch
          \/ HandleSetting \/ HandleReading \/ HandleLogin \/ HandleSdcrtl
          \/ HandleRestore \/ Save \/ Reply \/ Teardown

(* The daemon dies: what it was working on is not answered.                *)
Crash ==
  /\ stops < MaxStops /\ stops' = stops + 1
  /\ tpc # "down" /\ DaemonEnds
  /\ lost' = (lost \/ tpc \in {"match", "handle", "save", "reply"})
  /\ UNCHANGED <<sems, shm, card, cgi>>

(* The camera reboots (vs_reboot, or the power fails).                     *)
PowerLoss ==
  /\ stops < MaxStops /\ stops' = stops + 1
  /\ DaemonEnds
  /\ exists' = FALSE /\ sem_id' = 0 /\ sem_id_cgi' = 0 /\ shm' = Zeroed
  /\ cpc' = [c \in Cgis |-> "idle"]
  /\ mixed' = FALSE /\ lost' = FALSE
  /\ UNCHANGED <<card, asks>>

-----------------------------------------------------------------------------
(* A CGI process                                                           *)

Ask(c) ==
  /\ asks < MaxRequests /\ asks' = asks + 1
  /\ exists
  /\ CgiGoes(c, "idle", "post")
  /\ \E r \in AskedRequests :
        /\ shm' = [shm EXCEPT !.page = r.page, !.send_rev = r.send_rev,
                              !.data = r.data, !.by = c, !.answer = NoCgi]
  /\ mixed' = (\E d \in Cgis \ {c} : cpc[d] # "idle")
  /\ UNCHANGED <<sems, tpc, handler, quit, config, card, lost, stops>>

Post(c) ==
  /\ CgiGoes(c, "post", "wait")
  /\ sem_id' = sem_id + 1
  /\ UNCHANGED <<exists, sem_id_cgi, shm, tpc, handler, quit, config, card, mixed,
                 asks, lost, stops>>

Take(c) ==
  /\ CgiGoes(c, "wait", "read")
  /\ sem_id_cgi > 0 /\ sem_id_cgi' = sem_id_cgi - 1
  /\ UNCHANGED <<exists, sem_id, shm, tpc, handler, quit, config, card, mixed,
                 asks, lost, stops>>

Leave(c) ==
  /\ CgiGoes(c, "read", "idle")
  /\ UNCHANGED <<sems, shm, tpc, handler, quit, config, card, mixed, asks, lost,
                 stops>>

(* The web server gives up on the CGI.                                     *)
Kill(c) ==
  /\ cpc[c] # "idle"
  /\ cpc' = [cpc EXCEPT ![c] = "idle"]
  /\ lost' = (lost \/ cpc[c] = "wait")
  /\ UNCHANGED <<sems, shm, tpc, handler, quit, config, card, mixed, asks, stops>>

Cgi(c) == Ask(c) \/ Post(c) \/ Take(c) \/ Leave(c) \/ Kill(c)

Done == asks = MaxRequests /\ tpc = "p" /\ UNCHANGED vars

Next == Thread \/ Crash \/ PowerLoss \/ (\E c \in Cgis : Cgi(c)) \/ Done

Spec == Init /\ [][Next]_vars

(* Whatever started the daemon starts it again, the scheduler runs its     *)
(* thread, and the kernel serves the processes that wait for a semaphore   *)
(* in turn, so that one that could go on again and again does go on.       *)
FairSpec == Spec /\ WF_vars(Thread) /\ \A c \in Cgis : SF_vars(Take(c))

-----------------------------------------------------------------------------
ThreadPC == {"down", "p", "match", "handle", "save", "reply", "teardown"}
CgiPC    == {"idle", "post", "wait", "read"}
Settings == [Params -> Values \cup 0 .. 4]

(* The types of the variables; in particular no semaphore below zero.      *)
TypeOK ==
  /\ exists \in BOOLEAN /\ sem_id \in Nat /\ sem_id_cgi \in Nat
  /\ shm \in [page : Pages, send_rev : {0, 1}, data : Values \cup (0 .. 4),
              result : {"suc", "err"}, by : Cgis \cup {NoCgi},
              answer : Cgis \cup {NoCgi}]
  /\ tpc \in ThreadPC /\ handler \in HandledPages \cup {"none"} /\ quit \in BOOLEAN
  /\ g_config \in Settings /\ file \in Settings
  /\ card \in {"photos", "blank"}
  /\ cpc \in [Cgis -> CgiPC]
  /\ mixed \in BOOLEAN /\ lost \in BOOLEAN
  /\ asks \in 0 .. MaxRequests /\ stops \in 0 .. MaxStops

(* 1 while the thread works on a request it has not answered yet.          *)
Busy == IF tpc \in {"match", "handle", "save", "reply"} THEN 1 ELSE 0

(* As long as none was lost, the tokens and the thread account for every   *)
(* CGI that waits, however many overlap: no request is handled twice, and  *)
(* no answer is left over for the next CGI.  A new start of the daemon or  *)
(* of the camera with nobody waiting puts the account in order again.      *)
TokenAccount ==
  ~lost => sem_id + sem_id_cgi + Busy = Cardinality(Waiting)

(* A CGI that had the segment to itself and lost no token reads the answer *)
(* to its own request, never what an earlier one left there.               *)
OwnAnswer ==
  \A c \in Cgis : cpc[c] = "read" /\ ~mixed /\ ~lost => shm.answer = c

(* A CGI that set the alarm, or the detection areas, and reads the success *)
(* flag finds the new schedule in config.txt: neither a crash nor a loss   *)
(* of power after that undoes it.                                          *)
SavedBeforeAnswered ==
  \A c \in Cgis :
     /\ cpc[c] = "read" /\ ~mixed /\ ~lost
     /\ shm.page \in SavingPages /\ shm.send_rev = 0
     => file["schedule"] = shm.data

(* A CGI does not wait for ever unless a token was lost: it is answered,   *)
(* fails because the channel is removed, or is killed.                     *)
EveryRequestAnswered ==
  \A c \in Cgis : cpc[c] = "wait" ~> (cpc[c] # "wait" \/ lost)

(* shm.c:177-179: the week plan is kept in config.txt as the schedules,    *)
(* and is copied from there at initialisation.                             *)
WeekPlanIsSchedule == tpc # "down" => g_config["week_plan"] = g_config["schedule"]
=============================================================================
