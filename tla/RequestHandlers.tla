--------------------------- MODULE RequestHandlers --------------------------
(***************************************************************************)
(* The requests that come over the network to the IP-camera daemon: the    *)
(* parser thread looks a request up in cmd2Handler and runs its routine    *)
(* (protocol.c, sm_routine.c).  A routine reads the XML, looks for the     *)
(* account in it, and then reads or sets parameters, here or, by the       *)
(* tgap_ functions, in the configuration of both sides of the gap.  The    *)
(* web thread writes the same configuration file and restores the factory  *)
(* settings (shm.c), after which the daemon ends without waiting for the   *)
(* parser thread; it may also die, and is started again.                   *)
(*                                                                         *)
(* External: the tgap_ functions, sm_serial_send, file_read,               *)
(* vs_config_write, which writes g_config to config.txt in one step, and   *)
(* ROUNTINE_COMM_1, the beginning of the other routines as a macro.  Texts *)
(* are reduced to who asks and what is asked; whether the XML, a file or a *)
(* new password is good is left open.  cmd2Handler has no entry for        *)
(* PW_ADD, PW_DEL, LOGOUT and DEBUG: their routines never run.             *)
(***************************************************************************)
EXTENDS Naturals, FiniteSets

CONSTANTS
    Accounts,       \* accounts in para_login to para_login_3
    Strangers,      \* others that ask
    Values,         \* values that are set; 0 is the factory setting
    MaxRequests,    \* bound: requests
    MaxStops        \* bound: deaths of the daemon

VARIABLES
    pc,             \* where the parser thread is in the routine
    req,            \* the request it works on, or worked on last
    answers,        \* answers to it given to sm_serial_send
    flag,           \* the flag of its last answer, sent or not
    g_config, file, \* the parameters set here, in force and in config.txt
    device,         \* those of the two sides of the gap
    rtv,            \* syn_ctrl_rtv.flag: video is to be sent
    restored,       \* the web thread has restored the factory settings
    before,         \* the parameters when the request came
    accepted,       \* the values last accepted, kept as promised
    late,           \* one was accepted after the restoring
    asked, stops    \* requests and deaths so far

config == <<g_config, file, device, rtv>>
promises == <<accepted, late>>
bounds == <<asked, stops>>
routineVars == <<pc, req, answers, flag, config, restored, before, promises, bounds>>

Here == {"rtv_start", "hb_rt_ip"}
There == {"ip_inner", "ip_outer", "rules", "rules_right", "time", "time_right", "hb"}
Factory == [p \in Here |-> 0]

(* cmd2Handler; RTV_END has a routine that is nowhere defined.             *)
Handled == {"LOGIN", "PW_SET", "RULE_GET", "RULE_SET", "LOG_GET", "TIME_SYN", "IP_GET", "IP_SET",
            "HB_GET", "HB_SET", "IP_RT_GET", "IP_RT_SET", "RTV_STR"}
Commands == Handled \cup {"PW_ADD"}

(* vs_get_headtype: the answers whose head it knows.                       *)
AnswersWithHead == {"LOGIN", "LOGOUT", "PW_SET", "RULE_GET", "RULE_SET", "LOG_GET", "DEBUG",
                    "TIME_SYN", "IP_GET", "IP_SET", "ERR_FORMAT", "HB_GET", "HB_SET"}

Requests == [cmd : Commands, account : Accounts \cup Strangers, value : Values]
NoRequest == [cmd |-> "none", account |-> "none", value |-> 0]

(* rountin_common_flag: nothing is sent when the head is not known.        *)
SendFlag(cmd, f) ==
    /\ flag' = f
    /\ answers' = IF cmd \in AnswersWithHead THEN answers + 1 ELSE answers

(* rountin_common_res_data, which does not ask for the head.  Without      *)
(* memory for the answer it returns -1, at which no routine looks.         *)
SendData ==
    \/ flag' = "suc" /\ answers' = answers + 1
    \/ flag' = "no_memory" /\ UNCHANGED answers

(* passwd_validate: one of the four accounts.                              *)
PasswdValidate(account) == account \in Accounts

Go(from, to) == pc = from /\ pc' = to
Ends(from) == Go(from, "idle")
Asks(cmds) == req.cmd \in cmds

(* What a routine that ends with success has promised.                     *)
Promise(p, v) == /\ accepted' = [accepted EXCEPT ![p] = v]
                 /\ late' = (late \/ restored)

RoutineInit ==
    /\ pc = "idle" /\ req = NoRequest /\ answers = 0 /\ flag = "none"
    /\ g_config = Factory /\ file = Factory /\ accepted = Factory
    /\ device = [p \in There |-> 0]
    /\ rtv = FALSE
    /\ restored = FALSE /\ late = FALSE
    /\ before = [here |-> Factory, there |-> device]
    /\ asked = 0 /\ stops = 0

-----------------------------------------------------------------------------
(* Plausible slips.                                                        *)

(* The error of the password is sent, and the routine goes on.             *)
Validate_GoesOn ==
    /\ IF PasswdValidate(req.account) THEN UNCHANGED <<answers, flag>> ELSE SendFlag(req.cmd, "err")
    /\ Go("validate", "do")
    /\ UNCHANGED <<req, config, restored, before, promises, bounds>>

(* The error of tgap_rewritte_hb is only seen when it has written.          *)
HbSet_ErrorAfterWriting ==
    /\ Asks({"HB_SET"})
    /\ device' = [device EXCEPT !.hb = req.value]
    /\ \/ Go("do", "reset") /\ SendFlag("HB_SET", "suc")
       \/ Ends("do") /\ SendFlag("HB_SET", "err")
    /\ UNCHANGED <<req, g_config, file, rtv, restored, before, promises, bounds>>

(* The flag is compared after it has been stored.                          *)
RtvStr_AlwaysTheSame ==
    /\ Asks({"RTV_STR"})
    /\ Ends("do") /\ g_config' = [g_config EXCEPT !.rtv_start = req.value]
    /\ SendFlag("RTV_STR", "suc") /\ Promise("rtv_start", req.value)
    /\ UNCHANGED <<req, file, device, rtv, restored, before, bounds>>

-----------------------------------------------------------------------------
(* sm_handler                                                              *)
Take ==
    /\ asked < MaxRequests /\ asked' = asked + 1
    /\ pc = "idle" /\ req' \in Requests
    /\ pc' = IF req'.cmd \in Handled THEN "xml" ELSE "no_handler"
    /\ answers' = 0 /\ flag' = "none"
    /\ before' = [here |-> g_config, there |-> device]
    /\ UNCHANGED <<config, restored, promises, stops>>

NoHandler ==
    /\ Ends("no_handler")
    /\ SendFlag("ERR_FORMAT", "err")
    /\ UNCHANGED <<req, config, restored, before, promises, bounds>>

(* xml2struct *)
ReadXml ==
    /\ \/ Ends("xml") /\ SendFlag(req.cmd, "err")
       \/ Go("xml", IF Asks({"PW_SET"}) THEN "check" ELSE "validate") /\ UNCHANGED <<answers, flag>>
    /\ UNCHANGED <<req, config, restored, before, promises, bounds>>

(* passwd_check: a first character inside one of the ranges is looked at   *)
(* for ever; any other, or none, makes the password too weak.              *)
PasswdCheckResults == {"too weak", "none"}

PwSet ==
    /\ \E result \in PasswdCheckResults :
          IF result = "too weak" THEN Ends("check") /\ SendFlag("PW_SET", "err")
          ELSE Go("check", "hung") /\ UNCHANGED <<answers, flag>>
    /\ UNCHANGED <<req, config, restored, before, promises, bounds>>

Validate ==
    /\ IF PasswdValidate(req.account)
       THEN Go("validate", "do") /\ UNCHANGED <<answers, flag>>
       ELSE Ends("validate") /\ SendFlag(req.cmd, "err")
    /\ UNCHANGED <<req, config, restored, before, promises, bounds>>

-----------------------------------------------------------------------------
(* The routines, from where the account is known to be good.               *)

Login ==
    /\ Asks({"LOGIN"})
    /\ Ends("do") /\ SendFlag("LOGIN", "suc")
    /\ UNCHANGED <<req, config, restored, before, promises, bounds>>

(* Routines that send a file, which may not be readable, or parameters.    *)
SendFile(cmd) ==
    /\ Asks({cmd})
    /\ Ends("do") /\ (SendData \/ SendFlag(cmd, "err"))
    /\ UNCHANGED <<req, config, restored, before, promises, bounds>>
SendParameters(cmd) ==
    /\ Asks({cmd})
    /\ Ends("do") /\ SendData
    /\ UNCHANGED <<req, config, restored, before, promises, bounds>>
RuleGet == SendFile("RULE_GET")
LogGet == SendFile("LOG_GET")
IpGet == SendParameters("IP_GET")
HbGet == SendParameters("HB_GET")
IpRtGet == SendParameters("IP_RT_GET")

(* The rules of both sides; either may fail.                               *)
RuleSet(from, p, to) ==
    /\ Asks({"RULE_SET"})
    /\ \/ Go(from, to) /\ device' = [device EXCEPT ![p] = req.value] /\ UNCHANGED <<answers, flag>>
       \/ Ends(from) /\ UNCHANGED device /\ SendFlag("RULE_SET", "err")
    /\ UNCHANGED <<req, g_config, file, rtv, restored, before, promises, bounds>>

TimeSyn ==
    /\ Asks({"TIME_SYN"})
    /\ Go("do", "answer")
    /\ device' = [device EXCEPT !.time = req.value, !.time_right = req.value]
    /\ UNCHANGED <<req, answers, flag, g_config, file, rtv, restored, before, promises, bounds>>

(* The answer first, then the other side, then this one.                   *)
IpSet ==
    /\ Asks({"IP_SET"})
    /\ Go("do", "right")
    /\ SendFlag("IP_SET", "suc")
    /\ UNCHANGED <<req, config, restored, before, promises, bounds>>
IpSetRight ==
    /\ Go("right", "left")
    /\ device' = [device EXCEPT !.ip_outer = req.value]
    /\ UNCHANGED <<req, answers, flag, g_config, file, rtv, restored, before, promises, bounds>>
IpSetLeft ==
    /\ Ends("left")
    /\ device' = [device EXCEPT !.ip_inner = req.value]
    /\ UNCHANGED <<req, answers, flag, g_config, file, rtv, restored, before, promises, bounds>>

HbSet ==
    /\ Asks({"HB_SET"})
    /\ \/ Go("do", "reset") /\ device' = [device EXCEPT !.hb = req.value] /\ SendFlag("HB_SET", "suc")
       \/ Ends("do") /\ UNCHANGED device /\ SendFlag("HB_SET", "err")
    /\ UNCHANGED <<req, g_config, file, rtv, restored, before, promises, bounds>>

IpRtSet ==
    /\ Asks({"IP_RT_SET"})
    /\ Go("do", "save")
    /\ g_config' = [g_config EXCEPT !.hb_rt_ip = req.value]
    /\ UNCHANGED <<req, answers, flag, file, device, rtv, restored, before, promises, bounds>>

(* Nothing is saved when the flag is what it was.                          *)
RtvStr ==
    /\ Asks({"RTV_STR"})
    /\ IF g_config.rtv_start = req.value
       THEN /\ Ends("do") /\ SendFlag("RTV_STR", "suc")
            /\ Promise("rtv_start", req.value) /\ UNCHANGED g_config
       ELSE /\ Go("do", "save") /\ UNCHANGED <<answers, flag, promises>>
            /\ g_config' = [g_config EXCEPT !.rtv_start = req.value]
    /\ UNCHANGED <<req, file, device, rtv, restored, before, bounds>>

Save ==
    /\ Go("save", IF Asks({"RTV_STR"}) THEN "signal" ELSE "answer")
    /\ file' = g_config
    /\ UNCHANGED <<req, answers, flag, g_config, device, rtv, restored, before, promises, bounds>>

SignalRtv ==
    /\ Go("signal", "answer")
    /\ rtv' = (g_config.rtv_start # 0)
    /\ UNCHANGED <<req, answers, flag, g_config, file, device, restored, before, promises, bounds>>

Answer ==
    /\ Ends("answer") /\ SendFlag(req.cmd, "suc")
    /\ CASE Asks({"RTV_STR"})   -> Promise("rtv_start", req.value)
         [] Asks({"IP_RT_SET"}) -> Promise("hb_rt_ip", req.value)
         [] OTHER               -> UNCHANGED promises
    /\ UNCHANGED <<req, config, restored, before, bounds>>

Routine ==
    \/ Login \/ RuleGet \/ LogGet \/ IpGet \/ HbGet \/ IpRtGet \/ TimeSyn \/ IpSet \/ IpSetRight \/ IpSetLeft \/ HbSet
    \/ RuleSet("do", "rules", "rules_right") \/ RuleSet("rules_right", "rules_right", "answer")
    \/ IpRtSet \/ RtvStr \/ Save \/ SignalRtv \/ Answer

Parser == NoHandler \/ ReadXml \/ PwSet \/ Validate \/ Routine

-----------------------------------------------------------------------------
(* A page of the web thread that saves, for parameters of its own.         *)
WebSave ==
    /\ ~restored
    /\ file' = g_config
    /\ UNCHANGED <<pc, req, answers, flag, g_config, device, rtv, restored, before, promises, bounds>>

(* handler_cgi_para_restore                                                *)
Restore ==
    /\ ~restored /\ stops < MaxStops
    /\ restored' = TRUE
    /\ file' = Factory /\ accepted' = Factory
    /\ UNCHANGED <<pc, req, answers, flag, g_config, device, rtv, before, late, bounds>>

(* The daemon begins anew: after the restoring, after hb_set, or because   *)
(* it died.  A request it had not answered may have been carried out.      *)
StartAgain ==
    /\ stops < MaxStops /\ stops' = stops + 1
    /\ g_config' = file
    /\ accepted' = IF late \/ pc \in {"save", "signal", "answer"} THEN file ELSE accepted
    /\ pc' = "idle" /\ req' = NoRequest /\ answers' = 0 /\ flag' = "none"
    /\ rtv' = FALSE /\ restored' = FALSE /\ late' = FALSE
    /\ before' = [here |-> file, there |-> device]
    /\ UNCHANGED <<file, device, asked>>

RoutineNext == Take \/ Parser \/ WebSave \/ Restore \/ StartAgain

RoutineSpec == RoutineInit /\ [][RoutineNext]_routineVars
-----------------------------------------------------------------------------
(* What a routine has accepted is in config.txt, whatever the web thread   *)
(* saves, and is in force again after a death of the daemon: also a start  *)
(* of the video that was skipped because it was on already.  Only while a  *)
(* restoring waits for the end of the daemon may a request undo it.        *)
AcceptedIsSaved ==
    ~late /\ pc \notin {"save", "signal", "answer"} => file = accepted

(* A request that ended with an error has changed nothing, but for rules   *)
(* that could be set on one side only.                                     *)
RejectedChangesNothing ==
    pc = "idle" /\ flag = "err" =>
        /\ g_config = before.here
        /\ \A p \in There \ {"rules"} : device[p] = before.there[p]
        /\ device.rules # before.there.rules => req.cmd = "RULE_SET" /\ PasswdValidate(req.account)

(* A request that ended was answered once: no routine goes on after an     *)
(* error.  It was answered never exactly when its answer has no head, or   *)
(* when there was no memory for an answer with data, which only requests   *)
(* that read, of a known account, have.                                    *)
NoHead == req.cmd \in {"RTV_STR", "IP_RT_SET"} \/ (req.cmd = "IP_RT_GET" /\ flag = "err")
NoMemory == flag = "no_memory"
Reads == {"RULE_GET", "LOG_GET", "IP_GET", "HB_GET", "IP_RT_GET"}
AnsweredOnce ==
    pc = "idle" /\ req # NoRequest =>
        /\ answers = IF NoHead \/ NoMemory THEN 0 ELSE 1
        /\ NoMemory => req.cmd \in Reads /\ PasswdValidate(req.account)
=============================================================================
