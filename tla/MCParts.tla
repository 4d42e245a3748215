------------------------------ MODULE MCParts -------------------------------
(* Parts of the IP-camera daemon that share nothing: the reading of XML,   *)
(* the routines of requests, the camera, the link to the access server.    *)
(* A behaviour exercises one of them.                                      *)
EXTENDS XmlStruct, RequestHandlers, VideoCapture

CONSTANT MaxSockets

VARIABLES
    part,           \* the one that runs
    link, g_vs_sock, th, receivers, sockets, alive, server, address

Access == INSTANCE AccessLink

linkVars == <<link, g_vs_sock, th, receivers, sockets, alive, server, address>>
partVars == <<part, vars, routineVars, cameraVars, linkVars>>

(* The test's structure, and a request of each shape.                      *)
SomeRoots == {"test_xml", "s_passwd_set_req", "s_hb_set_req"}

MCInit ==
    /\ part \in {"xml", "handlers", "video", "link"}
    /\ Init /\ RoutineInit /\ CameraInit /\ Access!Init
    /\ part # "xml" => root = "s_hb_set_req" /\ written = <<>>
    /\ part # "video" => sizeothers = {} /\ palettes = {} /\ size = 0 /\ formatIn = "jpeg" /\ grabMethod = "mmap"
    /\ part # "link" => server /\ address

Document == part = "xml" /\ Next
Request == part = "handlers" /\ RoutineNext
Camera == part = "video" /\ CameraNext
Link == part = "link" /\ Access!Next

MCNext ==
    /\ UNCHANGED part
    /\ \/ Document /\ UNCHANGED routineVars /\ UNCHANGED cameraVars /\ UNCHANGED linkVars
       \/ Request /\ UNCHANGED vars /\ UNCHANGED cameraVars /\ UNCHANGED linkVars
       \/ Camera /\ UNCHANGED vars /\ UNCHANGED routineVars /\ UNCHANGED linkVars
       \/ Link /\ UNCHANGED vars /\ UNCHANGED routineVars /\ UNCHANGED cameraVars

(* Access!Fairness, for behaviours that exercise the link.                 *)
InLink(A) == part = "link" /\ A /\ UNCHANGED <<part, vars, routineVars, cameraVars>>
MCSpec ==
    /\ MCInit /\ [][MCNext]_partVars
    /\ WF_partVars(InLink(Access!ReconnectThread))
    /\ \A f \in 1..MaxSockets : WF_partVars(InLink(Access!ReceiveEnd(f)))

(* The property of the link.                                               *)
Reconnects == part = "link" => Access!Reconnects
=============================================================================
