---------------------------- MODULE MCCgiChannel ----------------------------
(* CgiChannel for TLC, with one request for every action of a handler.      *)
EXTENDS CgiChannel

Plain(page) == [page |-> page, send_rev |-> 0, data |-> 0]

KindsOfRequests ==
  {[page |-> "detect_action", send_rev |-> 0, data |-> 1],
   Plain("login_action"), Plain("advc"), Plain("restore"), Plain("photo"),
   [page |-> "sdcrtl", send_rev |-> 0, data |-> 3]}

(* Every page once, and every operation on the card.                       *)
AllRequests == {r \in Requests : r.data \in {0, 1} \/ r.page = "sdcrtl"}
=============================================================================
