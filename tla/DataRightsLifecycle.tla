------------------------ MODULE DataRightsLifecycle ------------------------
(***************************************************************************)
(* What services/data-rights promises about each request of a data         *)
(* subject: it is received, processed and ended in this order, it has one  *)
(* end, and whatever work is done for it is begun once, after its          *)
(* processing began.                                                       *)
(***************************************************************************)
CONSTANT DataRequests

VARIABLES
    status,          \* of each request; "none" before it is submitted
    begun            \* requests for which the work was begun

lifecycleVars == <<status, begun>>

Ended == {"completed", "rejected"}

Init ==
    /\ status = [i \in DataRequests |-> "none"]
    /\ begun = {}

Move(i, from, to) ==
    /\ status[i] \in from
    /\ status' = [status EXCEPT ![i] = to]

Submitted(i) == Move(i, {"none"}, "received") /\ UNCHANGED begun
Processed(i) == Move(i, {"received"}, "processing") /\ begun' \in {begun, begun \cup {i}}
WorkBegins(i) ==
    /\ status[i] \notin {"none", "received"} /\ i \notin begun
    /\ begun' = begun \cup {i} /\ UNCHANGED status
Completed(i) == Move(i, {"processing"}, "completed") /\ UNCHANGED begun
Rejected(i) == Move(i, {"received", "processing"}, "rejected") /\ UNCHANGED begun

Next == \E i \in DataRequests :
    Submitted(i) \/ Processed(i) \/ WorkBegins(i) \/ Completed(i) \/ Rejected(i)

Spec == Init /\ [][Next]_lifecycleVars
=============================================================================
