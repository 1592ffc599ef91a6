------------------------------- MODULE Outbox -------------------------------
(***************************************************************************)
(* What the outbox of the platform API promises, without publishers,       *)
(* claims or retries: an event is written once, reaches destinations any   *)
(* number of times, and becomes published only when every destination that *)
(* subscribes to it has received it.  A dead letter may come back, and may *)
(* still be published; a published event is published for ever.            *)
(***************************************************************************)
CONSTANTS
    Events,
    Destinations,
    Subscribed       \* Subscribed[e]: the destinations that receive event e

VARIABLES
    status,          \* of each event's row
    received         \* the destinations that have received each event

vars == <<status, received>>

Statuses == {"none", "pending", "dead", "published"}

Init ==
    /\ status = [e \in Events |-> "none"]
    /\ received = [e \in Events |-> {}]

Move(e, from, to) ==
    /\ status[e] \in from
    /\ status' = [status EXCEPT ![e] = to]
    /\ UNCHANGED received

\* The row is inserted with the audit row, in one transaction.
Emit(e) == Move(e, {"none"}, "pending")

\* A destination receives the event, perhaps once more.
Receive(e, d) ==
    /\ d \in Subscribed[e]
    /\ status[e] # "none"
    /\ received' = [received EXCEPT ![e] = @ \cup {d}]
    /\ UNCHANGED status

\* Every destination has it.
Publish(e) ==
    /\ Subscribed[e] \subseteq received[e]
    /\ Move(e, {"pending", "dead"}, "published")

Bury(e) == Move(e, {"pending"}, "dead")

Revive(e) == Move(e, {"dead"}, "pending")

Next ==
    \E e \in Events :
        \/ Emit(e) \/ Publish(e) \/ Bury(e) \/ Revive(e)
        \/ \E d \in Destinations : Receive(e, d)

Spec == Init /\ [][Next]_vars

\* At least once: every destination of a published event has received it
\* (publishBatch marks an event only after its last destination).
AtLeastOnce ==
    \A e \in Events : status[e] = "published" => Subscribed[e] \subseteq received[e]
=============================================================================
