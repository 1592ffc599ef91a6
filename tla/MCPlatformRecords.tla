------------------------- MODULE MCPlatformRecords --------------------------
(***************************************************************************)
(* Two things that the replicas of services/platform-api take through      *)
(* their states in Postgres, each by itself the implementation of an       *)
(* abstract specification, for TLC: the events of the outbox and the       *)
(* requests of data subjects.  They share no state; TLC looks at one at a  *)
(* time, the subject, while the other rests.                               *)
(***************************************************************************)
EXTENDS OutboxDelivery, DataRights

VARIABLE subject     \* never changes

Subjects == {"outbox", "rights"}

recordsVars == <<vars, rightsVars, subject>>

\* The first event has every destination, the others have none.
FirstToAll == [e \in Events |-> IF e = 1 THEN Destinations ELSE {}]

RecordsInit ==
    /\ Init /\ DataRightsInit
    /\ subject \in Subjects
    /\ subject # "rights" => inPostgres

OutboxMoves == subject = "outbox" /\ Next /\ UNCHANGED <<rightsVars, subject>>
RightsMove == subject = "rights" /\ DataRightsNext /\ UNCHANGED <<vars, subject>>

RecordsNext == OutboxMoves \/ RightsMove

-----------------------------------------------------------------------------
InOutbox == subject = "outbox"

\* Some publisher goes on as long as one can, some backoff ends, and of all
\* claims, and of all outcomes, the store does not refuse each and every one.
\* Nothing is assumed of the requests of data subjects.
Fairness ==
    /\ WF_vars(InOutbox /\ \E p \in Publishers : PublisherStep(p))
    /\ WF_vars(InOutbox /\ \E e \in Events : BackoffEnds(e))
    /\ SF_vars(InOutbox /\ \E p \in Publishers : CommitClaim(p))
    /\ SF_vars(InOutbox /\ \E p \in Publishers : Settle(p))

RecordsSpec == RecordsInit /\ [][RecordsNext]_recordsVars /\ Fairness
=============================================================================
