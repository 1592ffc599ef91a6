------------------------------ MODULE MediaJobs ------------------------------
(***************************************************************************)
(* The in-memory state machine of media operations: class MediaOpsControl  *)
(* of services/media-ops/src/control.ts.  Ingress jobs, egress jobs and    *)
(* SIP calls share one life cycle; the three Maps and their random         *)
(* identifiers are one growing sequence of jobs and its positions.         *)
(*                                                                         *)
(* A module that EXTENDS this one decides who calls the operations and     *)
(* when.  Every operation is synchronous in the source; one that throws    *)
(* changes nothing and is a disabled action.                               *)
(*                                                                         *)
(* Left out: the environment (a constant part of every idempotency key and *)
(* of every path), the feature switches (constant once the process runs)   *)
(* and field validation.  An expiry date is data: an object "may expire"   *)
(* as soon as its job has one.                                             *)
(***************************************************************************)
EXTENDS Naturals, Sequences, FiniteSets

CONSTANTS
    Kinds,           \* a subset of "ingress", "egress", "call"
    Keys,            \* idempotency keys
    Bodies,          \* request bodies, told apart by their fingerprint
    NoBody,          \* no request with this key has been seen
    Limit,           \* maxActiveIngress and maxActiveEgress
    MaxJobs          \* bound on the number of jobs

ASSUME MediaAssumption ==
    /\ Kinds \subseteq {"ingress", "egress", "call"}
    /\ NoBody \notin Bodies
    /\ Limit \in [Kinds -> Nat]
    /\ MaxJobs \in Nat

VARIABLES
    jobs,            \* every job, in order of creation
    idem,            \* the job an idempotency key created, 0 when none
    asked,           \* the body that came with that key
    results          \* operationResults: <<operation, job, key>> carried out

mediaVars == <<jobs, idem, asked, results>>

-----------------------------------------------------------------------------
Terminal == {"completed", "failed", "cancelled"}
Counted == {"requested", "starting", "active"}
Status == Counted \cup {"draining"} \cup Terminal

STATUS_TRANSITIONS ==
    [s \in Status |->
        CASE s = "requested" -> {"starting", "failed", "cancelled"}
          [] s = "starting" -> {"active", "failed", "cancelled"}
          [] s = "active" -> {"draining", "completed", "failed", "cancelled"}
          [] s = "draining" -> Terminal
          [] OTHER -> {}]

\* provider: the provider's id is known.  identity: participantIdentity is
\* known.  object: objectUri and retentionExpiresAt are.
Job ==
    [kind : Kinds, status : Status, provider : BOOLEAN, identity : BOOLEAN,
     object : BOOLEAN, deleted : BOOLEAN]

Operations == {"transfer", "hangup"}

JobIds == DOMAIN jobs

MediaTypeOK ==
    /\ jobs \in Seq(Job)
    /\ idem \in [Kinds \X Keys -> {0} \cup JobIds]
    /\ asked \in [Kinds \X Keys -> Bodies \cup {NoBody}]
    /\ results \subseteq Operations \X JobIds \X Keys
    /\ \A k \in Kinds, key \in Keys : idem[<<k, key>>] # 0 => jobs[idem[<<k, key>>]].kind = k

MediaInit ==
    /\ jobs = << >>
    /\ idem = [s \in Kinds \X Keys |-> 0]
    /\ asked = [s \in Kinds \X Keys |-> NoBody]
    /\ results = {}

-----------------------------------------------------------------------------
Active(k) == {r \in JobIds : jobs[r].kind = k /\ jobs[r].status \in Counted}

\* Mutation: jobs just requested do not count.
WithinLimitStarted(k) ==
    k = "call" \/ Cardinality({r \in Active(k) : jobs[r].status # "requested"}) < Limit[k]

\* enforceActiveLimit(); SIP calls have no limit.
WithinLimit(k) == k = "call" \/ Cardinality(Active(k)) < Limit[k]

CanMove(r, status) == status \in STATUS_TRANSITIONS[jobs[r].status]

\* Mutation: a key whose job failed may create another one.
CreateAfterFailure(k, key, body, identity) ==
    /\ idem[<<k, key>>] # 0 => jobs[idem[<<k, key>>]].status = "failed"
    /\ WithinLimit(k)
    /\ Len(jobs) < MaxJobs
    /\ jobs' = Append(jobs, [kind |-> k, status |-> "requested", provider |-> FALSE,
                             identity |-> identity, object |-> FALSE, deleted |-> FALSE])
    /\ idem' = [idem EXCEPT ![<<k, key>>] = Len(jobs) + 1]
    /\ asked' = [asked EXCEPT ![<<k, key>>] = body]
    /\ UNCHANGED results

\* createIngress(), createEgress(), requestSipCall() with a key not seen yet.
CreateJob(k, key, body, identity) ==
    /\ idem[<<k, key>>] = 0
    /\ WithinLimit(k)
    /\ Len(jobs) < MaxJobs
    /\ jobs' = Append(jobs, [kind |-> k, status |-> "requested", provider |-> FALSE,
                             identity |-> identity, object |-> FALSE, deleted |-> FALSE])
    /\ idem' = [idem EXCEPT ![<<k, key>>] = Len(jobs) + 1]
    /\ asked' = [asked EXCEPT ![<<k, key>>] = body]
    /\ UNCHANGED results

\* The same functions with a key seen before and the same body: they return
\* the job as it was created, whatever has become of it.
IsRepeat(k, key, body) == idem[<<k, key>>] # 0 /\ asked[<<k, key>>] = body

\* activateIngress(), activateEgress(), activateSipCall(): only from
\* "requested".  setSipParticipantIdentity() comes before.
Activate(r, object, identity) ==
    /\ jobs[r].status = "requested"
    /\ jobs' = [jobs EXCEPT ![r].status = "active", ![r].provider = TRUE,
                            ![r].object = object, ![r].identity = @ \/ identity]
    /\ UNCHANGED <<idem, asked, results>>

\* fail() after setSipParticipantIdentity(); it throws in an end state, when
\* the identity has been recorded already.
Fail(r, identity) ==
    /\ jobs' = [jobs EXCEPT
            ![r].status = IF CanMove(r, "failed") THEN "failed" ELSE @,
            ![r].identity = @ \/ identity]
    /\ UNCHANGED <<idem, asked, results>>

\* Mutation: an identifier is not asked for when a callback activates a job.
ApplyWithoutId(r, status, withId, withObject) ==
    /\ status = jobs[r].status \/ CanMove(r, status)
    /\ jobs' = [jobs EXCEPT
            ![r].status = status,
            ![r].provider = @ \/ withId,
            ![r].object = @ \/ (withObject /\ jobs[r].kind = "egress")]
    /\ UNCHANGED <<idem, asked, results>>

\* Mutation: a callback sets any status.
ApplyAnyStatus(r, status, withId, withObject) ==
    /\ status \in {"starting", "active"} => withId \/ jobs[r].provider
    /\ jobs' = [jobs EXCEPT
            ![r].status = status,
            ![r].provider = @ \/ withId,
            ![r].object = @ \/ (withObject /\ jobs[r].kind = "egress")]
    /\ UNCHANGED <<idem, asked, results>>

\* applyProviderStatus(): a repeated status is accepted and may still add an
\* id or an object, in an end state too.
ApplyProviderStatus(r, status, withId, withObject) ==
    /\ status \in {"starting", "active"} => withId \/ jobs[r].provider
    /\ status = jobs[r].status \/ CanMove(r, status)
    /\ jobs' = [jobs EXCEPT
            ![r].status = status,
            ![r].provider = @ \/ withId,
            ![r].object = @ \/ (withObject /\ jobs[r].kind = "egress")]
    /\ UNCHANGED <<idem, asked, results>>

\* The result of a transfer is the call as it is then; a hang-up completes
\* the call unless it is completed already (completeSipCall()).
SaveTransfer(r, key) ==
    /\ results' = results \cup {<<"transfer", r, key>>}
    /\ UNCHANGED <<jobs, idem, asked>>

SaveHangup(r, key) ==
    /\ jobs[r].status = "completed" \/ CanMove(r, "completed")
    /\ jobs' = [jobs EXCEPT ![r].status = "completed"]
    /\ results' = results \cup {<<"hangup", r, key>>}
    /\ UNCHANGED <<idem, asked>>

\* Mutation: objects deleted already are listed again.
ExpiredAgain(r) == jobs[r].object /\ jobs[r].status \in Terminal

\* listExpiredEgress(): ended, with an object, not deleted.
Expired(r) == jobs[r].object /\ ~jobs[r].deleted /\ jobs[r].status \in Terminal

\* markEgressDeleted(): a second mark changes nothing.
MarkDeleted(r) ==
    /\ jobs[r].object
    /\ jobs[r].deleted \/ jobs[r].status \in Terminal
    /\ jobs' = [jobs EXCEPT ![r].deleted = TRUE]
    /\ UNCHANGED <<idem, asked, results>>

-----------------------------------------------------------------------------
(* Properties of the jobs, whoever calls the operations. *)

\* A job that has been activated knows its task at the provider, whichever of
\* the create call and the callbacks came first (control.ts:349).
ActiveHasProvider ==
    \A r \in JobIds : jobs[r].status \in {"starting", "active", "draining", "completed"}
                          => jobs[r].provider

\* Creates, failures and callbacks in any order never bring the jobs of one
\* kind above the limit (control.ts:407-411).
LimitHolds ==
    \A k \in Kinds \ {"call"} : Cardinality(Active(k)) <= Limit[k]

=============================================================================
