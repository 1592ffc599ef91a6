---------------------------- MODULE AgentControl ----------------------------
(***************************************************************************)
(* The in-memory state machine of the agent control plane:                 *)
(* class AgentControlPlane of services/agent-control/src/controller.ts.    *)
(*                                                                         *)
(* The class keeps JavaScript Maps keyed by random identifiers.  A Map     *)
(* iterates in insertion order, and two operations depend on that order    *)
(* (the first matching rule, the first matching deployment, ties between   *)
(* equal deadlines), so a Map that only grows is a sequence here and the   *)
(* identifier of an entry is its position.  Every operation is synchronous *)
(* in the source: one call is one step.  A call that throws changes        *)
(* nothing and is not a step.                                              *)
(*                                                                         *)
(* Left out because no operation reads it: room names, trace ids, time     *)
(* stamps, capabilities, tool policies, deployment generations, replica    *)
(* counts beyond "observed equals desired", and the worker status, whose   *)
(* only value the code ever assigns is "ready".  No code assigns "failed"  *)
(* to a deployment or "starting" and "draining" to a dispatch.             *)
(***************************************************************************)
EXTENDS Naturals, Sequences, FiniteSets

CONSTANTS
    Workers,         \* worker identifiers
    Envs,            \* environments
    Artifacts,       \* agent images whose signature the verifier accepts
    Triggers,        \* kinds of rule trigger
    Caps,            \* values of maxConcurrent a rule may have
    None,            \* the environment of a worker that has not registered
    Horizon,         \* bound on the clock
    MaxDeployments, MaxRules, MaxDispatches   \* bounds on the Maps

ASSUME ControlAssumption ==
    /\ None \notin Envs
    /\ Caps \subseteq Nat \ {0}
    /\ Horizon \in Nat
    /\ MaxDeployments \in Nat
    /\ MaxRules \in Nat
    /\ MaxDispatches \in Nat

VARIABLES
    now,             \* the clock
    artifacts,       \* registered artifacts
    deployments,     \* sequence of deployments
    rules,           \* sequence of dispatch rules
    dispatches,      \* sequence of dispatches
    workerEnv,       \* environmentId of each registered worker
    active,          \* activeDispatchIds of each worker
    triggered        \* history: the dispatches that triggerDispatch created

controlVars ==
    <<now, artifacts, deployments, rules, dispatches, workerEnv, active, triggered>>

-----------------------------------------------------------------------------
DeploymentStatus == {"canary", "active", "rolled_back"}
DispatchStatus == {"queued", "running", "completed", "failed", "cancelled"}
Terminal == {"completed", "failed", "cancelled"}

Times == 0 .. Horizon

Deployment ==
    [env : Envs, artifact : Artifacts, status : DeploymentStatus]
Rule ==
    [env : Envs, trigger : Triggers, artifact : Artifacts, cap : Caps, enabled : BOOLEAN]
Dispatch ==
    [env : Envs, deployment : Nat \ {0}, deadline : Times, status : DispatchStatus]

DispatchIds == DOMAIN dispatches

\* The type of every variable; an identifier never dangles.
TypeOK ==
    /\ now \in Times
    /\ artifacts \subseteq Artifacts
    /\ deployments \in Seq(Deployment)
    /\ rules \in Seq(Rule)
    /\ dispatches \in Seq(Dispatch)
    /\ \A d \in DispatchIds : dispatches[d].deployment \in DOMAIN deployments
    /\ workerEnv \in [Workers -> Envs \cup {None}]
    /\ active \in [Workers -> SUBSET DispatchIds]
    /\ triggered \subseteq DispatchIds

ControlInit ==
    /\ now = 0
    /\ artifacts = {}
    /\ deployments = << >>
    /\ rules = << >>
    /\ dispatches = << >>
    /\ workerEnv = [w \in Workers |-> None]
    /\ active = [w \in Workers |-> {}]
    /\ triggered = {}

-----------------------------------------------------------------------------
(* Reading the Maps. *)

Elapsed(d) == dispatches[d].deadline <= now

Queued(e) ==
    {d \in DispatchIds : dispatches[d].env = e /\ dispatches[d].status = "queued"}

\* Mutation: the queue is served in insertion order.
BeforeByInsertion(c, d) == c < d

\* The order in which claimNextDispatch visits the queue: by deadline, and
\* by insertion when deadlines are equal (Array.prototype.sort is stable).
Before(c, d) ==
    \/ dispatches[c].deadline < dispatches[d].deadline
    \/ dispatches[c].deadline = dispatches[d].deadline /\ c < d

IsFirst(d, S) == d \in S /\ \A c \in S \ {d} : Before(d, c)

ActiveOn(i) ==
    {d \in DispatchIds : /\ dispatches[d].deployment = i
                         /\ dispatches[d].status \in {"queued", "running"}}

Matches(r, e, t) == rules[r].env = e /\ rules[r].trigger = t /\ rules[r].enabled

\* The rule and the deployment that triggerDispatch picks: the first ones in
\* insertion order.
FirstRule(r, e, t) ==
    /\ r \in DOMAIN rules /\ Matches(r, e, t)
    /\ \A q \in 1 .. (r - 1) : ~Matches(q, e, t)

Serves(i, e, a) ==
    /\ deployments[i].env = e
    /\ deployments[i].artifact = a
    /\ deployments[i].status \in {"canary", "active"}

FirstDeployment(i, e, a) ==
    /\ i \in DOMAIN deployments /\ Serves(i, e, a)
    /\ \A j \in 1 .. (i - 1) : ~Serves(j, e, a)

\* The ownership check that complete, fail and a worker's cancel share.
Owns(w, d) ==
    /\ workerEnv[w] # None
    /\ d \in DispatchIds
    /\ dispatches[d].env = workerEnv[w]
    /\ d \in active[w]

SetStatus(d, status) == dispatches' = [dispatches EXCEPT ![d].status = status]

-----------------------------------------------------------------------------
(* Artifacts, deployments and rules. *)

RegisterArtifact(a) ==
    /\ a \notin artifacts
    /\ artifacts' = artifacts \cup {a}
    /\ UNCHANGED <<now, deployments, rules, dispatches, workerEnv, active, triggered>>

\* full: the caller asked for a canary of 100 percent.
Deploy(e, a, full) ==
    /\ a \in artifacts
    /\ Len(deployments) < MaxDeployments
    /\ deployments' = Append(deployments,
            [env |-> e, artifact |-> a, status |-> IF full THEN "active" ELSE "canary"])
    /\ UNCHANGED <<now, artifacts, rules, dispatches, workerEnv, active, triggered>>

\* The observed replica count reported is the desired one.  Any other count
\* leaves the status as it is.
Reconcile(i) ==
    /\ i \in DOMAIN deployments
    /\ deployments' = [deployments EXCEPT ![i].status = "active"]
    /\ UNCHANGED <<now, artifacts, rules, dispatches, workerEnv, active, triggered>>

Rollback(i) ==
    /\ i \in DOMAIN deployments
    /\ deployments' = [deployments EXCEPT ![i].status = "rolled_back"]
    /\ UNCHANGED <<now, artifacts, rules, dispatches, workerEnv, active, triggered>>

RegisterRule(e, t, a, cap, enabled) ==
    /\ a \in artifacts
    /\ Len(rules) < MaxRules
    /\ rules' = Append(rules, [env |-> e, trigger |-> t, artifact |-> a,
                               cap |-> cap, enabled |-> enabled])
    /\ UNCHANGED <<now, artifacts, deployments, dispatches, workerEnv, active, triggered>>

-----------------------------------------------------------------------------
(* Creating dispatches. *)

\* dispatch(): an administrator names the deployment; no concurrency limit.
Enqueue(i, deadline) ==
    /\ i \in DOMAIN deployments
    /\ deployments[i].status # "rolled_back"
    /\ deadline > now
    /\ Len(dispatches) < MaxDispatches
    /\ dispatches' = Append(dispatches,
            [env |-> deployments[i].env, deployment |-> i,
             deadline |-> deadline, status |-> "queued"])
    /\ UNCHANGED <<now, artifacts, deployments, rules, workerEnv, active>>

CreateDispatch(i, deadline) ==
    /\ Enqueue(i, deadline)
    /\ UNCHANGED triggered

\* Mutation: only queued dispatches count against the limit.
TriggerCountsQueued(e, t, deadline) ==
    \E r \in DOMAIN rules, i \in DOMAIN deployments :
        /\ FirstRule(r, e, t)
        /\ FirstDeployment(i, e, rules[r].artifact)
        /\ Cardinality({d \in ActiveOn(i) : dispatches[d].status = "queued"}) < rules[r].cap
        /\ Enqueue(i, deadline)
        /\ triggered' = triggered \cup {Len(dispatches) + 1}

\* triggerDispatch(): an event picks the rule, the rule the deployment.  The
\* default deadline (now + timeoutMs) is one of the deadlines a caller may give.
TriggerDispatch(e, t, deadline) ==
    \E r \in DOMAIN rules, i \in DOMAIN deployments :
        /\ FirstRule(r, e, t)
        /\ FirstDeployment(i, e, rules[r].artifact)
        /\ Cardinality(ActiveOn(i)) < rules[r].cap
        /\ Enqueue(i, deadline)
        /\ triggered' = triggered \cup {Len(dispatches) + 1}

-----------------------------------------------------------------------------
(* Workers. *)

\* Mutation: a registration may move a worker to another environment.
RegisterAnywhere(w, e) ==
    /\ workerEnv' = [workerEnv EXCEPT ![w] = e]
    /\ UNCHANGED <<now, artifacts, deployments, rules, dispatches, active, triggered>>

RegisterWorker(w, e) ==
    /\ workerEnv[w] \in {None, e}
    /\ workerEnv' = [workerEnv EXCEPT ![w] = e]
    /\ UNCHANGED <<now, artifacts, deployments, rules, dispatches, active, triggered>>

\* Mutation: a heartbeat checks only the environment of what it lists.
ReportableAnyStatus(w, d) == d \in DispatchIds /\ dispatches[d].env = workerEnv[w]

\* The list a heartbeat carries replaces the stored one.  Each entry must be
\* a running dispatch of the worker's environment; nothing asks whose it is.
Reportable(w, d) ==
    d \in DispatchIds /\ dispatches[d].env = workerEnv[w] /\ dispatches[d].status = "running"

CanHeartbeat(w, ids) == workerEnv[w] # None /\ \A d \in ids : Reportable(w, d)

Heartbeat(w, ids) ==
    /\ CanHeartbeat(w, ids)
    /\ active' = [active EXCEPT ![w] = ids]
    /\ UNCHANGED <<now, artifacts, deployments, rules, dispatches, workerEnv, triggered>>

CanStart(w, d) ==
    /\ workerEnv[w] # None
    /\ d \in Queued(workerEnv[w])
    /\ ~Elapsed(d)

StartDispatch(w, d) ==
    /\ CanStart(w, d)
    /\ SetStatus(d, "running")
    /\ active' = [active EXCEPT ![w] = @ \cup {d}]
    /\ UNCHANGED <<now, artifacts, deployments, rules, workerEnv, triggered>>

\* Mutation: the sweep is forgotten when nothing is left to claim.
ClaimNothingUnswept(w) ==
    /\ workerEnv[w] # None
    /\ {d \in Queued(workerEnv[w]) : ~Elapsed(d)} = {}
    /\ UNCHANGED controlVars

\* claimNextDispatch(): the elapsed ones it meets on the way fail.
Swept(e) == {d \in Queued(e) : Elapsed(d)}
Claimable(e) == Queued(e) \ Swept(e)

\* Mutation: the claimed dispatch stays in the queue.
ClaimKeepsQueued(w, d) ==
    /\ workerEnv[w] # None
    /\ IsFirst(d, Claimable(workerEnv[w]))
    /\ dispatches' = [c \in DispatchIds |->
            IF c \in Swept(workerEnv[w]) THEN [dispatches[c] EXCEPT !.status = "failed"]
            ELSE dispatches[c]]
    /\ active' = [active EXCEPT ![w] = @ \cup {d}]
    /\ UNCHANGED <<now, artifacts, deployments, rules, workerEnv, triggered>>

ClaimNext(w, d) ==
    /\ workerEnv[w] # None
    /\ IsFirst(d, Claimable(workerEnv[w]))
    /\ dispatches' = [c \in DispatchIds |->
            IF c = d THEN [dispatches[c] EXCEPT !.status = "running"]
            ELSE IF c \in Swept(workerEnv[w]) THEN [dispatches[c] EXCEPT !.status = "failed"]
            ELSE dispatches[c]]
    /\ active' = [active EXCEPT ![w] = @ \cup {d}]
    /\ UNCHANGED <<now, artifacts, deployments, rules, workerEnv, triggered>>

ClaimNothing(w) ==
    /\ workerEnv[w] # None
    /\ Claimable(workerEnv[w]) = {}
    /\ dispatches' = [c \in DispatchIds |->
            IF c \in Swept(workerEnv[w]) THEN [dispatches[c] EXCEPT !.status = "failed"]
            ELSE dispatches[c]]
    /\ UNCHANGED <<now, artifacts, deployments, rules, workerEnv, active, triggered>>

\* finishDispatch(): completeDispatch and failDispatch.
CanFinish(w, d) == Owns(w, d) /\ dispatches[d].status = "running"

FinishDispatch(w, d, status) ==
    /\ CanFinish(w, d)
    /\ SetStatus(d, status)
    /\ active' = [active EXCEPT ![w] = @ \ {d}]
    /\ UNCHANGED <<now, artifacts, deployments, rules, workerEnv, triggered>>

\* Mutation: a cancel leaves the workers' lists alone.
CancelKeepsOwner(d) ==
    /\ d \in DispatchIds
    /\ dispatches[d].status \notin Terminal
    /\ SetStatus(d, "cancelled")
    /\ UNCHANGED <<now, artifacts, deployments, rules, workerEnv, active, triggered>>

\* Mutation: a dispatch that has ended can still be cancelled.
CancelEnded(d) ==
    /\ d \in DispatchIds
    /\ SetStatus(d, "cancelled")
    /\ active' = [w \in Workers |-> active[w] \ {d}]
    /\ UNCHANGED <<now, artifacts, deployments, rules, workerEnv, triggered>>

\* cancelDispatch(): by an administrator, or by the worker that owns it.  It
\* leaves the list of every worker.
Cancel(d) ==
    /\ d \in DispatchIds
    /\ dispatches[d].status \notin Terminal
    /\ SetStatus(d, "cancelled")
    /\ active' = [w \in Workers |-> active[w] \ {d}]
    /\ UNCHANGED <<now, artifacts, deployments, rules, workerEnv, triggered>>

WorkerCancel(w, d) == Owns(w, d) /\ Cancel(d)

Tick ==
    /\ now < Horizon
    /\ now' = now + 1
    /\ UNCHANGED <<artifacts, deployments, rules, dispatches, workerEnv, active, triggered>>

-----------------------------------------------------------------------------
AdminStep ==
    \/ \E a \in Artifacts : RegisterArtifact(a)
    \/ \E e \in Envs, a \in Artifacts, full \in BOOLEAN : Deploy(e, a, full)
    \/ \E i \in DOMAIN deployments : Reconcile(i) \/ Rollback(i)
    \/ \E e \in Envs, t \in Triggers, a \in Artifacts, cap \in Caps, enabled \in BOOLEAN :
            RegisterRule(e, t, a, cap, enabled)
    \/ \E i \in DOMAIN deployments, deadline \in Times : CreateDispatch(i, deadline)
    \/ \E e \in Envs, t \in Triggers, deadline \in Times : TriggerDispatch(e, t, deadline)
    \/ \E d \in DispatchIds : Cancel(d)

WorkerStep(w) ==
    \/ \E e \in Envs : RegisterWorker(w, e)
    \/ \E ids \in SUBSET DispatchIds : Heartbeat(w, ids)
    \/ \E d \in DispatchIds : StartDispatch(w, d)
    \/ \E d \in DispatchIds : ClaimNext(w, d)
    \/ ClaimNothing(w)
    \/ \E d \in DispatchIds, status \in {"completed", "failed"} : FinishDispatch(w, d, status)
    \/ \E d \in DispatchIds : WorkerCancel(w, d)

ControlNext == Tick \/ AdminStep \/ \E w \in Workers : WorkerStep(w)

ControlSpec == ControlInit /\ [][ControlNext]_controlVars

-----------------------------------------------------------------------------
(* Properties. *)

\* Whatever a worker is listed with runs, or ran, in the worker's own
\* environment: registration, start, claim and heartbeat all keep tenants of
\* different environments apart (controller.ts:222, :239, :297, :324).
OwnersShareEnvironment ==
    \A w \in Workers : \A d \in active[w] : dispatches[d].env = workerEnv[w]

\* A dispatch still in the queue is in no worker's list, so a claim never
\* hands out work that somebody already holds (controller.ts:239, :296).
QueuedHasNoOwner ==
    \A w \in Workers : \A d \in active[w] : dispatches[d].status # "queued"

\* An administrator's cancel takes the dispatch from every worker for good:
\* no late heartbeat, claim or finish brings it back (controller.ts:207-210).
CancelledHasNoOwner ==
    \A w \in Workers : \A d \in active[w] : dispatches[d].status # "cancelled"

\* What the lists of the workers say is true of the dispatches, through every
\* order of registrations, heartbeats, claims and cancels (controller.ts:197-263).
Ownership ==
    /\ TypeOK
    /\ OwnersShareEnvironment
    /\ QueuedHasNoOwner
    /\ CancelledHasNoOwner

\* No event-driven burst exceeds the limit of the rules: among the dispatches
\* that rules created and that have not ended, each deployment has at most the
\* largest maxConcurrent of the rules for its environment and artifact,
\* however starts, claims, cancels and rule changes interleave (line 284-285).
RuleCapHolds ==
    \A i \in DOMAIN deployments :
        ActiveOn(i) \cap triggered # {} =>
            \E r \in DOMAIN rules :
                /\ rules[r].env = deployments[i].env
                /\ rules[r].artifact = deployments[i].artifact
                /\ Cardinality(ActiveOn(i) \cap triggered) <= rules[r].cap

DispatchMoves(d) ==
    LET was == dispatches[d].status
        is == dispatches'[d].status
    IN  was # is =>
            \/ was = "queued" /\ is = "running" /\ ~Elapsed(d)
            \/ was = "queued" /\ is = "failed" /\ Elapsed(d)
            \/ is = "cancelled" /\ was \in {"queued", "running"}
            \/ was = "running" /\ is \in {"completed", "failed"}

\* A dispatch only moves queued -> running -> end or queued -> failed or
\* cancelled, it never leaves an end state, and it enters "running" and
\* "failed from the queue" on the right side of its deadline
\* (controller.ts:201, :256, :298, :323).
DispatchLifecycle == [][\A d \in DispatchIds : DispatchMoves(d)]_controlVars

\* After a claim nothing overdue is left in that environment's queue, and what
\* is left was not due before what was handed out (controller.ts:252-261).
ClaimServesTheEarliest ==
    [][\A w \in Workers, d \in DispatchIds :
        ClaimNext(w, d) =>
            \A c \in DispatchIds :
                dispatches'[c].env = workerEnv[w] /\ dispatches'[c].status = "queued" =>
                    ~Elapsed(c) /\ dispatches[d].deadline <= dispatches[c].deadline]_controlVars

=============================================================================
