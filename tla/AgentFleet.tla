----------------------------- MODULE AgentFleet -----------------------------
(***************************************************************************)
(* Node workers against the agent control plane: the claim - accept -      *)
(* complete/fail loop of services/agent-worker-node (dispatch-runner.ts,   *)
(* worker.ts, main.ts, control-client.ts) calling, over HTTP, the          *)
(* operations of AgentControl through services/agent-control/src/server.ts.*)
(*                                                                         *)
(* A worker's runner is one sequential loop; the heartbeat timer runs      *)
(* beside it and its request carries the list of jobs as it was when the   *)
(* timer fired.  A call may be lost, or its reply may be: the client then  *)
(* sees an error (a timeout, or the 400 the server sends when saving the   *)
(* snapshot fails) although the operation may have taken effect, and a     *)
(* claim the client gave up on may still arrive ("stray").                 *)
(*                                                                         *)
(* sendMutation (server.ts:61-64) applies the operation in memory, then    *)
(* saves a snapshot, then replies: a successful reply implies a saved      *)
(* snapshot, an operation whose save failed or was cut short leaves memory *)
(* ahead of the durable snapshot, and a restart falls back to the latter.  *)
(***************************************************************************)
EXTENDS AgentControl

CONSTANTS
    Lossy,           \* TRUE: calls, replies and saves may be lost
    Stops,           \* TRUE: workers may be told to shut down
    MaxCrashes,      \* bound on worker crashes
    MaxRestarts      \* bound on restarts of the control plane

ASSUME FleetAssumption ==
    /\ Lossy \in BOOLEAN
    /\ Stops \in BOOLEAN
    /\ MaxCrashes \in Nat
    /\ MaxRestarts \in Nat

VARIABLES
    phase,           \* life of each worker process
    pc,              \* where its runner is in runOnce
    job,             \* the dispatch the runner holds, 0 when none
    aborted,         \* the AbortSignal of the job has fired
    beat,            \* the list an undelivered heartbeat carries, or NoBeat
    stray,           \* workers with an abandoned claim still under way
    durable,         \* the saved snapshot
    succeeded,       \* history: dispatches whose handler returned normally
    restarts         \* how often the control plane has restarted

workerVars == <<phase, pc, job, aborted, beat, stray, succeeded>>
vars == <<controlVars, workerVars, durable, restarts>>

NoBeat == {0}

Phases == {"starting", "up", "stopping", "stopped", "crashed"}
Points == {"idle", "claiming", "claimed", "running", "completing", "failing"}

FleetTypeOK ==
    /\ TypeOK
    /\ phase \in [Workers -> Phases]
    /\ pc \in [Workers -> Points]
    /\ job \in [Workers -> {0} \cup 1 .. MaxDispatches]
    /\ aborted \in [Workers -> BOOLEAN]
    /\ beat \in [Workers -> {NoBeat} \cup SUBSET (1 .. MaxDispatches)]
    /\ stray \subseteq Workers
    /\ succeeded \subseteq 1 .. MaxDispatches
    /\ restarts \in 0 .. MaxRestarts

Live(w) == phase[w] \in {"starting", "up", "stopping"}

\* worker.activeDispatchIds(): the job is in the set while its handler runs.
LocalActive(w) == IF pc[w] = "running" THEN {job[w]} ELSE {}

-----------------------------------------------------------------------------
(* Snapshots. *)

Snapshot == [dispatches |-> dispatches, workerEnv |-> workerEnv, active |-> active]

Saved == durable' = [dispatches |-> dispatches', workerEnv |-> workerEnv', active |-> active']
MaySave == Saved \/ (Lossy /\ UNCHANGED durable)

\* One deployment is active and saved, no worker has registered.
FleetInit ==
    /\ now = 0
    /\ artifacts = Artifacts
    /\ \E e \in Envs, a \in Artifacts :
            deployments = <<[env |-> e, artifact |-> a, status |-> "active"]>>
    /\ rules = << >>
    /\ dispatches = << >>
    /\ workerEnv = [w \in Workers |-> None]
    /\ active = [w \in Workers |-> {}]
    /\ triggered = {}
    /\ phase = [w \in Workers |-> "starting"]
    /\ pc = [w \in Workers |-> "idle"]
    /\ job = [w \in Workers |-> 0]
    /\ aborted = [w \in Workers |-> FALSE]
    /\ beat = [w \in Workers |-> NoBeat]
    /\ stray = {}
    /\ durable = Snapshot
    /\ succeeded = {}
    /\ restarts = 0

-----------------------------------------------------------------------------
(* The administrator and the control process. *)

AdminCreates ==
    \E i \in DOMAIN deployments, deadline \in Times :
        CreateDispatch(i, deadline) /\ MaySave /\ UNCHANGED <<workerVars, restarts>>

AdminCancels ==
    \E d \in DispatchIds : Cancel(d) /\ MaySave /\ UNCHANGED <<workerVars, restarts>>

TimePasses == Tick /\ UNCHANGED <<workerVars, durable, restarts>>

\* The process dies and comes back: restore() replaces every Map.
ControlRestarts ==
    /\ restarts < MaxRestarts
    /\ restarts' = restarts + 1
    /\ dispatches' = durable.dispatches
    /\ workerEnv' = durable.workerEnv
    /\ active' = durable.active
    /\ triggered' = triggered \cap DOMAIN durable.dispatches
    /\ UNCHANGED <<now, artifacts, deployments, rules, workerVars, durable>>

-----------------------------------------------------------------------------
(* One worker.  Each step of the runner is the code between two awaits. *)

RunnerAt(w, from) == Live(w) /\ pc[w] = from

\* What the client of a call that failed sees, whatever the server did.
Denied == UNCHANGED <<controlVars, durable>>

\* main.ts:18-20: registration is attempted once; a failure is only logged.
Registers(w) ==
    /\ phase[w] = "starting"
    /\ phase' = [phase EXCEPT ![w] = "up"]
    /\ \/ \E i \in DOMAIN deployments : RegisterWorker(w, deployments[i].env) /\ MaySave
       \/ (Lossy /\ Denied)
    /\ UNCHANGED <<pc, job, aborted, beat, stray, succeeded, restarts>>

\* runOnce polls; the loop makes no new call once it is stopping.
SendsClaim(w) ==
    /\ phase[w] = "up" /\ pc[w] = "idle"
    /\ pc' = [pc EXCEPT ![w] = "claiming"]
    /\ UNCHANGED <<controlVars, phase, job, aborted, beat, stray, durable, succeeded, restarts>>

\* Mutation: the reply does not wait for the save.
AnsweredBeforeSave(w) ==
    /\ RunnerAt(w, "claiming")
    /\ \E d \in DispatchIds :
            /\ ClaimNext(w, d) /\ MaySave
            /\ pc' = [pc EXCEPT ![w] = "claimed"]
            /\ job' = [job EXCEPT ![w] = d]
    /\ UNCHANGED <<phase, aborted, beat, stray, succeeded, restarts>>

\* The claim reaches the control plane and the reply reaches the runner.
ClaimAnswered(w) ==
    /\ RunnerAt(w, "claiming")
    /\ \/ \E d \in DispatchIds :
            /\ ClaimNext(w, d) /\ Saved
            /\ pc' = [pc EXCEPT ![w] = "claimed"]
            /\ job' = [job EXCEPT ![w] = d]
       \/ /\ ClaimNothing(w) /\ Saved
          /\ pc' = [pc EXCEPT ![w] = "idle"]
          /\ UNCHANGED job
       \/ /\ workerEnv[w] = None /\ Denied
          /\ pc' = [pc EXCEPT ![w] = "idle"]
          /\ UNCHANGED job
    /\ UNCHANGED <<phase, aborted, beat, stray, succeeded, restarts>>

\* The runner sees an error and polls again later; the claim may still come.
ClaimGivenUp(w) ==
    /\ Lossy
    /\ RunnerAt(w, "claiming")
    /\ pc' = [pc EXCEPT ![w] = "idle"]
    /\ stray' \in {stray, stray \cup {w}}
    /\ UNCHANGED <<controlVars, phase, job, aborted, beat, durable, succeeded, restarts>>

StrayClaim(w) ==
    /\ w \in stray
    /\ stray' = stray \ {w}
    /\ (\E d \in DispatchIds : ClaimNext(w, d)) \/ ClaimNothing(w)
    /\ MaySave
    /\ UNCHANGED <<phase, pc, job, aborted, beat, succeeded, restarts>>

\* accept(): a claim that arrives after its deadline is refused.
Accepts(w) ==
    /\ RunnerAt(w, "claimed")
    /\ pc' = [pc EXCEPT ![w] = IF Elapsed(job[w])
                               THEN "failing" ELSE "running"]
    /\ aborted' = [aborted EXCEPT ![w] = FALSE]
    /\ UNCHANGED <<controlVars, phase, job, beat, stray, durable, succeeded, restarts>>

\* The timer that accept() sets: the only caller of abort() while a job runs,
\* for nothing calls AgentWorker.cancel before drain and drain finds no job.
DeadlineAborts(w) ==
    /\ RunnerAt(w, "running") /\ ~aborted[w]
    /\ Elapsed(job[w])
    /\ aborted' = [aborted EXCEPT ![w] = TRUE]
    /\ UNCHANGED <<controlVars, phase, pc, job, beat, stray, durable, succeeded, restarts>>

HandlerReturns(w) ==
    /\ RunnerAt(w, "running")
    /\ pc' = [pc EXCEPT ![w] = "completing"]
    /\ succeeded' = succeeded \cup {job[w]}
    /\ UNCHANGED <<controlVars, phase, job, aborted, beat, stray, durable, restarts>>

\* Mutation: an error of the handler is taken for a normal return.
ThrowSwallowed(w) ==
    /\ RunnerAt(w, "running")
    /\ pc' = [pc EXCEPT ![w] = "completing"]
    /\ UNCHANGED <<controlVars, phase, job, aborted, beat, stray, durable, succeeded, restarts>>

HandlerThrows(w) ==
    /\ RunnerAt(w, "running")
    /\ pc' = [pc EXCEPT ![w] = "failing"]
    /\ UNCHANGED <<controlVars, phase, job, aborted, beat, stray, durable, succeeded, restarts>>

\* complete(): any error, a lost reply included, falls into the catch that
\* calls fail().
Completes(w) ==
    /\ RunnerAt(w, "completing")
    /\ \/ /\ FinishDispatch(w, job[w], "completed") /\ Saved
          /\ pc' = [pc EXCEPT ![w] = "idle"]
          /\ job' = [job EXCEPT ![w] = 0]
       \/ /\ Lossy /\ FinishDispatch(w, job[w], "completed") /\ MaySave
          /\ pc' = [pc EXCEPT ![w] = "failing"]
          /\ UNCHANGED job
       \/ /\ Lossy \/ ~CanFinish(w, job[w])
          /\ Denied
          /\ pc' = [pc EXCEPT ![w] = "failing"]
          /\ UNCHANGED job
    /\ UNCHANGED <<phase, aborted, beat, stray, succeeded, restarts>>

\* fail(): its own failure is swallowed.
Fails(w) ==
    /\ RunnerAt(w, "failing")
    /\ pc' = [pc EXCEPT ![w] = "idle"]
    /\ job' = [job EXCEPT ![w] = 0]
    /\ \/ FinishDispatch(w, job[w], "failed") /\ MaySave
       \/ (Lossy \/ ~CanFinish(w, job[w])) /\ Denied
    /\ UNCHANGED <<phase, aborted, beat, stray, succeeded, restarts>>

\* The heartbeat timer reads the list now; the control plane sees it later.
SendsHeartbeat(w) ==
    /\ phase[w] = "up" /\ beat[w] = NoBeat
    /\ beat' = [beat EXCEPT ![w] = LocalActive(w)]
    /\ UNCHANGED <<controlVars, phase, pc, job, aborted, stray, durable, succeeded, restarts>>

HeartbeatArrives(w) ==
    /\ beat[w] # NoBeat
    /\ beat' = [beat EXCEPT ![w] = NoBeat]
    /\ \/ Heartbeat(w, beat[w]) /\ MaySave
       \/ (Lossy \/ ~CanHeartbeat(w, beat[w])) /\ Denied
    /\ UNCHANGED <<phase, pc, job, aborted, stray, succeeded, restarts>>

\* SIGTERM: the timer is cleared and the loop told to end; drain() starts only
\* when runOnce has returned, so it never finds a job to wait for.
ShutsDown(w) ==
    /\ Stops /\ phase[w] = "up"
    /\ phase' = [phase EXCEPT ![w] = "stopping"]
    /\ UNCHANGED <<controlVars, pc, job, aborted, beat, stray, durable, succeeded, restarts>>

Drains(w) ==
    /\ phase[w] = "stopping" /\ pc[w] = "idle"
    /\ phase' = [phase EXCEPT ![w] = "stopped"]
    /\ UNCHANGED <<controlVars, pc, job, aborted, beat, stray, durable, succeeded, restarts>>

\* The process dies; a claim under way may still arrive.  A new process has a
\* new random worker id, so this one is gone.
Crashes(w) ==
    /\ Live(w)
    /\ Cardinality({v \in Workers : phase[v] = "crashed"}) < MaxCrashes
    /\ phase' = [phase EXCEPT ![w] = "crashed"]
    /\ pc' = [pc EXCEPT ![w] = "idle"]
    /\ job' = [job EXCEPT ![w] = 0]
    /\ stray' = IF pc[w] = "claiming" THEN stray \cup {w} ELSE stray
    /\ UNCHANGED <<controlVars, aborted, beat, durable, succeeded, restarts>>

-----------------------------------------------------------------------------
RunnerStep(w) ==
    \/ Registers(w) \/ SendsClaim(w) \/ ClaimAnswered(w) \/ Accepts(w)
    \/ Completes(w) \/ Fails(w) \/ Drains(w)

HandlerStep(w) == HandlerReturns(w) \/ HandlerThrows(w)

FleetNext ==
    \/ AdminCreates \/ AdminCancels \/ TimePasses \/ ControlRestarts
    \/ \E w \in Workers :
        \/ RunnerStep(w) \/ HandlerStep(w) \/ DeadlineAborts(w)
        \/ ClaimGivenUp(w) \/ StrayClaim(w)
        \/ SendsHeartbeat(w) \/ HeartbeatArrives(w)
        \/ ShutsDown(w) \/ Crashes(w)

FleetSpec == FleetInit /\ [][FleetNext]_vars

-----------------------------------------------------------------------------
(* Properties. *)

StatusIn(d, S) == d \in DispatchIds /\ dispatches[d].status \in S

Holders(d) == {w \in Workers : job[w] = d}

\* A dispatch is handed to one worker only and listed with nobody else,
\* whatever is lost, late or abandoned: a stray claim and an accepted one never
\* carry the same work, no heartbeat gives a worker what another one claimed,
\* and a restart from a snapshot that lags behind hands out nothing twice
\* (dispatch-runner.ts:47, controller.ts:233-246, server.ts:61-64).
ExclusiveWork ==
    \A d \in DispatchIds :
        /\ Cardinality(Holders(d)) <= 1
        /\ Cardinality({w \in Workers : d \in active[w]}) <= 1
        /\ \A v, w \in Workers : job[v] = d /\ d \in active[w] => v = w

\* Every worker's list holds running dispatches only: a heartbeat sent before
\* a completion and delivered after it is refused whole, it never brings an
\* ended dispatch back (controller.ts:239).
ListedRuns ==
    \A w \in Workers : \A d \in active[w] : dispatches[d].status = "running"

\* ListedRuns in well-typed states (controller.ts:233-246).
ListsOK == FleetTypeOK /\ ListedRuns

\* A dispatch recorded as completed is one whose handler returned normally on
\* some worker, also after lost replies, a fallback to fail() and restarts
\* (dispatch-runner.ts:53-59).
CompletedWasDone ==
    \A d \in DispatchIds : dispatches[d].status = "completed" => d \in succeeded

\* What a runner holds was claimed and saved before the runner learned of it
\* (sendMutation saves before it replies), so after any restart the snapshot
\* still has it as claimed, or as ended, never as missing or queued.
HeldIsDurable ==
    \A w \in Workers :
        job[w] # 0 =>
            /\ job[w] \in DOMAIN durable.dispatches
            /\ durable.dispatches[job[w]].status # "queued"

\* An end state that reached the snapshot is final, across any number of
\* restarts of the control plane.
DurableEndIsFinal ==
    [][\A d \in DOMAIN durable.dispatches :
        durable.dispatches[d].status \in Terminal =>
            /\ durable'.dispatches[d].status = durable.dispatches[d].status
            /\ dispatches'[d].status = durable.dispatches[d].status]_vars

\* With workers that stay up and handlers that settle, a queued dispatch is
\* always picked up, cancelled or failed by a claim (dispatch-runner.ts:77-87).
QueuedIsServed ==
    \A d \in 1 .. MaxDispatches :
        StatusIn(d, {"queued"}) ~> StatusIn(d, DispatchStatus \ {"queued"})
=============================================================================
