-------------------------- MODULE AgentWorkerProofs --------------------------
(***************************************************************************)
(* Proofs about the agent workers, for any number of workers, dispatches,  *)
(* crashes and restarts.                                                   *)
(***************************************************************************)
EXTENDS PythonWorker, AgentControlProofs

-----------------------------------------------------------------------------
(* The invariant of a Node fleet.  What the control plane has in memory may *)
(* be lost, so each fact is about memory and snapshot together.             *)

\* The Maps fit their bound, and a snapshot could be restored.
SnapshotOK ==
    /\ DispatchIds \subseteq 1 .. MaxDispatches
    /\ durable.dispatches \in Seq(Dispatch)
    /\ DOMAIN durable.dispatches \subseteq DispatchIds
    /\ \A d \in DOMAIN durable.dispatches :
        durable.dispatches[d].deployment \in DOMAIN deployments
    /\ durable.workerEnv \in [Workers -> Envs \cup {None}]
    /\ durable.active \in [Workers -> SUBSET DOMAIN durable.dispatches]

\* Memory is ahead of the snapshot: ends are kept, what waits has waited.
MemoryAhead ==
    \A d \in DOMAIN durable.dispatches :
        /\ durable.dispatches[d].status \in Terminal =>
            dispatches[d].status = durable.dispatches[d].status
        /\ dispatches[d].status = "queued" => durable.dispatches[d].status = "queued"

\* The lists of the snapshot, too, name running dispatches only.
SnapshotListsRun ==
    \A w \in Workers : \A d \in durable.active[w] : durable.dispatches[d].status = "running"

\* Everything that could make a dispatch a worker's: it runs it, a heartbeat
\* on its way says so, or a list in memory or in the snapshot does.
Claims(w, d) ==
    \/ job[w] = d
    \/ beat[w] # NoBeat /\ d \in beat[w]
    \/ d \in active[w]
    \/ d \in durable.active[w]

OneClaim ==
    \A d \in 1 .. MaxDispatches : \A v, w \in Workers : Claims(v, d) /\ Claims(w, d) => v = w

\* What a worker knows of is saved as claimed.
Known(d) == d \in DOMAIN durable.dispatches /\ durable.dispatches[d].status # "queued"

HeldIsKnown ==
    \A w \in Workers :
        /\ job[w] # 0 => Known(job[w])
        /\ beat[w] # NoBeat => \A d \in beat[w] : Known(d)
        /\ job[w] = 0 => pc[w] \in {"idle", "claiming"}

\* A handler has returned for what is completed, or about to be.
CompletedIsDone ==
    /\ \A d \in DispatchIds : dispatches[d].status = "completed" => d \in succeeded
    /\ \A d \in DOMAIN durable.dispatches :
        durable.dispatches[d].status = "completed" => d \in succeeded
    /\ \A w \in Workers : pc[w] = "completing" => job[w] \in succeeded

FleetInv ==
    /\ FleetTypeOK /\ SnapshotOK
    /\ MemoryAhead
    /\ ListedRuns /\ SnapshotListsRun
    /\ OneClaim
    /\ HeldIsKnown
    /\ CompletedIsDone

-----------------------------------------------------------------------------
(* What the operations of the control plane do to the workers' lists: they  *)
(* add the pairs in gain at most, leave running dispatches only in them,    *)
(* and complete what is in done at most.                                    *)

OneList ==
    \A d \in DispatchIds : \A v, w \in Workers : d \in active[v] /\ d \in active[w] => v = w

Effect(gain, done) ==
    /\ \A v \in Workers : \A c \in active'[v] : c \in active[v] \/ <<v, c>> \in gain
    /\ ListedRuns'
    /\ \A c \in DispatchIds' :
        dispatches'[c].status = "completed" =>
            c \in done \/ (c \in DispatchIds /\ dispatches[c].status = "completed")

LEMMA QuietEffect ==
    ASSUME TypeOK, ListedRuns, dispatches' = dispatches, active' = active
    PROVE  Effect({}, {})
BY DEF Effect, ListedRuns, DispatchIds

LEMMA EnqueueLists ==
    ASSUME TypeOK, ListedRuns, NEW i, NEW deadline \in Times, Enqueue(i, deadline)
    PROVE  Effect({}, {})
<1>1. active' = active /\ \A v \in Workers : active[v] \subseteq DispatchIds
  BY DEF Enqueue, TypeOK
<1> QED
  BY <1>1, EnqueueEffect DEF Effect, ListedRuns

LEMMA CancelLists ==
    ASSUME TypeOK, ListedRuns, NEW d \in DispatchIds, Cancel(d)
    PROVE  Effect({}, {})
<1>1. \A v \in Workers : active'[v] = active[v] \ {d} /\ active[v] \subseteq DispatchIds
  BY DEF Cancel, TypeOK
<1>2. /\ DispatchIds' = DispatchIds
      /\ \A c \in DispatchIds :
            dispatches'[c].status = IF c = d THEN "cancelled" ELSE dispatches[c].status
  BY SetStatusEffect DEF Cancel, DispatchStatus
<1> QED
  BY <1>1, <1>2 DEF Effect, ListedRuns

LEMMA ClaimLists ==
    ASSUME TypeOK, ListedRuns, NEW w \in Workers, NEW d \in DispatchIds, ClaimNext(w, d)
    PROVE  /\ Effect({<<w, d>>}, {})
           /\ dispatches[d].status = "queued"
           /\ dispatches'[d].status = "running" /\ d \in DispatchIds'
<1>1. \A v \in Workers : /\ active'[v] = IF v = w THEN active[v] \cup {d} ELSE active[v]
                         /\ active[v] \subseteq DispatchIds
  BY DEF ClaimNext, TypeOK
<1>2. /\ DispatchIds' = DispatchIds
      /\ \A c \in DispatchIds :
            dispatches'[c].status = IF c \in {d} THEN "running"
                                    ELSE IF c \in Swept(workerEnv[w]) THEN "failed"
                                    ELSE dispatches[c].status
  <2>1. {d} \in SUBSET DispatchIds
    OBVIOUS
  <2> QED
    BY <2>1, ClaimEffect
<1>3. \A c \in Swept(workerEnv[w]) : dispatches[c].status = "queued"
  BY DEF Swept, Queued
<1>4. dispatches[d].status = "queued"
  BY DEF ClaimNext, IsFirst, Claimable, Queued
<1>5. \A v \in Workers : \A c \in active[v] : c \in DispatchIds /\ dispatches'[c].status = "running"
  BY <1>1, <1>2, <1>3 DEF ListedRuns
<1>6. dispatches'[d].status = "running"
  BY <1>2
<1>7. ListedRuns'
  BY <1>1, <1>5, <1>6 DEF ListedRuns
<1>8. \A c \in DispatchIds : dispatches'[c].status = "completed" => dispatches[c].status = "completed"
  BY <1>2
<1> QED
  BY <1>1, <1>2, <1>4, <1>6, <1>7, <1>8 DEF Effect

LEMMA ClaimNothingLists ==
    ASSUME TypeOK, ListedRuns, NEW w \in Workers, ClaimNothing(w)
    PROVE  Effect({}, {})
<1>1. active' = active /\ \A v \in Workers : active[v] \subseteq DispatchIds
  BY DEF ClaimNothing, TypeOK
<1>2. /\ DispatchIds' = DispatchIds
      /\ \A c \in DispatchIds :
            dispatches'[c].status = IF c \in Swept(workerEnv[w]) THEN "failed"
                                    ELSE dispatches[c].status
  BY LenProperties DEF ClaimNothing, TypeOK, DispatchIds, Dispatch
<1>3. \A c \in Swept(workerEnv[w]) : dispatches[c].status = "queued"
  BY DEF Swept, Queued
<1> QED
  BY <1>1, <1>2, <1>3 DEF Effect, ListedRuns

LEMMA HeartbeatLists ==
    ASSUME TypeOK, ListedRuns, NEW w \in Workers, NEW ids, Heartbeat(w, ids)
    PROVE  Effect({w} \X ids, {}) /\ ids \subseteq DispatchIds
<1>1. /\ dispatches' = dispatches
      /\ \A v \in Workers : active'[v] = IF v = w THEN ids ELSE active[v]
      /\ \A c \in ids : c \in DispatchIds /\ dispatches[c].status = "running"
  BY DEF Heartbeat, CanHeartbeat, Reportable, TypeOK
<1> QED
  BY <1>1 DEF Effect, ListedRuns, DispatchIds

LEMMA FinishLists ==
    ASSUME TypeOK, ListedRuns, OneList, NEW w \in Workers, NEW d,
           NEW st \in {"completed", "failed"}, FinishDispatch(w, d, st)
    PROVE  Effect({}, IF st = "completed" THEN {d} ELSE {}) /\ d \in DispatchIds
<1>1. d \in DispatchIds /\ d \in active[w]
  BY DEF FinishDispatch, CanFinish, Owns
<1>2. \A v \in Workers : /\ active'[v] = IF v = w THEN active[v] \ {d} ELSE active[v]
                         /\ active[v] \subseteq DispatchIds
  BY DEF FinishDispatch, TypeOK
<1>3. /\ DispatchIds' = DispatchIds
      /\ \A c \in DispatchIds :
            dispatches'[c].status = IF c = d THEN st ELSE dispatches[c].status
  BY <1>1, SetStatusEffect DEF FinishDispatch, DispatchStatus
<1>4. \A v \in Workers : \A c \in active'[v] : c \in active[v] /\ c # d
  BY <1>1, <1>2 DEF OneList
<1> QED
  BY <1>1, <1>2, <1>3, <1>4 DEF Effect, ListedRuns

-----------------------------------------------------------------------------
(* Every step of a fleet but a restart is one of the control plane that is  *)
(* saved or not.                                                            *)

MemoryStep == [ControlNext]_controlVars /\ (Saved \/ UNCHANGED durable)

LEMMA FleetStepIsMemoryStep ==
    ASSUME TypeOK, beat \in [Workers -> {NoBeat} \cup SUBSET (1 .. MaxDispatches)],
           [FleetNext]_vars
    PROVE  ControlRestarts \/ MemoryStep
<1> USE DEF MemoryStep, MaySave
<1>1. CASE AdminCreates
  BY <1>1 DEF AdminCreates, ControlNext, AdminStep
<1>2. CASE AdminCancels
  BY <1>2 DEF AdminCancels, ControlNext, AdminStep
<1>3. CASE TimePasses
  BY <1>3 DEF TimePasses, ControlNext
<1>4. CASE UNCHANGED vars
  BY <1>4 DEF vars
<1>5. ASSUME NEW w \in Workers,
             \/ SendsClaim(w) \/ ClaimGivenUp(w) \/ Accepts(w) \/ DeadlineAborts(w)
             \/ HandlerReturns(w) \/ HandlerThrows(w) \/ SendsHeartbeat(w)
             \/ ShutsDown(w) \/ Drains(w) \/ Crashes(w)
      PROVE  UNCHANGED <<controlVars, durable>>
  BY <1>5 DEF SendsClaim, ClaimGivenUp, Accepts, DeadlineAborts, HandlerReturns, HandlerThrows,
              SendsHeartbeat, ShutsDown, Drains, Crashes
<1>6. ASSUME NEW w \in Workers, Registers(w) PROVE MemoryStep
  <2>1. \A i \in DOMAIN deployments : deployments[i].env \in Envs
    <3>1. deployments \in [1 .. Len(deployments) -> Deployment]
      BY LenProperties DEF TypeOK
    <3> QED
      BY <3>1 DEF Deployment
  <2> QED
    BY <1>6, <2>1 DEF Registers, Denied, ControlNext, WorkerStep
<1>7. ASSUME NEW w \in Workers, ClaimAnswered(w) \/ StrayClaim(w) PROVE MemoryStep
  BY <1>7 DEF ClaimAnswered, StrayClaim, Denied, ControlNext, WorkerStep
<1>8. ASSUME NEW w \in Workers, Completes(w) \/ Fails(w) PROVE MemoryStep
  <2>1. \A st \in {"completed", "failed"} :
            FinishDispatch(w, job[w], st) => job[w] \in DispatchIds
    BY DEF FinishDispatch, CanFinish, Owns
  <2> QED
    BY <1>8, <2>1 DEF Completes, Fails, Denied, ControlNext, WorkerStep
<1>9. ASSUME NEW w \in Workers, HeartbeatArrives(w) PROVE MemoryStep
  <2>1. Heartbeat(w, beat[w]) => beat[w] \in SUBSET DispatchIds
    BY DEF Heartbeat, CanHeartbeat, Reportable
  <2> QED
    BY <1>9, <2>1 DEF HeartbeatArrives, Denied, ControlNext, WorkerStep
<1> QED
  BY <1>1, <1>2, <1>3, <1>4, <1>5, <1>6, <1>7, <1>8, <1>9
     DEF FleetNext, RunnerStep, HandlerStep

\* Memory stays ahead of the snapshot, and a saved claim stays known.
LEMMA MemoryStepKeeps ==
    ASSUME TypeOK, SnapshotOK, MemoryAhead, SnapshotListsRun, ListedRuns, ListedRuns', MemoryStep,
           deployments' = deployments
    PROVE  /\ TypeOK' /\ SnapshotOK' /\ MemoryAhead' /\ SnapshotListsRun'
           /\ \A d : Known(d) => Known(d)'
           /\ DispatchIds \subseteq DispatchIds'
           /\ \A v \in Workers : durable'.active[v] \subseteq durable.active[v] \cup active'[v]
<1>1. TypeOK'
  BY StepTyped DEF MemoryStep
<1>2. /\ DispatchIds \subseteq DispatchIds'
      /\ DispatchIds' \subseteq 1 .. MaxDispatches
      /\ \A d \in DispatchIds :
            /\ dispatches[d].status \in Terminal => dispatches'[d].status = dispatches[d].status
            /\ dispatches'[d].status = "queued" => dispatches[d].status = "queued"
  <2>1. DispatchIds = 1 .. Len(dispatches) /\ Len(dispatches) \in Nat
    BY LenProperties DEF TypeOK, DispatchIds
  <2>2. DispatchIds \subseteq DispatchIds' /\ DispatchIds' \subseteq 1 .. MaxDispatches
    BY <2>1, StepKeepsDispatches, ControlAssumption DEF MemoryStep, SnapshotOK
  <2>3. \A d \in DispatchIds : DispatchMoves(d)
    BY StepMoves DEF MemoryStep
  <2> QED
    BY <2>2, <2>3 DEF DispatchMoves, Terminal
<1>3. CASE UNCHANGED durable
  <2>1. SnapshotOK' /\ SnapshotListsRun'
    BY <1>2, <1>3 DEF SnapshotOK, SnapshotListsRun
  <2>2. MemoryAhead'
    BY <1>2, <1>3 DEF MemoryAhead, SnapshotOK
  <2> QED
    BY <1>1, <1>2, <1>3, <2>1, <2>2 DEF Known
<1>4. CASE Saved
  <2>1. /\ durable'.dispatches = dispatches' /\ durable'.active = active'
        /\ durable'.workerEnv = workerEnv'
    BY <1>4 DEF Saved
  <2>2. SnapshotOK' /\ SnapshotListsRun' /\ MemoryAhead'
    BY <1>1, <1>2, <2>1 DEF SnapshotOK, SnapshotListsRun, MemoryAhead, TypeOK, DispatchIds, ListedRuns
  <2>3. \A d : Known(d) => Known(d)'
    BY <1>2, <2>1 DEF Known, SnapshotOK, MemoryAhead, DispatchIds
  <2> QED
    BY <1>1, <1>2, <2>1, <2>2, <2>3
<1> QED
  BY <1>3, <1>4 DEF MemoryStep

LEMMA DeploymentsStay ==
    ASSUME [FleetNext]_vars PROVE deployments' = deployments
<1> USE DEF Enqueue, CreateDispatch, Cancel, Tick, RegisterWorker, ClaimNext, ClaimNothing,
            FinishDispatch, Heartbeat, Denied, controlVars
<1>1. AdminCreates \/ AdminCancels \/ TimePasses \/ ControlRestarts \/ UNCHANGED vars
        => deployments' = deployments
  BY DEF AdminCreates, AdminCancels, TimePasses, ControlRestarts, vars
<1>2. ASSUME NEW w \in Workers, RunnerStep(w) PROVE deployments' = deployments
  BY <1>2 DEF RunnerStep, Registers, SendsClaim, ClaimAnswered, Accepts, Completes, Fails, Drains
<1>3. ASSUME NEW w \in Workers,
             \/ HandlerStep(w) \/ DeadlineAborts(w) \/ ClaimGivenUp(w) \/ StrayClaim(w)
             \/ SendsHeartbeat(w) \/ HeartbeatArrives(w) \/ ShutsDown(w) \/ Crashes(w)
      PROVE  deployments' = deployments
  BY <1>3 DEF HandlerStep, HandlerReturns, HandlerThrows, DeadlineAborts, ClaimGivenUp,
              StrayClaim, SendsHeartbeat, HeartbeatArrives, ShutsDown, Crashes
<1> QED
  BY <1>1, <1>2, <1>3 DEF FleetNext

\* The variables of the worker processes keep their types.
WorkersOK ==
    /\ phase \in [Workers -> Phases]
    /\ pc \in [Workers -> Points]
    /\ job \in [Workers -> {0} \cup 1 .. MaxDispatches]
    /\ aborted \in [Workers -> BOOLEAN]
    /\ beat \in [Workers -> {NoBeat} \cup SUBSET (1 .. MaxDispatches)]
    /\ stray \subseteq Workers
    /\ succeeded \subseteq 1 .. MaxDispatches
    /\ restarts \in 0 .. MaxRestarts

LEMMA WorkersTyped ==
    ASSUME WorkersOK, SnapshotOK, HeldIsKnown, [FleetNext]_vars PROVE WorkersOK'
<1> USE DEF WorkersOK, Phases, Points
<1>1. CASE AdminCreates \/ AdminCancels \/ TimePasses \/ UNCHANGED vars
  BY <1>1 DEF AdminCreates, AdminCancels, TimePasses, vars, workerVars
<1>2. CASE ControlRestarts
  BY <1>2, FleetAssumption DEF ControlRestarts, workerVars
<1>3. ASSUME NEW w \in Workers,
             Registers(w) \/ SendsClaim(w) \/ ClaimGivenUp(w) \/ StrayClaim(w)
      PROVE  WorkersOK'
  BY <1>3 DEF Registers, SendsClaim, ClaimGivenUp, StrayClaim
<1>4. ASSUME NEW w \in Workers, ClaimAnswered(w) PROVE WorkersOK'
  <2>1. DispatchIds \subseteq 1 .. MaxDispatches
    BY DEF SnapshotOK
  <2> QED
    BY <1>4, <2>1 DEF ClaimAnswered
<1>5. ASSUME NEW w \in Workers, Accepts(w) \/ DeadlineAborts(w) \/ HandlerThrows(w) PROVE WorkersOK'
  BY <1>5 DEF Accepts, DeadlineAborts, HandlerThrows
<1>6. ASSUME NEW w \in Workers, HandlerReturns(w) PROVE WorkersOK'
  <2>1. job[w] # 0
    BY <1>6 DEF HandlerReturns, RunnerAt, HeldIsKnown
  <2> QED
    BY <1>6, <2>1 DEF HandlerReturns
<1>7. ASSUME NEW w \in Workers, Completes(w) \/ Fails(w) PROVE WorkersOK'
  BY <1>7 DEF Completes, Fails
<1>8. ASSUME NEW w \in Workers, SendsHeartbeat(w) PROVE WorkersOK'
  <2>1. LocalActive(w) \in SUBSET (1 .. MaxDispatches)
    BY DEF LocalActive, HeldIsKnown
  <2> QED
    BY <1>8, <2>1 DEF SendsHeartbeat
<1>9. ASSUME NEW w \in Workers,
             HeartbeatArrives(w) \/ ShutsDown(w) \/ Drains(w) \/ Crashes(w)
      PROVE  WorkersOK'
  BY <1>9 DEF HeartbeatArrives, ShutsDown, Drains, Crashes
<1> QED
  BY <1>1, <1>2, <1>3, <1>4, <1>5, <1>6, <1>7, <1>8, <1>9
     DEF FleetNext, RunnerStep, HandlerStep

-----------------------------------------------------------------------------
(* A step of memory that changes hands.  w may take up c, which nobody      *)
(* claims; every other job is kept or dropped, and lists grow by claims.    *)

LEMMA HandsChange ==
    ASSUME FleetInv, MemoryStep, deployments' = deployments, WorkersOK',
           NEW gain, NEW done, Effect(gain, done),
           NEW w, NEW c, c # 0 => \A u \in Workers : ~Claims(u, c),
           \A v \in Workers : \/ job'[v] \in {0, job[v]}
                              \/ v = w /\ job'[v] = c /\ Known(c)',
           \A v \in Workers : \/ beat'[v] \in {NoBeat, beat[v]}
                              \/ \A d \in beat'[v] : d # 0 /\ d = job[v],
           \A v \in Workers : \A d : <<v, d>> \in gain => (v = w /\ d = c) \/ Claims(v, d),
           \A v \in Workers : job'[v] = 0 => pc'[v] \in {"idle", "claiming"},
           \A v \in Workers : pc'[v] = "completing" => job'[v] \in succeeded',
           done \subseteq succeeded, succeeded \subseteq succeeded'
    PROVE  FleetInv'
<1>1. /\ TypeOK' /\ SnapshotOK' /\ MemoryAhead' /\ SnapshotListsRun' /\ ListedRuns'
      /\ \A d : Known(d) => Known(d)'
      /\ \A v \in Workers : durable'.active[v] \subseteq durable.active[v] \cup active'[v]
  BY MemoryStepKeeps DEF FleetInv, FleetTypeOK, Effect
<1>2. ASSUME NEW d \in 1 .. MaxDispatches, NEW v \in Workers, Claims(v, d)'
      PROVE  Claims(v, d) \/ (v = w /\ d = c)
  <2>1. d # 0
    OBVIOUS
  <2>2. CASE job'[v] = d
    BY <2>1, <2>2 DEF Claims
  <2>3. CASE beat'[v] # NoBeat /\ d \in beat'[v]
    BY <2>3 DEF Claims
  <2>4. CASE d \in active'[v]
    BY <2>4 DEF Effect, Claims
  <2>5. CASE d \in durable'.active[v]
    BY <1>1, <2>4, <2>5 DEF Claims
  <2> QED
    BY <1>2, <2>2, <2>3, <2>4, <2>5 DEF Claims
<1>3. OneClaim'
  BY <1>2 DEF OneClaim, FleetInv
<1>4. HeldIsKnown'
  <2>1. ASSUME NEW v \in Workers, NEW d, d = job'[v], d # 0 PROVE Known(d)'
    BY <1>1, <2>1 DEF FleetInv, HeldIsKnown
  <2>2. ASSUME NEW v \in Workers, beat'[v] # NoBeat, NEW d \in beat'[v] PROVE Known(d)'
    BY <1>1, <2>2 DEF FleetInv, HeldIsKnown
  <2>3. \A v \in Workers : (job[v] # 0 => Known(job[v]))'
    BY <2>1 DEF Known
  <2> QED
    BY <2>2, <2>3 DEF HeldIsKnown
<1>5. CompletedIsDone'
  <2>1. \A d \in DispatchIds' : dispatches'[d].status = "completed" => d \in succeeded'
    BY DEF Effect, FleetInv, CompletedIsDone
  <2>2. \A d \in DOMAIN durable'.dispatches :
            durable'.dispatches[d].status = "completed" => d \in succeeded'
    BY <2>1 DEF MemoryStep, Saved, FleetInv, CompletedIsDone, DispatchIds
  <2> QED
    BY <2>1, <2>2 DEF CompletedIsDone
<1> QED
  BY <1>1, <1>3, <1>4, <1>5 DEF FleetInv, FleetTypeOK, WorkersOK

\* Most steps leave every worker's work alone, or drop it.
LEMMA HandsKept ==
    ASSUME FleetInv, MemoryStep, deployments' = deployments, WorkersOK', Effect({}, {}),
           \A v \in Workers : job'[v] \in {0, job[v]} /\ beat'[v] \in {NoBeat, beat[v]},
           \A v \in Workers : job'[v] = 0 => pc'[v] \in {"idle", "claiming"},
           \A v \in Workers : pc'[v] = "completing" => job'[v] \in succeeded',
           succeeded \subseteq succeeded'
    PROVE  FleetInv'
<1> DEFINE gain == {} done == {} w == 0 c == 0
<1>1. /\ Effect(gain, done)
      /\ \A v \in Workers : \A d : <<v, d>> \in gain => (v = w /\ d = c) \/ Claims(v, d)
      /\ done \subseteq succeeded
  OBVIOUS
<1>2. c = 0
  OBVIOUS
<1> HIDE DEF gain, done, w, c
<1> QED
  BY <1>1, <1>2, HandsChange

\* One lemma for each kind of step.  The control plane is asked by an
\* administrator, or by nobody.
LEMMA AdminKeeps ==
    ASSUME FleetInv, AdminCreates \/ AdminCancels \/ TimePasses \/ UNCHANGED vars,
           MemoryStep, deployments' = deployments, WorkersOK'
    PROVE  FleetInv'
<1> USE DEF FleetInv, FleetTypeOK
<1>1. UNCHANGED workerVars
  BY DEF AdminCreates, AdminCancels, TimePasses, vars
<1>2. Effect({}, {})
  <2>1. CASE AdminCreates
    BY <2>1, EnqueueLists DEF AdminCreates, CreateDispatch
  <2>2. CASE AdminCancels
    BY <2>2, CancelLists DEF AdminCancels
  <2>3. CASE TimePasses \/ UNCHANGED vars
    BY <2>3, QuietEffect DEF TimePasses, Tick, vars, controlVars
  <2> QED
    BY <2>1, <2>2, <2>3
<1> QED
  BY <1>1, <1>2, HandsKept DEF workerVars, HeldIsKnown, CompletedIsDone

\* The worker takes a step of its own; nobody is asked.
LEMMA AlonesKeep ==
    ASSUME FleetInv, NEW w \in Workers, MemoryStep, deployments' = deployments, WorkersOK',
           \/ SendsClaim(w) \/ ClaimGivenUp(w) \/ Accepts(w) \/ DeadlineAborts(w)
           \/ HandlerReturns(w) \/ HandlerThrows(w)
           \/ ShutsDown(w) \/ Drains(w) \/ Crashes(w)
    PROVE  FleetInv'
<1> USE DEF FleetInv, FleetTypeOK, RunnerAt
<1>1. UNCHANGED <<controlVars, durable, beat>>
  BY DEF SendsClaim, ClaimGivenUp, Accepts, DeadlineAborts, HandlerReturns, HandlerThrows,
         ShutsDown, Drains, Crashes
<1>2. Effect({}, {})
  BY <1>1, QuietEffect DEF controlVars
<1>3. /\ \A v \in Workers : job'[v] \in {0, job[v]}
      /\ \A v \in Workers : job'[v] = 0 => pc'[v] \in {"idle", "claiming"}
      /\ \A v \in Workers : pc'[v] = "completing" => job'[v] \in succeeded'
      /\ succeeded \subseteq succeeded'
  BY DEF SendsClaim, ClaimGivenUp, Accepts, DeadlineAborts, HandlerReturns, HandlerThrows,
         ShutsDown, Drains, Crashes, HeldIsKnown, CompletedIsDone
<1> QED
  BY <1>1, <1>2, <1>3, HandsKept

LEMMA RegistersKeeps ==
    ASSUME FleetInv, NEW w \in Workers, MemoryStep, deployments' = deployments, WorkersOK',
           Registers(w)
    PROVE  FleetInv'
<1> USE DEF FleetInv, FleetTypeOK
<1>1. Effect({}, {})
  BY QuietEffect DEF Registers, RegisterWorker, Denied, controlVars
<1>2. UNCHANGED <<pc, job, beat, succeeded>>
  BY DEF Registers
<1> QED
  BY <1>1, <1>2, HandsKept DEF HeldIsKnown, CompletedIsDone

LEMMA SendsHeartbeatKeeps ==
    ASSUME FleetInv, NEW w \in Workers, MemoryStep, deployments' = deployments, WorkersOK',
           SendsHeartbeat(w)
    PROVE  FleetInv'
<1> USE DEF FleetInv, FleetTypeOK
<1>1. Effect({}, {})
  BY QuietEffect DEF SendsHeartbeat, controlVars
<1>2. \A v \in Workers : \/ beat'[v] \in {NoBeat, beat[v]}
                         \/ \A d \in beat'[v] : d # 0 /\ d = job[v]
  BY DEF SendsHeartbeat, LocalActive, HeldIsKnown
<1>3. /\ \A v \in Workers : job'[v] \in {0, job[v]}
      /\ \A v \in Workers : job'[v] = 0 => pc'[v] \in {"idle", "claiming"}
      /\ \A v \in Workers : pc'[v] = "completing" => job'[v] \in succeeded'
      /\ succeeded \subseteq succeeded'
  BY DEF SendsHeartbeat, HeldIsKnown, CompletedIsDone
<1> DEFINE gain == {} done == {} u == 0 c == 0
<1>4. /\ Effect(gain, done)
      /\ \A v \in Workers : \A d : <<v, d>> \in gain => (v = u /\ d = c) \/ Claims(v, d)
      /\ done \subseteq succeeded
  BY <1>1
<1>5. c = 0
  OBVIOUS
<1> HIDE DEF gain, done, u, c, FleetInv, FleetTypeOK
<1> QED
  BY <1>2, <1>3, <1>4, <1>5, HandsChange

LEMMA HeartbeatArrivesKeeps ==
    ASSUME FleetInv, NEW w \in Workers, MemoryStep, deployments' = deployments, WorkersOK',
           HeartbeatArrives(w)
    PROVE  FleetInv'
<1> USE DEF FleetInv, FleetTypeOK
<1>1. /\ UNCHANGED <<pc, job, succeeded>> /\ beat[w] # NoBeat
      /\ \A v \in Workers : beat'[v] \in {NoBeat, beat[v]}
  BY DEF HeartbeatArrives
<1>2. CASE Denied
  <2>1. Effect({}, {})
    BY <1>2, QuietEffect DEF Denied, controlVars
  <2> QED
    BY <1>1, <2>1, HandsKept DEF HeldIsKnown, CompletedIsDone
<1>3. CASE Heartbeat(w, beat[w])
  <2> DEFINE gain == {w} \X beat[w] done == {} u == 0 c == 0
  <2>1. Effect(gain, done)
    BY <1>3, HeartbeatLists
  <2>2. \A v \in Workers : \A d : <<v, d>> \in gain => (v = u /\ d = c) \/ Claims(v, d)
    BY <1>1 DEF Claims
  <2>3. done \subseteq succeeded /\ c = 0
    OBVIOUS
  <2> HIDE DEF gain, done, u, c
  <2> QED
    BY <1>1, <2>1, <2>2, <2>3, HandsChange DEF HeldIsKnown, CompletedIsDone
<1> QED
  BY <1>2, <1>3 DEF HeartbeatArrives

\* What is in the queue is nobody's: not listed, not saved as claimed.
LEMMA QueuedUnclaimed ==
    ASSUME FleetInv, NEW d \in DispatchIds, dispatches[d].status = "queued", NEW u \in Workers
    PROVE  ~Claims(u, d)
<1>1. d # 0 /\ d \in 1 .. MaxDispatches
  BY DEF FleetInv, SnapshotOK
<1>2. ~Known(d)
  BY DEF Known, FleetInv, MemoryAhead
<1>3. d \notin durable.active[u]
  <2>1. durable.active[u] \subseteq DOMAIN durable.dispatches
    BY DEF FleetInv, SnapshotOK
  <2> QED
    BY <1>2, <2>1 DEF Known, FleetInv, SnapshotListsRun
<1> QED
  BY <1>1, <1>2, <1>3 DEF Claims, FleetInv, HeldIsKnown, ListedRuns

LEMMA OneClaimOneList ==
    ASSUME FleetInv PROVE OneList
BY DEF FleetInv, SnapshotOK, OneClaim, OneList, Claims

LEMMA ClaimKeeps ==
    ASSUME FleetInv, NEW w \in Workers, MemoryStep, deployments' = deployments, WorkersOK',
           ClaimAnswered(w) \/ StrayClaim(w)
    PROVE  FleetInv'
<1> USE DEF FleetInv, FleetTypeOK, RunnerAt
<1>1. UNCHANGED <<beat, succeeded>>
  BY DEF ClaimAnswered, StrayClaim
<1>2. ASSUME NEW d \in DispatchIds, ClaimNext(w, d),
             \/ UNCHANGED <<pc, job>>
             \/ /\ Saved
                /\ pc' = [pc EXCEPT ![w] = "claimed"]
                /\ job' = [job EXCEPT ![w] = d]
      PROVE  FleetInv'
  <2> DEFINE gain == {<<w, d>>} done == {}
  <2>1. /\ Effect(gain, done) /\ \A u \in Workers : ~Claims(u, d)
        /\ dispatches'[d].status = "running" /\ d \in DispatchIds'
    BY <1>2, ClaimLists, QueuedUnclaimed
  <2>2. d # 0
    BY DEF SnapshotOK
  <2>3. Saved => Known(d)'
    BY <2>1 DEF Saved, Known, DispatchIds
  <2>4. /\ \A v \in Workers : \A c : <<v, c>> \in gain => (v = w /\ c = d) \/ Claims(v, c)
        /\ done \subseteq succeeded
    OBVIOUS
  <2>5. \A v \in Workers : \/ job'[v] \in {0, job[v]}
                           \/ v = w /\ job'[v] = d /\ Known(d)'
    BY <1>2, <2>3
  <2>6. /\ \A v \in Workers : job'[v] = 0 => pc'[v] \in {"idle", "claiming"}
        /\ \A v \in Workers : pc'[v] = "completing" => job'[v] \in succeeded'
    <3>1. CASE UNCHANGED <<pc, job>>
      BY <1>1, <3>1 DEF HeldIsKnown, CompletedIsDone
    <3>2. CASE pc' = [pc EXCEPT ![w] = "claimed"] /\ job' = [job EXCEPT ![w] = d]
      BY <1>1, <2>2, <3>2 DEF HeldIsKnown, CompletedIsDone
    <3> QED
      BY <1>2, <3>1, <3>2
  <2> HIDE DEF gain, done, FleetInv, FleetTypeOK
  <2> QED
    BY <1>1, <2>1, <2>2, <2>4, <2>5, <2>6, HandsChange
<1>3. ASSUME ClaimNothing(w) \/ Denied,
             job' = job,
             pc' = pc \/ pc' = [pc EXCEPT ![w] = "idle"]
      PROVE  FleetInv'
  <2>1. Effect({}, {})
    BY <1>3, ClaimNothingLists, QuietEffect DEF Denied, controlVars
  <2>2. /\ \A v \in Workers : job'[v] = 0 => pc'[v] \in {"idle", "claiming"}
        /\ \A v \in Workers : pc'[v] = "completing" => job'[v] \in succeeded'
    BY <1>1, <1>3 DEF HeldIsKnown, CompletedIsDone
  <2> QED
    BY <1>1, <1>3, <2>1, <2>2, HandsKept
<1>4. CASE ClaimAnswered(w)
  <2>1. CASE \E d \in DispatchIds :
                /\ ClaimNext(w, d) /\ Saved
                /\ pc' = [pc EXCEPT ![w] = "claimed"]
                /\ job' = [job EXCEPT ![w] = d]
    BY <1>2, <2>1
  <2>2. CASE /\ ClaimNothing(w) \/ Denied
             /\ pc' = [pc EXCEPT ![w] = "idle"]
             /\ UNCHANGED job
    BY <1>3, <2>2
  <2> QED
    BY <1>4, <2>1, <2>2 DEF ClaimAnswered
<1>5. CASE StrayClaim(w)
  BY <1>2, <1>3, <1>5 DEF StrayClaim
<1> QED
  BY <1>4, <1>5

LEMMA EndKeeps ==
    ASSUME FleetInv, NEW w \in Workers, MemoryStep, deployments' = deployments, WorkersOK',
           Completes(w) \/ Fails(w)
    PROVE  FleetInv'
<1> USE DEF FleetInv, FleetTypeOK, RunnerAt
<1>1. /\ UNCHANGED <<beat, succeeded>>
      /\ \A v \in Workers : job'[v] \in {0, job[v]}
      /\ \A v \in Workers : job'[v] = 0 => pc'[v] \in {"idle", "claiming"}
      /\ \A v \in Workers : pc'[v] = "completing" => job'[v] \in succeeded'
  BY DEF Completes, Fails, HeldIsKnown, CompletedIsDone
<1>2. CASE Denied
  <2>1. Effect({}, {})
    BY <1>2, QuietEffect DEF Denied, controlVars
  <2> QED
    BY <1>1, <2>1, HandsKept
<1>3. CASE FinishDispatch(w, job[w], "failed")
  <2>1. Effect({}, {})
    BY <1>3, FinishLists, OneClaimOneList
  <2> QED
    BY <1>1, <2>1, HandsKept
<1>4. CASE FinishDispatch(w, job[w], "completed") /\ pc[w] = "completing"
  <2> DEFINE gain == {} done == {job[w]} u == 0 c == 0
  <2>1. Effect(gain, done)
    BY <1>4, FinishLists, OneClaimOneList
  <2>2. /\ \A v \in Workers : \A d : <<v, d>> \in gain => (v = u /\ d = c) \/ Claims(v, d)
        /\ done \subseteq succeeded
        /\ c = 0
    BY <1>4 DEF CompletedIsDone
  <2> HIDE DEF gain, done, u, c
  <2> QED
    BY <1>1, <2>1, <2>2, HandsChange
<1> QED
  BY <1>2, <1>3, <1>4 DEF Completes, Fails

\* A restart puts the snapshot in the place of memory.
LEMMA RestartKeeps ==
    ASSUME FleetInv, ControlRestarts, WorkersOK' PROVE FleetInv'
<1> USE DEF FleetInv, FleetTypeOK
<1>1. /\ dispatches' = durable.dispatches /\ active' = durable.active
      /\ workerEnv' = durable.workerEnv /\ triggered' = triggered \cap DOMAIN durable.dispatches
      /\ UNCHANGED <<now, artifacts, deployments, rules, phase, pc, job, aborted, beat, stray,
                     succeeded, durable>>
  BY DEF ControlRestarts, workerVars
<1>2. TypeOK'
  BY <1>1 DEF TypeOK, SnapshotOK, DispatchIds
<1>3. SnapshotOK'
  BY <1>1 DEF SnapshotOK, DispatchIds
<1>4. MemoryAhead' /\ ListedRuns' /\ SnapshotListsRun'
  BY <1>1 DEF MemoryAhead, ListedRuns, SnapshotListsRun
<1>5. OneClaim'
  BY <1>1 DEF OneClaim, Claims
<1>6. HeldIsKnown' /\ CompletedIsDone'
  BY <1>1 DEF HeldIsKnown, Known, CompletedIsDone, DispatchIds
<1> QED
  BY <1>2, <1>3, <1>4, <1>5, <1>6 DEF WorkersOK

LEMMA FleetInvInit == FleetInit => FleetInv
<1> SUFFICES ASSUME FleetInit PROVE FleetInv
  OBVIOUS
<1>1. PICK e \in Envs, a \in Artifacts :
            deployments = <<[env |-> e, artifact |-> a, status |-> "active"]>>
  BY DEF FleetInit
<1>2. deployments \in Seq(Deployment)
  BY <1>1 DEF Deployment, DeploymentStatus
<1>3. /\ << >> \in Seq(Rule) /\ << >> \in Seq(Dispatch) /\ DOMAIN << >> = {}
  BY EmptySeq, LenProperties
<1>4. TypeOK
  BY <1>2, <1>3, ControlAssumption DEF FleetInit, TypeOK, Times, DispatchIds
<1>5. FleetTypeOK /\ SnapshotOK
  BY <1>3, <1>4, FleetAssumption, ControlAssumption
     DEF FleetInit, FleetTypeOK, Phases, Points, SnapshotOK, Snapshot, DispatchIds
<1>6. MemoryAhead /\ ListedRuns /\ SnapshotListsRun /\ OneClaim /\ HeldIsKnown /\ CompletedIsDone
  BY <1>3 DEF FleetInit, Snapshot, MemoryAhead, ListedRuns, SnapshotListsRun, OneClaim, Claims,
              HeldIsKnown, CompletedIsDone, DispatchIds
<1> QED
  BY <1>5, <1>6 DEF FleetInv

LEMMA FleetInvNext == FleetInv /\ [FleetNext]_vars => FleetInv'
<1> SUFFICES ASSUME FleetInv, [FleetNext]_vars PROVE FleetInv'
  OBVIOUS
<1>1. WorkersOK' /\ deployments' = deployments
  BY WorkersTyped, DeploymentsStay DEF FleetInv, FleetTypeOK, WorkersOK
<1>2. CASE ControlRestarts
  BY <1>1, <1>2, RestartKeeps
<1>3. CASE MemoryStep
  <2>1. ASSUME NEW w \in Workers, RunnerStep(w) \/ HandlerStep(w) PROVE FleetInv'
    BY <1>1, <1>3, <2>1, AlonesKeep, RegistersKeeps, ClaimKeeps, EndKeeps
       DEF RunnerStep, HandlerStep
  <2>2. ASSUME NEW w \in Workers,
               \/ DeadlineAborts(w) \/ ClaimGivenUp(w) \/ StrayClaim(w) \/ SendsHeartbeat(w)
               \/ HeartbeatArrives(w) \/ ShutsDown(w) \/ Crashes(w)
        PROVE  FleetInv'
    BY <1>1, <1>3, <2>2, AlonesKeep, ClaimKeeps, SendsHeartbeatKeeps, HeartbeatArrivesKeeps
  <2>3. CASE AdminCreates \/ AdminCancels \/ TimePasses \/ UNCHANGED vars
    BY <1>1, <1>3, <2>3, AdminKeeps
  <2> QED
    BY <1>2, <2>1, <2>2, <2>3 DEF FleetNext
<1> QED
  BY <1>2, <1>3, FleetStepIsMemoryStep DEF FleetInv, FleetTypeOK

\* The inductive invariant of a fleet of Node workers, their saves and their
\* late requests (dispatch-runner.ts, worker.ts, server.ts of agent-control).
THEOREM FleetInvariant == FleetSpec => []FleetInv
BY FleetInvInit, FleetInvNext, PTL DEF FleetSpec

LEMMA AtMostOne ==
    ASSUME NEW S, \A a, b \in S : a = b
    PROVE  IsFiniteSet(S) /\ Cardinality(S) <= 1
<1>1. CASE S = {}
  BY <1>1, FS_EmptySet
<1>2. ASSUME NEW a \in S PROVE IsFiniteSet(S) /\ Cardinality(S) <= 1
  <2>1. S = {a}
    OBVIOUS
  <2>2. IsFiniteSet({a}) /\ Cardinality({a}) = 1
    BY FS_Singleton
  <2> QED
    BY <2>1, <2>2
<1> QED
  BY <1>1, <1>2

\* Every variable of a fleet keeps its type, and no heartbeat, however late,
\* brings a dispatch that has ended back into a list.
THEOREM ListsHold == FleetSpec => []ListsOK
<1>1. FleetInv => ListsOK
  BY DEF FleetInv, ListsOK
<1> QED
  BY <1>1, FleetInvariant, PTL

\* A dispatch is one worker's: whatever is lost, late or restarted, no two
\* workers hold it, no two lists name it, and no list names another's.
THEOREM WorkIsExclusive == FleetSpec => []ExclusiveWork
<1>1. FleetInv => ExclusiveWork
  <2> SUFFICES ASSUME FleetInv, NEW d \in DispatchIds
               PROVE  /\ Cardinality(Holders(d)) <= 1
                      /\ Cardinality({w \in Workers : d \in active[w]}) <= 1
                      /\ \A v, w \in Workers : job[v] = d /\ d \in active[w] => v = w
    BY DEF ExclusiveWork
  <2>1. \A v, w \in Workers : Claims(v, d) /\ Claims(w, d) => v = w
    BY DEF FleetInv, SnapshotOK, OneClaim
  <2>2. \A v, w \in Holders(d) : v = w
    BY <2>1 DEF Holders, Claims
  <2>3. \A v, w \in {u \in Workers : d \in active[u]} : v = w
    BY <2>1 DEF Claims
  <2>4. \A v, w \in Workers : job[v] = d /\ d \in active[w] => v = w
    BY <2>1 DEF Claims
  <2> QED
    BY <2>2, <2>3, <2>4, AtMostOne
<1> QED
  BY <1>1, FleetInvariant, PTL

\* What a runner holds is in the snapshot, and not in its queue.
THEOREM HeldStaysDurable == FleetSpec => []HeldIsDurable
<1>1. FleetInv => HeldIsDurable
  BY DEF FleetInv, HeldIsKnown, HeldIsDurable, Known
<1> QED
  BY <1>1, FleetInvariant, PTL

\* No completion is recorded without a handler that returned.
THEOREM CompletionsAreTrue == FleetSpec => []CompletedWasDone
<1>1. FleetInv => CompletedWasDone
  BY DEF FleetInv, CompletedIsDone, CompletedWasDone
<1> QED
  BY <1>1, FleetInvariant, PTL

\* No step, a restart included, changes an end that is in the snapshot.
THEOREM DurableEndsStay == FleetSpec => DurableEndIsFinal
<1>1. FleetInv /\ [FleetNext]_vars =>
        [\A d \in DOMAIN durable.dispatches :
            durable.dispatches[d].status \in Terminal =>
                /\ durable'.dispatches[d].status = durable.dispatches[d].status
                /\ dispatches'[d].status = durable.dispatches[d].status]_vars
  <2> SUFFICES ASSUME FleetInv, FleetNext,
                      NEW d \in DOMAIN durable.dispatches,
                      durable.dispatches[d].status \in Terminal
               PROVE  /\ durable'.dispatches[d].status = durable.dispatches[d].status
                      /\ dispatches'[d].status = durable.dispatches[d].status
    OBVIOUS
  <2>1. CASE ControlRestarts
    BY <2>1 DEF ControlRestarts
  <2>2. CASE MemoryStep
    <3>1. d \in DispatchIds /\ dispatches[d].status = durable.dispatches[d].status
      BY DEF FleetInv, SnapshotOK, MemoryAhead
    <3>2. DispatchMoves(d)
      BY <2>2, <3>1, StepMoves DEF MemoryStep, FleetInv, FleetTypeOK
    <3>3. dispatches'[d].status = dispatches[d].status
      BY <3>1, <3>2 DEF DispatchMoves, Terminal
    <3> QED
      BY <2>2, <3>1, <3>3 DEF MemoryStep, Saved
  <2> QED
    BY <2>1, <2>2, FleetStepIsMemoryStep DEF FleetInv, FleetTypeOK
<1> QED
  BY <1>1, FleetInvariant, PTL DEF FleetSpec, DurableEndIsFinal

-----------------------------------------------------------------------------
(* The invariant of a Python fleet.  Processes may share a worker id, so    *)
(* lists are one id's and jobs one process's.                               *)

Busy(p) == pyPc[p] \in {"claimed", "refusing", "running", "completing", "failing"}

\* A process that has not started holds nothing; one that has, has an id.
PyStarted ==
    \A p \in PyProcesses :
        IF pyPhase[p] = "starting"
        THEN pyPc[p] = "idle" /\ pyBeat[p] = NoList /\ pyLate[p] = {} /\ pyJob[p] = 0
        ELSE pyId[p] \in Workers

PyKnown(d) == d \in DispatchIds /\ dispatches[d].status # "queued"

PyHeldIsKnown ==
    \A p \in PyProcesses :
        /\ pyJob[p] # 0 => PyKnown(pyJob[p])
        /\ pyBeat[p] # NoList => \A d \in pyBeat[p] : PyKnown(d)
        /\ Busy(p) <=> pyJob[p] # 0

\* What makes a dispatch that of a worker id.
PyClaims(w, d) ==
    \/ \E p \in PyProcesses : pyPhase[p] # "starting" /\ pyId[p] = w /\
            (pyJob[p] = d \/ (pyBeat[p] # NoList /\ d \in pyBeat[p]))
    \/ d \in active[w]

OnePyClaim ==
    /\ \A d \in 1 .. MaxDispatches : \A v, w \in Workers : PyClaims(v, d) /\ PyClaims(w, d) => v = w
    /\ \A p, q \in PyProcesses : pyJob[p] # 0 /\ pyJob[p] = pyJob[q] => p = q

\* Requests that are late included, only what was done is called completed.
PyCompletedIsDone ==
    /\ \A d \in DispatchIds : dispatches[d].status = "completed" => d \in succeeded
    /\ \A p \in PyProcesses :
        /\ pyPc[p] = "completing" => pyJob[p] \in succeeded
        /\ \A r \in pyLate[p] : r.kind = "completed" => r.dispatch \in succeeded

PyInv ==
    /\ FleetTypeOK /\ PyTypeOK
    /\ DispatchIds \subseteq 1 .. MaxDispatches
    /\ job = [w \in Workers |-> 0]
    /\ ListedRuns
    /\ PyStarted
    /\ PyHeldIsKnown
    /\ OnePyClaim
    /\ PyCompletedIsDone

LEMMA PyMemoryStep ==
    ASSUME PyInv, [PyNext]_<<vars, pyVars>>
    PROVE  /\ [ControlNext]_controlVars
           /\ UNCHANGED <<phase, pc, job, aborted, beat, stray, restarts>>
<1> USE DEF Unserved
<1>1. UNCHANGED <<phase, pc, job, aborted, beat, stray, restarts>>
  BY DEF PyNext, NodeAside, vars, workerVars
<1>2. ASSUME PyAdminCreates \/ PyAdminCancels \/ PyTimePasses \/ UNCHANGED <<vars, pyVars>>
      PROVE  [ControlNext]_controlVars
  <2>1. PyAdminCreates => ControlNext
    BY DEF PyAdminCreates, ControlNext, AdminStep
  <2>2. PyAdminCancels \/ PyTimePasses => ControlNext
    BY DEF PyAdminCancels, PyTimePasses, ControlNext, AdminStep
  <2>3. UNCHANGED <<vars, pyVars>> => UNCHANGED controlVars
    BY DEF vars
  <2> QED
    BY <1>2, <2>1, <2>2, <2>3
<1>3. ASSUME NEW p \in PyProcesses,
             \/ Polls(p) \/ PyClaimTimesOut(p) \/ PyAccepts(p) \/ PyHandlerReturns(p)
             \/ PyHandlerRaises(p) \/ LoopDies(p) \/ PySendsBeat(p) \/ PyStops(p)
      PROVE  UNCHANGED controlVars
  BY <1>3 DEF Polls, PyClaimTimesOut, PyAccepts, PyHandlerReturns, PyHandlerRaises, LoopDies,
              PySendsBeat, PyStops
<1>4. ASSUME NEW p \in PyProcesses, PyRegisters(p) PROVE [ControlNext]_controlVars
  <2>1. \A i \in DOMAIN deployments : deployments[i].env \in Envs
    <3>1. deployments \in [1 .. Len(deployments) -> Deployment]
      BY LenProperties DEF PyInv, FleetTypeOK, TypeOK
    <3> QED
      BY <3>1 DEF Deployment
  <2> QED
    BY <1>4, <2>1 DEF PyRegisters, ControlNext, WorkerStep
<1>5. ASSUME NEW w \in Workers,
             \/ \E d \in DispatchIds : ClaimNext(w, d)
             \/ ClaimNothing(w)
             \/ \E d : \E st \in {"completed", "failed"} : FinishDispatch(w, d, st)
             \/ \E ids : Heartbeat(w, ids)
      PROVE  ControlNext
  <2>1. ASSUME NEW d, NEW st \in {"completed", "failed"}, FinishDispatch(w, d, st)
        PROVE  WorkerStep(w)
    <3>1. d \in DispatchIds
      BY <2>1 DEF FinishDispatch, CanFinish, Owns
    <3> QED
      BY <2>1, <3>1 DEF WorkerStep
  <2>2. ASSUME NEW ids, Heartbeat(w, ids) PROVE WorkerStep(w)
    <3>1. ids \in SUBSET DispatchIds
      BY <2>2 DEF Heartbeat, CanHeartbeat, Reportable
    <3> QED
      BY <2>2, <3>1 DEF WorkerStep
  <2>3. (\E d \in DispatchIds : ClaimNext(w, d)) \/ ClaimNothing(w) => WorkerStep(w)
    BY DEF WorkerStep
  <2> QED
    BY <1>5, <2>1, <2>2, <2>3 DEF ControlNext
<1>6. ASSUME NEW p \in PyProcesses,
             PyClaimAnswered(p) \/ PyCompletes(p) \/ PyFails(p) \/ PyBeatArrives(p) \/ LateArrives(p)
      PROVE  [ControlNext]_controlVars
  <2>1. pyId[p] \in Workers
    BY <1>6 DEF PyInv, PyStarted, PyClaimAnswered, PyCompletes, PyFails, PyBeatArrives, LateArrives,
                PyAt, Failing
  <2>2. \A r \in pyLate[p] : r.kind # "claim" => r.kind \in {"completed", "failed"}
    BY DEF PyInv, PyTypeOK, Requests
  <2>3. CASE PyClaimAnswered(p)
    <3>1. (\E d \in DispatchIds : ClaimNext(pyId[p], d)) \/ ClaimNothing(pyId[p]) \/ Unserved
      BY <2>3 DEF PyClaimAnswered
    <3>2. (\E d \in DispatchIds : ClaimNext(pyId[p], d)) \/ ClaimNothing(pyId[p]) => ControlNext
      BY <1>5, <2>1
    <3> QED
      BY <3>1, <3>2
  <2>4. CASE PyCompletes(p) \/ PyFails(p)
    BY <1>5, <2>1, <2>4 DEF PyCompletes, PyFails
  <2>5. CASE PyBeatArrives(p)
    BY <1>5, <2>1, <2>5 DEF PyBeatArrives
  <2>6. CASE LateArrives(p)
    <3>1. PICK r \in pyLate[p] :
            \/ Unserved
            \/ \E d \in DispatchIds : ClaimNext(pyId[p], d)
            \/ r.kind \in {"completed", "failed"} /\ FinishDispatch(pyId[p], r.dispatch, r.kind)
      BY <2>2, <2>6 DEF LateArrives
    <3>2. (\E d \in DispatchIds : ClaimNext(pyId[p], d)) => ControlNext
      BY <1>5, <2>1
    <3>3. r.kind \in {"completed", "failed"} /\ FinishDispatch(pyId[p], r.dispatch, r.kind)
            => ControlNext
      BY <1>5, <2>1
    <3> QED
      BY <3>1, <3>2, <3>3
  <2> QED
    BY <1>6, <2>3, <2>4, <2>5, <2>6
<1> QED
  BY <1>1, <1>2, <1>3, <1>4, <1>6 DEF PyNext, PyProcessStep

LEMMA PyTyped ==
    ASSUME PyInv, [PyNext]_<<vars, pyVars>>
    PROVE  PyTypeOK' /\ PyStarted' /\ succeeded' \subseteq 1 .. MaxDispatches
<1> USE DEF PyInv, PyTypeOK, PyPoints, PyStarted, PyAt, PyTo, PyHolds
<1>1. \A p \in PyProcesses : Busy(p) => pyJob[p] \in 1 .. MaxDispatches
  BY ControlAssumption DEF PyHeldIsKnown
<1>2. succeeded \subseteq 1 .. MaxDispatches
  BY DEF FleetTypeOK
<1>3. CASE PyAdminCreates \/ PyAdminCancels \/ PyTimePasses \/ UNCHANGED <<vars, pyVars>>
  BY <1>2, <1>3 DEF PyAdminCreates, PyAdminCancels, PyTimePasses, pyVars, vars, workerVars
<1>4. ASSUME NEW p \in PyProcesses, PyRegisters(p)
      PROVE  PyTypeOK' /\ PyStarted' /\ succeeded' \subseteq 1 .. MaxDispatches
  BY <1>2, <1>4 DEF PyRegisters
<1>5. ASSUME NEW p \in PyProcesses, NEW point \in PyPoints, pyPhase[p] # "starting",
             PyTo(p, point), PyHolds(p, 0) \/ UNCHANGED pyJob,
             UNCHANGED <<pyId, pyPhase, pyBeat, pyLate, succeeded>>
      PROVE  PyTypeOK' /\ PyStarted' /\ succeeded' \subseteq 1 .. MaxDispatches
  <2>1. pyJob' \in [PyProcesses -> 0 .. MaxDispatches]
    BY <1>5, ControlAssumption
  <2>2. \A q \in PyProcesses : q # p => pyJob'[q] = pyJob[q] /\ pyPc'[q] = pyPc[q]
    BY <1>5
  <2> QED
    BY <1>2, <1>5, <2>1, <2>2
<1>5a. ASSUME NEW p \in PyProcesses,
              Polls(p) \/ PyAccepts(p) \/ PyHandlerRaises(p) \/ PyFails(p) \/ PyCompletes(p)
       PROVE  PyTypeOK' /\ PyStarted' /\ succeeded' \subseteq 1 .. MaxDispatches
  <2>1. /\ pyPhase[p] # "starting"
        /\ PyHolds(p, 0) \/ UNCHANGED pyJob
        /\ UNCHANGED <<pyId, pyPhase, pyBeat, pyLate, succeeded>>
    BY <1>5a DEF Polls, PyAccepts, PyHandlerRaises, PyFails, PyCompletes, Failing
  <2>2. \E point \in PyPoints : PyTo(p, point)
    BY <1>5a DEF Polls, PyAccepts, PyHandlerRaises, PyFails, PyCompletes
  <2> QED
    BY <1>5, <2>1, <2>2
<1>6. ASSUME NEW p \in PyProcesses, PyHandlerReturns(p)
      PROVE  PyTypeOK' /\ PyStarted' /\ succeeded' \subseteq 1 .. MaxDispatches
  BY <1>1, <1>2, <1>6 DEF PyHandlerReturns, Busy
<1>7. ASSUME NEW p \in PyProcesses, PyClaimAnswered(p)
      PROVE  PyTypeOK' /\ PyStarted' /\ succeeded' \subseteq 1 .. MaxDispatches
  <2>1. DispatchIds \subseteq 0 .. MaxDispatches
    OBVIOUS
  <2> QED
    BY <1>2, <1>7, <2>1 DEF PyClaimAnswered
<1>8. ASSUME NEW p \in PyProcesses, NEW kind \in {"claim", "completed", "failed"},
             kind # "claim" => Busy(p)
      PROVE  Awaited(p, kind) \in Requests
  BY <1>1, <1>8 DEF Awaited, Requests
<1>9. ASSUME NEW p \in PyProcesses, PyClaimTimesOut(p)
      PROVE  PyTypeOK' /\ PyStarted' /\ succeeded' \subseteq 1 .. MaxDispatches
  BY <1>2, <1>8, <1>9 DEF PyClaimTimesOut, LeftBehind
<1>10. ASSUME NEW p \in PyProcesses, LoopDies(p)
       PROVE  PyTypeOK' /\ PyStarted' /\ succeeded' \subseteq 1 .. MaxDispatches
  BY <1>2, <1>8, <1>10, ControlAssumption DEF LoopDies, LeftBehind, Failing, Busy
<1>11. ASSUME NEW p \in PyProcesses, PyStops(p)
       PROVE  PyTypeOK' /\ PyStarted' /\ succeeded' \subseteq 1 .. MaxDispatches
  BY <1>2, <1>8, <1>11, ControlAssumption DEF PyStops, LeftBehind, Failing, Busy
<1>12. ASSUME NEW p \in PyProcesses, PySendsBeat(p)
       PROVE  PyTypeOK' /\ PyStarted' /\ succeeded' \subseteq 1 .. MaxDispatches
  <2>1. PyListed(p) \in SUBSET (1 .. MaxDispatches)
    BY <1>1 DEF PyListed, Busy
  <2> QED
    BY <1>2, <1>12, <2>1 DEF PySendsBeat
<1>13. ASSUME NEW p \in PyProcesses, PyBeatArrives(p) \/ LateArrives(p)
       PROVE  PyTypeOK' /\ PyStarted' /\ succeeded' \subseteq 1 .. MaxDispatches
  BY <1>2, <1>13 DEF PyBeatArrives, LateArrives
<1> QED
  BY <1>3, <1>4, <1>5a, <1>6, <1>7, <1>9, <1>10, <1>11, <1>12, <1>13 DEF PyNext, PyProcessStep

PyStep == [PyNext]_<<vars, pyVars>>

\* A dispatch that has left the queue stays out of it.
LEMMA PyKeepsDispatches ==
    ASSUME PyInv, PyStep
    PROVE  /\ TypeOK' /\ DispatchIds \subseteq DispatchIds' /\ DispatchIds' \subseteq 1 .. MaxDispatches
           /\ \A d : PyKnown(d) => PyKnown(d)'
<1>1. TypeOK /\ [ControlNext]_controlVars
  BY PyMemoryStep DEF PyInv, FleetTypeOK, PyStep
<1>2. TypeOK' /\ \A d \in DispatchIds : DispatchMoves(d)
  BY <1>1, StepTyped, StepMoves
<1>3. DispatchIds = 1 .. Len(dispatches) /\ Len(dispatches) \in Nat
  BY <1>1, LenProperties DEF TypeOK, DispatchIds
<1>4. DispatchIds \subseteq DispatchIds' /\ DispatchIds' \subseteq 1 .. MaxDispatches
  BY <1>1, <1>3, StepKeepsDispatches, ControlAssumption DEF PyInv
<1> QED
  BY <1>2, <1>4 DEF DispatchMoves, Terminal, PyKnown

\* What a process is about to report has been done, and it has work when it
\* is in the middle of it.
PyWorkOK ==
    \A p \in PyProcesses :
        /\ Busy(p) <=> pyJob[p] # 0
        /\ pyPc[p] = "completing" => pyJob[p] \in succeeded
        /\ \A r \in pyLate[p] : r.kind = "completed" => r.dispatch \in succeeded

\* Process q may take up c, which nobody claims; every other job is kept or
\* dropped, and lists grow by claims.
LEMMA PyHandsChange ==
    ASSUME PyInv, PyStep, NEW gain, NEW done, Effect(gain, done),
           NEW q, NEW c, c # 0 => \A u \in Workers : ~PyClaims(u, c),
           \A p \in PyProcesses : pyPhase[p] # "starting" => pyId'[p] = pyId[p],
           \A p \in PyProcesses :
                \/ pyJob'[p] \in {0, pyJob[p]}
                \/ p = q /\ c # 0 /\ pyJob'[p] = c /\ PyKnown(c)' /\ pyPhase[p] # "starting",
           \A p \in PyProcesses : \/ pyBeat'[p] \in {NoList, pyBeat[p]}
                                  \/ \A d \in pyBeat'[p] : d # 0 /\ d = pyJob[p],
           \A v \in Workers : \A d : <<v, d>> \in gain => (v = pyId[q] /\ d = c) \/ PyClaims(v, d),
           PyWorkOK', done \subseteq succeeded, succeeded \subseteq succeeded'
    PROVE  PyInv'
<1>1. /\ TypeOK' /\ DispatchIds \subseteq DispatchIds' /\ DispatchIds' \subseteq 1 .. MaxDispatches
      /\ \A d : PyKnown(d) => PyKnown(d)'
  BY PyKeepsDispatches
<1>2. PyTypeOK' /\ PyStarted' /\ succeeded' \subseteq 1 .. MaxDispatches
  BY PyTyped DEF PyStep
<1>3. FleetTypeOK' /\ (job = [w \in Workers |-> 0])'
  <2>1. UNCHANGED <<phase, pc, job, aborted, beat, stray, restarts>>
    BY PyMemoryStep DEF PyStep
  <2> QED
    BY <1>1, <1>2, <2>1 DEF PyInv, FleetTypeOK
<1>4. ListedRuns'
  BY DEF Effect
<1>5. ASSUME NEW p \in PyProcesses, NEW d, d # 0, pyJob[p] = d \/ (pyBeat[p] # NoList /\ d \in pyBeat[p])
      PROVE  /\ pyPhase[p] # "starting" /\ pyId[p] \in Workers /\ pyId'[p] = pyId[p]
             /\ PyKnown(d) /\ PyClaims(pyId[p], d)
  BY <1>5 DEF PyInv, PyStarted, PyHeldIsKnown, PyClaims
<1>6. ASSUME NEW p \in PyProcesses, NEW d, d # 0,
             pyJob'[p] = d \/ (pyBeat'[p] # NoList /\ d \in pyBeat'[p])
      PROVE  /\ PyKnown(d)'
             /\ PyClaims(pyId'[p], d) \/ (pyId'[p] = pyId[q] /\ d = c)
  <2>1. CASE pyJob[p] = d \/ (pyBeat[p] # NoList /\ d \in pyBeat[p])
    BY <1>1, <1>5, <1>6, <2>1
  <2>2. CASE p = q /\ d = c /\ PyKnown(c)' /\ pyPhase[p] # "starting"
    BY <2>2
  <2> QED
    BY <1>6, <2>1, <2>2
<1>7. PyHeldIsKnown'
  <2>1. \A p \in PyProcesses : (pyJob[p] # 0 => PyKnown(pyJob[p]))'
    <3>1. ASSUME NEW p \in PyProcesses, NEW d, d = pyJob'[p], d # 0 PROVE PyKnown(d)'
      BY <1>6, <3>1
    <3> QED
      BY <3>1 DEF PyKnown
  <2>2. \A p \in PyProcesses : (pyBeat[p] # NoList => \A d \in pyBeat[p] : PyKnown(d))'
    <3>1. ASSUME NEW p \in PyProcesses, pyBeat'[p] # NoList, NEW d \in pyBeat'[p]
          PROVE  PyKnown(d)'
      <4>1. d # 0
        BY <1>2, <3>1 DEF PyTypeOK
      <4> QED
        BY <1>6, <3>1, <4>1
    <3> QED
      BY <3>1 DEF NoList
  <2> QED
    BY <2>1, <2>2 DEF PyHeldIsKnown, PyWorkOK
<1>8. OnePyClaim'
  <2>1. ASSUME NEW d \in 1 .. MaxDispatches, NEW v \in Workers, PyClaims(v, d)'
        PROVE  PyClaims(v, d) \/ (v = pyId[q] /\ d = c)
    <3>1. d # 0
      OBVIOUS
    <3>2. CASE d \in active'[v]
      BY <3>2 DEF Effect, PyClaims
    <3>3. ASSUME NEW p \in PyProcesses, pyId'[p] = v,
                 pyJob'[p] = d \/ (pyBeat'[p] # NoList /\ d \in pyBeat'[p])
          PROVE  PyClaims(v, d) \/ (v = pyId[q] /\ d = c)
      BY <1>6, <3>1, <3>3
    <3> QED
      BY <2>1, <3>2, <3>3 DEF PyClaims
  <2>2. \A d \in 1 .. MaxDispatches : \A v, w \in Workers : (PyClaims(v, d) /\ PyClaims(w, d) => v = w)'
    BY <2>1 DEF PyInv, OnePyClaim
  <2>3. ASSUME NEW p \in PyProcesses, NEW r \in PyProcesses, pyJob'[p] # 0, pyJob'[p] = pyJob'[r]
        PROVE  p = r
    <3>1. CASE pyJob'[p] = pyJob[p] /\ pyJob'[r] = pyJob[r]
      BY <2>3, <3>1 DEF PyInv, OnePyClaim
    <3>2. \A t \in PyProcesses : c # 0 => pyJob[t] # c
      BY <1>5
    <3> QED
      BY <2>3, <3>1, <3>2
  <2> QED
    BY <2>2, <2>3 DEF OnePyClaim
<1>9. PyCompletedIsDone'
  BY DEF Effect, PyInv, PyCompletedIsDone, PyWorkOK
<1> QED
  BY <1>1, <1>2, <1>3, <1>4, <1>7, <1>8, <1>9 DEF PyInv

\* Most steps leave every process's work alone, or drop it.
LEMMA PyHandsKept ==
    ASSUME PyInv, PyStep, Effect({}, {}),
           \A p \in PyProcesses : pyPhase[p] # "starting" => pyId'[p] = pyId[p],
           \A p \in PyProcesses : pyJob'[p] \in {0, pyJob[p]},
           \A p \in PyProcesses : \/ pyBeat'[p] \in {NoList, pyBeat[p]}
                                  \/ \A d \in pyBeat'[p] : d # 0 /\ d = pyJob[p],
           PyWorkOK', succeeded \subseteq succeeded'
    PROVE  PyInv'
<1> DEFINE gain == {} done == {} q == 0 c == 0
<1>1. /\ Effect(gain, done)
      /\ \A v \in Workers : \A d : <<v, d>> \in gain => (v = pyId[q] /\ d = c) \/ PyClaims(v, d)
      /\ done \subseteq succeeded /\ c = 0
  OBVIOUS
<1> HIDE DEF gain, done, q, c
<1> QED
  BY <1>1, PyHandsChange

\* One lemma for each kind of step, as for the Node fleet.
LEMMA PyAdminKeeps ==
    ASSUME PyInv, PyStep, PyAdminCreates \/ PyAdminCancels \/ PyTimePasses \/ UNCHANGED <<vars, pyVars>>
    PROVE  PyInv'
<1>1. UNCHANGED <<pyVars, succeeded>>
  BY DEF PyAdminCreates, PyAdminCancels, PyTimePasses, vars, workerVars
<1>2. TypeOK /\ ListedRuns
  BY DEF PyInv, FleetTypeOK
<1>3. Effect({}, {})
  <2>1. CASE PyAdminCreates
    BY <1>2, <2>1, EnqueueLists DEF PyAdminCreates, CreateDispatch
  <2>2. CASE PyAdminCancels
    BY <1>2, <2>2, CancelLists DEF PyAdminCancels
  <2>3. CASE PyTimePasses \/ UNCHANGED <<vars, pyVars>>
    BY <1>2, <2>3, QuietEffect DEF PyTimePasses, Tick, vars, controlVars
  <2> QED
    BY <2>1, <2>2, <2>3
<1>4. PyWorkOK'
  BY <1>1 DEF PyWorkOK, pyVars, PyInv, PyHeldIsKnown, PyCompletedIsDone, Busy
<1> QED
  BY <1>1, <1>3, <1>4, PyHandsKept DEF pyVars

\* The process takes a step of its own; nobody is asked.
LEMMA PyAlonesKeep ==
    ASSUME PyInv, PyStep, NEW p \in PyProcesses,
           \/ Polls(p) \/ PyClaimTimesOut(p) \/ PyAccepts(p) \/ PyHandlerReturns(p)
           \/ PyHandlerRaises(p) \/ LoopDies(p) \/ PySendsBeat(p) \/ PyStops(p)
    PROVE  PyInv'
<1> USE DEF PyAt, PyTo, PyHolds, Failing, Awaited, LeftBehind
<1>1. /\ PyTypeOK /\ TypeOK /\ ListedRuns
      /\ PyWorkOK
  BY DEF PyInv, FleetTypeOK, PyWorkOK, PyHeldIsKnown, PyCompletedIsDone
<1>2. Effect({}, {})
  BY <1>1, QuietEffect
     DEF Polls, PyClaimTimesOut, PyAccepts, PyHandlerReturns, PyHandlerRaises, LoopDies,
         PySendsBeat, PyStops, controlVars
<1>3. /\ UNCHANGED pyId /\ succeeded \subseteq succeeded'
      /\ \A r \in PyProcesses : pyJob'[r] \in {0, pyJob[r]}
  BY <1>1 DEF Polls, PyClaimTimesOut, PyAccepts, PyHandlerReturns, PyHandlerRaises, LoopDies,
              PySendsBeat, PyStops, PyTypeOK
<1>4. \A r \in PyProcesses : \/ pyBeat'[r] \in {NoList, pyBeat[r]}
                             \/ \A d \in pyBeat'[r] : d # 0 /\ d = pyJob[r]
  <2>1. CASE PySendsBeat(p)
    BY <1>1, <2>1 DEF PySendsBeat, PyListed, PyTypeOK, PyWorkOK, Busy
  <2>2. CASE ~PySendsBeat(p)
    BY <2>2 DEF Polls, PyClaimTimesOut, PyAccepts, PyHandlerReturns, PyHandlerRaises, LoopDies,
                PyStops
  <2> QED
    BY <2>1, <2>2
<1>5. PyWorkOK'
  <2>1. CASE \/ Polls(p) \/ PyAccepts(p) \/ PyHandlerReturns(p) \/ PyHandlerRaises(p)
    BY <1>1, <2>1 DEF Polls, PyAccepts, PyHandlerReturns, PyHandlerRaises, PyWorkOK, Busy, PyTypeOK
  <2>2. CASE PyClaimTimesOut(p) \/ LoopDies(p)
    BY <1>1, <2>2 DEF PyClaimTimesOut, LoopDies, PyWorkOK, Busy, PyTypeOK
  <2>3. CASE PySendsBeat(p)
    BY <1>1, <2>3 DEF PySendsBeat, PyWorkOK, Busy
  <2>4. CASE PyStops(p)
    BY <1>1, <2>4 DEF PyStops, PyWorkOK, Busy, PyTypeOK
  <2> QED
    BY <2>1, <2>2, <2>3, <2>4
<1> QED
  BY <1>2, <1>3, <1>4, <1>5, PyHandsKept

LEMMA PyRegistersKeeps ==
    ASSUME PyInv, PyStep, NEW p \in PyProcesses, PyRegisters(p)
    PROVE  PyInv'
<1>1. TypeOK /\ ListedRuns /\ PyTypeOK
  BY DEF PyInv, FleetTypeOK
<1>2. Effect({}, {})
  BY <1>1, QuietEffect DEF PyRegisters, RegisterWorker, Unserved, controlVars
<1>3. /\ UNCHANGED <<pyPc, pyJob, pyBeat, pyLate, succeeded>>
      /\ \A q \in PyProcesses : pyPhase[q] # "starting" => pyId'[q] = pyId[q]
  BY <1>1 DEF PyRegisters, PyTypeOK
<1>4. PyWorkOK'
  BY <1>3 DEF PyInv, PyHeldIsKnown, PyCompletedIsDone, PyWorkOK, Busy
<1> QED
  BY <1>2, <1>3, <1>4, PyHandsKept

LEMMA PyOneList == ASSUME PyInv PROVE OneList
BY DEF PyInv, OnePyClaim, OneList, PyClaims

\* What is in the queue is nobody's.
LEMMA PyQueuedUnclaimed ==
    ASSUME PyInv, NEW d \in DispatchIds, dispatches[d].status = "queued", NEW u \in Workers
    PROVE  ~PyClaims(u, d)
BY DEF PyInv, PyClaims, PyHeldIsKnown, PyKnown, ListedRuns

\* A claim, whoever still waits for its answer.
LEMMA PyClaimKeeps ==
    ASSUME PyInv, PyStep, NEW p \in PyProcesses, pyId[p] \in Workers, pyPhase[p] # "starting",
           UNCHANGED <<pyId, pyBeat, succeeded>>, PyWorkOK',
           \A q \in PyProcesses : q # p => pyJob'[q] = pyJob[q],
           \/ \E d \in DispatchIds : ClaimNext(pyId[p], d) /\ pyJob'[p] \in {pyJob[p], d}
           \/ (ClaimNothing(pyId[p]) \/ Unserved) /\ pyJob'[p] = pyJob[p]
    PROVE  PyInv'
<1>1. TypeOK /\ ListedRuns /\ PyTypeOK
  BY DEF PyInv, FleetTypeOK
<1>2. ASSUME NEW d \in DispatchIds, ClaimNext(pyId[p], d), pyJob'[p] \in {pyJob[p], d} PROVE PyInv'
  <2> DEFINE gain == {<<pyId[p], d>>} done == {}
  <2>1. /\ Effect(gain, done) /\ dispatches[d].status = "queued"
        /\ PyKnown(d)'
    BY <1>1, <1>2, ClaimLists DEF PyKnown
  <2>2. /\ \A u \in Workers : ~PyClaims(u, d)
        /\ d # 0
    BY <2>1, PyQueuedUnclaimed DEF PyInv
  <2>3. /\ \A v \in Workers : \A c : <<v, c>> \in gain => (v = pyId[p] /\ c = d) \/ PyClaims(v, c)
        /\ done \subseteq succeeded
    OBVIOUS
  <2>4. \A q \in PyProcesses :
            \/ pyJob'[q] \in {0, pyJob[q]}
            \/ q = p /\ d # 0 /\ pyJob'[q] = d /\ PyKnown(d)' /\ pyPhase[q] # "starting"
    BY <1>2, <2>1, <2>2
  <2> HIDE DEF gain, done
  <2> QED
    BY <2>1, <2>2, <2>3, <2>4, PyHandsChange
<1>3. ASSUME ClaimNothing(pyId[p]) \/ Unserved, pyJob'[p] = pyJob[p] PROVE PyInv'
  <2>1. Effect({}, {})
    BY <1>1, <1>3, ClaimNothingLists, QuietEffect DEF Unserved, controlVars
  <2> QED
    BY <1>3, <2>1, PyHandsKept
<1> QED
  BY <1>2, <1>3

\* The end of a dispatch, reported by its process or by a late request.
LEMMA PyEndKeeps ==
    ASSUME PyInv, PyStep, NEW p \in PyProcesses, pyId[p] \in Workers,
           UNCHANGED <<pyId, pyBeat, succeeded>>, PyWorkOK',
           \A q \in PyProcesses : pyJob'[q] \in {0, pyJob[q]},
           NEW d, NEW st \in {"completed", "failed"}, st = "completed" => d \in succeeded,
           FinishDispatch(pyId[p], d, st) \/ Unserved
    PROVE  PyInv'
<1>1. TypeOK /\ ListedRuns
  BY DEF PyInv, FleetTypeOK
<1> DEFINE gain == {} done == IF st = "completed" THEN {d} ELSE {} q == 0 c == 0
<1>2. CASE Unserved
  <2>1. Effect({}, {})
    BY <1>1, <1>2, QuietEffect DEF Unserved, controlVars
  <2> QED
    BY <2>1, PyHandsKept
<1>3. CASE FinishDispatch(pyId[p], d, st)
  <2>1. Effect(gain, done)
    BY <1>1, <1>3, FinishLists, PyOneList
  <2>2. /\ \A v \in Workers : \A e : <<v, e>> \in gain => (v = pyId[q] /\ e = c) \/ PyClaims(v, e)
        /\ done \subseteq succeeded /\ c = 0
    OBVIOUS
  <2> HIDE DEF gain, done, q, c
  <2> QED
    BY <2>1, <2>2, PyHandsChange
<1> QED
  BY <1>2, <1>3

LEMMA PyBeatArrivesKeeps ==
    ASSUME PyInv, PyStep, NEW p \in PyProcesses, PyBeatArrives(p)
    PROVE  PyInv'
<1>1. TypeOK /\ ListedRuns /\ PyTypeOK
  BY DEF PyInv, FleetTypeOK
<1>2. /\ UNCHANGED <<pyId, pyPc, pyJob, pyLate, succeeded>> /\ pyBeat[p] # NoList
      /\ \A q \in PyProcesses : pyBeat'[q] \in {NoList, pyBeat[q]}
  BY <1>1 DEF PyBeatArrives, PyTypeOK
<1>3. pyPhase[p] # "starting" /\ pyId[p] \in Workers
  BY <1>2 DEF PyInv, PyStarted
<1>4. PyWorkOK'
  BY <1>2 DEF PyInv, PyHeldIsKnown, PyCompletedIsDone, PyWorkOK, Busy
<1>5. CASE Unserved
  <2>1. Effect({}, {})
    BY <1>1, <1>5, QuietEffect DEF Unserved, controlVars
  <2> QED
    BY <1>2, <1>4, <2>1, PyHandsKept
<1>6. CASE Heartbeat(pyId[p], pyBeat[p])
  <2> DEFINE gain == {pyId[p]} \X pyBeat[p] done == {} q == 0 c == 0
  <2>1. Effect(gain, done)
    BY <1>1, <1>3, <1>6, HeartbeatLists
  <2>2. /\ \A v \in Workers : \A d : <<v, d>> \in gain => (v = pyId[q] /\ d = c) \/ PyClaims(v, d)
        /\ done \subseteq succeeded /\ c = 0
    BY <1>2, <1>3 DEF PyClaims
  <2> HIDE DEF gain, done, q, c
  <2> QED
    BY <1>2, <1>4, <2>1, <2>2, PyHandsChange
<1> QED
  BY <1>5, <1>6 DEF PyBeatArrives

LEMMA PyAsksKeep ==
    ASSUME PyInv, PyStep, NEW p \in PyProcesses,
           PyClaimAnswered(p) \/ PyCompletes(p) \/ PyFails(p) \/ LateArrives(p)
    PROVE  PyInv'
<1> USE DEF PyAt, PyTo, PyHolds, Failing
<1>1. /\ PyTypeOK /\ PyWorkOK
      /\ DispatchIds \subseteq 1 .. MaxDispatches
  BY DEF PyInv, PyWorkOK, PyHeldIsKnown, PyCompletedIsDone
<1>2. pyPhase[p] # "starting" /\ pyId[p] \in Workers
  BY DEF PyInv, PyStarted, PyClaimAnswered, PyCompletes, PyFails, LateArrives
<1>3. /\ UNCHANGED <<pyId, pyPhase, pyBeat, succeeded>>
      /\ \A q \in PyProcesses : q # p => pyJob'[q] = pyJob[q]
  BY <1>1 DEF PyTypeOK, PyClaimAnswered, PyCompletes, PyFails, LateArrives
<1>4. PyWorkOK'
  <2>1. CASE PyClaimAnswered(p)
    BY <1>1, <2>1 DEF PyClaimAnswered, PyWorkOK, Busy, PyTypeOK
  <2>2. CASE PyCompletes(p) \/ PyFails(p)
    BY <1>1, <2>2 DEF PyCompletes, PyFails, PyWorkOK, Busy, PyTypeOK
  <2>3. CASE LateArrives(p)
    BY <1>1, <2>3 DEF LateArrives, PyWorkOK, Busy, PyTypeOK
  <2> QED
    BY <2>1, <2>2, <2>3
<1>5. CASE PyClaimAnswered(p)
  <2>1. \/ \E d \in DispatchIds : ClaimNext(pyId[p], d) /\ pyJob'[p] \in {pyJob[p], d}
        \/ (ClaimNothing(pyId[p]) \/ Unserved) /\ pyJob'[p] = pyJob[p]
    BY <1>1, <1>5 DEF PyClaimAnswered, PyTypeOK
  <2> QED
    BY <1>2, <1>3, <1>4, <2>1, PyClaimKeeps
<1>6. CASE PyCompletes(p)
  <2>1. /\ pyJob[p] \in succeeded
        /\ FinishDispatch(pyId[p], pyJob[p], "completed") \/ Unserved
        /\ \A q \in PyProcesses : pyJob'[q] \in {0, pyJob[q]}
    BY <1>1, <1>6 DEF PyCompletes, PyWorkOK, PyTypeOK
  <2> QED
    BY <1>2, <1>3, <1>4, <2>1, PyEndKeeps
<1>7. CASE PyFails(p)
  <2>1. /\ FinishDispatch(pyId[p], pyJob[p], "failed") \/ Unserved
        /\ \A q \in PyProcesses : pyJob'[q] \in {0, pyJob[q]}
    BY <1>1, <1>7 DEF PyFails, PyTypeOK
  <2> QED
    BY <1>2, <1>3, <1>4, <2>1, PyEndKeeps
<1>8. CASE LateArrives(p)
  <2>1. UNCHANGED pyJob
    BY <1>8 DEF LateArrives
  <2>2. PICK r \in pyLate[p] :
            \/ Unserved
            \/ \E d \in DispatchIds : ClaimNext(pyId[p], d)
            \/ r.kind # "claim" /\ FinishDispatch(pyId[p], r.dispatch, r.kind)
    BY <1>8 DEF LateArrives
  <2>3. CASE Unserved \/ \E d \in DispatchIds : ClaimNext(pyId[p], d)
    BY <1>2, <1>3, <1>4, <2>1, <2>3, PyClaimKeeps
  <2>4. CASE r.kind # "claim" /\ FinishDispatch(pyId[p], r.dispatch, r.kind)
    <3>1. r.kind \in {"completed", "failed"} /\ (r.kind = "completed" => r.dispatch \in succeeded)
      BY <1>1, <2>4 DEF PyTypeOK, Requests, PyWorkOK
    <3> QED
      BY <1>2, <1>3, <1>4, <2>1, <2>4, <3>1, PyEndKeeps
  <2> QED
    BY <2>2, <2>3, <2>4
<1> QED
  BY <1>5, <1>6, <1>7, <1>8

LEMMA PyInvInit == FleetInit /\ PyInit => PyInv
<1> SUFFICES ASSUME FleetInit, PyInit PROVE PyInv
  OBVIOUS
<1>1. FleetInv
  BY FleetInvInit
<1>2. DispatchIds = {}
  BY EmptySeq DEF FleetInit, DispatchIds
<1>3. PyTypeOK
  BY ControlAssumption DEF PyInit, PyTypeOK, PyPoints
<1>4. PyStarted /\ PyHeldIsKnown
  BY DEF PyInit, PyStarted, PyHeldIsKnown, Busy
<1>5. OnePyClaim /\ PyCompletedIsDone
  BY <1>2 DEF PyInit, FleetInit, OnePyClaim, PyClaims, PyCompletedIsDone
<1> QED
  BY <1>1, <1>2, <1>3, <1>4, <1>5 DEF PyInv, FleetInv, FleetInit

LEMMA PyInvNext == PyInv /\ [PyNext]_<<vars, pyVars>> => PyInv'
<1> SUFFICES ASSUME PyInv, PyStep PROVE PyInv'
  BY DEF PyStep
<1>1. ASSUME NEW p \in PyProcesses, PyProcessStep(p) PROVE PyInv'
  BY <1>1, PyAlonesKeep, PyRegistersKeeps, PyBeatArrivesKeeps, PyAsksKeep DEF PyProcessStep
<1>2. CASE PyAdminCreates \/ PyAdminCancels \/ PyTimePasses \/ UNCHANGED <<vars, pyVars>>
  BY <1>2, PyAdminKeeps
<1> QED
  BY <1>1, <1>2 DEF PyStep, PyNext

\* The inductive invariant of a fleet of Python workers (worker.py).
THEOREM PyFleetInvariant == PySpec => []PyInv
BY PyInvInit, PyInvNext, PTL DEF PySpec

\* Two processes never run the same dispatch, though they may share a worker
\* id, and though requests of tasks that were cancelled still arrive.
THEOREM PyExclusive == PySpec => []PyWorkIsExclusive
<1>1. PyInv => PyWorkIsExclusive
  BY DEF PyInv, OnePyClaim, PyWorkIsExclusive
<1> QED
  BY <1>1, PyFleetInvariant, PTL

\* The invariants of the Node fleet hold in a Python fleet too: no end is
\* undone by a list, no two lists name one dispatch, and nothing is called
\* completed that was not done.
THEOREM PyListsAndEnds == PySpec => [](ListsOK /\ CompletedWasDone)
<1>1. PyInv => ListsOK /\ CompletedWasDone
  BY DEF PyInv, ListsOK, PyCompletedIsDone, CompletedWasDone
<1> QED
  BY <1>1, PyFleetInvariant, PTL
=============================================================================
