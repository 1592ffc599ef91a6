------------------------- MODULE AgentControlProofs -------------------------
(***************************************************************************)
(* Proofs about AgentControl, for every set of workers, environments and   *)
(* artifacts and every bound.                                              *)
(***************************************************************************)
EXTENDS AgentControl, SequenceTheorems, FiniteSetTheorems, TLAPS

-----------------------------------------------------------------------------
(* Sequences. *)

\* A function on 1..n with values in S is a sequence over S.
LEMMA FunctionIsSeq ==
    ASSUME NEW S, NEW n \in Nat, NEW f \in [1 .. n -> S]
    PROVE  f \in Seq(S) /\ Len(f) = n
<1>1. f \in Seq(S)
  BY SeqDef
<1>2. Len(f) = n
  BY <1>1, LenProperties
<1> QED
  BY <1>1, <1>2

\* Appending keeps the old entries and adds one at the end.
LEMMA AppendEntry ==
    ASSUME NEW S, NEW s \in Seq(S), NEW e \in S
    PROVE  /\ Append(s, e) \in Seq(S)
           /\ DOMAIN Append(s, e) = DOMAIN s \cup {Len(s) + 1}
           /\ \A i \in DOMAIN s : Append(s, e)[i] = s[i]
           /\ Append(s, e)[Len(s) + 1] = e
           /\ Len(s) \in Nat /\ DOMAIN s = 1 .. Len(s)
<1>1. /\ Append(s, e) \in Seq(S)
      /\ Len(Append(s, e)) = Len(s) + 1
      /\ \A i \in 1 .. Len(s) : Append(s, e)[i] = s[i]
      /\ Append(s, e)[Len(s) + 1] = e
  BY AppendProperties
<1>2. Len(s) \in Nat /\ DOMAIN s = 1 .. Len(s)
  BY LenProperties
<1>3. DOMAIN Append(s, e) = 1 .. (Len(s) + 1)
  BY <1>1, LenProperties
<1> QED
  BY <1>1, <1>2, <1>3

-----------------------------------------------------------------------------
(* What the operations do to the dispatches. *)

\* A new status for one dispatch: every other field and dispatch stays.
LEMMA SetStatusEffect ==
    ASSUME TypeOK, NEW d \in DispatchIds, NEW st \in DispatchStatus, SetStatus(d, st)
    PROVE  /\ dispatches' \in Seq(Dispatch)
           /\ DispatchIds' = DispatchIds
           /\ \A c \in DispatchIds :
                /\ dispatches'[c].env = dispatches[c].env
                /\ dispatches'[c].deployment = dispatches[c].deployment
                /\ dispatches'[c].status = IF c = d THEN st ELSE dispatches[c].status
<1>1. /\ dispatches \in [1 .. Len(dispatches) -> Dispatch]
      /\ Len(dispatches) \in Nat
      /\ DispatchIds = 1 .. Len(dispatches)
  BY LenProperties DEF TypeOK, DispatchIds
<1>2. dispatches' = [dispatches EXCEPT ![d].status = st]
  BY DEF SetStatus
<1>3. dispatches' \in [1 .. Len(dispatches) -> Dispatch]
  BY <1>1, <1>2 DEF Dispatch
<1>4. dispatches' \in Seq(Dispatch) /\ DispatchIds' = DispatchIds
  BY <1>1, <1>3, FunctionIsSeq DEF DispatchIds
<1>5. ASSUME NEW c \in DispatchIds
      PROVE  /\ dispatches'[c].env = dispatches[c].env
             /\ dispatches'[c].deployment = dispatches[c].deployment
             /\ dispatches'[c].status = IF c = d THEN st ELSE dispatches[c].status
  BY <1>1, <1>2 DEF Dispatch
<1> QED
  BY <1>4, <1>5

\* The statuses a claim writes: the claimed dispatch runs, the overdue fail.
LEMMA ClaimEffect ==
    ASSUME TypeOK, NEW w \in Workers, NEW run \in SUBSET DispatchIds,
           \/ \E d \in DispatchIds : ClaimNext(w, d) /\ run = {d}
           \/ ClaimNothing(w) /\ run = {}
    PROVE  /\ dispatches' \in Seq(Dispatch)
           /\ DispatchIds' = DispatchIds
           /\ \A c \in DispatchIds :
                /\ dispatches'[c].env = dispatches[c].env
                /\ dispatches'[c].deployment = dispatches[c].deployment
                /\ dispatches'[c].status = IF c \in run THEN "running"
                                           ELSE IF c \in Swept(workerEnv[w]) THEN "failed"
                                           ELSE dispatches[c].status
<1>1. /\ dispatches \in [1 .. Len(dispatches) -> Dispatch]
      /\ Len(dispatches) \in Nat
      /\ DispatchIds = 1 .. Len(dispatches)
  BY LenProperties DEF TypeOK, DispatchIds
<1>2. dispatches' = [c \in DispatchIds |->
                IF c \in run THEN [dispatches[c] EXCEPT !.status = "running"]
                ELSE IF c \in Swept(workerEnv[w]) THEN [dispatches[c] EXCEPT !.status = "failed"]
                ELSE dispatches[c]]
  BY DEF ClaimNext, ClaimNothing
<1>3. dispatches' \in [1 .. Len(dispatches) -> Dispatch]
  BY <1>1, <1>2 DEF Dispatch, DispatchStatus
<1>4. dispatches' \in Seq(Dispatch) /\ DispatchIds' = DispatchIds
  BY <1>1, <1>3, FunctionIsSeq DEF DispatchIds
<1>5. ASSUME NEW c \in DispatchIds
      PROVE  /\ dispatches'[c].env = dispatches[c].env
             /\ dispatches'[c].deployment = dispatches[c].deployment
             /\ dispatches'[c].status = IF c \in run THEN "running"
                                        ELSE IF c \in Swept(workerEnv[w]) THEN "failed"
                                        ELSE dispatches[c].status
  BY <1>1, <1>2 DEF Dispatch
<1> QED
  BY <1>4, <1>5

LEMMA ClaimNothingEffect ==
    ASSUME TypeOK, NEW w \in Workers, ClaimNothing(w)
    PROVE  \A c \in DispatchIds :
                /\ dispatches'[c].env = dispatches[c].env
                /\ dispatches'[c].status \in {"failed", dispatches[c].status}
BY LenProperties DEF ClaimNothing, TypeOK, DispatchIds, Dispatch

\* A new dispatch joins at the end, queued.
LEMMA EnqueueEffect ==
    ASSUME TypeOK, NEW i, NEW deadline \in Times, Enqueue(i, deadline)
    PROVE  /\ dispatches' \in Seq(Dispatch)
           /\ DispatchIds' = DispatchIds \cup {Len(dispatches) + 1}
           /\ Len(dispatches) + 1 \notin DispatchIds
           /\ \A c \in DispatchIds : dispatches'[c] = dispatches[c]
           /\ dispatches'[Len(dispatches) + 1].status = "queued"
           /\ dispatches'[Len(dispatches) + 1].deployment = i
           /\ i \in DOMAIN deployments
<1> DEFINE e == [env |-> deployments[i].env, deployment |-> i,
                 deadline |-> deadline, status |-> "queued"]
<1>1. i \in DOMAIN deployments /\ dispatches' = Append(dispatches, e)
  BY DEF Enqueue
<1>2. deployments[i] \in Deployment /\ i \in Nat \ {0}
  BY <1>1, LenProperties, ElementOfSeq DEF TypeOK
<1>3. e \in Dispatch
  BY <1>2 DEF Dispatch, Deployment, DispatchStatus
<1>4. /\ dispatches' \in Seq(Dispatch)
      /\ DOMAIN dispatches' = DOMAIN dispatches \cup {Len(dispatches) + 1}
      /\ \A c \in DOMAIN dispatches : dispatches'[c] = dispatches[c]
      /\ dispatches'[Len(dispatches) + 1] = e
      /\ Len(dispatches) \in Nat /\ DOMAIN dispatches = 1 .. Len(dispatches)
  <2> HIDE DEF e
  <2> QED
    BY <1>1, <1>3, AppendEntry DEF TypeOK
<1> QED
  BY <1>1, <1>4 DEF DispatchIds

\* Changing the status of a deployment.
LEMMA DeploymentStatusEffect ==
    ASSUME TypeOK, NEW i \in DOMAIN deployments, NEW st \in DeploymentStatus,
           deployments' = [deployments EXCEPT ![i].status = st]
    PROVE  /\ deployments' \in Seq(Deployment)
           /\ DOMAIN deployments' = DOMAIN deployments
<1>1. deployments \in [1 .. Len(deployments) -> Deployment] /\ Len(deployments) \in Nat
  BY LenProperties DEF TypeOK
<1>2. deployments' \in [1 .. Len(deployments) -> Deployment]
  BY <1>1 DEF Deployment
<1> QED
  BY <1>1, <1>2, FunctionIsSeq

-----------------------------------------------------------------------------
(* Type correctness. *)

LEMMA InitTyped == ControlInit => TypeOK
<1> SUFFICES ASSUME ControlInit PROVE TypeOK
  OBVIOUS
<1>1. /\ << >> \in Seq(Deployment) /\ << >> \in Seq(Rule) /\ << >> \in Seq(Dispatch)
      /\ DOMAIN << >> = {}
  BY EmptySeq, LenProperties
<1> QED
  BY <1>1, ControlAssumption DEF ControlInit, TypeOK, Times, DispatchIds

LEMMA AdminStepTyped ==
    ASSUME TypeOK, AdminStep PROVE TypeOK'
<1>1. CASE \E a \in Artifacts : RegisterArtifact(a)
  BY <1>1 DEF RegisterArtifact, TypeOK, DispatchIds
<1>2. ASSUME NEW e \in Envs, NEW a \in Artifacts, NEW full \in BOOLEAN, Deploy(e, a, full)
      PROVE  TypeOK'
  <2> DEFINE new == [env |-> e, artifact |-> a,
                     status |-> IF full THEN "active" ELSE "canary"]
  <2>1. new \in Deployment /\ deployments' = Append(deployments, new)
    BY <1>2 DEF Deploy, Deployment, DeploymentStatus
  <2>2. deployments' \in Seq(Deployment) /\ DOMAIN deployments \subseteq DOMAIN deployments'
    <3> HIDE DEF new
    <3> QED
      BY <2>1, AppendEntry DEF TypeOK
  <2> QED
    BY <1>2, <2>2 DEF Deploy, TypeOK, DispatchIds
<1>3. ASSUME NEW i \in DOMAIN deployments, Reconcile(i) \/ Rollback(i)
      PROVE  TypeOK'
  <2>1. deployments' \in Seq(Deployment) /\ DOMAIN deployments' = DOMAIN deployments
    BY <1>3, DeploymentStatusEffect DEF Reconcile, Rollback, DeploymentStatus
  <2> QED
    BY <1>3, <2>1 DEF Reconcile, Rollback, TypeOK, DispatchIds
<1>4. ASSUME NEW e \in Envs, NEW t \in Triggers, NEW a \in Artifacts, NEW cap \in Caps,
             NEW enabled \in BOOLEAN, RegisterRule(e, t, a, cap, enabled)
      PROVE  TypeOK'
  <2> DEFINE new == [env |-> e, trigger |-> t, artifact |-> a,
                     cap |-> cap, enabled |-> enabled]
  <2>1. new \in Rule /\ rules' = Append(rules, new)
    BY <1>4 DEF RegisterRule, Rule
  <2>2. rules' \in Seq(Rule)
    <3> HIDE DEF new
    <3> QED
      BY <2>1, AppendEntry DEF TypeOK
  <2> QED
    BY <1>4, <2>2 DEF RegisterRule, TypeOK, DispatchIds
<1>5. ASSUME NEW i, NEW deadline \in Times, Enqueue(i, deadline),
             triggered' \subseteq triggered \cup {Len(dispatches) + 1}
      PROVE  TypeOK'
  <2>1. /\ dispatches' \in Seq(Dispatch)
        /\ DispatchIds' = DispatchIds \cup {Len(dispatches) + 1}
        /\ \A c \in DispatchIds : dispatches'[c] = dispatches[c]
        /\ dispatches'[Len(dispatches) + 1].deployment = i
        /\ i \in DOMAIN deployments
    BY <1>5, EnqueueEffect
  <2>2. \A d \in DispatchIds' : dispatches'[d].deployment \in DOMAIN deployments
    BY <2>1 DEF TypeOK
  <2> QED
    BY <1>5, <2>1, <2>2 DEF Enqueue, TypeOK
<1>6. ASSUME NEW i \in DOMAIN deployments, NEW deadline \in Times, CreateDispatch(i, deadline)
      PROVE  TypeOK'
  BY <1>5, <1>6 DEF CreateDispatch
<1>7. ASSUME NEW e \in Envs, NEW t \in Triggers, NEW deadline \in Times,
             TriggerDispatch(e, t, deadline)
      PROVE  TypeOK'
  BY <1>5, <1>7 DEF TriggerDispatch
<1>8. ASSUME NEW d \in DispatchIds, Cancel(d)
      PROVE  TypeOK'
  <2>1. /\ dispatches' \in Seq(Dispatch)
        /\ DispatchIds' = DispatchIds
        /\ \A c \in DispatchIds : dispatches'[c].deployment = dispatches[c].deployment
    BY <1>8, SetStatusEffect DEF Cancel, TypeOK, DispatchStatus
  <2> QED
    BY <1>8, <2>1 DEF Cancel, TypeOK
<1> QED
  BY <1>1, <1>2, <1>3, <1>4, <1>6, <1>7, <1>8 DEF AdminStep

LEMMA WorkerStepTyped ==
    ASSUME TypeOK, NEW w \in Workers, WorkerStep(w) PROVE TypeOK'
<1>1. ASSUME NEW e \in Envs, RegisterWorker(w, e)
      PROVE  TypeOK'
  BY <1>1 DEF RegisterWorker, TypeOK, DispatchIds
<1>2. ASSUME NEW ids \in SUBSET DispatchIds, Heartbeat(w, ids)
      PROVE  TypeOK'
  BY <1>2 DEF Heartbeat, TypeOK, DispatchIds
<1>3. ASSUME NEW d \in DispatchIds, StartDispatch(w, d)
      PROVE  TypeOK'
  <2>1. /\ dispatches' \in Seq(Dispatch)
        /\ DispatchIds' = DispatchIds
        /\ \A c \in DispatchIds : dispatches'[c].deployment = dispatches[c].deployment
    BY <1>3, SetStatusEffect DEF StartDispatch, DispatchStatus
  <2> QED
    BY <1>3, <2>1 DEF StartDispatch, TypeOK
<1>4. ASSUME NEW d \in DispatchIds, ClaimNext(w, d)
      PROVE  TypeOK'
  <2>1. /\ dispatches' \in Seq(Dispatch)
        /\ DispatchIds' = DispatchIds
        /\ \A c \in DispatchIds : dispatches'[c].deployment = dispatches[c].deployment
    <3>1. {d} \in SUBSET DispatchIds
      OBVIOUS
    <3> QED
      BY <1>4, <3>1, ClaimEffect
  <2> QED
    BY <1>4, <2>1 DEF ClaimNext, TypeOK
<1>5. CASE ClaimNothing(w)
  <2>1. /\ dispatches' \in Seq(Dispatch)
        /\ DispatchIds' = DispatchIds
        /\ \A c \in DispatchIds : dispatches'[c].deployment = dispatches[c].deployment
    <3>1. {} \in SUBSET DispatchIds
      OBVIOUS
    <3> QED
      BY <1>5, <3>1, ClaimEffect
  <2> QED
    BY <1>5, <2>1 DEF ClaimNothing, TypeOK
<1>6. ASSUME NEW d \in DispatchIds, NEW st \in {"completed", "failed"}, FinishDispatch(w, d, st)
      PROVE  TypeOK'
  <2>1. /\ dispatches' \in Seq(Dispatch)
        /\ DispatchIds' = DispatchIds
        /\ \A c \in DispatchIds : dispatches'[c].deployment = dispatches[c].deployment
    BY <1>6, SetStatusEffect DEF FinishDispatch, DispatchStatus
  <2> QED
    BY <1>6, <2>1 DEF FinishDispatch, TypeOK
<1>7. ASSUME NEW d \in DispatchIds, WorkerCancel(w, d)
      PROVE  TypeOK'
  <2>1. AdminStep
    BY <1>7 DEF WorkerCancel, AdminStep
  <2> QED
    BY <2>1, AdminStepTyped
<1> QED
  BY <1>1, <1>2, <1>3, <1>4, <1>5, <1>6, <1>7 DEF WorkerStep

LEMMA StepTyped ==
    ASSUME TypeOK, [ControlNext]_controlVars PROVE TypeOK'
<1>1. CASE Tick
  BY <1>1, ControlAssumption DEF Tick, TypeOK, DispatchIds, Times
<1>2. CASE AdminStep
  BY <1>2, AdminStepTyped
<1>3. CASE \E w \in Workers : WorkerStep(w)
  BY <1>3, WorkerStepTyped
<1>4. CASE UNCHANGED controlVars
  BY <1>4 DEF controlVars, TypeOK, DispatchIds
<1> QED
  BY <1>1, <1>2, <1>3, <1>4 DEF ControlNext

\* Every variable keeps its type and no identifier dangles: a dispatch's
\* deployment and everything a worker is listed with always exist.
THEOREM TypeCorrect == ControlSpec => []TypeOK
<1>1. ControlInit => TypeOK
  BY InitTyped
<1>2. TypeOK /\ [ControlNext]_controlVars => TypeOK'
  BY StepTyped
<1> QED
  BY <1>1, <1>2, PTL DEF ControlSpec

-----------------------------------------------------------------------------
(* Ownership.  The three facts about the workers' lists are inductive only *)
(* together with the types: a claim adds what was queued, and QueuedHasNo- *)
(* Owner is what keeps that apart from what the lists already hold.        *)

Owned == OwnersShareEnvironment /\ QueuedHasNoOwner /\ CancelledHasNoOwner
OwnershipInv == TypeOK /\ Owned

LEMMA InitOwned == ControlInit => Owned
BY DEF ControlInit, Owned, OwnersShareEnvironment, QueuedHasNoOwner, CancelledHasNoOwner

\* The lists stay proper when every entry was there before with the same
\* environment and worker, and its status is neither queued nor cancelled.
LEMMA OwnedKept ==
    ASSUME OwnershipInv, workerEnv' = workerEnv,
           \A v \in Workers : \A c \in active'[v] :
                /\ c \in active[v]
                /\ dispatches'[c].env = dispatches[c].env
                /\ dispatches'[c].status \notin {"queued", "cancelled"}
    PROVE  Owned'
BY DEF OwnershipInv, Owned, OwnersShareEnvironment, QueuedHasNoOwner, CancelledHasNoOwner

\* As before, and one dispatch of the worker's environment joins its list.
LEMMA OwnedGrows ==
    ASSUME OwnershipInv, workerEnv' = workerEnv,
           NEW w \in Workers, NEW d \in DispatchIds,
           dispatches[d].env = workerEnv[w],
           active' = [active EXCEPT ![w] = @ \cup {d}],
           \A c \in DispatchIds : dispatches'[c].env = dispatches[c].env,
           \A v \in Workers : \A c \in active[v] \cup {d} :
                dispatches'[c].status \notin {"queued", "cancelled"}
    PROVE  Owned'
<1>1. \A v \in Workers : active[v] \subseteq DispatchIds
  BY DEF OwnershipInv, TypeOK
<1>2. \A v \in Workers : active'[v] = IF v = w THEN active[w] \cup {d} ELSE active[v]
  BY DEF OwnershipInv, TypeOK
<1>3. ASSUME NEW v \in Workers, NEW c \in active'[v]
      PROVE  /\ dispatches'[c].env = workerEnv[v]
             /\ dispatches'[c].status \notin {"queued", "cancelled"}
  BY <1>1, <1>2, <1>3 DEF OwnershipInv, Owned, OwnersShareEnvironment
<1> QED
  BY <1>3 DEF Owned, OwnersShareEnvironment, QueuedHasNoOwner, CancelledHasNoOwner

\* Nothing listed is queued or cancelled.
LEMMA ListedStatus ==
    ASSUME OwnershipInv, NEW v \in Workers, NEW c \in active[v]
    PROVE  /\ c \in DispatchIds
           /\ dispatches[c].env = workerEnv[v]
           /\ dispatches[c].status \notin {"queued", "cancelled"}
BY DEF OwnershipInv, Owned, OwnersShareEnvironment, QueuedHasNoOwner, CancelledHasNoOwner, TypeOK

LEMMA AdminStepOwned ==
    ASSUME OwnershipInv, AdminStep PROVE Owned'
<1>1. ASSUME UNCHANGED <<dispatches, workerEnv, active>> PROVE Owned'
  BY <1>1, ListedStatus, OwnedKept
<1>2. CASE \E a \in Artifacts : RegisterArtifact(a)
  BY <1>1, <1>2 DEF RegisterArtifact
<1>3. CASE \E e \in Envs, a \in Artifacts, full \in BOOLEAN : Deploy(e, a, full)
  BY <1>1, <1>3 DEF Deploy
<1>4. CASE \E i \in DOMAIN deployments : Reconcile(i) \/ Rollback(i)
  BY <1>1, <1>4 DEF Reconcile, Rollback
<1>5. CASE \E e \in Envs, t \in Triggers, a \in Artifacts, cap \in Caps, enabled \in BOOLEAN :
                RegisterRule(e, t, a, cap, enabled)
  BY <1>1, <1>5 DEF RegisterRule
<1>6. ASSUME NEW i, NEW deadline \in Times, Enqueue(i, deadline) PROVE Owned'
  <2>1. \A c \in DispatchIds : dispatches'[c] = dispatches[c]
    BY <1>6, EnqueueEffect DEF OwnershipInv
  <2> QED
    BY <1>6, <2>1, ListedStatus, OwnedKept DEF Enqueue
<1>7. CASE \E i \in DOMAIN deployments, deadline \in Times : CreateDispatch(i, deadline)
  BY <1>6, <1>7 DEF CreateDispatch
<1>8. CASE \E e \in Envs, t \in Triggers, deadline \in Times : TriggerDispatch(e, t, deadline)
  BY <1>6, <1>8 DEF TriggerDispatch
<1>9. ASSUME NEW d \in DispatchIds, Cancel(d) PROVE Owned'
  <2>1. \A c \in DispatchIds :
            /\ dispatches'[c].env = dispatches[c].env
            /\ c # d => dispatches'[c].status = dispatches[c].status
    BY <1>9, SetStatusEffect DEF Cancel, OwnershipInv, DispatchStatus
  <2>2. \A v \in Workers : active'[v] = active[v] \ {d}
    BY <1>9 DEF Cancel
  <2>3. ASSUME NEW v \in Workers, NEW c \in active'[v]
        PROVE  /\ c \in active[v]
               /\ dispatches'[c].env = dispatches[c].env
               /\ dispatches'[c].status \notin {"queued", "cancelled"}
    <3>1. c \in active[v] /\ c # d
      BY <2>2, <2>3
    <3> QED
      BY <2>1, <3>1, ListedStatus
  <2> QED
    BY <1>9, <2>3, OwnedKept DEF Cancel
<1> QED
  BY <1>2, <1>3, <1>4, <1>5, <1>7, <1>8, <1>9 DEF AdminStep

LEMMA WorkerStepOwned ==
    ASSUME OwnershipInv, NEW w \in Workers, WorkerStep(w) PROVE Owned'
<1>1. ASSUME NEW e \in Envs, RegisterWorker(w, e) PROVE Owned'
  <2>1. ASSUME NEW v \in Workers, NEW c \in active[v] PROVE workerEnv'[v] = workerEnv[v]
    <3>1. dispatches[c] \in Dispatch
      <4>1. c \in DispatchIds
        BY <2>1, ListedStatus
      <4> QED
        BY <4>1, LenProperties, ElementOfSeq DEF OwnershipInv, TypeOK, DispatchIds
    <3>2. workerEnv[v] # None
      BY <2>1, <3>1, ListedStatus, ControlAssumption DEF Dispatch
    <3> QED
      BY <1>1, <3>2 DEF RegisterWorker, OwnershipInv, TypeOK
  <2>2. dispatches' = dispatches /\ active' = active
    BY <1>1 DEF RegisterWorker
  <2> QED
    BY <2>1, <2>2, ListedStatus
       DEF Owned, OwnersShareEnvironment, QueuedHasNoOwner, CancelledHasNoOwner
<1>2. ASSUME NEW ids \in SUBSET DispatchIds, Heartbeat(w, ids) PROVE Owned'
  <2>1. ASSUME NEW v \in Workers, NEW c \in active'[v]
        PROVE  /\ dispatches[c].env = workerEnv[v]
               /\ dispatches[c].status \notin {"queued", "cancelled"}
    <3>1. CASE v = w
      BY <1>2, <2>1, <3>1 DEF Heartbeat, CanHeartbeat, Reportable, OwnershipInv, TypeOK
    <3>2. CASE v # w
      <4>1. c \in active[v]
        BY <1>2, <2>1, <3>2 DEF Heartbeat, OwnershipInv, TypeOK
      <4> QED
        BY <4>1, ListedStatus
    <3> QED
      BY <3>1, <3>2
  <2>2. dispatches' = dispatches /\ workerEnv' = workerEnv
    BY <1>2 DEF Heartbeat
  <2> QED
    BY <2>1, <2>2 DEF Owned, OwnersShareEnvironment, QueuedHasNoOwner, CancelledHasNoOwner
<1>3. ASSUME NEW d \in DispatchIds, StartDispatch(w, d) PROVE Owned'
  <2>1. \A c \in DispatchIds :
            /\ dispatches'[c].env = dispatches[c].env
            /\ dispatches'[c].status = IF c = d THEN "running" ELSE dispatches[c].status
    BY <1>3, SetStatusEffect DEF StartDispatch, OwnershipInv, DispatchStatus
  <2>2. dispatches[d].env = workerEnv[w]
    BY <1>3 DEF StartDispatch, CanStart, Queued
  <2>3. \A v \in Workers : \A c \in active[v] \cup {d} :
            dispatches'[c].status \notin {"queued", "cancelled"}
    BY <2>1, ListedStatus
  <2> QED
    BY <1>3, <2>1, <2>2, <2>3, OwnedGrows DEF StartDispatch
<1>4. ASSUME NEW d \in DispatchIds, ClaimNext(w, d) PROVE Owned'
  <2>1. \A c \in DispatchIds :
            /\ dispatches'[c].env = dispatches[c].env
            /\ dispatches'[c].status = IF c \in {d} THEN "running"
                                       ELSE IF c \in Swept(workerEnv[w]) THEN "failed"
                                       ELSE dispatches[c].status
    <3>1. {d} \in SUBSET DispatchIds
      OBVIOUS
    <3> QED
      BY <1>4, <3>1, ClaimEffect DEF OwnershipInv
  <2>2. dispatches[d].env = workerEnv[w]
    BY <1>4 DEF ClaimNext, IsFirst, Claimable, Queued
  <2>3. \A v \in Workers : \A c \in active[v] \cup {d} :
            dispatches'[c].status \notin {"queued", "cancelled"}
    BY <2>1, ListedStatus
  <2> QED
    BY <1>4, <2>1, <2>2, <2>3, OwnedGrows DEF ClaimNext
<1>5. CASE ClaimNothing(w)
  <2>1. \A c \in DispatchIds :
            /\ dispatches'[c].env = dispatches[c].env
            /\ dispatches'[c].status \in {"failed", dispatches[c].status}
    BY <1>5, ClaimNothingEffect DEF OwnershipInv
  <2> QED
    BY <1>5, <2>1, ListedStatus, OwnedKept DEF ClaimNothing
<1>6. ASSUME NEW d \in DispatchIds, NEW st \in {"completed", "failed"}, FinishDispatch(w, d, st)
      PROVE  Owned'
  <2>1. \A c \in DispatchIds :
            /\ dispatches'[c].env = dispatches[c].env
            /\ dispatches'[c].status = IF c = d THEN st ELSE dispatches[c].status
    BY <1>6, SetStatusEffect DEF FinishDispatch, OwnershipInv, DispatchStatus
  <2>2. \A v \in Workers : active'[v] \subseteq active[v]
    BY <1>6 DEF FinishDispatch, OwnershipInv, TypeOK
  <2> QED
    BY <1>6, <2>1, <2>2, ListedStatus, OwnedKept DEF FinishDispatch
<1>7. ASSUME NEW d \in DispatchIds, WorkerCancel(w, d) PROVE Owned'
  <2>1. AdminStep
    BY <1>7 DEF WorkerCancel, AdminStep
  <2> QED
    BY <2>1, AdminStepOwned
<1> QED
  BY <1>1, <1>2, <1>3, <1>4, <1>5, <1>6, <1>7 DEF WorkerStep

\* The inductive invariant behind ownership: what the lists of the control
\* plane name exists, is of the same environment and is neither queued nor
\* cancelled (controller.ts).
THEOREM OwnershipInvariant == ControlSpec => []OwnershipInv
<1>1. ControlInit => Owned
  BY InitOwned
<1>2. OwnershipInv /\ [ControlNext]_controlVars => Owned'
  <2> SUFFICES ASSUME OwnershipInv, [ControlNext]_controlVars PROVE Owned'
    OBVIOUS
  <2>1. ASSUME UNCHANGED <<dispatches, workerEnv, active>> PROVE Owned'
    BY <2>1, ListedStatus, OwnedKept
  <2>2. CASE Tick
    BY <2>1, <2>2 DEF Tick
  <2>3. CASE AdminStep
    BY <2>3, AdminStepOwned
  <2>4. CASE \E w \in Workers : WorkerStep(w)
    BY <2>4, WorkerStepOwned
  <2>5. CASE UNCHANGED controlVars
    BY <2>1, <2>5 DEF controlVars
  <2> QED
    BY <2>2, <2>3, <2>4, <2>5 DEF ControlNext
<1>3. TypeOK /\ Owned <=> OwnershipInv
  BY DEF OwnershipInv
<1> QED
  BY <1>1, <1>2, <1>3, TypeCorrect, PTL DEF ControlSpec

\* Whatever a worker is listed with belongs to the worker's own environment.
THEOREM EnvironmentsApart == ControlSpec => []OwnersShareEnvironment
<1>1. OwnershipInv => OwnersShareEnvironment
  BY DEF OwnershipInv, Owned
<1> QED
  BY <1>1, OwnershipInvariant, PTL

\* Queued dispatches are in no worker's list.
THEOREM QueueUnowned == ControlSpec => []QueuedHasNoOwner
<1>1. OwnershipInv => QueuedHasNoOwner
  BY DEF OwnershipInv, Owned
<1> QED
  BY <1>1, OwnershipInvariant, PTL

\* Cancelled dispatches are in no worker's list.
THEOREM CancelledUnowned == ControlSpec => []CancelledHasNoOwner
<1>1. OwnershipInv => CancelledHasNoOwner
  BY DEF OwnershipInv, Owned
<1> QED
  BY <1>1, OwnershipInvariant, PTL

\* All of it: the lists are true of the dispatches.
THEOREM OwnershipHolds == ControlSpec => []Ownership
<1>1. OwnershipInv => Ownership
  BY DEF OwnershipInv, Owned, Ownership, OwnersShareEnvironment, QueuedHasNoOwner,
         CancelledHasNoOwner
<1> QED
  BY <1>1, OwnershipInvariant, PTL

-----------------------------------------------------------------------------
(* The life of a dispatch. *)

LEMMA AdminStepMoves ==
    ASSUME TypeOK, AdminStep, NEW d \in DispatchIds PROVE DispatchMoves(d)
<1>1. CASE dispatches' = dispatches
  BY <1>1 DEF DispatchMoves
<1>2. CASE \E a \in Artifacts : RegisterArtifact(a)
  BY <1>1, <1>2 DEF RegisterArtifact
<1>3. CASE \E e \in Envs, a \in Artifacts, full \in BOOLEAN : Deploy(e, a, full)
  BY <1>1, <1>3 DEF Deploy
<1>4. CASE \E i \in DOMAIN deployments : Reconcile(i) \/ Rollback(i)
  BY <1>1, <1>4 DEF Reconcile, Rollback
<1>5. CASE \E e \in Envs, t \in Triggers, a \in Artifacts, cap \in Caps, enabled \in BOOLEAN :
                RegisterRule(e, t, a, cap, enabled)
  BY <1>1, <1>5 DEF RegisterRule
<1>6. ASSUME NEW i, NEW deadline \in Times, Enqueue(i, deadline) PROVE DispatchMoves(d)
  <2>1. dispatches'[d] = dispatches[d]
    BY <1>6, EnqueueEffect
  <2> QED
    BY <2>1 DEF DispatchMoves
<1>7. CASE \E i \in DOMAIN deployments, deadline \in Times : CreateDispatch(i, deadline)
  BY <1>6, <1>7 DEF CreateDispatch
<1>8. CASE \E e \in Envs, t \in Triggers, deadline \in Times : TriggerDispatch(e, t, deadline)
  BY <1>6, <1>8 DEF TriggerDispatch
<1>9. ASSUME NEW c \in DispatchIds, Cancel(c) PROVE DispatchMoves(d)
  <2>1. dispatches'[d].status = IF d = c THEN "cancelled" ELSE dispatches[d].status
    BY <1>9, SetStatusEffect DEF Cancel, DispatchStatus
  <2>2. dispatches[c] \in Dispatch
    BY LenProperties, ElementOfSeq DEF TypeOK, DispatchIds
  <2>3. dispatches[c].status \in {"queued", "running"}
    BY <1>9, <2>2 DEF Cancel, Terminal, Dispatch, DispatchStatus
  <2> QED
    BY <2>1, <2>3 DEF DispatchMoves
<1> QED
  BY <1>2, <1>3, <1>4, <1>5, <1>7, <1>8, <1>9 DEF AdminStep

LEMMA WorkerStepMoves ==
    ASSUME TypeOK, NEW w \in Workers, WorkerStep(w), NEW d \in DispatchIds
    PROVE  DispatchMoves(d)
<1>1. CASE dispatches' = dispatches
  BY <1>1 DEF DispatchMoves
<1>2. CASE \E e \in Envs : RegisterWorker(w, e)
  BY <1>1, <1>2 DEF RegisterWorker
<1>3. CASE \E ids \in SUBSET DispatchIds : Heartbeat(w, ids)
  BY <1>1, <1>3 DEF Heartbeat
<1>4. ASSUME NEW c \in DispatchIds, StartDispatch(w, c) PROVE DispatchMoves(d)
  <2>1. dispatches'[d].status = IF d = c THEN "running" ELSE dispatches[d].status
    BY <1>4, SetStatusEffect DEF StartDispatch, DispatchStatus
  <2>2. dispatches[c].status = "queued" /\ ~Elapsed(c)
    BY <1>4 DEF StartDispatch, CanStart, Queued
  <2> QED
    BY <2>1, <2>2 DEF DispatchMoves
<1>5. ASSUME NEW c \in DispatchIds, ClaimNext(w, c) PROVE DispatchMoves(d)
  <2>1. dispatches'[d].status = IF d \in {c} THEN "running"
                                ELSE IF d \in Swept(workerEnv[w]) THEN "failed"
                                ELSE dispatches[d].status
    <3>1. {c} \in SUBSET DispatchIds
      OBVIOUS
    <3> QED
      BY <1>5, <3>1, ClaimEffect
  <2>2. dispatches[c].status = "queued" /\ ~Elapsed(c)
    BY <1>5 DEF ClaimNext, IsFirst, Claimable, Swept, Queued
  <2>3. d \in Swept(workerEnv[w]) => dispatches[d].status = "queued" /\ Elapsed(d)
    BY DEF Swept, Queued
  <2> QED
    BY <2>1, <2>2, <2>3 DEF DispatchMoves
<1>6. ASSUME ClaimNothing(w) PROVE DispatchMoves(d)
  <2>1. dispatches'[d].status = IF d \in Swept(workerEnv[w]) THEN "failed"
                                ELSE dispatches[d].status
    BY <1>6, LenProperties DEF ClaimNothing, TypeOK, DispatchIds, Dispatch
  <2>2. d \in Swept(workerEnv[w]) => dispatches[d].status = "queued" /\ Elapsed(d)
    BY DEF Swept, Queued
  <2> QED
    BY <2>1, <2>2 DEF DispatchMoves
<1>7. ASSUME NEW c \in DispatchIds, NEW st \in {"completed", "failed"}, FinishDispatch(w, c, st)
      PROVE  DispatchMoves(d)
  <2>1. dispatches'[d].status = IF d = c THEN st ELSE dispatches[d].status
    BY <1>7, SetStatusEffect DEF FinishDispatch, DispatchStatus
  <2>2. dispatches[c].status = "running"
    BY <1>7 DEF FinishDispatch, CanFinish
  <2> QED
    BY <2>1, <2>2 DEF DispatchMoves
<1>8. ASSUME NEW c \in DispatchIds, WorkerCancel(w, c) PROVE DispatchMoves(d)
  <2>1. AdminStep
    BY <1>8 DEF WorkerCancel, AdminStep
  <2> QED
    BY <2>1, AdminStepMoves
<1> QED
  BY <1>2, <1>3, <1>4, <1>5, <1>6, <1>7, <1>8 DEF WorkerStep

LEMMA StepMoves ==
    ASSUME TypeOK, [ControlNext]_controlVars, NEW d \in DispatchIds PROVE DispatchMoves(d)
<1>1. CASE Tick \/ UNCHANGED controlVars
  BY <1>1 DEF Tick, controlVars, DispatchMoves
<1>2. CASE AdminStep
  BY <1>2, AdminStepMoves
<1>3. CASE \E w \in Workers : WorkerStep(w)
  BY <1>3, WorkerStepMoves
<1> QED
  BY <1>1, <1>2, <1>3 DEF ControlNext

\* A dispatch moves only forward, never out of an end state, and a claim or a
\* start never happens at or after its deadline.
THEOREM LifecycleRespected == ControlSpec => DispatchLifecycle
<1>1. TypeOK /\ [ControlNext]_controlVars
            => [\A d \in DispatchIds : DispatchMoves(d)]_controlVars
  BY StepMoves
<1> QED
  BY <1>1, TypeCorrect, PTL DEF ControlSpec, DispatchLifecycle

\* What a claim leaves in the queue is not overdue and was due no earlier.
LEMMA ClaimsInOrder ==
    ASSUME TypeOK, NEW w \in Workers, NEW d \in DispatchIds, ClaimNext(w, d),
           NEW c \in DispatchIds,
           dispatches'[c].env = workerEnv[w], dispatches'[c].status = "queued"
    PROVE  ~Elapsed(c) /\ dispatches[d].deadline <= dispatches[c].deadline
<1>1. dispatches[c] \in Dispatch /\ dispatches[d] \in Dispatch
  BY LenProperties, ElementOfSeq DEF TypeOK, DispatchIds
<1>2. dispatches'[c] = IF c = d THEN [dispatches[c] EXCEPT !.status = "running"]
                       ELSE IF c \in Swept(workerEnv[w])
                            THEN [dispatches[c] EXCEPT !.status = "failed"]
                            ELSE dispatches[c]
  BY DEF ClaimNext
<1>3. c # d /\ c \notin Swept(workerEnv[w]) /\ dispatches'[c] = dispatches[c]
  BY <1>1, <1>2 DEF Dispatch
<1>4. c \in Claimable(workerEnv[w])
  BY <1>3 DEF Claimable, Queued
<1>5. Before(d, c)
  BY <1>3, <1>4 DEF ClaimNext, IsFirst
<1>6. ~Elapsed(c)
  BY <1>4 DEF Claimable, Swept
<1>7. dispatches[d].deadline \in Nat /\ dispatches[c].deadline \in Nat
  BY <1>1, ControlAssumption DEF Dispatch, Times
<1> QED
  BY <1>5, <1>6, <1>7 DEF Before

\* After a claim nothing overdue is left in that environment's queue, and what
\* is left was not due before what was handed out (controller.ts:252-261).
THEOREM ClaimsTakeTheEarliest == ControlSpec => ClaimServesTheEarliest
<1>1. TypeOK /\ [ControlNext]_controlVars =>
         [\A w \in Workers, d \in DispatchIds :
            ClaimNext(w, d) =>
                \A c \in DispatchIds :
                    dispatches'[c].env = workerEnv[w] /\ dispatches'[c].status = "queued" =>
                        ~Elapsed(c) /\ dispatches[d].deadline <= dispatches[c].deadline]_controlVars
  BY ClaimsInOrder
<1> QED
  BY <1>1, TypeCorrect, PTL DEF ControlSpec, ClaimServesTheEarliest

\* No dispatch is ever forgotten, and at most one is added.
LEMMA StepKeepsDispatches ==
    ASSUME TypeOK, [ControlNext]_controlVars
    PROVE  \/ DispatchIds' = DispatchIds
           \/ /\ Len(dispatches) < MaxDispatches
              /\ DispatchIds' = DispatchIds \cup {Len(dispatches) + 1}
<1>1. ASSUME dispatches' = dispatches PROVE DispatchIds' = DispatchIds
  BY <1>1 DEF DispatchIds
<1>2. CASE Tick \/ UNCHANGED controlVars
  BY <1>1, <1>2 DEF Tick, controlVars
<1>3. ASSUME NEW i, NEW deadline \in Times, Enqueue(i, deadline)
      PROVE  /\ Len(dispatches) < MaxDispatches
             /\ DispatchIds' = DispatchIds \cup {Len(dispatches) + 1}
  BY <1>3, EnqueueEffect DEF Enqueue
<1>4. ASSUME NEW d \in DispatchIds, NEW st \in DispatchStatus, SetStatus(d, st)
      PROVE  DispatchIds' = DispatchIds
  BY <1>4, SetStatusEffect
<1>5. CASE AdminStep
  <2>1. CASE \/ \E a \in Artifacts : RegisterArtifact(a)
             \/ \E e \in Envs, a \in Artifacts, full \in BOOLEAN : Deploy(e, a, full)
             \/ \E i \in DOMAIN deployments : Reconcile(i) \/ Rollback(i)
             \/ \E e \in Envs, t \in Triggers, a \in Artifacts, cap \in Caps, enabled \in BOOLEAN :
                    RegisterRule(e, t, a, cap, enabled)
    BY <1>1, <2>1 DEF RegisterArtifact, Deploy, Reconcile, Rollback, RegisterRule
  <2>2. CASE \E i \in DOMAIN deployments, deadline \in Times : CreateDispatch(i, deadline)
    BY <1>3, <2>2 DEF CreateDispatch
  <2>3. CASE \E e \in Envs, t \in Triggers, deadline \in Times : TriggerDispatch(e, t, deadline)
    BY <1>3, <2>3 DEF TriggerDispatch
  <2>4. CASE \E d \in DispatchIds : Cancel(d)
    BY <1>4, <2>4 DEF Cancel, DispatchStatus
  <2> QED
    BY <1>5, <2>1, <2>2, <2>3, <2>4 DEF AdminStep
<1>6. ASSUME NEW w \in Workers, WorkerStep(w) PROVE DispatchIds' = DispatchIds
  <2>1. CASE \E e \in Envs : RegisterWorker(w, e)
    BY <1>1, <2>1 DEF RegisterWorker
  <2>7. CASE \E ids \in SUBSET DispatchIds : Heartbeat(w, ids)
    BY <1>1, <2>7 DEF Heartbeat
  <2>2. CASE \E d \in DispatchIds : StartDispatch(w, d)
    BY <1>4, <2>2 DEF StartDispatch, DispatchStatus
  <2>3. CASE \E d \in DispatchIds : ClaimNext(w, d)
    <3>1. PICK d \in DispatchIds : ClaimNext(w, d)
      BY <2>3
    <3>2. {d} \in SUBSET DispatchIds
      OBVIOUS
    <3> QED
      BY <3>1, <3>2, ClaimEffect
  <2>4. CASE ClaimNothing(w)
    <3>1. {} \in SUBSET DispatchIds
      OBVIOUS
    <3> QED
      BY <2>4, <3>1, ClaimEffect
  <2>5. CASE \E d \in DispatchIds, status \in {"completed", "failed"} : FinishDispatch(w, d, status)
    BY <1>4, <2>5 DEF FinishDispatch, DispatchStatus
  <2>6. CASE \E d \in DispatchIds : WorkerCancel(w, d)
    BY <1>4, <2>6 DEF WorkerCancel, Cancel, DispatchStatus
  <2> QED
    BY <1>6, <2>1, <2>2, <2>3, <2>4, <2>5, <2>6, <2>7 DEF WorkerStep
<1> QED
  BY <1>2, <1>5, <1>6 DEF ControlNext

-----------------------------------------------------------------------------
(* The limit of the rules.  It is inductive given the types: every step    *)
(* but a trigger leaves the set of counted dispatches as it is or smaller, *)
(* and a trigger adds one to a set it has found below the limit.           *)

Counted(i) == ActiveOn(i) \cap triggered

LEMMA CountedFinite ==
    ASSUME TypeOK, NEW i
    PROVE  /\ IsFiniteSet(ActiveOn(i)) /\ Cardinality(ActiveOn(i)) \in Nat
           /\ IsFiniteSet(Counted(i)) /\ Cardinality(Counted(i)) \in Nat
           /\ Cardinality(Counted(i)) <= Cardinality(ActiveOn(i))
<1>1. DispatchIds = 1 .. Len(dispatches) /\ Len(dispatches) \in Nat
  BY LenProperties DEF TypeOK, DispatchIds
<1>2. IsFiniteSet(DispatchIds)
  BY <1>1, FS_Interval
<1>3. ActiveOn(i) \in SUBSET DispatchIds /\ Counted(i) \in SUBSET ActiveOn(i)
  BY DEF ActiveOn, Counted
<1>4. IsFiniteSet(ActiveOn(i))
  BY <1>2, <1>3, FS_Subset
<1>5. IsFiniteSet(Counted(i)) /\ Cardinality(Counted(i)) <= Cardinality(ActiveOn(i))
  BY <1>3, <1>4, FS_Subset
<1> QED
  BY <1>4, <1>5, FS_CardinalityType

\* A step that counts nothing new and forgets no rule keeps the limit.
LEMMA CapKept ==
    ASSUME TypeOK, RuleCapHolds,
           \A i \in DOMAIN deployments' : Counted(i)' # {} =>
                /\ i \in DOMAIN deployments
                /\ Counted(i)' \subseteq Counted(i)
                /\ deployments'[i].env = deployments[i].env
                /\ deployments'[i].artifact = deployments[i].artifact,
           \A r \in DOMAIN rules : r \in DOMAIN rules' /\ rules'[r] = rules[r]
    PROVE  RuleCapHolds'
<1> SUFFICES ASSUME NEW i \in DOMAIN deployments', Counted(i)' # {}
             PROVE  \E r \in DOMAIN rules' :
                        /\ rules'[r].env = deployments'[i].env
                        /\ rules'[r].artifact = deployments'[i].artifact
                        /\ Cardinality(Counted(i)') <= rules'[r].cap
  BY DEF RuleCapHolds, Counted
<1>1. i \in DOMAIN deployments /\ Counted(i) # {}
  OBVIOUS
<1>2. PICK r \in DOMAIN rules :
            /\ rules[r].env = deployments[i].env
            /\ rules[r].artifact = deployments[i].artifact
            /\ Cardinality(Counted(i)) <= rules[r].cap
  BY <1>1 DEF RuleCapHolds, Counted
<1>3. rules[r] \in Rule
  BY LenProperties, ElementOfSeq DEF TypeOK
<1>4. rules[r].cap \in Nat
  BY <1>3, ControlAssumption DEF Rule
<1>5. IsFiniteSet(Counted(i)) /\ Cardinality(Counted(i)) \in Nat
  BY CountedFinite
<1>6. IsFiniteSet(Counted(i)') /\ Cardinality(Counted(i)') <= Cardinality(Counted(i))
  <2>1. Counted(i)' \in SUBSET Counted(i)
    OBVIOUS
  <2> QED
    BY <1>5, <2>1, FS_Subset
<1>7. Cardinality(Counted(i)') \in Nat
  BY <1>6, FS_CardinalityType
<1> QED
  BY <1>2, <1>4, <1>5, <1>6, <1>7

\* What every operation on an existing dispatch leaves alone.
LEMMA OtherFieldsKept ==
    ASSUME TypeOK,
           \/ \E w \in Workers : WorkerStep(w)
           \/ \E d \in DispatchIds : Cancel(d)
    PROVE  /\ UNCHANGED <<deployments, rules, triggered>>
           /\ DispatchIds' = DispatchIds
           /\ \A c \in DispatchIds : dispatches'[c].deployment = dispatches[c].deployment
<1>1. ASSUME NEW d \in DispatchIds, NEW st \in DispatchStatus, SetStatus(d, st)
      PROVE  /\ DispatchIds' = DispatchIds
             /\ \A c \in DispatchIds : dispatches'[c].deployment = dispatches[c].deployment
  BY <1>1, SetStatusEffect
<1>2. ASSUME NEW d \in DispatchIds, Cancel(d)
      PROVE  /\ UNCHANGED <<deployments, rules, triggered>>
             /\ DispatchIds' = DispatchIds
             /\ \A c \in DispatchIds : dispatches'[c].deployment = dispatches[c].deployment
  BY <1>1, <1>2 DEF Cancel, DispatchStatus
<1>3. ASSUME NEW w \in Workers, WorkerStep(w)
      PROVE  /\ UNCHANGED <<deployments, rules, triggered>>
             /\ DispatchIds' = DispatchIds
             /\ \A c \in DispatchIds : dispatches'[c].deployment = dispatches[c].deployment
  <2>1. CASE \/ \E e \in Envs : RegisterWorker(w, e)
             \/ \E ids \in SUBSET DispatchIds : Heartbeat(w, ids)
    BY <2>1 DEF RegisterWorker, Heartbeat, DispatchIds
  <2>2. ASSUME NEW d \in DispatchIds, StartDispatch(w, d)
        PROVE  /\ UNCHANGED <<deployments, rules, triggered>>
               /\ DispatchIds' = DispatchIds
               /\ \A c \in DispatchIds : dispatches'[c].deployment = dispatches[c].deployment
    BY <1>1, <2>2 DEF StartDispatch, DispatchStatus
  <2>3. ASSUME NEW d \in DispatchIds, ClaimNext(w, d)
        PROVE  /\ UNCHANGED <<deployments, rules, triggered>>
               /\ DispatchIds' = DispatchIds
               /\ \A c \in DispatchIds : dispatches'[c].deployment = dispatches[c].deployment
    <3>1. {d} \in SUBSET DispatchIds
      OBVIOUS
    <3>2. /\ DispatchIds' = DispatchIds
          /\ \A c \in DispatchIds : dispatches'[c].deployment = dispatches[c].deployment
      BY <2>3, <3>1, ClaimEffect
    <3> QED
      BY <2>3, <3>2 DEF ClaimNext
  <2>4. ASSUME ClaimNothing(w)
        PROVE  /\ UNCHANGED <<deployments, rules, triggered>>
               /\ DispatchIds' = DispatchIds
               /\ \A c \in DispatchIds : dispatches'[c].deployment = dispatches[c].deployment
    BY <2>4, LenProperties DEF ClaimNothing, TypeOK, DispatchIds, Dispatch
  <2>5. ASSUME NEW d \in DispatchIds, NEW st \in {"completed", "failed"}, FinishDispatch(w, d, st)
        PROVE  /\ UNCHANGED <<deployments, rules, triggered>>
               /\ DispatchIds' = DispatchIds
               /\ \A c \in DispatchIds : dispatches'[c].deployment = dispatches[c].deployment
    BY <1>1, <2>5 DEF FinishDispatch, DispatchStatus
  <2>6. ASSUME NEW d \in DispatchIds, WorkerCancel(w, d)
        PROVE  /\ UNCHANGED <<deployments, rules, triggered>>
               /\ DispatchIds' = DispatchIds
               /\ \A c \in DispatchIds : dispatches'[c].deployment = dispatches[c].deployment
    BY <1>2, <2>6 DEF WorkerCancel
  <2> QED
    BY <1>3, <2>1, <2>2, <2>3, <2>4, <2>5, <2>6 DEF WorkerStep
<1> QED
  BY <1>2, <1>3

LEMMA DispatchStepKeepsCap ==
    ASSUME TypeOK, RuleCapHolds,
           \/ \E w \in Workers : WorkerStep(w)
           \/ \E d \in DispatchIds : Cancel(d)
    PROVE  RuleCapHolds'
<1>1. \A c \in DispatchIds : DispatchMoves(c)
  <2>1. (\E d \in DispatchIds : Cancel(d)) => AdminStep
    BY DEF AdminStep
  <2> QED
    BY <2>1, AdminStepMoves, WorkerStepMoves
<1>2. \A i : Counted(i)' \subseteq Counted(i)
  BY <1>1, OtherFieldsKept DEF Counted, ActiveOn, DispatchMoves
<1> QED
  BY <1>2, OtherFieldsKept, CapKept

\* The dispatches counted after a new one has joined deployment i.
LEMMA EnqueueCounts ==
    ASSUME TypeOK, NEW i, NEW deadline \in Times, Enqueue(i, deadline),
           triggered' \subseteq triggered \cup {Len(dispatches) + 1}
    PROVE  /\ Counted(i)' \subseteq Counted(i) \cup {Len(dispatches) + 1}
           /\ \A j : j # i => Counted(j)' \subseteq Counted(j)
           /\ triggered' = triggered => Counted(i)' \subseteq Counted(i)
           /\ UNCHANGED <<deployments, rules>>
<1>1. /\ DispatchIds' = DispatchIds \cup {Len(dispatches) + 1}
      /\ Len(dispatches) + 1 \notin DispatchIds
      /\ \A c \in DispatchIds : dispatches'[c] = dispatches[c]
      /\ dispatches'[Len(dispatches) + 1].deployment = i
  BY EnqueueEffect
<1>2. triggered \subseteq DispatchIds
  BY DEF TypeOK
<1>3. UNCHANGED <<deployments, rules>>
  BY DEF Enqueue
<1> QED
  BY <1>1, <1>2, <1>3 DEF Counted, ActiveOn

LEMMA TriggerKeepsCap ==
    ASSUME TypeOK, RuleCapHolds, NEW e \in Envs, NEW t \in Triggers, NEW deadline \in Times,
           TriggerDispatch(e, t, deadline)
    PROVE  RuleCapHolds'
<1> DEFINE n == Len(dispatches) + 1
<1>1. PICK r \in DOMAIN rules, i \in DOMAIN deployments :
            /\ FirstRule(r, e, t)
            /\ FirstDeployment(i, e, rules[r].artifact)
            /\ Cardinality(ActiveOn(i)) < rules[r].cap
            /\ Enqueue(i, deadline)
            /\ triggered' = triggered \cup {n}
  BY DEF TriggerDispatch
<1>2. /\ Counted(i)' \subseteq Counted(i) \cup {n}
      /\ \A j : j # i => Counted(j)' \subseteq Counted(j)
      /\ UNCHANGED <<deployments, rules>>
  BY <1>1, EnqueueCounts
<1>3. rules[r].env = deployments[i].env /\ rules[r].artifact = deployments[i].artifact
  BY <1>1 DEF FirstRule, FirstDeployment, Matches, Serves
<1>4. rules[r].cap \in Nat
  <2>1. rules[r] \in Rule
    BY LenProperties, ElementOfSeq DEF TypeOK
  <2> QED
    BY <2>1, ControlAssumption DEF Rule
<1>5. /\ IsFiniteSet(Counted(i))
      /\ Cardinality(Counted(i)) \in Nat
      /\ Cardinality(ActiveOn(i)) \in Nat
      /\ Cardinality(Counted(i)) <= Cardinality(ActiveOn(i))
  BY CountedFinite
<1>6. Cardinality(Counted(i)') <= Cardinality(Counted(i)) + 1
      /\ Cardinality(Counted(i)') \in Nat
  <2> HIDE DEF n
  <2>1. /\ IsFiniteSet(Counted(i) \cup {n})
        /\ Cardinality(Counted(i) \cup {n}) \in {Cardinality(Counted(i)), Cardinality(Counted(i)) + 1}
    BY <1>5, FS_AddElement
  <2>2. Counted(i)' \in SUBSET (Counted(i) \cup {n})
    BY <1>2
  <2>3. /\ IsFiniteSet(Counted(i)')
        /\ Cardinality(Counted(i)') <= Cardinality(Counted(i) \cup {n})
    BY <2>1, <2>2, FS_Subset
  <2>4. Cardinality(Counted(i)') \in Nat
    BY <2>3, FS_CardinalityType
  <2> QED
    BY <1>5, <2>1, <2>3, <2>4
<1>7. Cardinality(Counted(i)') <= rules[r].cap
  BY <1>1, <1>4, <1>5, <1>6
<1> SUFFICES ASSUME NEW j \in DOMAIN deployments, Counted(j)' # {}
             PROVE  \E q \in DOMAIN rules :
                        /\ rules[q].env = deployments[j].env
                        /\ rules[q].artifact = deployments[j].artifact
                        /\ Cardinality(Counted(j)') <= rules[q].cap
  BY <1>2 DEF RuleCapHolds, Counted
<1>8. CASE j = i
  BY <1>3, <1>7, <1>8
<1>9. CASE j # i
  <2>1. Counted(j) # {}
    BY <1>2, <1>9
  <2>2. PICK q \in DOMAIN rules :
            /\ rules[q].env = deployments[j].env
            /\ rules[q].artifact = deployments[j].artifact
            /\ Cardinality(Counted(j)) <= rules[q].cap
    BY <2>1 DEF RuleCapHolds, Counted
  <2>3. rules[q] \in Rule
    BY LenProperties, ElementOfSeq DEF TypeOK
  <2>4. rules[q].cap \in Nat
    BY <2>3, ControlAssumption DEF Rule
  <2>5. IsFiniteSet(Counted(j)) /\ Cardinality(Counted(j)) \in Nat
    BY CountedFinite
  <2>6. Counted(j)' \in SUBSET Counted(j)
    BY <1>2, <1>9
  <2>7. IsFiniteSet(Counted(j)') /\ Cardinality(Counted(j)') <= Cardinality(Counted(j))
    BY <2>5, <2>6, FS_Subset
  <2>8. Cardinality(Counted(j)') \in Nat
    BY <2>7, FS_CardinalityType
  <2> QED
    BY <2>2, <2>4, <2>5, <2>7, <2>8
<1> QED
  BY <1>8, <1>9

LEMMA AdminStepKeepsCap ==
    ASSUME TypeOK, RuleCapHolds, AdminStep PROVE RuleCapHolds'
<1>1. ASSUME UNCHANGED <<deployments, rules, dispatches, triggered>> PROVE RuleCapHolds'
  BY <1>1 DEF RuleCapHolds, ActiveOn, DispatchIds
<1>2. CASE \E a \in Artifacts : RegisterArtifact(a)
  BY <1>1, <1>2 DEF RegisterArtifact
<1>3. ASSUME NEW e \in Envs, NEW a \in Artifacts, NEW full \in BOOLEAN, Deploy(e, a, full)
      PROVE  RuleCapHolds'
  <2> DEFINE new == [env |-> e, artifact |-> a,
                     status |-> IF full THEN "active" ELSE "canary"]
  <2>1. new \in Deployment /\ deployments' = Append(deployments, new)
    BY <1>3 DEF Deploy, Deployment, DeploymentStatus
  <2>2. \A i \in DOMAIN deployments : deployments'[i] = deployments[i]
    <3> HIDE DEF new
    <3> QED
      BY <2>1, AppendEntry DEF TypeOK
  <2>3. UNCHANGED <<rules, dispatches, triggered>>
    BY <1>3 DEF Deploy
  <2>4. \A i : Counted(i)' = Counted(i)
    BY <2>3 DEF Counted, ActiveOn, DispatchIds
  <2>5. \A i : Counted(i) # {} => i \in DOMAIN deployments
    BY DEF Counted, ActiveOn, TypeOK
  <2> QED
    BY <2>2, <2>3, <2>4, <2>5, CapKept
<1>4. ASSUME NEW i \in DOMAIN deployments, Reconcile(i) \/ Rollback(i) PROVE RuleCapHolds'
  <2>1. UNCHANGED <<rules, dispatches, triggered>>
    BY <1>4 DEF Reconcile, Rollback
  <2>2. \A j : Counted(j)' = Counted(j)
    BY <2>1 DEF Counted, ActiveOn, DispatchIds
  <2>3. DOMAIN deployments' = DOMAIN deployments
    BY <1>4, DeploymentStatusEffect DEF Reconcile, Rollback, DeploymentStatus
  <2>4. \A j \in DOMAIN deployments : /\ deployments'[j].env = deployments[j].env
                                      /\ deployments'[j].artifact = deployments[j].artifact
    <3>1. \A j \in DOMAIN deployments : deployments[j] \in Deployment
      BY LenProperties, ElementOfSeq DEF TypeOK
    <3> QED
      BY <1>4, <3>1 DEF Reconcile, Rollback, Deployment
  <2> QED
    BY <2>1, <2>2, <2>3, <2>4, CapKept
<1>5. ASSUME NEW e \in Envs, NEW t \in Triggers, NEW a \in Artifacts, NEW cap \in Caps,
             NEW enabled \in BOOLEAN, RegisterRule(e, t, a, cap, enabled)
      PROVE  RuleCapHolds'
  <2> DEFINE new == [env |-> e, trigger |-> t, artifact |-> a,
                     cap |-> cap, enabled |-> enabled]
  <2>1. new \in Rule /\ rules' = Append(rules, new)
    BY <1>5 DEF RegisterRule, Rule
  <2>2. \A r \in DOMAIN rules : r \in DOMAIN rules' /\ rules'[r] = rules[r]
    <3> HIDE DEF new
    <3> QED
      BY <2>1, AppendEntry DEF TypeOK
  <2>3. UNCHANGED <<deployments, dispatches, triggered>>
    BY <1>5 DEF RegisterRule
  <2>4. \A i : Counted(i)' = Counted(i)
    BY <2>3 DEF Counted, ActiveOn, DispatchIds
  <2> QED
    BY <2>2, <2>3, <2>4, CapKept
<1>6. ASSUME NEW i \in DOMAIN deployments, NEW deadline \in Times, CreateDispatch(i, deadline)
      PROVE  RuleCapHolds'
  <2>1. Enqueue(i, deadline) /\ triggered' = triggered
    BY <1>6 DEF CreateDispatch
  <2>2. (\A j : Counted(j)' \subseteq Counted(j)) /\ UNCHANGED <<deployments, rules>>
    BY <2>1, EnqueueCounts
  <2> QED
    BY <2>2, CapKept
<1>7. CASE \E e \in Envs, t \in Triggers, deadline \in Times : TriggerDispatch(e, t, deadline)
  BY <1>7, TriggerKeepsCap
<1>8. CASE \E d \in DispatchIds : Cancel(d)
  BY <1>8, DispatchStepKeepsCap
<1> QED
  BY <1>2, <1>3, <1>4, <1>5, <1>6, <1>7, <1>8 DEF AdminStep

\* Of the dispatches that rules created and that have not ended, each
\* deployment has at most the limit of one of its rules.
THEOREM RuleCapInvariant == ControlSpec => []RuleCapHolds
<1>1. ControlInit => RuleCapHolds
  BY DEF ControlInit, RuleCapHolds
<1>2. TypeOK /\ RuleCapHolds /\ [ControlNext]_controlVars => RuleCapHolds'
  <2> SUFFICES ASSUME TypeOK, RuleCapHolds, [ControlNext]_controlVars PROVE RuleCapHolds'
    OBVIOUS
  <2>1. CASE Tick
    BY <2>1 DEF Tick, RuleCapHolds, ActiveOn, DispatchIds
  <2>2. CASE AdminStep
    BY <2>2, AdminStepKeepsCap
  <2>3. CASE \E w \in Workers : WorkerStep(w)
    BY <2>3, DispatchStepKeepsCap
  <2>4. CASE UNCHANGED controlVars
    BY <2>4 DEF controlVars, RuleCapHolds, ActiveOn, DispatchIds
  <2> QED
    BY <2>1, <2>2, <2>3, <2>4 DEF ControlNext
<1> QED
  BY <1>1, <1>2, TypeCorrect, PTL DEF ControlSpec

=============================================================================
