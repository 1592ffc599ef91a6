---------------------------- MODULE PythonWorker ----------------------------
(***************************************************************************)
(* The Python worker of services/agent-worker-python/worker.py against the *)
(* agent control plane.  It calls the same operations as the Node worker   *)
(* of AgentFleet in a different order: a job is listed from the claim      *)
(* until its end is recorded, and a shutdown does not set a flag but       *)
(* cancels the asyncio task of the loop, wherever that is.                 *)
(*                                                                         *)
(* A request runs in a thread (asyncio.to_thread), so cancelling the await *)
(* does not stop the request: it is then "late" and may still arrive.      *)
(* WorkerControlError is caught by run_loop; the error of a connection     *)
(* that is closed without an answer is none and ends the loop.             *)
(*                                                                         *)
(* A worker id is made of the process id, so processes in two containers   *)
(* may have the same one.                                                  *)
(***************************************************************************)
EXTENDS AgentFleet

CONSTANTS PyProcesses

VARIABLES
    pyId,            \* the worker id of each process, None before it starts
    pyPhase,         \* what main() is doing
    pyPc,            \* where the task of run_loop is
    pyJob,           \* the dispatch it has claimed, 0 when none
    pyBeat,          \* the list an undelivered heartbeat carries, or NoList
    pyLate           \* requests under way that nobody awaits any more

pyVars == <<pyId, pyPhase, pyPc, pyJob, pyBeat, pyLate>>

\* There are no Node workers in a Python fleet, and the control plane neither
\* fails to save nor restarts.
NodeAside == UNCHANGED <<phase, pc, job, aborted, beat, stray, durable, restarts>>

NoList == {0}
PyPoints ==
    {"idle", "claiming", "claimed", "refusing", "running", "completing", "failing", "ended"}
Requests == [kind : {"claim"}, dispatch : {0}]
    \cup [kind : {"completed", "failed"}, dispatch : 1 .. MaxDispatches]

PyTypeOK ==
    /\ pyId \in [PyProcesses -> Workers \cup {None}]
    /\ pyPhase \in [PyProcesses -> {"starting", "up", "stopping"}]
    /\ pyPc \in [PyProcesses -> PyPoints]
    /\ pyJob \in [PyProcesses -> 0 .. MaxDispatches]
    /\ pyBeat \in [PyProcesses -> {NoList} \cup SUBSET (1 .. MaxDispatches)]
    /\ pyLate \in [PyProcesses -> SUBSET Requests]

PyInit ==
    /\ pyId = [p \in PyProcesses |-> None]
    /\ pyPhase = [p \in PyProcesses |-> "starting"]
    /\ pyPc = [p \in PyProcesses |-> "idle"]
    /\ pyJob = [p \in PyProcesses |-> 0]
    /\ pyBeat = [p \in PyProcesses |-> NoList]
    /\ pyLate = [p \in PyProcesses |-> {}]

PyAt(p, point) == pyPc[p] = point
PyTo(p, point) == pyPc' = [pyPc EXCEPT ![p] = point]
PyHolds(p, d) == pyJob' = [pyJob EXCEPT ![p] = d]
Awaited(p, kind) == [kind |-> kind, dispatch |-> IF kind = "claim" THEN 0 ELSE pyJob[p]]

\* The request the loop awaited goes on without it.
LeftBehind(p, kind) == pyLate' = [pyLate EXCEPT ![p] = @ \cup {Awaited(p, kind)}]

\* Nothing happens at the control plane: it refused, or the call got lost.
Unserved == UNCHANGED controlVars

-----------------------------------------------------------------------------
(* The loop.  Each step is the code between two awaits. *)

\* main() makes the id; register() is tried once, its failure is ignored.
PyRegisters(p) ==
    /\ pyPhase[p] = "starting"
    /\ pyPhase' = [pyPhase EXCEPT ![p] = "up"]
    /\ \E w \in Workers :
        /\ pyId' = [pyId EXCEPT ![p] = w]
        /\ \/ \E i \in DOMAIN deployments : RegisterWorker(w, deployments[i].env)
           \/ (Lossy /\ Unserved)
    /\ UNCHANGED <<pyPc, pyJob, pyBeat, pyLate, succeeded>>

\* Nobody calls stop(), and draining is set only after the loop has ended.
Polls(p) ==
    /\ pyPhase[p] # "starting" /\ PyAt(p, "idle")
    /\ PyTo(p, "claiming")
    /\ UNCHANGED <<controlVars, pyId, pyPhase, pyJob, pyBeat, pyLate, succeeded>>

\* Mutation: a claim that failed is taken up as if it had succeeded.
ClaimsUnanswered(p) ==
    /\ PyAt(p, "claiming")
    /\ \E d \in DispatchIds :
            /\ dispatches[d].status \in {"queued", "running"}
            /\ PyHolds(p, d) /\ PyTo(p, "running")
    /\ Unserved
    /\ UNCHANGED <<pyId, pyPhase, pyBeat, pyLate, succeeded>>

\* The claim is served; a reply with a dispatch is on its way back.
PyClaimAnswered(p) ==
    /\ PyAt(p, "claiming")
    /\ \/ \E d \in DispatchIds :
            ClaimNext(pyId[p], d) /\ PyHolds(p, d) /\ PyTo(p, "claimed")
       \/ ClaimNothing(pyId[p]) /\ PyTo(p, "idle") /\ UNCHANGED pyJob
       \/ workerEnv[pyId[p]] = None /\ Unserved /\ PyTo(p, "idle") /\ UNCHANGED pyJob
    /\ UNCHANGED <<pyId, pyPhase, pyBeat, pyLate, succeeded>>

\* A dispatch whose deadline has passed is reported as failed without being
\* listed; otherwise its handler starts.
PyAccepts(p) ==
    /\ PyAt(p, "claimed")
    /\ PyTo(p, IF Elapsed(pyJob[p]) THEN "refusing" ELSE "running")
    /\ UNCHANGED <<controlVars, pyId, pyPhase, pyJob, pyBeat, pyLate, succeeded>>

PyHandlerReturns(p) ==
    /\ PyAt(p, "running")
    /\ PyTo(p, "completing")
    /\ succeeded' = succeeded \cup {pyJob[p]}
    /\ UNCHANGED <<controlVars, pyId, pyPhase, pyJob, pyBeat, pyLate>>

\* It raises, or asyncio.timeout interrupts it at the deadline.
PyHandlerRaises(p) ==
    /\ PyAt(p, "running")
    /\ PyTo(p, "failing")
    /\ UNCHANGED <<controlVars, pyId, pyPhase, pyJob, pyBeat, pyLate, succeeded>>

\* Any error of complete() leads to fail().
PyCompletes(p) ==
    /\ PyAt(p, "completing")
    /\ \/ /\ FinishDispatch(pyId[p], pyJob[p], "completed")
          /\ \/ PyTo(p, "idle") /\ PyHolds(p, 0)
             \/ Lossy /\ PyTo(p, "failing") /\ UNCHANGED pyJob
       \/ /\ Lossy \/ ~CanFinish(pyId[p], pyJob[p])
          /\ Unserved /\ PyTo(p, "failing") /\ UNCHANGED pyJob
    /\ UNCHANGED <<pyId, pyPhase, pyBeat, pyLate, succeeded>>

Failing(p) == PyAt(p, "failing") \/ PyAt(p, "refusing")

\* An error of fail() goes up to run_loop, which sleeps and polls again.
PyFails(p) ==
    /\ Failing(p)
    /\ \/ FinishDispatch(pyId[p], pyJob[p], "failed")
       \/ (Lossy \/ ~CanFinish(pyId[p], pyJob[p])) /\ Unserved
    /\ PyTo(p, "idle") /\ PyHolds(p, 0)
    /\ UNCHANGED <<pyId, pyPhase, pyBeat, pyLate, succeeded>>

\* The claim times out at the client, and may reach the server all the same.
PyClaimTimesOut(p) ==
    /\ Lossy /\ PyAt(p, "claiming")
    /\ PyTo(p, "idle")
    /\ (UNCHANGED pyLate \/ LeftBehind(p, "claim"))
    /\ UNCHANGED <<controlVars, pyId, pyPhase, pyJob, pyBeat, succeeded>>

\* The connection is closed without an answer to a claim or to fail(): the
\* error is not a WorkerControlError, and the task of the loop ends with it.
LoopDies(p) ==
    /\ Lossy
    /\ \/ PyAt(p, "claiming") /\ LeftBehind(p, "claim")
       \/ Failing(p) /\ LeftBehind(p, "failed")
    /\ PyTo(p, "ended") /\ PyHolds(p, 0)
    /\ UNCHANGED <<controlVars, pyId, pyPhase, pyBeat, succeeded>>

\* A request that nobody awaits arrives, or never does.
LateArrives(p) ==
    /\ \E r \in pyLate[p] :
        /\ pyLate' = [pyLate EXCEPT ![p] = @ \ {r}]
        /\ \/ Unserved
           \/ r.kind = "claim" /\ \E d \in DispatchIds : ClaimNext(pyId[p], d)
           \/ r.kind # "claim" /\ FinishDispatch(pyId[p], r.dispatch, r.kind)
    /\ UNCHANGED <<pyId, pyPhase, pyPc, pyJob, pyBeat, succeeded>>

-----------------------------------------------------------------------------
(* Heartbeats and the end of the process. *)

\* worker.active: from the claim until run_once returns.
PyListed(p) == IF pyPc[p] \in {"running", "completing", "failing"} THEN {pyJob[p]} ELSE {}

PySendsBeat(p) ==
    /\ pyPhase[p] = "up" /\ pyBeat[p] = NoList
    /\ pyBeat' = [pyBeat EXCEPT ![p] = PyListed(p)]
    /\ UNCHANGED <<controlVars, pyId, pyPhase, pyPc, pyJob, pyLate, succeeded>>

PyBeatArrives(p) ==
    /\ pyBeat[p] # NoList
    /\ pyBeat' = [pyBeat EXCEPT ![p] = NoList]
    /\ \/ Heartbeat(pyId[p], pyBeat[p])
       \/ (Lossy \/ ~CanHeartbeat(pyId[p], pyBeat[p])) /\ Unserved
    /\ UNCHANGED <<pyId, pyPhase, pyPc, pyJob, pyLate, succeeded>>

\* main() goes on after SIGTERM: the task of the loop is cancelled once.
\* CancelledError ends it in a sleep, a claim and fail(); in the handler and
\* in complete() run_once catches it, calls fail() and returns True.
PyStops(p) ==
    /\ pyPhase[p] = "up"
    /\ pyPhase' = [pyPhase EXCEPT ![p] = "stopping"]
    /\ \/ pyPc[p] \in {"idle", "ended"} /\ PyTo(p, "ended") /\ UNCHANGED <<pyJob, pyLate>>
       \/ PyAt(p, "claiming") /\ PyTo(p, "ended") /\ LeftBehind(p, "claim") /\ UNCHANGED pyJob
       \/ PyAt(p, "claimed") /\ PyTo(p, "ended") /\ PyHolds(p, 0) /\ UNCHANGED pyLate
       \/ PyAt(p, "running") /\ PyTo(p, "failing") /\ UNCHANGED <<pyJob, pyLate>>
       \/ PyAt(p, "completing") /\ PyTo(p, "failing") /\ LeftBehind(p, "completed")
            /\ UNCHANGED pyJob
       \/ Failing(p) /\ PyTo(p, "ended") /\ LeftBehind(p, "failed") /\ PyHolds(p, 0)
    /\ UNCHANGED <<controlVars, pyId, pyBeat, succeeded>>

-----------------------------------------------------------------------------
PyAdminCreates ==
    \E i \in DOMAIN deployments, deadline \in Times :
        CreateDispatch(i, deadline) /\ UNCHANGED <<pyVars, succeeded>>

PyAdminCancels == \E d \in DispatchIds : Cancel(d) /\ UNCHANGED <<pyVars, succeeded>>

PyTimePasses == Tick /\ UNCHANGED <<pyVars, succeeded>>

PyProcessStep(p) ==
        \/ PyRegisters(p) \/ Polls(p) \/ PyClaimAnswered(p) \/ PyClaimTimesOut(p)
        \/ PyAccepts(p)
        \/ PyHandlerReturns(p) \/ PyHandlerRaises(p) \/ PyCompletes(p) \/ PyFails(p)
        \/ LoopDies(p) \/ LateArrives(p) \/ PySendsBeat(p) \/ PyBeatArrives(p) \/ PyStops(p)

PyNext ==
    /\ PyAdminCreates \/ PyAdminCancels \/ PyTimePasses \/ \E p \in PyProcesses : PyProcessStep(p)
    /\ NodeAside

PySpec == FleetInit /\ PyInit /\ [][PyNext]_<<vars, pyVars>>

-----------------------------------------------------------------------------
(* Properties. *)

\* Two processes never have the same dispatch, not even with one worker id
\* between them and with requests that arrive after their caller has gone
\* (worker.py:119-152, 207).
PyWorkIsExclusive ==
    /\ PyTypeOK
    /\ \A p, q \in PyProcesses : pyJob[p] # 0 /\ pyJob[p] = pyJob[q] => p = q

\* docs/architecture/05-technical-architecture.md:330: a worker that shuts
\* down takes no new job.  (main(), worker.py:231-234.)
StoppingClaimsNothing ==
    \A p \in PyProcesses : pyPhase[p] = "stopping" => ~PyAt(p, "claiming")
=============================================================================
