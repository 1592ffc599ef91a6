----------------------------- MODULE ToolPolicy -----------------------------
(***************************************************************************)
(* The tools an agent may call: ToolPolicyEngine.authorize of              *)
(* services/agent-control/src/tool-policy.ts, one engine per process, with *)
(* the result store and the audit sink the processes share.                *)
(*                                                                         *)
(* All callers that come while a call with the same key is under way share *)
(* its promise, so a process has at most one run per key: runPc says which *)
(* await the run is at.  Results are numbered in the order in which the    *)
(* tool produced them; 0 is no result.  The store and the sink may fail at *)
(* any call, and a failed call may have taken effect.                      *)
(***************************************************************************)
EXTENDS Naturals, FiniteSets

CONSTANTS
    ToolProcesses,
    ToolKeys,        \* toolId:idempotencyKey
    MaxToolRuns      \* bound on the successful executions of one key

ASSUME ToolAssumption == MaxToolRuns \in Nat \ {0}

VARIABLES
    runPc,           \* await of the run in inFlight, "idle" when there is none
    runHeld,         \* the result this run has in hand
    completed,       \* the engine's map of results
    storedResult,    \* the result store
    executions,      \* how often the tool has produced a result
    ranHere,         \* history: executions by a process since it started
    audited,         \* history: results the sink has an entry about
    returned,        \* history: results that were returned, by process
    excused          \* history: keys whose result got lost or whose runs overlapped

toolVars == <<runPc, runHeld, completed, storedResult, executions, ranHere,
              audited, returned, excused>>

RunPoints == {"idle", "replaying", "fetching", "executing", "storing", "recording"}
Results == 0 .. MaxToolRuns

ToolTypeOK ==
    /\ runPc \in [ToolProcesses -> [ToolKeys -> RunPoints]]
    /\ runHeld \in [ToolProcesses -> [ToolKeys -> Results]]
    /\ completed \in [ToolProcesses -> [ToolKeys -> Results]]
    /\ storedResult \in [ToolKeys -> Results]
    /\ executions \in [ToolKeys -> Results]
    /\ ranHere \in [ToolProcesses -> [ToolKeys -> Results]]
    /\ audited \in [ToolKeys -> SUBSET Results]
    /\ returned \in [ToolProcesses -> [ToolKeys -> SUBSET Results]]
    /\ excused \subseteq ToolKeys

ToolInit ==
    /\ runPc = [p \in ToolProcesses |-> [k \in ToolKeys |-> "idle"]]
    /\ runHeld = [p \in ToolProcesses |-> [k \in ToolKeys |-> 0]]
    /\ completed = [p \in ToolProcesses |-> [k \in ToolKeys |-> 0]]
    /\ storedResult = [k \in ToolKeys |-> 0]
    /\ executions = [k \in ToolKeys |-> 0]
    /\ ranHere = [p \in ToolProcesses |-> [k \in ToolKeys |-> 0]]
    /\ audited = [k \in ToolKeys |-> {}]
    /\ returned = [p \in ToolProcesses |-> [k \in ToolKeys |-> {}]]
    /\ excused = {}

RunAt(p, k, points) == runPc[p][k] \in points
RunTo(p, k, point) == runPc' = [runPc EXCEPT ![p][k] = point]
InHand(p, k, r) == runHeld' = [runHeld EXCEPT ![p][k] = r]

\* The promise rejects and leaves inFlight; every caller sees the error.
RunRejects(p, k) == RunTo(p, k, "idle") /\ InHand(p, k, 0)

\* Between the lookup in the store and the result, another process cannot know.
Committed(p, k) == RunAt(p, k, {"executing", "storing"})

\* authorize: the checks have passed and no run of this key is in flight.
Authorize(p, k) ==
    /\ RunAt(p, k, {"idle"})
    /\ IF completed[p][k] # 0
       THEN RunTo(p, k, "replaying") /\ InHand(p, k, completed[p][k])
       ELSE RunTo(p, k, "fetching") /\ UNCHANGED runHeld
    /\ UNCHANGED <<completed, storedResult, executions, ranHere, audited, returned, excused>>

\* resultStore.get finds a result, which is replayed.
Found(p, k) ==
    /\ RunAt(p, k, {"fetching"}) /\ storedResult[k] # 0
    /\ completed' = [completed EXCEPT ![p][k] = storedResult[k]]
    /\ RunTo(p, k, "replaying") /\ InHand(p, k, storedResult[k])
    /\ UNCHANGED <<storedResult, executions, ranHere, audited, returned, excused>>

\* It finds nothing, and execute() is called.
NotFound(p, k) ==
    /\ RunAt(p, k, {"fetching"}) /\ storedResult[k] = 0
    /\ RunTo(p, k, "executing")
    /\ excused' = IF \E q \in ToolProcesses \ {p} : Committed(q, k)
                  THEN excused \cup {k} ELSE excused
    /\ UNCHANGED <<runHeld, completed, storedResult, executions, ranHere, audited, returned>>

\* Mutation: the result is remembered only when it has been stored.
ExecutedUnremembered(p, k) ==
    /\ RunAt(p, k, {"executing"}) /\ executions[k] < MaxToolRuns
    /\ executions' = [executions EXCEPT ![k] = @ + 1]
    /\ ranHere' = [ranHere EXCEPT ![p][k] = @ + 1]
    /\ RunTo(p, k, "storing") /\ InHand(p, k, executions[k] + 1)
    /\ UNCHANGED <<completed, storedResult, audited, returned, excused>>

\* The tool returns; the result is remembered and put into the store.
Executed(p, k) ==
    /\ RunAt(p, k, {"executing"}) /\ executions[k] < MaxToolRuns
    /\ executions' = [executions EXCEPT ![k] = @ + 1]
    /\ ranHere' = [ranHere EXCEPT ![p][k] = @ + 1]
    /\ completed' = [completed EXCEPT ![p][k] = executions[k] + 1]
    /\ RunTo(p, k, "storing") /\ InHand(p, k, executions[k] + 1)
    /\ UNCHANGED <<storedResult, audited, returned, excused>>

PutSucceeds(p, k) ==
    /\ RunAt(p, k, {"storing"})
    /\ storedResult' = [storedResult EXCEPT ![k] = runHeld[p][k]]
    /\ RunTo(p, k, "recording")
    /\ UNCHANGED <<runHeld, completed, executions, ranHere, audited, returned, excused>>

\* resultStore.put fails, and the result may or may not be in the store.
PutFails(p, k) ==
    /\ RunAt(p, k, {"storing"})
    /\ \/ UNCHANGED storedResult /\ excused' = excused \cup {k}
       \/ storedResult' = [storedResult EXCEPT ![k] = runHeld[p][k]] /\ UNCHANGED excused
    /\ RunRejects(p, k)
    /\ UNCHANGED <<completed, executions, ranHere, audited, returned>>

\* get, execute or an audit entry that fails; the entry may be in the sink.
RunFails(p, k) ==
    /\ RunAt(p, k, {"fetching", "executing", "replaying", "recording"})
    /\ \/ UNCHANGED audited
       \/ /\ RunAt(p, k, {"replaying", "recording"})
          /\ audited' = [audited EXCEPT ![k] = @ \cup {runHeld[p][k]}]
    /\ RunRejects(p, k)
    /\ UNCHANGED <<completed, storedResult, executions, ranHere, returned, excused>>

\* The audit entry "executed" or "replayed" is written and the callers get the result.
Returns(p, k) ==
    /\ RunAt(p, k, {"replaying", "recording"})
    /\ audited' = [audited EXCEPT ![k] = @ \cup {runHeld[p][k]}]
    /\ returned' = [returned EXCEPT ![p][k] = @ \cup {runHeld[p][k]}]
    /\ RunRejects(p, k)
    /\ UNCHANGED <<completed, storedResult, executions, ranHere, excused>>

\* The process ends and another takes its place; what it held is gone.
ToolCrash(p) ==
    /\ runPc' = [runPc EXCEPT ![p] = [k \in ToolKeys |-> "idle"]]
    /\ runHeld' = [runHeld EXCEPT ![p] = [k \in ToolKeys |-> 0]]
    /\ completed' = [completed EXCEPT ![p] = [k \in ToolKeys |-> 0]]
    /\ ranHere' = [ranHere EXCEPT ![p] = [k \in ToolKeys |-> 0]]
    /\ returned' = [returned EXCEPT ![p] = [k \in ToolKeys |-> {}]]
    /\ excused' = excused \cup {k \in ToolKeys : RunAt(p, k, {"storing"})}
    /\ UNCHANGED <<storedResult, executions, audited>>

ToolNext ==
    \/ \E p \in ToolProcesses, k \in ToolKeys :
        \/ Authorize(p, k) \/ Found(p, k) \/ NotFound(p, k) \/ Executed(p, k)
        \/ PutSucceeds(p, k) \/ PutFails(p, k) \/ RunFails(p, k) \/ Returns(p, k)
    \/ \E p \in ToolProcesses : ToolCrash(p)

ToolSpec == ToolInit /\ [][ToolNext]_toolVars

-----------------------------------------------------------------------------
(* Properties. *)

\* A process produces a result once per key and repeats it ever after, also
\* when storing or auditing it failed; whatever a caller was given is audited.
OneResultPerProcess ==
    \A p \in ToolProcesses, k \in ToolKeys :
        /\ ranHere[p][k] <= 1
        /\ Cardinality(returned[p][k]) <= 1
        /\ returned[p][k] \subseteq audited[k]

\* Among processes the tool runs a second time only if the first result never
\* reached the store, or if the two runs overlapped.
RerunsAreExcused == \A k \in ToolKeys : executions[k] > 1 => k \in excused

\* authorize runs a tool once per idempotency key, except for losses the engine
\* cannot see, and never returns a result without an audit entry
\* (tool-policy.ts:49-70).
ToolRunsOnce == ToolTypeOK /\ OneResultPerProcess /\ RerunsAreExcused
=============================================================================
