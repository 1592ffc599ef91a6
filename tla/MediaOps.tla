------------------------------ MODULE MediaOps ------------------------------
(***************************************************************************)
(* The media-ops server: concurrent requests of services/media-ops/src/    *)
(* server.ts calling the operations of MediaJobs, the provider (LiveKit)   *)
(* and the persistence of persistence.ts.                                  *)
(*                                                                         *)
(* A request handler runs from one await to the next; what it does between *)
(* two awaits is one step.  A create request records the job, awaits the   *)
(* provider, records the outcome and awaits the save.  Provider callbacks  *)
(* come in as requests of their own, also between a create call and its    *)
(* answer.  persistSnapshot (server.ts:76-82) copies the state when it is  *)
(* called and queues the write: "tail" is that queue, its head is under    *)
(* way, and the reply follows the write.                                   *)
(*                                                                         *)
(* A write is conditional on the version the process last saw.  One that   *)
(* took effect although its reply was lost leaves the process with an old  *)
(* version ("synced" is FALSE), and every later write conflicts.           *)
(***************************************************************************)
EXTENDS MediaJobs

CONSTANTS
    Handlers,        \* requests that may be under way at the same time
    Callbacks,       \* statuses the provider reports
    HasProvider,     \* FALSE: no provider is configured
    Lossy,           \* TRUE: the provider and the database may fail
    MaxRestarts      \* bound on restarts of the process

ASSUME OpsAssumption ==
    /\ Callbacks \subseteq Status
    /\ HasProvider \in BOOLEAN
    /\ Lossy \in BOOLEAN
    /\ MaxRestarts \in Nat

VARIABLES
    pc,              \* where each request is
    call,            \* what it works on and will answer
    made,            \* requests whose task the provider has created
    tail,            \* queue of writes: [by, state]
    durable,         \* the saved snapshot
    synced,          \* the process knows the version of the snapshot
    tasks,           \* tasks at the provider, per idempotency key
    acked,           \* history: the latest status of a job answered with success
    told,            \* history: results of operations answered with success
    early,           \* history: those the snapshot has not had yet, told from memory
    restarts

serverVars == <<pc, call, made, tail>>
vars == <<mediaVars, serverVars, durable, synced, tasks, acked, told, early, restarts>>

\* op: the operation and its key, in a set; no other request has one.
Idle == [op |-> {}, job |-> 0, shown |-> "requested", ok |-> FALSE]
Calls == [op : SUBSET (Operations \X Keys),
          job : 0 .. MaxJobs, shown : Status, ok : BOOLEAN]

\* The result that a request carries out and answers.
ResultOf(c) == {<<o[1], c.job, o[2]>> : o \in c.op}

State == [jobs |-> jobs, idem |-> idem, asked |-> asked, results |-> results]
NextState == [jobs |-> jobs', idem |-> idem', asked |-> asked', results |-> results']

TypeOK ==
    /\ MediaTypeOK
    /\ pc \in [Handlers -> {"idle", "creating", "acting", "saving"}]
    /\ call \in [Handlers -> Calls]
    /\ made \subseteq Handlers
    /\ \A i \in DOMAIN tail : pc[tail[i].by] = "saving"
    /\ synced \in BOOLEAN
    /\ tasks \in [Kinds \X Keys -> Nat]
    /\ restarts \in 0 .. MaxRestarts

Init ==
    /\ MediaInit
    /\ pc = [h \in Handlers |-> "idle"]
    /\ call = [h \in Handlers |-> Idle]
    /\ made = {}
    /\ tail = << >>
    /\ durable = State
    /\ synced = TRUE
    /\ tasks = [s \in Kinds \X Keys |-> 0]
    /\ acked = [i \in 1 .. MaxJobs |-> "none"]
    /\ told = {} /\ early = {}
    /\ restarts = 0

-----------------------------------------------------------------------------
At(h, point) == pc[h] = point

WorksOn(h, k) == call[h].job # 0 /\ jobs[call[h].job].kind = k

\* sendMutation(): the copy is queued, the answer waits.
SaveAs(h, c) ==
    /\ pc' = [pc EXCEPT ![h] = "saving"]
    /\ call' = [call EXCEPT ![h] = c]
    /\ tail' = Append(tail, [by |-> h, state |-> NextState])

\* An answer that saves nothing.
Answer(h) ==
    /\ pc' = [pc EXCEPT ![h] = "idle"]
    /\ call' = [call EXCEPT ![h] = Idle]
    /\ UNCHANGED tail

Await(h, point, c) ==
    /\ pc' = [pc EXCEPT ![h] = point]
    /\ call' = [call EXCEPT ![h] = c]
    /\ UNCHANGED tail

Mutation(op, r, shown, ok) == [op |-> op, job |-> r, shown |-> shown, ok |-> ok]

Elsewhere == UNCHANGED <<durable, synced, acked, told, early, restarts>>

-----------------------------------------------------------------------------
(* Creating. *)

Create(h, k, key, body, identity) ==
    /\ At(h, "idle")
    /\ CreateJob(k, key, body, identity)
    /\ LET c == Mutation({}, Len(jobs) + 1, "requested", TRUE)
       IN  IF HasProvider THEN Await(h, "creating", c) ELSE SaveAs(h, c)
    /\ UNCHANGED <<made, tasks>> /\ Elsewhere

Repeat(h, k, key, body) ==
    /\ At(h, "idle")
    /\ IsRepeat(k, key, body)
    /\ UNCHANGED mediaVars
    /\ SaveAs(h, Mutation({}, idem[<<k, key>>], "requested", TRUE))
    /\ UNCHANGED <<made, tasks>> /\ Elsewhere

ProviderCreates(h) ==
    /\ At(h, "creating") /\ h \notin made
    /\ made' = made \cup {h}
    /\ tasks' = [s \in Kinds \X Keys |->
                    IF idem[s] = call[h].job THEN tasks[s] + 1 ELSE tasks[s]]
    /\ UNCHANGED <<mediaVars, pc, call, tail>> /\ Elsewhere

\* The provider's answer reaches a job that still waits for it.
CreateAnswered(h, object, identity) ==
    /\ At(h, "creating") /\ h \in made
    /\ Activate(call[h].job, object, identity)
    /\ SaveAs(h, Mutation({}, call[h].job, "active", TRUE))
    /\ made' = made \ {h}
    /\ UNCHANGED tasks /\ Elsewhere

\* Mutation: the failure is reported and not recorded.
CreateRefusedQuietly(h, identity) ==
    /\ At(h, "creating") /\ ~identity
    /\ Lossy \/ (h \in made /\ jobs[call[h].job].status # "requested")
    /\ UNCHANGED mediaVars /\ Answer(h)
    /\ made' = made \ {h}
    /\ UNCHANGED tasks /\ Elsewhere

\* The catch around provider call and activation (server.ts:183, :191, :221):
\* the provider failed, its answer was lost, or the job is not "requested"
\* any more and the activation throws.  fail() throws too after an end.
CreateRefused(h, identity) ==
    /\ At(h, "creating")
    /\ \/ Lossy /\ ~identity
       \/ h \in made /\ jobs[call[h].job].status # "requested"
    /\ Fail(call[h].job, identity)
    /\ IF CanMove(call[h].job, "failed")
       THEN SaveAs(h, Mutation({}, call[h].job, "failed", FALSE))
       ELSE Answer(h)
    /\ made' = made \ {h}
    /\ UNCHANGED tasks /\ Elsewhere

-----------------------------------------------------------------------------
(* Transfer, hang-up and callbacks. *)

\* A key without a result; the call may have one by the time it is carried out.
StartOperation(h, r, op, key) ==
    /\ At(h, "idle") /\ HasProvider
    /\ jobs[r].kind = "call" /\ jobs[r].identity
    /\ <<op, r, key>> \notin results
    /\ Await(h, "acting", Mutation({<<op, key>>}, r, jobs[r].status, TRUE))
    /\ UNCHANGED <<mediaVars, made, tasks>> /\ Elsewhere

\* A key with a result is answered with it at once, whether the snapshot has
\* the result or not, and nothing is saved.
RepeatOperation(h, r, op, key) ==
    /\ At(h, "idle") /\ HasProvider
    /\ jobs[r].kind = "call"
    /\ <<op, r, key>> \in results
    /\ told' = told \cup {<<op, r, key>>}
    /\ early' = early \cup ({<<op, r, key>>} \ durable.results)
    /\ UNCHANGED <<mediaVars, serverVars, durable, synced, tasks, acked, restarts>>

OperationDone(h) ==
    /\ At(h, "acting")
    /\ \E key \in Keys :
        \/ <<"transfer", key>> \in call[h].op /\ SaveTransfer(call[h].job, key)
        \/ <<"hangup", key>> \in call[h].op /\ SaveHangup(call[h].job, key)
    /\ SaveAs(h, [call[h] EXCEPT !.shown = jobs'[call[h].job].status])
    /\ UNCHANGED <<made, tasks>> /\ Elsewhere

\* The provider failed, or the call was hung up but has ended otherwise.
OperationRefused(h) ==
    /\ At(h, "acting")
    /\ \/ Lossy
       \/ /\ \E key \in Keys : <<"hangup", key>> \in call[h].op
          /\ jobs[call[h].job].status \in {"failed", "cancelled"}
    /\ UNCHANGED mediaVars /\ Answer(h)
    /\ UNCHANGED <<made, tasks>> /\ Elsewhere

\* The provider reports on a task that it has.
Callback(h, r, status, withId, withObject) ==
    /\ At(h, "idle")
    /\ \E s \in Kinds \X Keys : idem[s] = r /\ tasks[s] > 0
    /\ ApplyProviderStatus(r, status, withId, withObject)
    /\ SaveAs(h, Mutation({}, r, status, TRUE))
    /\ UNCHANGED <<made, tasks>> /\ Elsewhere

-----------------------------------------------------------------------------
(* The write at the head of the queue, and restart. *)

\* The order in which a job passes its statuses; nothing follows an end.
Rank ==
    [s \in Status \cup {"none"} |->
        CASE s = "none" -> 0 [] s = "requested" -> 1 [] s = "starting" -> 2
          [] s = "active" -> 3 [] s = "draining" -> 4 [] OTHER -> 5]

After(s, t) == s = t \/ Rank[s] < Rank[t]

EndWrite ==
    /\ tail' = Tail(tail)
    /\ pc' = [pc EXCEPT ![tail[1].by] = "idle"]
    /\ call' = [call EXCEPT ![tail[1].by] = Idle]
    /\ UNCHANGED <<mediaVars, made, tasks, restarts>>

Acknowledge(c) ==
    /\ acked' = IF c.ok /\ After(acked[c.job], c.shown)
                THEN [acked EXCEPT ![c.job] = c.shown] ELSE acked
    /\ told' = IF c.ok THEN told \cup ResultOf(c) ELSE told

SaveSucceeds ==
    /\ tail # << >> /\ synced
    /\ durable' = tail[1].state
    /\ Acknowledge(call[tail[1].by])
    /\ EndWrite
    /\ early' = early \ durable'.results
    /\ UNCHANGED synced

\* Mutation: the answer is sent although the write failed.
SaveFailsQuietly ==
    /\ tail # << >>
    /\ Lossy \/ ~synced
    /\ Acknowledge(call[tail[1].by])
    /\ EndWrite
    /\ UNCHANGED <<durable, synced, early>>

\* The database refuses, cannot be reached, or the version conflicts.
SaveFails ==
    /\ tail # << >>
    /\ Lossy \/ ~synced
    /\ EndWrite
    /\ UNCHANGED <<durable, synced, acked, told, early>>

\* The write took effect and its reply was lost.
SaveUncertain ==
    /\ tail # << >> /\ synced /\ Lossy
    /\ durable' = tail[1].state
    /\ synced' = FALSE
    /\ EndWrite
    /\ early' = early \ durable'.results
    /\ UNCHANGED <<acked, told>>

\* The process dies and restores the snapshot.
Restart ==
    /\ restarts < MaxRestarts
    /\ restarts' = restarts + 1
    /\ jobs' = durable.jobs /\ idem' = durable.idem
    /\ asked' = durable.asked /\ results' = durable.results
    /\ pc' = [h \in Handlers |-> "idle"]
    /\ call' = [h \in Handlers |-> Idle]
    /\ made' = {} /\ tail' = << >> /\ synced' = TRUE
    /\ UNCHANGED <<durable, tasks, acked, told, early>>

-----------------------------------------------------------------------------
Request(h) ==
    \/ \E k \in Kinds, key \in Keys, body \in Bodies, identity \in BOOLEAN :
            Create(h, k, key, body, identity /\ k = "call")
    \/ \E k \in Kinds, key \in Keys, body \in Bodies : Repeat(h, k, key, body)
    \/ \E r \in JobIds, op \in Operations, key \in Keys :
            StartOperation(h, r, op, key) \/ RepeatOperation(h, r, op, key)
    \/ \E r \in JobIds, status \in Callbacks, withId, withObject \in BOOLEAN :
            Callback(h, r, status, withId, withObject /\ jobs[r].kind = "egress")

Continue(h) ==
    \/ ProviderCreates(h)
    \/ \E object \in BOOLEAN, identity \in BOOLEAN :
            CreateAnswered(h, object /\ WorksOn(h, "egress"), identity /\ WorksOn(h, "call"))
    \/ \E identity \in BOOLEAN : CreateRefused(h, identity /\ WorksOn(h, "call"))
    \/ OperationDone(h)
    \/ OperationRefused(h)

Save == SaveSucceeds \/ SaveFails \/ SaveUncertain

Next == Save \/ Restart \/ \E h \in Handlers : Request(h) \/ Continue(h)

Spec == Init /\ [][Next]_vars

-----------------------------------------------------------------------------
(* Properties. *)

\* Creates, callbacks, hang-ups and failures of concurrent requests never set
\* a job back and never change an end state (control.ts:233-243, :352).
JobsMoveForward ==
    [][restarts' = restarts =>
        \A r \in JobIds : After(jobs[r].status, jobs'[r].status)]_vars

\* What a request that changes something was told with success is in the
\* snapshot, or something later is, and so is the result of a transfer or
\* hang-up: overlapping requests, failing writes and a restart never lose it
\* (server.ts:76-83).  One answer is excepted by name: a repeated operation
\* told from memory (server.ts:135-139) while no save with its result has taken
\* effect.
AnsweredIsDurable ==
    /\ \A i \in 1 .. MaxJobs : acked[i] # "none" =>
        /\ i \in DOMAIN durable.jobs
        /\ After(acked[i], durable.jobs[i].status)
    /\ told \subseteq durable.results \cup early
    /\ \A t \in told \ early : t[1] = "hangup" => durable.jobs[t[2]].status = "completed"

\* While the process lives, one idempotency key creates one task at the
\* provider, for requests that overlap, repeat and fail in any order
\* (server.ts:180-183).
OnceWhileUp == restarts = 0 => \A s \in Kinds \X Keys : tasks[s] <= 1

\* Platform boundaries :59 says that the provider's task status is the truth:
\* with a provider that never fails and reports no failure, a job whose task
\* exists is not failed.
TaskIsTruth ==
    \A s \in Kinds \X Keys :
        idem[s] # 0 /\ tasks[s] > 0 => jobs[idem[s]].status # "failed"

\* A job is "requested" only while its create request is under way: failing
\* provider calls, lost answers and callbacks leave none behind, which would
\* use up the limit for ever (server.ts:183, :191, :221).
RequestedIsAwaited ==
    restarts = 0 /\ HasProvider =>
        \A r \in JobIds : jobs[r].status = "requested" =>
            \E h \in Handlers : At(h, "creating") /\ call[h].job = r

\* What the statuses of the jobs say is true of requests and tasks, whichever of
\* the create answers and the callbacks come first (control.ts:281-369,
\* server.ts:179-223).
JobsOK == TypeOK /\ ActiveHasProvider /\ RequestedIsAwaited

=============================================================================
