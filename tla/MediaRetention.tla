--------------------------- MODULE MediaRetention ---------------------------
(***************************************************************************)
(* The retention worker (services/media-ops/src/retention.ts) beside the   *)
(* request handlers of the same process, and the writes of both.           *)
(*                                                                         *)
(* Both sides write the whole snapshot through one PostgresMediaOps-       *)
(* Persistence object, each through a queue of its own: the handlers copy  *)
(* the state when a request has changed it and write the copies in turn    *)
(* (server.ts:75-82); the worker copies the state when its write starts    *)
(* (main.ts:39-45).  So two writes can be under way at once.  Each write   *)
(* carries the version that the object last learned (persistence.ts:41-57) *)
(* and takes effect only if the row still has it; what the object knows    *)
(* changes when a reply arrives.  Versions only grow and are only compared *)
(* with the row's, so each is represented by whether it equals the row's.  *)
(*                                                                         *)
(* Jobs are egress jobs that run and whose object and expiry are known;    *)
(* the handlers' only requests are provider callbacks that end them.       *)
(***************************************************************************)
EXTENDS MediaJobs, FiniteSetsExt

CONSTANTS
    BatchSize,       \* objects the worker deletes in one round
    Lossy,           \* TRUE: storage and database may fail
    MaxQueue,        \* bound on the handlers' queue
    MaxDeletions,    \* bound on the deletions of one object
    MaxRestarts      \* bound on restarts of the process

ASSUME RetentionAssumption ==
    /\ Kinds = {"egress"}
    /\ BatchSize \in Nat \ {0}
    /\ Lossy \in BOOLEAN
    /\ MaxQueue \in Nat
    /\ MaxDeletions \in Nat \ {0}
    /\ MaxRestarts \in Nat

VARIABLES
    poisoned,        \* jobs whose object the storage never deletes
    queue,           \* copies the handlers still have to write
    write,           \* the write under way on each side, or NoWrite
    known,           \* this.version is the row's version
    row,             \* the jobs in the row
    batch,           \* jobs left in the worker's round
    pc,              \* the worker: "idle", "deleting", "saving"
    deletions,       \* deletions of each object at the storage
    unsure,          \* history: jobs of which an answer or a mark was lost
    answered,        \* history: jobs whose end was answered with success
    restarts

workerVars == <<poisoned, batch, pc, deletions, unsure>>
vars == <<mediaVars, workerVars, queue, write, known, row, answered, restarts>>

Sides == {"handlers", "worker"}
NoWrite == [stage |-> "none", current |-> FALSE, jobs |-> << >>]
Free(side) == write[side].stage = "none"

TypeOK ==
    /\ MediaTypeOK
    /\ \A i \in DOMAIN queue : queue[i] \in Seq(Job)
    /\ write \in [Sides -> [stage : {"none", "sent", "done", "conflict", "error"},
                            current : BOOLEAN, jobs : Seq(Job)]]
    /\ known \in BOOLEAN /\ row \in Seq(Job)
    /\ batch \subseteq JobIds
    /\ pc \in {"idle", "deleting", "saving"}
    /\ deletions \in [JobIds -> 0 .. MaxDeletions]
    /\ answered \subseteq JobIds /\ unsure \subseteq JobIds /\ poisoned \subseteq JobIds
    /\ pc = "idle" <=> batch = {}
    /\ pc = "saving" <=> ~Free("worker")
    /\ Free("handlers") => queue = << >>

Running ==
    [kind |-> "egress", status |-> "active", provider |-> TRUE, identity |-> FALSE,
     object |-> TRUE, deleted |-> FALSE]

Init ==
    /\ jobs = [i \in 1 .. MaxJobs |-> Running]
    /\ idem = [s \in Kinds \X Keys |-> 0]
    /\ asked = [s \in Kinds \X Keys |-> NoBody]
    /\ results = {}
    /\ queue = << >>
    /\ write = [s \in Sides |-> NoWrite]
    /\ known = TRUE
    /\ row = jobs
    /\ poisoned \in SUBSET JobIds /\ Cardinality(poisoned) < BatchSize
    /\ unsure = {}
    /\ batch = {}
    /\ pc = "idle"
    /\ deletions = [i \in JobIds |-> 0]
    /\ answered = {}
    /\ restarts = 0

-----------------------------------------------------------------------------
(* Writes. *)

Sent(copy, current) == [stage |-> "sent", current |-> current, jobs |-> copy]
Other(side) == IF side = "worker" THEN "handlers" ELSE "worker"

\* Mutation: the row takes a write whatever its version.
RowOverwritten(side) ==
    /\ write[side].stage = "sent"
    /\ row' = write[side].jobs
    /\ write' = [write EXCEPT ![side].stage = "done", ![side].current = TRUE,
                              ![Other(side)].current = FALSE]
    /\ known' = FALSE
    /\ UNCHANGED <<mediaVars, workerVars, queue, answered, restarts>>

\* The row takes the write and gets a new version, which the reply carries,
\* or the version is another one by now.
RowAnswers(side) ==
    /\ write[side].stage = "sent"
    /\ IF write[side].current
       THEN /\ row' = write[side].jobs
            /\ write' = [write EXCEPT ![side].stage = "done",
                                      ![Other(side)].current = FALSE]
            /\ known' = FALSE
       ELSE /\ write' = [write EXCEPT ![side].stage = "conflict"]
            /\ UNCHANGED <<row, known>>
    /\ UNCHANGED <<mediaVars, workerVars, queue, answered, restarts>>

\* The query fails before it reaches the row.
RowUnreachable(side) ==
    /\ Lossy /\ write[side].stage = "sent"
    /\ write' = [write EXCEPT ![side].stage = "error"]
    /\ UNCHANGED <<mediaVars, workerVars, queue, known, row, answered, restarts>>

\* save() returns or throws; a success teaches the object the new version.
Learn(side) ==
    known' = IF write[side].stage = "done" THEN write[side].current ELSE known

-----------------------------------------------------------------------------
(* Request handlers. *)

\* A callback ends a job, and the state is copied for the write.
Callback(r, status) ==
    /\ Len(queue) < MaxQueue
    /\ ApplyProviderStatus(r, status, FALSE, FALSE)
    /\ IF Free("handlers")
       THEN write' = [write EXCEPT !["handlers"] = Sent(jobs', known)] /\ UNCHANGED queue
       ELSE queue' = Append(queue, jobs') /\ UNCHANGED write
    /\ UNCHANGED <<workerVars, known, row, answered, restarts>>

Ended(copy) == {i \in JobIds : copy[i].status \in Terminal}

\* Mutation: the reply does not wait for the write to succeed.
HandlersAnswerAnyway ==
    /\ write["handlers"].stage \in {"done", "conflict", "error"}
    /\ Learn("handlers")
    /\ answered' = answered \cup Ended(write["handlers"].jobs)
    /\ IF queue = << >>
       THEN write' = [write EXCEPT !["handlers"] = NoWrite] /\ UNCHANGED queue
       ELSE /\ write' = [write EXCEPT !["handlers"] = Sent(queue[1], known')]
            /\ queue' = Tail(queue)
    /\ UNCHANGED <<mediaVars, workerVars, row, restarts>>

\* The reply arrives; the request is answered and the next write starts.
HandlersContinue ==
    /\ write["handlers"].stage \in {"done", "conflict", "error"}
    /\ Learn("handlers")
    /\ answered' = IF write["handlers"].stage = "done"
                   THEN answered \cup Ended(write["handlers"].jobs) ELSE answered
    /\ IF queue = << >>
       THEN write' = [write EXCEPT !["handlers"] = NoWrite] /\ UNCHANGED queue
       ELSE /\ write' = [write EXCEPT !["handlers"] = Sent(queue[1], known')]
            /\ queue' = Tail(queue)
    /\ UNCHANGED <<mediaVars, workerVars, row, restarts>>

-----------------------------------------------------------------------------
(* The retention worker: processBatch(). *)

ExpiredJobs == {r \in JobIds : Expired(r)}

\* The list of expired jobs is in order of creation; its first ones.
FirstExpired == {r \in ExpiredJobs : Cardinality({q \in ExpiredJobs : q < r}) < BatchSize}

StartRound ==
    /\ pc = "idle" /\ ExpiredJobs # {}
    /\ batch' = FirstExpired
    /\ pc' = "deleting"
    /\ UNCHANGED <<mediaVars, poisoned, queue, write, known, row, deletions, unsure, answered, restarts>>

\* The job of the round that the worker is at.
Current == Min(batch)

\* To the next job of the round.
NextInBatch ==
    /\ batch' = batch \ {Current}
    /\ pc' = IF batch' = {} THEN "idle" ELSE "deleting"

\* Counted up to the bound.
OneMoreDeletion ==
    deletions' = [deletions EXCEPT ![Current] = IF @ < MaxDeletions THEN @ + 1 ELSE @]

\* The storage has deleted the object and says so: the job is marked and the
\* worker's write starts.
ObjectDeleted ==
    /\ pc = "deleting" /\ Current \notin poisoned
    /\ OneMoreDeletion
    /\ MarkDeleted(Current)
    /\ write' = [write EXCEPT !["worker"] = Sent(jobs', known)]
    /\ pc' = "saving"
    /\ UNCHANGED <<poisoned, queue, known, row, batch, unsure, answered, restarts>>

\* Mutation: a failed deletion is recorded as done.
DeletionFailsMarked ==
    /\ pc = "deleting"
    /\ Lossy \/ Current \in poisoned
    /\ MarkDeleted(Current)
    /\ NextInBatch
    /\ UNCHANGED <<poisoned, deletions, unsure, queue, write, known, row, answered, restarts>>

\* Mutation: the round ends with the first failure.
DeletionFailsStops ==
    /\ pc = "deleting"
    /\ Lossy \/ Current \in poisoned
    /\ batch' = {} /\ pc' = "idle"
    /\ UNCHANGED <<mediaVars, poisoned, deletions, unsure, queue, write, known, row,
                   answered, restarts>>

\* The storage refuses, or its answer is lost after it has deleted.
DeletionFails ==
    /\ pc = "deleting"
    /\ \/ (Lossy \/ Current \in poisoned) /\ UNCHANGED <<deletions, unsure>>
       \/ /\ Lossy /\ Current \notin poisoned
          /\ OneMoreDeletion
          /\ unsure' = unsure \cup {Current}
    /\ NextInBatch
    /\ UNCHANGED <<mediaVars, poisoned, queue, write, known, row, answered, restarts>>

\* A write that failed is reported and not repeated.
WorkerContinues ==
    /\ pc = "saving"
    /\ write["worker"].stage \in {"done", "conflict", "error"}
    /\ Learn("worker")
    /\ write' = [write EXCEPT !["worker"] = NoWrite]
    /\ NextInBatch
    /\ UNCHANGED <<mediaVars, poisoned, queue, row, deletions, unsure, answered, restarts>>

-----------------------------------------------------------------------------
Restart ==
    /\ restarts < MaxRestarts
    /\ restarts' = restarts + 1
    /\ jobs' = row
    /\ known' = TRUE
    /\ queue' = << >> /\ write' = [s \in Sides |-> NoWrite]
    /\ batch' = {} /\ pc' = "idle"
    /\ unsure' = unsure \cup {i \in JobIds : deletions[i] > 0 /\ ~row[i].deleted}
    /\ UNCHANGED <<poisoned, idem, asked, results, row, deletions, answered>>

Handlers ==
    HandlersContinue
    \/ \E r \in JobIds, status \in {"draining", "completed"} : Callback(r, status)

Worker == StartRound \/ ObjectDeleted \/ DeletionFails \/ WorkerContinues

Database(side) == RowAnswers(side) \/ RowUnreachable(side)

Next == Handlers \/ Worker \/ Restart \/ \E s \in Sides : Database(s)

Spec == Init /\ [][Next]_vars

\* The worker polls for ever, and each side's query gets an answer.  The storage
\* deletes an object that is not poisoned when it is asked again and again.
LiveSpec ==
    /\ Spec
    /\ WF_vars(Worker) /\ WF_vars(Database("worker"))
    /\ \A i \in 1 .. MaxJobs : SF_vars(batch # {} /\ Current = i /\ ObjectDeleted)

-----------------------------------------------------------------------------
(* Properties. *)

\* A job is marked as deleted only when the storage said that the object is
\* gone, whatever failed or restarted in between (retention.ts:76-79).
MarkedWasDeleted ==
    /\ TypeOK
    /\ \A i \in JobIds : jobs[i].deleted => deletions[i] > 0

\* What a callback was told with success survives: neither the worker's
\* concurrent writes nor a restart undo it (server.ts:76-83).
AnsweredEndIsDurable ==
    \A i \in answered : row[i].status \in Terminal

\* No object is deleted twice (comment retention.ts:19), whatever happens to
\* the writes, unless the storage's answer was lost or a restart fell between
\* the deletion and its mark in the row.
DeletedOnce == \A i \in JobIds \ unsure : deletions[i] <= 1

\* Acceptance plan :147 says that a stale snapshot write conflicts and must
\* not overwrite newer state: a deletion that is in the row stays there.
DeletionStays ==
    [][\A i \in JobIds : row[i].deleted => row'[i].deleted]_vars

\* An ended job's object is deleted and the job marked, although the storage
\* never deletes some other object of the batch and calls fail in between;
\* a restart may bring back a row without the end, and then the end is lost.
ExpiredIsDeleted ==
    \A i \in 1 .. MaxJobs :
        []<>(i \in poisoned \/ jobs[i].status \notin Terminal \/ jobs[i].deleted)

=============================================================================
