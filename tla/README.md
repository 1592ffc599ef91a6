# A TLA+ development of the yujianAI platform

TLA+ models of the stateful services of this repository, the TLC instances that
check them, and proofs about them that TLAPS checks. Paths are relative to the
repository's root. The documents under `docs/` are in Chinese; where a claim of
theirs is used, the line is named.

## 1. The system

The repository is a control plane around LiveKit: HTTP services in TypeScript,
each a single Node.js process with its state in memory and a snapshot in
PostgreSQL, workers that poll, and Redis for short-lived counters. One event
loop per process means that the code between two `await`s is atomic and that
everything else interleaves; most of what is hard follows from that, from
snapshots, and from several replicas on one table.

| Component | State it keeps | Operations | Talks to |
|---|---|---|---|
| Agent control plane (`services/agent-control`) | Maps of artifacts, deployments, rules, dispatches, workers with their active dispatches | deploy, reconcile, roll back, rules, dispatch, trigger, claim, start, heartbeat, complete, fail, cancel | workers poll over HTTP; snapshot saved before each reply |
| Agent worker (`services/agent-worker-node`, `-python`) | the job it runs, its AbortSignal, its set of active ids | register, heartbeat timer, claim loop, accept, run handler, write the outcome back, drain | control plane; a LiveKit room |
| Media operations (`services/media-ops`) | jobs (ingress, egress, SIP call), idempotency maps, results of operations | create, provider callback, transfer, hang up | LiveKit; versioned snapshot row |
| Retention worker (same process) | position in its batch | list expired recordings, delete each, mark, save | object storage; the same snapshot row |
| Webhook outbox (`services/platform-api`) | table `outbox_events`: claims, next attempt, dead letter, publication | insert with audit, claim, deliver, mark, replay | several replicas, PostgreSQL, HTTP destinations |
| Platform store and routes (`platform-api`) | tenants, projects, environments, API keys, members, usage, idempotency caches, all in the memory of each replica | create, rotate, revoke, update with version | versioned snapshot row, shared by replicas; audit in a transaction of its own |
| Token quota, token route (`platform-api`) | Redis counters with expiry | reserve, release | node pool, token issuer, usage transaction |
| Rate limits, leases (`platform-api`) | Redis counters and keys with expiry, a window per process | check; acquire, release | platform API routes |
| RTC capacity, node pool, regions (`packages/livekit-compat`) | last observed load of each node, drains | observe, decide, choose | probes, token route |
| Billing ledger, data rights (`services/billing`, `data-rights`) | usage records and invoices; requests and their status | record, invoice, adjust, transitions; submit, process | SQL tables |
| Provider runtime, tool policy, room connector | circuit breakers; results per idempotency key; sessions per dispatch | invoke with fallback; authorise and run a tool; join and leave | external providers, tools, LiveKit |
| Identity adapters, contracts, telemetry, console, tools, charts | none, or rows without a protocol | | |

What makes each hard, and what correctness means there:

* **Agent control and workers.** Claims, heartbeats, cancels and completions of
  several workers in any order; replies lost; snapshots behind memory. Work is
  held by one worker only, of the right environment; an ended dispatch stays
  ended; a completed one was done; limits hold; queued work is served.
* **Media.** Callbacks overtake create answers; requests overlap; two queues
  write one row. A status never moves back; the limit holds; a key makes one
  task; what was answered is durable; nothing is marked deleted that exists.
* **Outbox.** Locks end before deliveries start; outcomes are recorded from
  stale counts; any call may fail after its effect. Published means delivered
  everywhere; dead means tried often enough; every event settles.
* **Platform store.** A request changes memory, then awaits its audit, then its
  turn to save a copy with everybody's changes in it; another replica may have
  written in between. What was answered is durable; a version means one content;
  an idempotency key has one answer; a lapsed secret is refused; the row restores.
* **Token quota.** A reservation names its minute before Redis runs it; replies get
  lost, releases fail or come late, processes end, counters expire. The limits hold
  for as long as their counters exist; leaked slots come back.
* **Capacity, leases, rate limits.** Probes end out of order, drains come between
  them; replies of Redis scripts get lost and keys expire under their holder. A
  token goes to a node that is open; a lease has one holder; a window lets
  through what the limit says, no more and no less.
* **Data rights, billing.** Routes and executors move one request at once, and a
  lost reply repeats a statement that took effect; usage is sent twice, comes
  late or is replaced, invoices are voided. One request per key, one executor per
  request, one end, audited as it was; no usage is billed twice.
* **Providers, tools, rooms.** Calls that began before a circuit opened finish
  after it; results get lost between a tool and its store; joins cross leaves and
  disconnections. Giving up means that everybody was asked; a tool runs once
  where a process can know; an open room has an owner.
* **Gateway.** A request goes through limiter, credential, permission, body,
  effect, audit and snapshot, with an await before each. What is answered with
  success was carried out, what is refused was not, what is audited was done.

## 2. Modules

| Module | What it is |
|---|---|
| `AgentControl` | `AgentControlPlane` (`controller.ts`): every operation that changes state, one action each |
| `AgentFleet` | EXTENDS it: Node workers, HTTP calls that may be lost, snapshots, restarts |
| `PythonWorker` | EXTENDS it: the Python worker (`worker.py`) against the same control plane |
| `ToolPolicy` | `ToolPolicyEngine.authorize` (`tool-policy.ts`) in several processes with one result store |
| `ProviderRegistry` | circuit breakers and both failover loops of `provider-runtime` |
| `RoomConnector` | the room sessions of one dispatch, Node and Python |
| `MediaJobs` | `MediaOpsControl` (`control.ts`): the job operations, without a next-state relation |
| `MediaOps` | EXTENDS it: concurrent request handlers, provider, queue of snapshot writes |
| `MediaRetention` | EXTENDS it: retention worker beside the callbacks, versions of the row |
| `Outbox` | abstract: what the outbox promises |
| `OutboxDelivery` | the SQL statements and publishers that implement it |
| `PlatformStore` | `PlatformStore` (`platform-store.ts`): a store as a value, its operations as functions of it |
| `PlatformApi` | EXTENDS it: replicas, concurrent mutating routes, audit, queue of copies, the versioned row, restarts |
| `TokenQuota` | the Redis scripts of the token quota and the token route on several replicas |
| `RtcAdmission` | the node a token is for: router, capacity controller, probes of `/readyz` |
| `Coordination` | Redis leases, the Redis rate limit and its stand-in in one process |
| `DataRightsLifecycle` | abstract: what each data-subject request goes through |
| `DataRights` | both data-rights services, their routes and processors, which implement it |
| `Billing` | `UsageLedger` (`ledger.ts`): usage, plans, invoices, adjustments |
| `Gateway` | the way of a request through `server.ts`, for the routes the other modules do not have |
| `AgentControlProofs`, `AgentWorkerProofs` | theorems about the control plane, and about the fleets of Node and of Python workers |
| `AgentRuntimeProofs` | theorems about `ToolPolicy`, `ProviderRegistry` and `RoomConnector` |
| `MediaOpsProofs`, `MediaRetentionProofs`, `OutboxProofs`, `PlatformProofs` | theorems about the module each is named for |
| `PlatformServicesProofs` | theorems about `TokenQuota`, `Coordination`, `DataRights`, `Gateway`, `RtcAdmission` and `Billing` |
| `MCAgentRuntime` | `AgentFleet`, `ToolPolicy`, `ProviderRegistry`, `RoomConnector` side by side, for TLC |
| `MCPlatformRecords` | `OutboxDelivery`, `DataRights` side by side, for TLC |
| `MCPlatformServices` | `TokenQuota`, `RtcAdmission`, `Coordination`, `Billing`, `Gateway` side by side, for TLC |
| the other `MC*` | instances for TLC: symmetry, constant functions, constraints |

### State and actions against the code

**AgentControl.** A JavaScript Map iterates in insertion order and two
operations depend on it, so `deployments`, `rules` and `dispatches` are
sequences and an identifier is a position. `active[w]` is `activeDispatchIds` of
worker `w`, `workerEnv[w]` its environment. An operation that throws changes
nothing and is a disabled action. `ClaimNext` and `ClaimNothing` are the two
outcomes of `claimNextDispatch`, and both contain the sweep that fails overdue
dispatches. `Cancel` is `cancelDispatch`, with the removal from every worker's
list. `triggered` is a history variable: which dispatches came from a rule.

**AgentFleet.** A runner is `runOnce` cut at its awaits (`pc`: idle, claiming,
claimed, running, completing, failing). `beat[w]` is a heartbeat that has been
sent with the list of that moment and has not arrived. `stray` holds workers
whose abandoned claim may still arrive. `durable` is the saved snapshot:
`sendMutation` changes memory, saves, then replies, so a successful reply comes
with `Saved`, and a failed call with any of: nothing happened, memory changed,
memory and snapshot changed. `ControlRestarts` is `restore()`. A crashed worker
does not return, because a new process takes a new random id.

**PythonWorker.** A process is `main()` with its two asyncio tasks: `pyPc` is where
`run_loop` waits, `pyBeat` the heartbeat under way. `asyncio.to_thread` does not
stop with its awaiter, so a cancelled request moves to `pyLate` and may arrive
afterwards. `pyId` is drawn from a set smaller than the processes may need: two
containers may use one process id and so one worker id.

**ToolPolicy.** `runPc[p][k]` is the promise in `inFlight`: *replaying* a result
that `completed` has, *fetching* from the store, *executing* the tool, *storing*, or
*recording* the audit; all callers of that moment share it. Results are numbered
in the order in which the tool produced them. `excused` are the keys whose result
got lost, or whose runs in two processes overlapped.

**ProviderRegistry.** `openFor[i]` is what is left of `openUntil`; an invocation
awaits one provider at a time; `rest` are the candidates it has not gone past, taken
in their order by number, and `tried` and `seenOpen` say whom it has asked and
whose circuit it found open. `guarded` tells the registry's loop from
`invokeWithProviderFailover`, which has no breakers.

**RoomConnector.** Join `j` uses room `j`; `session` is the map's entry, `closing` the
disconnects under way, `attended` the rooms with listeners. `connector` chooses
between the Node and the Python code once.

**MediaJobs, MediaOps.** `jobs` is the three job maps in one sequence, `idem` and
`asked` the idempotency maps with their fingerprints, `results` the
operation results. A handler (`pc`, `call`) is a request between its awaits:
*creating* awaits the provider, *acting* a transfer or hang-up, *saving* its write.
`tail` is the promise chain of `persistSnapshot`, copies included;
`SaveSucceeds`, `SaveFails` and `SaveUncertain` are the outcomes of its head, and
`synced` says whether the version in the process is the row's. `tasks` counts
the tasks at the provider. `RepeatOperation` is the answer to a transfer or hang-up
whose key has a result (`server.ts:134-139`): success, from memory, without a save.
`acked` and `told` are what was answered with success, of jobs and of operations;
`early` are the results told from memory that no snapshot has had yet.

**MediaRetention.** `write[side]` is the query under way for the handlers and
for the worker, `queue` the handlers' waiting copies, `known` whether the shared
persistence object knows the row's version, `row` the row. `batch` is the set of
jobs left of the worker's round, taken in the order of their numbers. `poisoned` are objects the storage never deletes.

**OutboxDelivery.** `row[e]` is the table row (`waiting` is `next_attempt_at` in
the future, `claims` is `attempt_count`, not told apart above `MaxAttempts`).
`Select`, `CommitClaim` and `ClaimFails` are `claimOutbox`, whose locks last from
the SELECT to the COMMIT; `batch[p]` keeps the count *before* the claim, as the
publisher does. `Resolve`, `Delivered`, `DeliveryFails`, `MarkPublished` and
`MarkFailed` follow `publishBatch`, one await each, with a `...Fails` variant
that may or may not have taken effect. Events are numbered by `occurred_at`.

**PlatformStore, PlatformApi.** A store is a record: `items` (tenants, projects,
environments, members and keys, numbered in the order of creation, each with its
version and a `stamp` that is new with every change), the known `policies`, the
hash of a key's `secret` and the one in `grace`, and the idempotency `cache`.
`WithTenant`, `WithProject`, ..., `Revoked` are the methods, `May...` their
conditions, `Accepts` is `resolveApiKeyCredential`, `Snapshot` and `Restorable`
are `snapshot()` and the checks of `restore()`. Secrets are numbers, never
repeated. In `PlatformApi` a route is cut at its awaits: *auditing* after `Stage`
has changed `mem[r]`, *saving* when `AuditCommits` has put a copy into `queue[r]`,
idle again with the answer. `Written` is the head of the queue; `SaveSucceeds`,
`SaveFails` and `SaveUncertain` are the outcomes of the conditional UPDATE. The
row's version only grows and is only compared, so `synced[r]`, whether the
replica's version is the row's, stands for it. `answered` is a history variable.

**TokenQuota.** `requests[a]` is the key of the requests of a minute, `a` minutes ago,
and `concurrent` that of the requests under way (`count`, and `ttl` in ticks);
`RunReserve` and `RunRelease` are the scripts. `ReadClock` is what `reserve()` does
before it calls Redis (`redis-token-quota.ts:38-40`): while the handler is *asking*,
the minute may change, and its `ago` says which key the script will name. `phase` is
the part of the minute that has passed. `admitted[a]` counts who was admitted on a
key, and `lapsed` has the minutes whose key has expired. The other values of a
handler's `pc` are where the route waits: *issuing* holds a reservation, *releasing* awaits the release of a
request that succeeded, *failing* that of the `finally` clause, *saving* the
snapshot. `mine` says that the key that counted the reservation is still there;
`undercut` that a reservation the present key did not count was taken off it.
`ReleaseRejects` ends the replica: nobody catches what `finally` throws.

**RtcAdmission.** `states` is the controller's Map; `Probe` is `/readyz` for all
nodes, `UpdateUsage` and `Drain` the controller's methods, `decision` what
the last token request came to. Of the five figures of a node, `rooms` is the one
probes report and `load` stands for the other four.

**Coordination.** `keyToken` and `keyTtl` are the lease's key, `validFor` what is left
of a lease's own `expiresAt`; an acquire is requested, run and answered in three
steps, any of which may be the last. `counter` is the Redis rate limit and
`windowCount` the in-process one, each with its age.

**DataRights.** `rows` are the stored requests, `call[a]` what a caller or processor
awaits: a statement, its audit, or the executor. `inPostgres` chooses the service
once. `executed`, `tried`, `auditedOps`, `answered` and `claims` are history
variables that the properties speak about.

**Billing.** The ledger's maps and arrays as sets and a sequence; an account is a
tenant and a month. Quantities count halves so that `round` has something to do.
A line says which id and dedupe key it was made from. `usage` is a history of what
was recorded, `excused` of the keys whose usage came after its invoice or was replaced
under its id before: the property lets an invoice have them or not.

**Gateway.** A route is a record of what `server.ts` does for it (who may call, is a
permission asked for, is the resource loaded first, is a body read, what changes,
is it audited), and `stage[r]` the await a request is at. `Revoke` and `OthersWrite`
are whatever other requests do meanwhile. `acted` has the requests whose call of the
service was carried out, `overtaken` those of them whose destination somebody else
has written since; `AsAsked(r)` says that the row is as `r` asked: active, inactive,
or, for a DELETE, not an active one of its environment.

`PROJECT.json` maps every definition that models code to its lines.
Definitions whose comment starts with "Mutation" are the same operation with a
plausible bug; no specification uses them. Replacing the operation by its
mutation makes the property named beside it fail.

## 3. Runs

Each configuration is run with `tlc -config X.cfg MCModule`.

| Run (cfg) | Instance | Shows |
|---|---|---|
| `agent_control` | 2 workers, 2 environments, 2 rules, 2 dispatches, clock to 2; 0.5 M states | environments stay apart, queued and cancelled work has no owner, the rule limit holds, dispatches move forward only, a claim serves the earliest deadline |
| `agent_fleet` | 2 Node or 2 Python workers, 1 dispatch, lossy calls, shutdown, a crash, a restart of the control plane; 0.7 M states | one holder per dispatch in either runtime, lists hold running work only, completed means done, what a runner holds is saved, saved ends are final |
| `agent_runtime` | 2 Node workers with 2 dispatches and reliable calls; tools in 2 processes; 2 providers with 2 callers; 3 joins, each part on its own; 0.1 M states | a queued dispatch does not stay queued; a tool runs once where a process can know; giving up means everybody was asked; open circuits close; open rooms have an owner |
| `media_ops` | 2 recordings or 1 call, 2 keys, limit 1, 2 handlers, failures, a restart; 1.0 M states, 2 minutes | ids before activity, the limit, one task per key while the process lives, no job left requested, answers are durable but for operations repeated before a save, jobs move forward |
| `retention` | 2 recordings, failures, a restart, fairness; 0.16 M states | marked means deleted, answered ends survive, no double deletion unless an answer or a mark was lost, expired objects do get deleted |
| `platform_records` | 2 replicas, an event with two destinations and one with none, 2 attempts, failures, a crash, a replay; 2 routes and 2 processors on 2 requests of data subjects, each part on its own; 0.3 M states | the publishers implement `Outbox`, dead letters were tried, every event settles; data rights are exact and implement their life cycle |
| `platform_api` | 2 replicas with 2 handlers, 2 idempotency keys, three changes of one key or two of one kind, failed and uncertain saves, a restart; 0.3 M states | what was answered is durable, one content per version, one answer per idempotency key, lapsed secrets are refused |
| `platform_services` | 2 replicas with a handler each, 2 tokens a minute and 1 at a time; 3 nodes; 2 leases; 2 usage records of 2 accounts; 1 request with free interference, each part on its own; 0.34 M states | token limits hold and leaked slots come back; tokens go to open nodes; leases and windows hold; no usage is billed twice or missing that came in time; answers are true |

The remaining four check one statement of the documents or the code each and end
in a counterexample (section 4).

**Why these bounds are enough.** Every property relates at most two actors that
compete for one item, so two workers, handlers or replicas produce each
conflict; a second item (dispatch, job, event) is there where order or a limit
is concerned, and with a limit of one, two items reach it. Two attempts
distinguish "retry" from "give up". One restart is enough to lose what was not
saved; one crash to strand what a process held. `agent_fleet` has one
dispatch, because with two the lossy instance is too large; what two dispatches
add (order, limits) is checked by `agent_control`, and by `agent_runtime` on a
reliable network. The bounds are the constants
`Horizon`, `MaxDeployments`, `MaxRules`, `MaxDispatches`, `MaxCrashes`, `MaxRestarts`,
`MaxJobs`, `MaxQueue`, `MaxDeletions`, `MaxEvents`, `MaxReplays`, `MaxNumber`,
`MaxToolRuns`, `MaxJoins`, `MaxDataRequests`, `MaxRevoked`, `MaxLate`; each
occurs in a guard, except that the counts of claims and deletions stop at their bound.

`agent_runtime`, `platform_records` and `platform_services` hold several modules that
share no variable: a behaviour of all of them together is one of each, so checking each
*subject* while the others rest checks the same as their product. A third join
lets one overwrite a session and another leave it; three nodes, two of them best,
make turns and fallback differ; three environments, two of one tenant, tell a
tenant from an environment; with two usage records and two dedupe keys, one can
be replaced and the other sent twice.

`media_ops` also has the constraint `OneKind`, under which a job lost in a restart
still counts by its task: jobs of different kinds share nothing but the queue of writes, which two recordings fill as well. The
operations on the call, two at a time, have one key: operations with two keys differ
in their results only, and a transfer and a hang-up are two operations already.
Symmetry is used for interchangeable processes and keys, only in runs without
liveness.

`platform_api` has the constraint `Focus`: a behaviour is about one API key (with
the clock moving between its rotation and its use) or about two resources of
one kind under one idempotency key, with two requests under way at a time, which
is what the properties relate; any route may be either request. In `TokenQuota`
refused requests are no longer counted above the limit, where the count makes no
difference. A minute has two ticks, so that a counter's expiry falls within a later
minute, and the expiry of reservations is three, in the order of the code's 60
and 300 seconds. A script may run in the minute after its key's (`MaxLate` = 1), on
a counter that is still there or has expired; one that would run later still
counts as lost: it would count on an older key of its own and otherwise do the same.
Two requests a minute and one slot: two replicas meet at both limits, and requests of
two minutes compete for the slot.

Deadlock is checked except where a system may stop: a fleet whose workers have
all gone or have nothing to do, an outbox with every event published, a platform
whose bounded number of changes has been made, and the parts of `agent_runtime` and
`platform_services` that come to their end.

**Fairness.** `MCAgentRuntime`: a runner keeps taking its steps and gets its calls
answered, a handler settles, and time passes for circuit breakers, weakly each.
No fairness is assumed for administrators, for the sending of heartbeats, for the
deadline clock, or for any failure. `MediaRetention`: the worker polls for ever
(`setTimeout` loop), its database call gets an answer, which may be an
error, and the storage, asked for an unpoisoned object again and again, deletes
it at some time (strong fairness, because each failure ends the attempt). No
fairness for callbacks. `OutboxDelivery` in `MCPlatformRecords`: *some* publisher goes on while one
can, *some* backoff ends, and of the claims, and of the outcome marks, not all
are refused for ever. That is weaker than fairness of each replica: a replica may
stop for good, as long as one goes on. `TokenQuota` in `MCPlatformServices`: time
passes, and nothing else; its replicas may stop at any point.

## 4. Where documents and code disagree

| Run | Statement | What happens |
|---|---|---|
| `python_shutdown` | `docs/architecture/05-technical-architecture.md:330`: a worker that shuts down takes no new job | `main()` cancels the loop's task once (`worker.py:236`) and sets no flag until that has ended; `run_once` takes the cancellation for the handler's (`:144`), reports the job as cancelled, and the loop claims the next one |
| `media_task_truth` | `docs/architecture/01-platform-boundaries.md:59`: the upstream task is the truth | a callback "starting" that overtakes the create answer makes the activation throw, and the catch fails a job whose task runs |
| `retention_stale` | `docs/acceptance/01-acceptance-tasks-and-plan.md:147`: a stale snapshot conflicts and does not overwrite | a copy taken before the worker's write is sent with the version learned after it, and undoes a deletion mark |
| `platform_restore` | same file `:143-144`: after a restart the snapshot can be restored | `updateEnvironment` takes any `quotaPolicyId`; `restore()` refuses a snapshot whose environment names an unknown policy, so no replica starts again |

Seen while reading, without a run of their own:

* *Agent control.* An empty heartbeat that was sent before a claim and is delivered
  after it removes the claim; complete and fail are then refused and the dispatch
  stays running (`docs/architecture/05-technical-architecture.md:219-220` says that
  the runner writes its outcome back). `cancelDispatch` changes Maps only: the
  worker is never told and its handler runs to its deadline or its end
  (`docs/acceptance/REAL_RUNTIME_TEST_PLAN.md:181` says that the handler's
  AbortSignal is reached). A heartbeat may list a running dispatch of another
  worker of the same environment (`controller.ts:239`). A dispatch whose worker
  has died stays running and keeps counting against its rule's limit. Shutdown
  does not abort a running job (`agent-worker-node/src/main.ts`).
* *Python worker.* A connection that is closed without an answer raises an error
  that `run_loop` does not catch: the loop ends without a word while the heartbeats
  go on. The default worker id is made of the process id, so two containers may
  have the same one.
* *Tools, rooms.* A result that the store fails to keep is lost with the process, and
  another process runs the tool again. Two joins of one dispatch at once leave the
  first room connected and unknown to `leave()`; in Python so does a join that is
  cancelled while it connects.
* *Media.* A job is saved after the provider's answer, so a crash or a lost save
  in between forgets the idempotency key, and the repeated request makes a
  second upstream call (against `docs/acceptance/01-acceptance-tasks-and-plan.md:148`).
  A transfer or hang-up whose save failed is answered with an error, but its result
  stays in memory, and the repeated request is answered 200 from there without a
  save (`media-ops/src/server.ts:135-139`); a restart then loses what was told. The
  same line says that a request is not answered with success when its snapshot could
  not be written. `AnsweredIsDurable` excepts exactly these answers (`early`).
* *Outbox.* `SKIP LOCKED` ends with the COMMIT of the claim, before the first
  delivery, and the row stays due, so two replicas may deliver one event (against
  the same file `:136`). A replayed dead letter keeps its `attempt_count` and so
  gets one more claim only. A failure mark decided from an old count revives a
  dead letter without a replay (allowed by `Outbox`, whose `Revive` is not tied
  to replays).
* *Webhook destinations.* The destination id alone is the key of the table
  (`webhook-destinations.ts:99`), so a PUT with the key of one environment and an id
  that another environment has taken changes that row's settings, leaves it to its
  environment, and is answered and audited as success; the same file `:103-104` says
  that access across tenants and environments is refused. A DELETE of a destination
  that does not exist, or is another environment's, changes no row and is answered
  and audited like one that does (`server.ts:1489-1494`). `AnswersAreTrue` holds
  with both: what it says of a row does not say whose the row is.
* *Platform store.* A replica whose version is old never reloads: every change on
  it fails until it is restarted. A copy carries other requests' changes before
  their audits commit, and audits are transactions of their own. A rotation whose
  save failed takes effect in memory all the same. A key that another replica
  revoked is known there until that replica restarts. `updateMember` can make two
  active members with one subject. `composite-resource-usage.ts:38` looks for a second owner of
  a source's fields only if its first field is taken (the comment at `:29` says that
  nothing is overwritten silently).
* *Tokens.* The concurrency counter expires five minutes after it became 1,
  whatever it counts then; reservations that are released later are taken off
  the next counter. Under saturation the real concurrency can therefore pass the
  limit (`ConcurrentLimit` says until when it cannot). A reservation whose script
  runs after its minute has ended counts on that minute's key, and if this has
  expired meanwhile, on a new one of the same name: in a minute by the clock more
  than `maxTokenRequestsPerMinute` can be admitted. `MinuteLimit` therefore counts
  requests by the minute whose clock they read, until its key expires. With a client's own
  `x-request-id`, two tokens may share one usage record.
* *Capacity.* `/readyz` calls `capacityController.observe` only when *all* nodes
  are healthy (`server.ts:468-479`), so admission never sees an unhealthy node as
  such. Until the first probe a decision fails with "unknown RTC node". Nothing is
  reserved between probes: every request sees the figures of the last one.
* *Data rights.* A request whose process ends while its executor runs stays in
  processing for ever (`index.ts:105`). A transition whose reply was lost is
  answered 409 when it is repeated. In memory, a repeated submission returns the
  record as it was received, whatever has become of it.
* *Billing.* A void invoice is still its period's invoice, which can have no other.
  Usage that comes after the invoice is never billed, not even while that is a draft
  (`ledger.ts:65-66`), and usage with a new dedupe key replaces what its id stored
  before (`:56`). `docs/design/02-technical-design.md:438-439` says that raw usage
  records are immutable and that late events are recomputed until the settlement,
  and `docs/acceptance/01-acceptance-tasks-and-plan.md:280` asks for late events and
  corrections. `BilledOnce` demands neither: whether such usage has a line is left
  open, but never two. `addPlan` with an
  `effectiveFrom` that is taken replaces the prices from there. A dedupe key of an
  adjustment that was used for another invoice returns that one's adjustment.
* *Telemetry.* A sample is kept in memory before it is appended, and stays there
  when the append fails.

## 5. Proofs

`tlapm M.tla`, for each of the eight proof modules, checks every obligation, for
all values of the constants that satisfy the assumptions named in the modules
(bounds are numbers; `None` is not an environment; subscriptions are sets of
destinations; at least one attempt and a batch of at least one; replicas and
handlers are finite sets; policies and expiries are positive; the bound on the
numbers of changes leaves room for the four of the seed). Every invariant that a
passing run checks, and every action property, is a theorem. A strengthened
invariant was model-checked on the run's instance before it was proved.

*AgentControl.* `TypeCorrect` is inductive as it stands. Ownership
is not: that a heartbeat keeps environments apart depends on
dispatches never changing environment, and that a claim hands out unowned work
depends on queued work being unowned before. `OwnershipInv` = `TypeOK` and
"whatever a worker lists is of its environment and neither queued nor
cancelled"; `OwnershipInvariant` proves it, one step per action, and
`EnvironmentsApart`, `QueueUnowned` and `CancelledUnowned` follow, and with them
`OwnershipHolds`. `LifecycleRespected` proves the action property from the types.
`RuleCapInvariant` proves the limit: the only step that adds a triggered dispatch
counts *all* active ones of its deployment first, and every other step can only
shrink that set; rules and a deployment's environment and artifact never change.
`ClaimsTakeTheEarliest` needs the types alone: what a claim leaves queued is neither
swept nor first.

*AgentFleet.* Memory may be lost at any moment, so `FleetInv` states each fact of memory
and snapshot together. `MemoryAhead`: the snapshot is an earlier state of the memory,
so a dispatch in it has not been set back. `OneClaim`: of all that can say "this
dispatch is worker w's" (a runner, a heartbeat on its way, a list in memory, a list
in the snapshot), no two say it of different workers. `HeldIsKnown`: what a runner holds is in the snapshot
and no longer queued there, because no claim is answered before its save.
`ListedRuns` and its counterpart for the snapshot bound what a heartbeat, which
arrives with an old list, may put back. `CompletedIsDone` follows a success from the
handler to memory and snapshot. The actions of a fleet are steps of the control plane
with a save or without (`FleetStepIsMemoryStep`), so that what `AgentControlProofs`
has shown of those carries over; one lemma (`Effect`) bounds what any of them
does to the lists. `ListsHold`, `WorkIsExclusive`, `HeldStaysDurable`,
`CompletionsAreTrue` and the action property `DurableEndsStay` follow.

*PythonWorker.* `PyInv` has the same parts without a snapshot. Claims are of worker ids,
and besides no two processes have one dispatch, because what either holds was
queued when it was claimed; of the requests in `pyLate`, one that reports a completion
is of work that was done. `PyExclusive` and `PyListsAndEnds` follow.

*ToolPolicy.* `ToolInv` says what a process knows of a key at each await of its run
(`Remembers`: a run that looks for a result has none remembered, a later one has
in hand what `completed` has, and only that is returned), and of the key as a
whole (`OneRun`: unless its result got lost or runs overlapped, one run at most
is past the point of no return, and a result that exists is in the store or on
its way). `ToolsRunOnce` follows.

*ProviderRegistry.* `InvocationOK` says of one invocation: it has asked in increasing
order, it awaits the least of `rest`, and each provider outside `rest` was asked or
seen open. Other invocations change only the breakers and what is seen open, which
grows. At the end `rest` is empty: `FailoverExhausts`.

*RoomConnector.* `RoomInv`: the stored session is open or was lost unseen; two joins
that are under way at a time are noted as overlapping, and only such a one is
overwritten; every other open room is overwritten or left by a cancelled task.
`RoomsAreAccounted` follows.

*MediaOps.* Everything the run checks is proved for any number of handlers, keys and
jobs. A saved snapshot is a copy that was taken earlier, so the invariant speaks
of *good states* (`Snapshots`: well formed, within the limits, with the ids that
their statuses need) and of one list of jobs having *grown* from another (jobs were
added and moved forward). `MediaInv`: the process, the snapshot and every queued
copy are good; the copies grow along the queue and the process has grown from the
last; each handler has one copy at most, and that covers its answer; while the
process knows the version, the snapshot is where all of them began. `ResultsOK` says the
same of the results of operations, and that a result that was told is in the
snapshot or was told from memory (`early`); `HangupsEnded`, that the job of a hang-up
that is somewhere in the results is completed there. Hence
`AnswersSurvive`: a write that takes effect replaces the snapshot by something
that has grown from it. `TasksOK` adds that no two keys have one job and no two
requests await one, so the provider is called once per key (`OneTaskPerKey`).
`LimitNeverExceeded` needs a cardinality argument for the one step that adds a job,
and that no later status counts again; `JobsOnlyMoveForward` is the growth of each
step; `JobsHold` adds that whoever leaves *creating* leaves no job requested.

*MediaRetention.* Two sides write one row, each from copies of its own time.
`Landed`: a write that has taken effect and is not answered yet is the row, and nobody
else's write can take effect before it is answered. `HandlersGrow` and `Ends`: the
handlers' copies know ever more ends, and every write that can still take effect has
the answered ones; the worker's is taken when the row's version is known or is
refused. `Marks` says that each mark anywhere is of a deletion, `Deletions` that what
is left of the batch was not deleted, unless an answer or a mark was lost.
`MarksAreOfDeletions`, `AnsweredEndsStay` and `NoSecondDeletion` follow.

*Outbox.* The abstract specification says "published only when every destination
has received it", but when a publisher marks an event it looks at nothing but
its own program counter. `DeliveryInv` bridges that: `RowsOK` (only stored rows
have an outcome; a dead one has all its claims), `CopiesOK` (the count in a
publisher's copy is behind the row's, by at least one once the claim is
committed), `ProgressOK` (what a publisher's first event no longer has to be
sent has been received). With it `DeliveryInvariant` is inductive,
`DeadLettersWereTried` follows although decisions use stale counts, and
`OutboxRefinement` (`Spec => Promise!Spec`) takes one lemma per action: it maps to
an abstract step or to a stutter. `PublishedWasDelivered` carries the abstract
theorem over. `Least` is shown to be a least element with the library's
well-foundedness theorem for the naturals.

*PlatformApi.* That an answered change stays in the row is not inductive: the row
is replaced as a whole by a copy that was taken some time before. A store *covers*
an answer when it has the version reported or a later one, when it has the cache key,
and, for an API key, when it has no secret older than the answer's but one whose
grace ends in time, and none after a revocation; a store has *grown* from another
when it covers whatever the other does. `DurInv`: a replica's store covers what its
handlers are about to answer, the copy a handler waits for does so too, copies grow
along the queue and the store has grown beyond each of them (`ReplicaOK`); while the
replica has the row's version, all of them have grown from the row (`LinkOK`); the row
covers every answer. A replica that loses the row's version loses `LinkOK`, and
the version check keeps it from writing; a cached answer is covered because the
cache travels with the store. There is one lemma per store method (it grows the
store and covers what it tells), one per way of touching a queue and one per outcome
of a save. `Durable` and `LapsedSecrets` follow.

Answers do not agree because the row covers them, but because no replica ever makes a
version, or the change of a cache key, that one it knows of has made. `AgreeInv`: the
answers that a replica has under way or cached, in its store or its copies, agree;
while it has the row's version they agree with everything published, and what is
published agrees. A route adds an answer that no covered one contradicts
(`Fresh`); a save publishes answers of one replica that has the row's version and
leaves no other with it. `VersionsAgree` and `KeysAnswerOnce` follow, the latter with
`TypeInv`: a handler waits exactly while its copy is queued, and by the pigeonhole
principle a queue is no longer than the handlers are many.

*TokenQuota.* `QuotaInv` strengthens the types with two relations between the
counters and what they count. `RequestsOK`: until a minute's counter expires, it covers
what was admitted on it, and while the minute runs the counter's remaining time
reaches the minute's end, so it cannot expire inside it. A tick that begins a minute
moves every counter, its history and every waiting call by one, so a late script finds
the counter of its own minute or none. `SlotsOK`: unless a foreign release undercut it, the
concurrency counter is at least the number of reservations that are its own; a
lost reply only widens the gap, a release that is tried once closes it by one on
both sides, a crash shrinks one side. `MinuteLimitHolds` and
`ConcurrentLimitHolds` follow.

*Coordination.* Exclusion of leases is not inductive, because a lease is granted
before its holder knows. `Covered` extends it to granted ones: the key has the
lease's token and outlives it. `LeasesAndWindowsHold` follows, with the counts of
both windows.

*DataRights.* `RightsInv` ties each caller's and processor's await to the row it is
about: requests are numbered without gaps, a key has one row, a processor that
runs an executor is the one that began the processing, whoever claims to have
ended a request did, and what awaits its audit was done. `RightsStayExact` is that
invariant; `LifecycleImplemented` maps each step of either service to a step of
`DataRightsLifecycle` or to a stutter, among them the statements whose reply is lost.

*Gateway.* `RequestOK` says for each await of a request what has been established by
then (the caller identified, entitled, the effect made, the audit written), which
later awaits keep, because what a request acts with was read before. Revocations that
came in between are in `revokedBefore` only if they came before the request.
`RowAsAsked`: of those who wrote the destination only the last is not overtaken, and
the row is as that one asked.
`GatewayAnswersAreTrue` follows.

*RtcAdmission.* `AdmissionInv`: what the controller knows of a node is what was reported
and ordered last, and it has heard of all nodes or of none; the cursor is below the
number of best nodes, and a best node is ahead of another by the pick it had since the
cursor began its round. `TokensAreForOpenNodes` follows; that the ranks of the best nodes
are 0 up to their number is shown with cardinalities.

*Billing.* `BillingInv`: a key recorded one usage, and an id stores one (`UsageKept`);
until an account has its invoice, what it used is stored, unless it was replaced
(`StillStored`); it has one invoice at most (`InvoicesMade`), whose lines are of its
usage and one for each (`LinesTrue`), of all that is not excused (`AllBilled`);
keys of adjustments are not used twice, and a
correction is the difference between the total asked for and the invoice's
(`Corrections`). `UsageIsBilledOnce` follows.

Only model-checked: liveness under fairness (`QueuedIsServed`, `ExpiredIsDeleted`,
`EverySettles`, `OpenCircuitCloses`, `SlotsComeBack`), which is out of the prover's reach,
and the four disagreements of section 4, which TLC refutes.

## 6. What is not modelled

Payloads, names, traces, time stamps beyond order and expiry, validation of
fields, verification of credentials, feature switches (constant in a process), and
metrics. Real time is a clock with a bound or a flag that may change at any moment.
LiveKit, object storage, PostgreSQL and webhook destinations appear as the outcomes
the code can see. In `AgentFleet` rules and rollbacks are left to
`AgentControl`, and a snapshot holds only what changes there. In `OutboxDelivery`
subscriptions do not change during a delivery. `PlatformStore` leaves out usage,
audit and outbox records in memory, the in-memory token window, `lastUsedAt`,
expiry dates and scopes; `TokenQuota` the in-memory quota and clock skew
between replicas; `RtcAdmission` regions and residency tags, which the token route
does not pass; `Billing` the SQL ledger's writes, which nothing calls;
`Gateway` what the services behind its routes do, except for webhook destinations.

Without a model of their own: LiveKit tokens, rooms and media clients (each call
is a translation into an SDK call), RTC telemetry and metrics (sums without a
protocol; the route is in `Gateway`), the license service and the identity
adapters (checks of one document at a time, without state), the contracts (types and
field checks), process wiring, console, tools and charts. `PROJECT.json` lists each
component with its status and each hazard with the properties that cover it,
or why none does.

## 7. What could follow

The parts with state and concurrency all have a model. What would add most, in this
order:

1. An abstract specification of the snapshot row (a versioned register that its
   writers update by copies) that `MediaOps`, `MediaRetention` and `PlatformApi` all
   implement, so that the argument about queues of copies, made three times in the
   proofs, is made once.
2. Regions and residency tags in `RtcAdmission` and the SQL ledger in `Billing` once a
   route uses them.
