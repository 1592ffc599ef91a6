----------------------------- MODULE DataRights -----------------------------
(***************************************************************************)
(* Requests of data subjects: services/data-rights, in memory (index.ts)   *)
(* or over PostgreSQL (postgres-service.ts), and the routes of             *)
(* services/platform-api that submit, start, complete and reject them.     *)
(* Processors are the deployment's jobs that call process() with an        *)
(* executor; the routes may move the same request meanwhile.               *)
(*                                                                         *)
(* In memory nothing is awaited but the executor.  PostgreSQL runs each    *)
(* statement at once; its reply may be lost, and processes may end.        *)
(***************************************************************************)
EXTENDS Naturals, FiniteSets

CONSTANTS
    RouteCallers,    \* requests of the routes that are worked on at a time
    Processors,      \* calls of process() at a time
    SubmitKeys,      \* tenantId and idempotency key
    Contents,        \* subjectId and kind
    Unset,
    MaxDataRequests  \* bound on the requests that are stored

ASSUME DataRightsAssumption ==
    /\ MaxDataRequests \in Nat
    /\ RouteCallers \cap Processors = {} /\ Unset \notin RouteCallers \cup Processors
    /\ Unset \notin SubmitKeys \cup Contents

VARIABLES
    inPostgres,      \* which of the two services; never changes
    rows,            \* the stored requests, by number
    call,            \* what each caller and processor is doing
    executed,        \* history: executor calls begun, by request
    tried,           \* history: what was done to each request
    auditedOps,      \* history: the audit log, <<request, operation>>
    answered,        \* history: routes' successful answers, likewise
    claims           \* history: who was told to have ended which request

rightsVars == <<inPostgres, rows, call, executed, tried, auditedOps, answered, claims>>

DataRequests == 1 .. MaxDataRequests
Operations == {"submit", "start", "complete", "reject"}
NoRow == [key |-> Unset, content |-> Unset, status |-> "none", endedBy |-> Unset]
AtRest == [pc |-> "idle", op |-> "submit", row |-> 0]

DataRightsTypeOK ==
    /\ inPostgres \in BOOLEAN
    /\ rows \in [DataRequests ->
        [key : SubmitKeys \cup {Unset}, content : Contents \cup {Unset},
         status : {"none", "received", "processing", "completed", "rejected"},
         endedBy : RouteCallers \cup Processors \cup {Unset}]]
    /\ call \in [RouteCallers \cup Processors ->
        [pc : {"idle", "loaded", "auditing", "started", "executing", "completing", "rejecting"},
         op : Operations, row : 0 .. MaxDataRequests]]
    /\ executed \in [DataRequests -> Nat]
    /\ tried \in [DataRequests -> SUBSET Operations]
    /\ auditedOps \subseteq DataRequests \X Operations
    /\ answered \subseteq DataRequests \X Operations
    /\ claims \subseteq (RouteCallers \cup Processors) \X DataRequests

DataRightsInit ==
    /\ inPostgres \in BOOLEAN
    /\ rows = [i \in DataRequests |-> NoRow]
    /\ call = [a \in RouteCallers \cup Processors |-> AtRest]
    /\ executed = [i \in DataRequests |-> 0]
    /\ tried = [i \in DataRequests |-> {}]
    /\ auditedOps = {} /\ answered = {} /\ claims = {}

At(a, pc) == call[a].pc = pc
Goes(a, pc, op, i) == call' = [call EXCEPT ![a] = [pc |-> pc, op |-> op, row |-> i]]
Rests(a) == call' = [call EXCEPT ![a] = AtRest]
Stored == {i \in DataRequests : rows[i].status # "none"}

-----------------------------------------------------------------------------
(* The statements; in memory, the methods. *)

\* The request that a key has; submit with it creates no other.
\* Mutation: the key is compared together with what it is used for.
OfKeyAndContent(k, c) == {i \in Stored : rows[i].key = k /\ rows[i].content = c}
OfKey(k, c) == {i \in Stored : rows[i].key = k}

\* INSERT .. ON CONFLICT (tenant_id, idempotency_key): the row that was
\* created or found is i.  Other content is refused and changes nothing.
Submitted(k, c, i) ==
    IF OfKey(k, c) = {}
    THEN /\ i = Cardinality(Stored) + 1 /\ i \in DataRequests
         /\ rows' = [rows EXCEPT ![i] = [key |-> k, content |-> c, status |-> "received", endedBy |-> Unset]]
         /\ tried' = [tried EXCEPT ![i] = @ \cup {"submit"}]
    ELSE /\ i \in OfKey(k, c) /\ rows[i].content = c
         /\ UNCHANGED <<rows, tried>>

\* The same in the memory of one process.
SubmittedInMemory(k, c, i) == ~inPostgres /\ Submitted(k, c, i)
SubmittedInPostgres(k, c, i) == inPostgres /\ Submitted(k, c, i)

\* Where an operation may find a request.
Permitted(op) ==
    CASE op = "start" -> {"received"}
      [] op = "complete" -> {"processing"}
      [] op = "reject" -> {"received", "processing"}

StatusAfter(op) ==
    CASE op = "start" -> "processing" [] op = "complete" -> "completed" [] op = "reject" -> "rejected"

\* Mutation: the status is what it was when the route read the request.
UpdatedBlindly(a, op, i) ==
    /\ rows' = [rows EXCEPT ![i].status = StatusAfter(op),
                            ![i].endedBy = IF op = "start" THEN Unset ELSE a]
    /\ tried' = [tried EXCEPT ![i] = @ \cup {op}]

\* UPDATE .. WHERE status = ..
Updated(a, op, i) ==
    /\ rows[i].status \in Permitted(op)
    /\ rows' = [rows EXCEPT ![i].status = StatusAfter(op),
                            ![i].endedBy = IF op = "start" THEN Unset ELSE a]
    /\ tried' = [tried EXCEPT ![i] = @ \cup {op}]

\* Nothing is updated, and the caller gets an error.
Refused(op, i) == rows[i].status \notin Permitted(op) /\ UNCHANGED <<rows, tried>>

\* What a caller is told of an update that did not get lost.
Told(a, op, i) == claims' = IF op = "start" THEN claims ELSE claims \cup {<<a, i>>}

-----------------------------------------------------------------------------
(* The routes. *)

\* POST .. /data-rights, its body read.
SubmitRoute(a, k, c) ==
    /\ At(a, "idle")
    /\ \E i \in DataRequests :
        /\ SubmittedInMemory(k, c, i) \/ SubmittedInPostgres(k, c, i)
        /\ \/ Goes(a, "auditing", "submit", i)
           \/ inPostgres /\ UNCHANGED call     \* the reply is lost
    /\ UNCHANGED <<inPostgres, executed, auditedOps, answered, claims>>

\* POST .. /data-rights/<id>:<op>: the request is read, the permission
\* checked, the body awaited.
LoadRoute(a, op, i) ==
    /\ At(a, "idle") /\ i \in Stored
    /\ Goes(a, "loaded", op, i)
    /\ UNCHANGED <<inPostgres, rows, executed, tried, auditedOps, answered, claims>>

\* An error of the transition, whatever its reason, is answered 409.
TransitionRoute(a) ==
    LET op == call[a].op
        i == call[a].row
    IN  /\ At(a, "loaded")
        /\ \/ Updated(a, op, i) /\ Goes(a, "auditing", op, i) /\ Told(a, op, i)
           \/ Refused(op, i) /\ Rests(a) /\ UNCHANGED claims
           \/ /\ inPostgres
              /\ Updated(a, op, i) \/ UNCHANGED <<rows, tried>>
              /\ Rests(a) /\ UNCHANGED claims
        /\ UNCHANGED <<inPostgres, executed, auditedOps, answered>>

\* persistAudit succeeds and the route answers, or it fails, with or without
\* having committed, and the answer is 500.
AuditRoute(a) ==
    LET entry == <<call[a].row, call[a].op>>
    IN  /\ At(a, "auditing")
        /\ \/ auditedOps' = auditedOps \cup {entry} /\ answered' = answered \cup {entry}
           \/ auditedOps' \in {auditedOps, auditedOps \cup {entry}} /\ UNCHANGED answered
        /\ Rests(a)
        /\ UNCHANGED <<inPostgres, rows, executed, tried, claims>>

-----------------------------------------------------------------------------
(* process(). *)

\* In memory the executor is called before anything else happens.
ProcessInMemory(p, i) ==
    /\ ~inPostgres /\ At(p, "idle") /\ i \in Stored
    /\ Updated(p, "start", i)
    /\ executed' = [executed EXCEPT ![i] = @ + 1]
    /\ Goes(p, "executing", "complete", i)
    /\ UNCHANGED <<inPostgres, auditedOps, answered, claims>>

\* The executor succeeds or fails; complete, or reject after either failed.
EndInMemory(p) ==
    LET i == call[p].row
    IN  /\ ~inPostgres /\ At(p, "executing")
        /\ \/ Updated(p, "complete", i) /\ Told(p, "complete", i)
           \/ (Updated(p, "reject", i) \/ Refused("reject", i)) /\ UNCHANGED claims
        /\ Rests(p)
        /\ UNCHANGED <<inPostgres, executed, auditedOps, answered>>

\* start(); the request that got lost, or whose reply did, ends the call.
ProcessStarts(p, i) ==
    /\ inPostgres /\ At(p, "idle") /\ i \in Stored
    /\ Updated(p, "start", i)
    /\ Goes(p, "started", "complete", i) \/ UNCHANGED call
    /\ UNCHANGED <<inPostgres, executed, auditedOps, answered, claims>>

Execute(p) ==
    /\ At(p, "started")
    /\ executed' = [executed EXCEPT ![call[p].row] = @ + 1]
    /\ Goes(p, "executing", "complete", call[p].row)
    /\ UNCHANGED <<inPostgres, rows, tried, auditedOps, answered, claims>>

Executed(p) ==
    /\ inPostgres /\ At(p, "executing")
    /\ Goes(p, "completing", "complete", call[p].row) \/ Goes(p, "rejecting", "reject", call[p].row)
    /\ UNCHANGED <<inPostgres, rows, executed, tried, auditedOps, answered, claims>>

\* complete(); when it fails, with or without effect, reject() follows.
ProcessCompletes(p) ==
    LET i == call[p].row
    IN  /\ At(p, "completing")
        /\ \/ Updated(p, "complete", i) /\ Told(p, "complete", i) /\ Rests(p)
           \/ /\ Updated(p, "complete", i) \/ UNCHANGED <<rows, tried>>
              /\ Goes(p, "rejecting", "reject", i) /\ UNCHANGED claims
        /\ UNCHANGED <<inPostgres, executed, auditedOps, answered>>

\* reject(), whose own error is swallowed; process() throws the first one.
ProcessRejects(p) ==
    /\ At(p, "rejecting")
    /\ Updated(p, "reject", call[p].row) \/ UNCHANGED <<rows, tried>>
    /\ Rests(p)
    /\ UNCHANGED <<inPostgres, executed, auditedOps, answered, claims>>

\* The process of a call ends; the rows stay as they are.
RightsCrash(a) ==
    /\ inPostgres /\ ~At(a, "idle")
    /\ Rests(a)
    /\ UNCHANGED <<inPostgres, rows, executed, tried, auditedOps, answered, claims>>

DataRightsNext ==
    \/ \E a \in RouteCallers :
        \/ \E k \in SubmitKeys, c \in Contents : SubmitRoute(a, k, c)
        \/ \E op \in Operations \ {"submit"}, i \in DataRequests : LoadRoute(a, op, i)
        \/ TransitionRoute(a) \/ AuditRoute(a) \/ RightsCrash(a)
    \/ \E p \in Processors :
        \/ \E i \in DataRequests : ProcessInMemory(p, i) \/ ProcessStarts(p, i)
        \/ EndInMemory(p) \/ Execute(p) \/ Executed(p)
        \/ ProcessCompletes(p) \/ ProcessRejects(p) \/ RightsCrash(p)

DataRightsSpec == DataRightsInit /\ [][DataRightsNext]_rightsVars

-----------------------------------------------------------------------------
(* Properties. *)

Lifecycle == INSTANCE DataRightsLifecycle WITH
    status <- [i \in DataRequests |-> rows[i].status],
    begun <- {i \in DataRequests : executed[i] > 0}

\* Every request keeps the lifecycle, whatever routes and processors do to it
\* at the same time and whatever is lost (index.ts:75-129,
\* postgres-service.ts:80-131).
LifecycleIsKept == Lifecycle!Spec

\* A key has one request and a request one executor call; only who ended a
\* request was told so; whatever is audited was done, and what was answered
\* with success is audited (index.ts:33-121, postgres-service.ts:45-116,
\* server.ts:798-838).
RightsAreExact ==
    /\ DataRightsTypeOK
    /\ \A i, j \in Stored : rows[i].key = rows[j].key => i = j
    /\ \A i \in DataRequests : executed[i] <= 1
    /\ \A a \in RouteCallers \cup Processors, i \in DataRequests :
        <<a, i>> \in claims => rows[i].endedBy = a
    /\ \A i \in DataRequests, op \in Operations : <<i, op>> \in auditedOps => op \in tried[i]
    /\ answered \subseteq auditedOps
=============================================================================
