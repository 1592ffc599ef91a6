------------------------------ MODULE Gateway ------------------------------
(***************************************************************************)
(* How services/platform-api (server.ts) takes a request from its arrival  *)
(* to its answer: the rate limit, the credential, the permission, the      *)
(* body, the effect, the audit entry and the snapshot, each behind an      *)
(* await during which other requests run, keys are revoked or the process  *)
(* ends.  What other requests may change meanwhile is left free.  The      *)
(* routes are those that the other modules do not have; of the effects,    *)
(* the rows of webhook destinations are modelled.                          *)
(*                                                                         *)
(* A route is a record: who may call it, whether a permission is asked for *)
(* and over what, whether the resource is awaited before that is known,    *)
(* whether a body is read, what it changes, and whether that is audited    *)
(* and the snapshot saved.                                                 *)
(***************************************************************************)
EXTENDS Naturals, FiniteSets

CONSTANTS
    Requests,
    GatewayEnvs,
    OneTenant,       \* environments of one tenant; the others have one each
    MaxRevoked       \* bound on the keys that are revoked

ASSUME GatewayAssumption == OneTenant \subseteq GatewayEnvs /\ MaxRevoked \in Nat

VARIABLES
    stage,           \* where each request is
    ask,             \* what each request is: its route, caller and environment
    revoked,         \* API keys that were revoked
    destination,     \* the row of one destination id, the empty set if there is none
    acted,           \* history: requests whose effect was carried out
    overtaken,       \* history: those of them after which somebody else wrote the row
    inAuditLog,      \* history: requests with a durable audit entry
    revokedBefore    \* history: the keys that were revoked when a request arrived

gatewayVars == <<stage, ask, revoked, destination, acted, overtaken, inAuditLog, revokedBefore>>

-----------------------------------------------------------------------------
(* The routes. *)

Reading(who, permission, over, load) ==
    [who |-> who, permission |-> permission, over |-> over, load |-> load, body |-> FALSE,
     effect |-> "none", audited |-> FALSE]

Writing(permission, body, effect, audited) ==
    [who |-> {"key"}, permission |-> permission, over |-> "environment", load |-> FALSE,
     body |-> body, effect |-> effect, audited |-> audited]

Anyone == {"key", "admin"}

\* GET of a tenant, a project or an environment.
ScopeReads == {Reading(Anyone, FALSE, "tenant", FALSE)}

\* GET of invoices and adjustments; the invoice says which tenant's they are.
BillingReads == {Reading(Anyone, TRUE, "tenant", load) : load \in BOOLEAN}

\* GET of a key or of an environment's keys, GET of the members of a tenant.
KeyAndMemberReads ==
    {Reading(who, TRUE, "environment", FALSE) : who \in {{"key"}, Anyone}}
        \cup {Reading({"admin"}, FALSE, "tenant", FALSE)}

\* POST of a sample, which is kept in memory before it is appended, and the summary.
TelemetryRoutes == {Writing(TRUE, TRUE, "telemetry", FALSE), Reading({"key"}, TRUE, "environment", FALSE)}

MediaReads == {Reading({"key"}, TRUE, "environment", FALSE)}
CallCommands == {Writing(TRUE, TRUE, "media", FALSE)}
MediaCreates == {Writing(TRUE, TRUE, "media", FALSE)}

\* Rooms and participants are those of a node; only changes ask for a body.
RoomRoutes ==
    {Reading({"key"}, TRUE, "environment", FALSE)}
        \cup {Writing(TRUE, body, "rooms", FALSE) : body \in BOOLEAN}

WebhookRoutes ==
    {Reading({"key"}, TRUE, "environment", FALSE)}
        \cup {Writing(TRUE, TRUE, effect, TRUE) : effect \in {"activate", "deactivate"}}
        \cup {Writing(TRUE, FALSE, "disable", TRUE)}

\* Quotas, usage, audit log and endpoints ask for no permission.
EnvironmentReads == {Reading({"key"}, FALSE, "environment", FALSE)}

Routes ==
    ScopeReads \cup BillingReads \cup KeyAndMemberReads \cup TelemetryRoutes \cup MediaReads
        \cup CallCommands \cup MediaCreates \cup RoomRoutes \cup WebhookRoutes \cup EnvironmentReads

-----------------------------------------------------------------------------
(* Callers.  A key is an environment's and has the permission or not. *)

Keys == [env : GatewayEnvs, may : BOOLEAN]
Callers == {[kind |-> "nobody"], [kind |-> "admin"]} \cup {[kind |-> "key", key |-> k] : k \in Keys}

\* The key's tenant, or its environment.
Near(key, over, env) == key.env = env \/ (over = "tenant" /\ {key.env, env} \subseteq OneTenant)

Ask == [route : Routes, caller : Callers, env : GatewayEnvs]

Stages == {"none", "arrived", "loading", "reading", "acting", "auditing", "saving",
           "refused", "failed", "answered"}
Open == {"arrived", "loading", "reading", "acting", "auditing", "saving"}

GatewayTypeOK ==
    /\ stage \in [Requests -> Stages]
    /\ \A r \in Requests : stage[r] # "none" => ask[r] \in Ask
    /\ revoked \subseteq Keys
    /\ destination \subseteq [env : GatewayEnvs, active : BOOLEAN]
    /\ Cardinality(destination) <= 1
    /\ acted \subseteq Requests /\ overtaken \subseteq Requests /\ inAuditLog \subseteq Requests
    /\ revokedBefore \in [Requests -> SUBSET Keys]

GatewayInit ==
    /\ stage = [r \in Requests |-> "none"]
    /\ ask = [r \in Requests |-> <<>>]
    /\ revoked = {}
    /\ destination = {}
    /\ acted = {} /\ overtaken = {} /\ inAuditLog = {}
    /\ revokedBefore = [r \in Requests |-> {}]

Is(r, s) == stage[r] = s
Moves(r, s) == stage' = [stage EXCEPT ![r] = s]
Unmoved == UNCHANGED <<ask, revoked, revokedBefore>>
NoEffect == UNCHANGED <<destination, acted, overtaken>>

\* resolveRequestCredential and the comparison with the admin's: an API key
\* that was revoked is nobody's.
Known(r) ==
    LET caller == ask[r].caller
    IN  /\ caller.kind \in ask[r].route.who
        /\ caller.kind = "key" => caller.key \notin revoked

\* credentialHasPermission, and the comparison of the scopes.
Permits(r) ==
    LET caller == ask[r].caller
    IN  caller.kind = "key" =>
        /\ ask[r].route.permission => caller.key.may
        /\ Near(caller.key, ask[r].route.over, ask[r].env)

-----------------------------------------------------------------------------
(* From arrival to effect. *)

Arrive(r, a) ==
    /\ Is(r, "none")
    /\ Moves(r, "arrived")
    /\ ask' = [ask EXCEPT ![r] = a]
    /\ revokedBefore' = [revokedBefore EXCEPT ![r] = revoked]
    /\ UNCHANGED <<revoked, inAuditLog>> /\ NoEffect

\* Over the limit, 429; an error of the limiter is answered 500.
Limited(r) ==
    /\ Is(r, "arrived")
    /\ Moves(r, "refused") \/ Moves(r, "failed")
    /\ Unmoved /\ NoEffect /\ UNCHANGED inAuditLog

\* What follows when the permission is known: 403, or on.
Checked(r) ==
    IF Permits(r) THEN Moves(r, IF ask[r].route.body THEN "reading" ELSE "acting")
    ELSE Moves(r, "refused")

\* The limiter lets the request through.
Resolve(r) ==
    /\ Is(r, "arrived")
    /\ IF ~Known(r) THEN Moves(r, "refused")
       ELSE IF ask[r].route.load THEN Moves(r, "loading")
       ELSE Checked(r)
    /\ Unmoved /\ NoEffect /\ UNCHANGED inAuditLog

\* The resource is found, or not: 404.
Load(r) ==
    /\ Is(r, "loading")
    /\ Checked(r) \/ Moves(r, "refused")
    /\ Unmoved /\ NoEffect /\ UNCHANGED inAuditLog

\* readJsonBody and the checks on the body: 400 or 413, or on.  A body that
\* does not come ends with the connection.
ReadBody(r) ==
    /\ Is(r, "reading")
    /\ Moves(r, "acting") \/ Moves(r, "refused") \/ Moves(r, "failed")
    /\ Unmoved /\ NoEffect /\ UNCHANGED inAuditLog

-----------------------------------------------------------------------------
(* The effect. *)

\* INSERT .. ON CONFLICT (destination_id): the row keeps its environment.
Upserted(env, active) ==
    destination' = IF destination = {} THEN {[env |-> env, active |-> active]}
                   ELSE {[d EXCEPT !.active = active] : d \in destination}

\* UPDATE .. WHERE destination_id .. AND environment_id: nothing if there is none.
Disabled(env) ==
    destination' = {[d EXCEPT !.active = @ /\ d.env # env] : d \in destination}

OnDestination(r) == ask[r].route.effect \in {"activate", "deactivate", "disable"}

Takes(r) ==
    /\ acted' = acted \cup {r}
    /\ overtaken' = IF OnDestination(r) THEN overtaken \cup (acted \ {r}) ELSE overtaken
    /\ CASE ask[r].route.effect = "activate" -> Upserted(ask[r].env, TRUE)
         [] ask[r].route.effect = "deactivate" -> Upserted(ask[r].env, FALSE)
         [] ask[r].route.effect = "disable" -> Disabled(ask[r].env)
         [] OTHER -> UNCHANGED destination

AfterEffect(r) == Moves(r, IF ask[r].route.audited THEN "auditing" ELSE "answered")

\* Mutation: the effect is not awaited.
ActUnawaited(r) ==
    /\ Is(r, "acting")
    /\ Takes(r) \/ NoEffect
    /\ AfterEffect(r)
    /\ Unmoved /\ UNCHANGED inAuditLog

\* The service that is called does it and answers; or the call fails, with or
\* without effect, which is answered with its status or with 500.
Act(r) ==
    /\ Is(r, "acting")
    /\ \/ Takes(r) /\ AfterEffect(r)
       \/ (Takes(r) \/ NoEffect) /\ Moves(r, "failed")
    /\ Unmoved /\ UNCHANGED inAuditLog

\* persistAudit commits, and the snapshot is next; or it fails.
Audit(r) ==
    /\ Is(r, "auditing")
    /\ \/ inAuditLog' = inAuditLog \cup {r} /\ Moves(r, "saving")
       \/ inAuditLog' \in {inAuditLog, inAuditLog \cup {r}} /\ Moves(r, "failed")
    /\ Unmoved /\ NoEffect

\* persistStore.
Save(r) ==
    /\ Is(r, "saving")
    /\ Moves(r, "answered") \/ Moves(r, "failed")
    /\ Unmoved /\ NoEffect /\ UNCHANGED inAuditLog

-----------------------------------------------------------------------------
(* Meanwhile. *)

Revoke(k) ==
    /\ k \notin revoked /\ Cardinality(revoked) < MaxRevoked
    /\ revoked' = revoked \cup {k}
    /\ UNCHANGED <<stage, ask, revokedBefore, inAuditLog>> /\ NoEffect

\* Another request for the same destination, of any environment.
OthersWrite ==
    /\ \E env \in GatewayEnvs : Upserted(env, TRUE) \/ Upserted(env, FALSE) \/ Disabled(env)
    /\ overtaken' = overtaken \cup acted
    /\ Unmoved /\ UNCHANGED <<stage, acted, inAuditLog>>

\* The process ends, with every request it was working on.
GatewayEnds ==
    /\ \E r \in Requests : stage[r] \in Open
    /\ stage' = [r \in Requests |-> IF stage[r] \in Open THEN "failed" ELSE stage[r]]
    /\ Unmoved /\ NoEffect /\ UNCHANGED inAuditLog

GatewayNext ==
    \/ \E r \in Requests :
        \/ \E a \in Ask : Arrive(r, a)
        \/ Limited(r) \/ Resolve(r) \/ Load(r) \/ ReadBody(r)
        \/ Act(r) \/ Audit(r) \/ Save(r)
    \/ \E k \in Keys : Revoke(k)
    \/ OthersWrite
    \/ GatewayEnds

GatewaySpec == GatewayInit /\ [][GatewayNext]_gatewayVars

-----------------------------------------------------------------------------
(* Properties. *)

\* What a request for a destination asks of its row.  The id alone is the key of
\* the table, so a PUT says nothing of whose row it is; a DELETE asks that the
\* environment has no active row, and may find it so.
AsAsked(r) ==
    CASE ask[r].route.effect = "activate" -> \E d \in destination : d.active
      [] ask[r].route.effect = "deactivate" -> \E d \in destination : ~d.active
      [] ask[r].route.effect = "disable" ->
            \A d \in destination : d.env = ask[r].env => ~d.active
      [] OTHER -> TRUE

\* A success that is answered is of a request that was carried out and, where
\* the route audits, is durably audited; the audit log has no request that was
\* not carried out.  From its effect to its answer and beyond, a request's
\* destination is as it asked, unless somebody else wrote the row since.  What was
\* refused changed nothing; and nothing is done for a caller without a hold on
\* the resource, or with a key revoked before the request arrived, but a key
\* that is revoked later is still good for it (server.ts:230-290, 427-443,
\* 1404-1500, 1716-1765, webhook-destinations.ts:94-115).
AnswersAreTrue ==
    /\ GatewayTypeOK
    /\ \A r \in Requests :
        /\ stage[r] = "answered" => r \in acted /\ (ask[r].route.audited => r \in inAuditLog)
        /\ stage[r] = "refused" => r \notin acted
        /\ r \in acted \ overtaken => AsAsked(r)
        /\ r \in acted =>
            /\ ask[r].caller.kind # "nobody"
            /\ ask[r].caller.kind = "key" =>
                /\ ask[r].caller.key \notin revokedBefore[r]
                /\ Near(ask[r].caller.key, ask[r].route.over, ask[r].env)
    /\ inAuditLog \subseteq acted
=============================================================================
