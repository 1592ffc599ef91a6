---------------------------- MODULE PlatformStore ----------------------------
(***************************************************************************)
(* The control plane's store (services/platform-api/src/platform-store.ts) *)
(* as a value: tenants, projects, environments, members and API keys with  *)
(* their versions, the quota policies, the secrets and the idempotency     *)
(* cache.  Every operation of the class is synchronous, so each is one     *)
(* operator: a condition (what does not throw) and the store after it.     *)
(*                                                                         *)
(* A change carries a number, drawn afresh for each: it is the identity of *)
(* a resource the change creates, the secret it issues and the stamp that  *)
(* tells its content from every other.  Left out: usage, audits and the    *)
(* outbox (the durable ones are OutboxDelivery's), token windows, the      *)
(* lastUsedAt and expiresAt of a key, and names nothing compares.          *)
(***************************************************************************)
EXTENDS Integers, FiniteSets

CONSTANTS
    Keys,            \* idempotency keys
    Names,           \* project slugs, member subjects and request bodies
    PolicyNames,     \* quota policies a request can name
    Grace            \* apiKeyGraceMs, in ticks

\* A policy that an environment brought with it is called after that
\* environment, a positive number.
ASSUME StoreAssumption ==
    /\ PolicyNames \subseteq Int /\ \A p \in PolicyNames : p < 0
    /\ Grace \in Nat

Kinds == {"tenant", "project", "environment", "member", "api-key"}

\* A number that is no resource and no change.
None == 0

\* kind: of the resource or of the change; owner: the parent in the scope.
NewItem(kind, owner, name, status, n) ==
    [kind |-> kind, owner |-> owner, name |-> name, status |-> status,
     version |-> 1, stamp |-> n, policy |-> None]

Is(st, id, kind) == id \in DOMAIN st.items /\ st.items[id].kind = kind

\* Map.set and Map.delete.
With(f, key, value) ==
    IF key \in DOMAIN f THEN [f EXCEPT ![key] = value]
    ELSE [k \in DOMAIN f \cup {key} |-> IF k = key THEN value ELSE f[k]]
Without(f, key) == [k \in DOMAIN f \ {key} |-> f[k]]

Put(st, id, item) == [st EXCEPT !.items = With(@, id, item)]

\* The next version of a resource.
NewVersion(item, status, policy, n) ==
    [item EXCEPT !.status = status, !.policy = policy, !.version = @ + 1, !.stamp = n]

WithSecrets(st, secret, grace) == [st EXCEPT !.secret = secret, !.grace = grace]

\* What the caller of a change is told: the resource as the change left it,
\* the secret it issued, and when it was made.
Told(st, id, secret, at) ==
    [id |-> id, item |-> st.items[id], secret |-> secret, at |-> at]

-----------------------------------------------------------------------------
(* Idempotency: cached and saveIdempotency.  A cache key is the kind of the *)
(* operation, its scope and the caller's key.  An entry has the request's   *)
(* fingerprint and the answer; a tombstone has no answer.                   *)

Cached(st, ck) == ck \in DOMAIN st.cache

\* The answers that the request gets without a change: none if the entry is
\* a tombstone or was made by another request.
Replays(st, ck, body) ==
    IF Cached(st, ck) /\ st.cache[ck].body = body THEN st.cache[ck].told ELSE {}

Remember(st, ck, body, told) ==
    [st EXCEPT !.cache = With(@, ck, [body |-> body, told |-> {told}])]

-----------------------------------------------------------------------------
(* Tenants, projects and environments. *)

WithTenant(st, name, n) ==
    Put(st, n, NewItem("tenant", None, name, "trial", n))

MayAddProject(st, tenant, slug) ==
    /\ Is(st, tenant, "tenant")
    /\ st.items[tenant].status \in {"active", "trial"}
    /\ \A p \in DOMAIN st.items :
          Is(st, p, "project") /\ st.items[p].owner = tenant => st.items[p].name # slug

WithProject(st, tenant, slug, n) ==
    Put(st, n, NewItem("project", tenant, slug, "active", n))

\* The policy of an environment is one the request names, which then exists
\* too, or a new one; a policy is called after the change that made it.
WithEnvironment(st, project, name, policy, n) ==
    LET named == IF policy = None THEN n ELSE policy
        env == [NewItem("environment", project, name, "active", n) EXCEPT !.policy = named]
    IN  [Put(st, n, env) EXCEPT !.policies = @ \cup {named}]

MayUpdateEnvironment(st, env, version) ==
    /\ Is(st, env, "environment")
    /\ st.items[env].version = version
    /\ st.items[env].status # "retired"

\* The request's quotaPolicyId is taken as it is.
UpdatedEnvironment(st, env, status, policy, n) ==
    LET old == st.items[env]
    IN  Put(st, env, NewVersion(old, status, IF policy = None THEN old.policy ELSE policy, n))

-----------------------------------------------------------------------------
(* Members. *)

MayAddMember(st, tenant, subject) ==
    /\ Is(st, tenant, "tenant")
    /\ \A m \in DOMAIN st.items :
          Is(st, m, "member") /\ st.items[m].owner = tenant
             /\ st.items[m].status # "removed" => st.items[m].name # subject

WithMember(st, tenant, subject, n) ==
    Put(st, n, NewItem("member", tenant, subject, "active", n))

\* Mutation: the version stays.
MemberKeepsVersion(st, member, status, n) ==
    Put(st, member, [st.items[member] EXCEPT !.status = status, !.stamp = n])

UpdatedMember(st, member, status, n) ==
    Put(st, member, NewVersion(st.items[member], status, None, n))

-----------------------------------------------------------------------------
(* API keys. *)

WithKey(st, env, scopes, n) ==
    WithSecrets(Put(st, n, NewItem("api-key", env, scopes, "active", n)),
                With(st.secret, n, n), st.grace)

MayRotate(st, key) == Is(st, key, "api-key") /\ st.items[key].status = "active"

\* The secret replaced stays good for the grace period, if there is one.
Rotated(st, key, now, n) ==
    WithSecrets(Put(st, key, NewVersion(st.items[key], "active", None, n)),
                With(st.secret, key, n),
                IF key \in DOMAIN st.secret /\ Grace > 0
                THEN With(st.grace, key, [secret |-> st.secret[key], until |-> now + Grace])
                ELSE st.grace)

MayRevoke(st, key) == Is(st, key, "api-key")

Revoked(st, key, n) ==
    WithSecrets(Put(st, key, NewVersion(st.items[key], "revoked", None, n)),
                Without(st.secret, key), Without(st.grace, key))

\* Mutation: a rotation's grace period includes its last moment.
AcceptsAtExpiry(st, key, secret, now) ==
    /\ key \in DOMAIN st.secret
    /\ \/ st.secret[key] = secret
       \/ /\ key \in DOMAIN st.grace
          /\ st.grace[key].until >= now
          /\ st.grace[key].secret = secret

\* resolveApiKeyCredential: the secret opens the environment of the key.
Accepts(st, key, secret, now) ==
    /\ key \in DOMAIN st.secret
    /\ \/ st.secret[key] = secret
       \/ /\ key \in DOMAIN st.grace
          /\ st.grace[key].until > now
          /\ st.grace[key].secret = secret
    /\ Is(st, key, "api-key")
    /\ st.items[key].status = "active"

-----------------------------------------------------------------------------
(* Snapshots. *)

\* Answers that hold a secret are not written: their cache entries become
\* tombstones.  Kinds of such entries begin with "api-key".
SecretBearing == {"api-key", "api-key-rotate", "api-key-revoke"}

\* Mutation: such entries are left out.
SnapshotForgets(st) ==
    [st EXCEPT !.cache = [ck \in {c \in DOMAIN @ : c[1] \notin SecretBearing} |-> @[ck]]]

Snapshot(st) ==
    [st EXCEPT !.cache = [ck \in DOMAIN @ |->
        IF ck[1] \in SecretBearing
        THEN [@[ck] EXCEPT !.told = {}]
        ELSE @[ck]]]

\* What restore insists on; it throws otherwise.
Restorable(st) ==
    \A id \in DOMAIN st.items :
       LET item == st.items[id] IN
       /\ item.kind = "project" => Is(st, item.owner, "tenant")
       /\ item.kind = "environment" =>
             Is(st, item.owner, "project") /\ item.policy \in st.policies
       /\ item.kind = "member" => Is(st, item.owner, "tenant")
       /\ item.kind = "api-key" => Is(st, item.owner, "environment")

\* seed: the tenant 1, project 2, environment 3 and owner 4 of the
\* configured credential.
SeedName == "seed"

Seeded ==
    [items |-> << NewItem("tenant", None, SeedName, "active", 1),
                  NewItem("project", 1, SeedName, "active", 2),
                  [NewItem("environment", 2, SeedName, "active", 3) EXCEPT !.policy = 3],
                  NewItem("member", 1, SeedName, "active", 4) >>,
     policies |-> {3},
     secret |-> << >>,
     grace |-> << >>,
     cache |-> << >>]
=============================================================================
