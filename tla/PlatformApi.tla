----------------------------- MODULE PlatformApi -----------------------------
(***************************************************************************)
(* The replicas of services/platform-api that change one control plane.    *)
(*                                                                         *)
(* A mutation changes the replica's store at once, then awaits its audit   *)
(* transaction (persistAudit), then copies the store and awaits its turn   *)
(* in the replica's queue of writes (persistStore), and answers last.  The *)
(* row takes a copy only from a replica whose version is the row's         *)
(* (store-persistence.ts); no replica reloads before it is restarted.      *)
(* Versions of the row only grow and are only compared with it, so each    *)
(* replica's is represented by whether it is the row's.                    *)
(***************************************************************************)
EXTENDS PlatformStore, Sequences

CONSTANTS
    Replicas,
    Handlers,        \* requests that a replica works on at a time
    MaxNumber,       \* bound on the numbers of changes
    Horizon,         \* bound on the clock
    MaxRestarts      \* bound on restarts, of all replicas together

ASSUME ApiAssumption ==
    /\ IsFiniteSet(Replicas) /\ IsFiniteSet(Handlers)
    /\ MaxNumber \in Nat /\ MaxNumber >= 4 /\ Horizon \in Nat /\ MaxRestarts \in Nat

VARIABLES
    up,              \* the replica serves: its store was restored
    mem,             \* each replica's PlatformStore
    work,            \* what each handler is doing
    queue,           \* copies the replica has to write, in order
    synced,          \* the replica's version of the row is the row's
    row,             \* platform_store_snapshots
    next,            \* number of the next change
    now,
    restarts,
    answered         \* history: the answers given, each with its cache key

vars == <<up, mem, work, queue, synced, row, next, now, restarts, answered>>

Idle == [pc |-> "idle"]
Doing(pc, ck, told) == [pc |-> pc, ck |-> ck, told |-> told]

\* The cache key of a request that has none.
Keyless == << >>

Init ==
    /\ up = [r \in Replicas |-> TRUE]
    /\ mem = [r \in Replicas |-> Seeded]
    /\ work = [r \in Replicas |-> [h \in Handlers |-> Idle]]
    /\ queue = [r \in Replicas |-> << >>]
    /\ synced = [r \in Replicas |-> TRUE]
    /\ row = Seeded
    /\ next = 5
    /\ now = 0
    /\ restarts = 0
    /\ answered = {}

-----------------------------------------------------------------------------
(* Routes.  A request that is refused changes nothing. *)

Stage(r, h, st, ck, told) ==
    /\ mem' = [mem EXCEPT ![r] = st]
    /\ work' = [work EXCEPT ![r][h] = Doing("auditing", ck, told)]
    /\ UNCHANGED <<up, queue, synced, row, now, restarts, answered>>

Free(r, h) == up[r] /\ work[r][h] = Idle

\* A change that no key protects from being made again.
Change(r, h, may, st, id) ==
    /\ may /\ next <= MaxNumber
    /\ Stage(r, h, st, Keyless, Told(st, id, None, now))
    /\ next' = next + 1

\* A change with an idempotency key: the cached answer, or the change.
ChangeOnce(r, h, ck, body, may, st, id, secret) ==
    \/ /\ \E told \in Replays(mem[r], ck, body) : Stage(r, h, mem[r], ck, told)
       /\ UNCHANGED next
    \/ /\ ~Cached(mem[r], ck)
       /\ may /\ next <= MaxNumber
       /\ LET told == Told(st, id, secret, now)
          IN  Stage(r, h, Remember(st, ck, body, told), ck, told)
       /\ next' = next + 1

Owners(r, kind) == {id \in DOMAIN mem[r].items : mem[r].items[id].kind = kind}

CreateTenant(r, h) ==
    /\ Free(r, h)
    /\ \E k \in Keys, name \in Names :
          ChangeOnce(r, h, <<"tenant", None, k>>, name,
                     TRUE, WithTenant(mem[r], name, next), next, None)

CreateProject(r, h) ==
    /\ Free(r, h)
    /\ \E tenant \in Owners(r, "tenant"), k \in Keys, slug \in Names :
          ChangeOnce(r, h, <<"project", tenant, k>>, slug,
                     MayAddProject(mem[r], tenant, slug),
                     WithProject(mem[r], tenant, slug, next), next, None)

CreateEnvironment(r, h) ==
    /\ Free(r, h)
    /\ \E project \in Owners(r, "project"), k \in Keys, name \in Names,
          policy \in PolicyNames \cup {None} :
          ChangeOnce(r, h, <<"environment", project, k>>, <<name, policy>>,
                     TRUE, WithEnvironment(mem[r], project, name, policy, next), next, None)

UpdateEnvironment(r, h) ==
    /\ Free(r, h)
    /\ \E env \in Owners(r, "environment"), status \in {"active", "retired"},
          policy \in PolicyNames \cup {None}, version \in 1 .. MaxNumber :
          Change(r, h, MayUpdateEnvironment(mem[r], env, version),
                 UpdatedEnvironment(mem[r], env, status, policy, next), env)

CreateMember(r, h) ==
    /\ Free(r, h)
    /\ \E tenant \in Owners(r, "tenant"), k \in Keys, subject \in Names :
          ChangeOnce(r, h, <<"member", tenant, k>>, subject,
                     MayAddMember(mem[r], tenant, subject),
                     WithMember(mem[r], tenant, subject, next), next, None)

UpdateMember(r, h) ==
    /\ Free(r, h)
    /\ \E member \in Owners(r, "member"), status \in {"active", "removed"} :
          Change(r, h, TRUE, UpdatedMember(mem[r], member, status, next), member)

CreateApiKey(r, h) ==
    /\ Free(r, h)
    /\ \E env \in Owners(r, "environment"), k \in Keys, scopes \in Names :
          ChangeOnce(r, h, <<"api-key", env, k>>, scopes,
                     TRUE, WithKey(mem[r], env, scopes, next), next, next)

RotateApiKey(r, h) ==
    /\ Free(r, h)
    /\ \E key \in Owners(r, "api-key"), k \in Keys :
          ChangeOnce(r, h, <<"api-key-rotate", key, k>>, None,
                     MayRotate(mem[r], key), Rotated(mem[r], key, now, next), key, next)

RevokeApiKey(r, h) ==
    /\ Free(r, h)
    /\ \E key \in Owners(r, "api-key"), k \in Keys :
          ChangeOnce(r, h, <<"api-key-revoke", key, k>>, None,
                     MayRevoke(mem[r], key), Revoked(mem[r], key, next), key, None)

-----------------------------------------------------------------------------
(* Persistence. *)

\* The audit transaction commits; persistStore copies the store as it is now.
AuditCommits(r, h) ==
    /\ work[r][h].pc = "auditing"
    /\ work' = [work EXCEPT ![r][h].pc = "saving"]
    /\ queue' = [queue EXCEPT ![r] = Append(@, [handler |-> h, store |-> Snapshot(mem[r])])]
    /\ UNCHANGED <<up, mem, synced, row, next, now, restarts, answered>>

\* It fails, or its reply is lost: status 500, and the change stays in the
\* replica's store.
AuditFails(r, h) ==
    /\ work[r][h].pc = "auditing"
    /\ work' = [work EXCEPT ![r][h] = Idle]
    /\ UNCHANGED <<up, mem, queue, synced, row, next, now, restarts, answered>>

\* The write whose turn it is has ended.
Written(r) ==
    /\ queue' = [queue EXCEPT ![r] = Tail(@)]
    /\ work' = [work EXCEPT ![r][Head(queue[r]).handler] = Idle]
    /\ UNCHANGED <<up, mem, next, now, restarts>>

\* Mutation: the row takes a copy whatever its version.
SaveOverwrites(r) ==
    /\ queue[r] # << >>
    /\ row' = Head(queue[r]).store
    /\ LET doing == work[r][Head(queue[r]).handler]
       IN  answered' = answered \cup {[ck |-> doing.ck, told |-> doing.told]}
    /\ Written(r)
    /\ UNCHANGED synced

SaveSucceeds(r) ==
    /\ queue[r] # << >> /\ synced[r]
    /\ row' = Head(queue[r]).store
    /\ synced' = [s \in Replicas |-> s = r]
    /\ LET doing == work[r][Head(queue[r]).handler]
       IN  answered' = answered \cup {[ck |-> doing.ck, told |-> doing.told]}
    /\ Written(r)

\* The row has another version, or the database fails: status 500.
SaveFails(r) ==
    /\ queue[r] # << >>
    /\ Written(r)
    /\ UNCHANGED <<row, synced, answered>>

\* The row takes the copy and the reply is lost: nobody has its version now.
SaveUncertain(r) ==
    /\ queue[r] # << >> /\ synced[r]
    /\ row' = Head(queue[r]).store
    /\ synced' = [s \in Replicas |-> FALSE]
    /\ Written(r)
    /\ UNCHANGED answered

\* The process ends and starts again; what was under way is lost.  It serves
\* if restore accepts the row.
Restart(r) ==
    /\ restarts < MaxRestarts
    /\ restarts' = restarts + 1
    /\ up' = [up EXCEPT ![r] = Restorable(row)]
    /\ mem' = [mem EXCEPT ![r] = IF Restorable(row) THEN row ELSE Seeded]
    /\ synced' = [synced EXCEPT ![r] = TRUE]
    /\ work' = [work EXCEPT ![r] = [h \in Handlers |-> Idle]]
    /\ queue' = [queue EXCEPT ![r] = << >>]
    /\ UNCHANGED <<row, next, now, answered>>

Tick ==
    /\ now < Horizon
    /\ now' = now + 1
    /\ UNCHANGED <<up, mem, work, queue, synced, row, next, restarts, answered>>

Route(r, h) ==
    \/ CreateTenant(r, h) \/ CreateProject(r, h)
    \/ CreateEnvironment(r, h) \/ UpdateEnvironment(r, h)
    \/ CreateMember(r, h) \/ UpdateMember(r, h)
    \/ CreateApiKey(r, h) \/ RotateApiKey(r, h) \/ RevokeApiKey(r, h)

Next ==
    \/ \E r \in Replicas, h \in Handlers :
          Route(r, h) \/ AuditCommits(r, h) \/ AuditFails(r, h)
    \/ \E r \in Replicas :
          SaveSucceeds(r) \/ SaveFails(r) \/ SaveUncertain(r) \/ Restart(r)
    \/ Tick

Spec == Init /\ [][Next]_vars

-----------------------------------------------------------------------------
(* Properties. *)

\* Type correctness of the replicas; a handler waits for a write exactly
\* while its copy is in the queue.
TypeOK ==
    /\ up \in [Replicas -> BOOLEAN] /\ synced \in [Replicas -> BOOLEAN]
    /\ next \in 5 .. MaxNumber + 1
    /\ now \in 0 .. Horizon /\ restarts \in 0 .. MaxRestarts
    /\ \A r \in Replicas, h \in Handlers :
          /\ work[r][h].pc \in {"idle", "auditing", "saving"}
          /\ work[r][h].pc = "saving"
                <=> \E i \in DOMAIN queue[r] : queue[r][i].handler = h
    /\ \A r \in Replicas : Len(queue[r]) <= Cardinality(Handlers)

\* A change that was answered with success is in the row, or a later version
\* of it is, whatever other replicas write and whoever restarts
\* (store-persistence.ts:36-52, server.ts:359-365).
AnsweredIsDurable ==
    \A a \in answered :
       /\ a.told.id \in DOMAIN row.items
       /\ a.told.item.version <= row.items[a.told.id].version

\* Two answers that report the same version of a resource report the same
\* content: no acknowledged update is lost under another (the version of
\* updateEnvironment, and the versions that updateMember, rotateApiKey and
\* revokeApiKey count up without a check of their own).
OneContentPerVersion ==
    \A a, b \in answered :
       a.told.id = b.told.id /\ a.told.item.version = b.told.item.version
          => a.told.item = b.told.item

\* The requests made with one idempotency key are never answered with two
\* results, on whatever replica and across restarts, when secrets are gone
\* from the cache (platform-store.ts:698-716, tombstones 157-163).
OneAnswerPerKey ==
    /\ TypeOK
    /\ \A a, b \in answered : a.ck = b.ck /\ a.ck # Keyless => a = b

\* A replica that has the row's version refuses every secret of a key whose
\* revocation was answered, and every secret older than an answered rotation
\* once the grace period that began with the rotation is over
\* (platform-store.ts:435-506).
LapsedIsRefused ==
    \A r \in Replicas, a \in answered :
       up[r] /\ synced[r] /\ a.told.item.kind = "api-key" =>
          \A s \in 1 .. next :
             \/ ~Accepts(mem[r], a.told.id, s, now)
             \/ /\ a.told.item.status = "active"
                /\ s >= a.told.secret \/ now < a.told.at + Grace

\* The row can be restored after a restart (acceptance/01:143-145).
RowRestores == Restorable(row)
=============================================================================
