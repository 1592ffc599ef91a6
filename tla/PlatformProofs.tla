--------------------------- MODULE PlatformProofs ---------------------------
(***************************************************************************)
(* Proofs about PlatformApi, for every set of replicas, handlers, keys and *)
(* names, and every bound: a change that was answered stays in the row, no *)
(* two answers report one version of a resource differently, the requests  *)
(* of one idempotency key have one answer, and secrets that an answered    *)
(* revocation or rotation has ended are refused.                           *)
(*                                                                         *)
(* Three invariants carry them.  DurInv: a replica's store and its copies  *)
(* grow along the queue, and from the row while the replica has the row's  *)
(* version, so that what one of them covers the later ones cover too.      *)
(* AgreeInv: the answers that are given, cached or under way agree.        *)
(* TypeInv: the types, and who waits for a write.                          *)
(***************************************************************************)
EXTENDS PlatformApi, SequenceTheorems, FiniteSetTheorems, TLAPS

-----------------------------------------------------------------------------
(* Stores as values. *)

\* A Map is a function on its keys.
IsMap(f) == f = [k \in DOMAIN f |-> f[k]]

\* A resource; an API key is active or revoked.
ItemOK(x) ==
    /\ x = [kind |-> x.kind, owner |-> x.owner, name |-> x.name, status |-> x.status,
            version |-> x.version, stamp |-> x.stamp, policy |-> x.policy]
    /\ x.version \in Nat
    /\ x.kind = "api-key" => x.status \in {"active", "revoked"}

\* A store that has the answer of an API key has that key's revocation, or no
\* secret older than the answer's once the grace period of the answer is over.
KeyCovered(st, told) ==
    told.item.kind = "api-key" =>
       /\ told.item.status \in {"active", "revoked"}
       /\ told.item.status = "revoked" => st.items[told.id].status = "revoked"
       /\ told.item.status = "active" =>
             /\ told.secret \in Nat /\ told.at \in Nat
             /\ told.id \in DOMAIN st.secret => told.secret <= st.secret[told.id]
             /\ told.id \in DOMAIN st.grace =>
                   \/ told.secret <= st.grace[told.id].secret
                   \/ st.grace[told.id].until <= told.at + Grace

\* The store has what the answer reports, or a later version of it, and will
\* not make the change of the answer's cache key again.
Covers(st, e) ==
    /\ e.told.id \in DOMAIN st.items
    /\ e.told.item.version \in Nat
    /\ e.told.item.version <= st.items[e.told.id].version
    /\ e.told.item.kind = st.items[e.told.id].kind
    /\ e.ck # Keyless => e.ck \in DOMAIN st.cache
    /\ KeyCovered(st, e.told)

\* Resources numbered below n.
ItemsOK(items, n) ==
    /\ IsMap(items)
    /\ \A id \in DOMAIN items : id \in Nat /\ id < n /\ ItemOK(items[id])

\* An active API key has a secret; secrets are numbers below n.
SecretsOK(items, secret, grace, n) ==
    /\ IsMap(secret) /\ IsMap(grace)
    /\ \A id \in DOMAIN secret : secret[id] \in Nat /\ secret[id] < n
    /\ \A id \in DOMAIN grace :
          /\ id \in DOMAIN items /\ Grace > 0
          /\ grace[id] = [secret |-> grace[id].secret, until |-> grace[id].until]
          /\ grace[id].secret \in Nat /\ grace[id].until \in Nat
    /\ \A id \in DOMAIN items :
          items[id].kind = "api-key" /\ items[id].status = "active" => id \in DOMAIN secret

\* What a cached answer would be answered with.
CacheOK(st) ==
    /\ IsMap(st.cache)
    /\ \A ck \in DOMAIN st.cache :
          /\ st.cache[ck] = [body |-> st.cache[ck].body, told |-> st.cache[ck].told]
          /\ \A told \in st.cache[ck].told : Covers(st, [ck |-> ck, told |-> told])

\* A store whose numbers are below n.
StoreOK(st, n) ==
    /\ st = [items |-> st.items, policies |-> st.policies, secret |-> st.secret,
             grace |-> st.grace, cache |-> st.cache]
    /\ ItemsOK(st.items, n)
    /\ SecretsOK(st.items, st.secret, st.grace, n)
    /\ CacheOK(st)
\* Everything the first store covers the second covers too.
Grows(s, t) == \A e : Covers(s, e) => Covers(t, e)

\* Growth is transitive.
LEMMA GrowsTransitive ==
    ASSUME NEW s, NEW t, NEW u, Grows(s, t), Grows(t, u)
    PROVE  Grows(s, u)
BY DEF Grows

\* Map.set keeps the other entries.
LEMMA WithEffect ==
    ASSUME NEW f, NEW key, NEW value, IsMap(f)
    PROVE  /\ DOMAIN With(f, key, value) = DOMAIN f \cup {key}
           /\ With(f, key, value)[key] = value
           /\ \A k \in DOMAIN f : k # key => With(f, key, value)[k] = f[k]
           /\ IsMap(With(f, key, value))
<1>1. CASE key \in DOMAIN f
  BY <1>1 DEF With, IsMap
<1>2. CASE key \notin DOMAIN f
  BY <1>2 DEF With, IsMap
<1> QED
  BY <1>1, <1>2

\* Map.delete keeps the other entries.
LEMMA WithoutEffect ==
    ASSUME NEW f, NEW key, IsMap(f)
    PROVE  /\ DOMAIN Without(f, key) = DOMAIN f \ {key}
           /\ \A k \in DOMAIN f \ {key} : Without(f, key)[k] = f[k]
           /\ IsMap(Without(f, key))
BY DEF Without, IsMap

\* Numbers may only grow.
LEMMA StoreOKLater ==
    ASSUME NEW s, NEW m \in Nat, NEW n \in Nat, m <= n, StoreOK(s, m)
    PROVE  StoreOK(s, n)
<1>1. ItemsOK(s.items, n)
  <2>1. \A id \in DOMAIN s.items : id \in Nat /\ id < m /\ ItemOK(s.items[id])
    BY DEF StoreOK, ItemsOK
  <2> QED
    BY <2>1 DEF StoreOK, ItemsOK
<1>2. SecretsOK(s.items, s.secret, s.grace, n)
  <2>1. \A id \in DOMAIN s.secret : s.secret[id] \in Nat /\ s.secret[id] < m
    BY DEF StoreOK, SecretsOK
  <2> QED
    BY <2>1 DEF StoreOK, SecretsOK
<1> QED
  BY <1>1, <1>2 DEF StoreOK

\* Stores with the same resources and secrets, and no fewer cache keys, cover
\* the same.
LEMMA SameCovered ==
    ASSUME NEW s, NEW t, s.items = t.items, s.secret = t.secret, s.grace = t.grace,
           DOMAIN s.cache \subseteq DOMAIN t.cache
    PROVE  Grows(s, t)
BY DEF Grows, Covers, KeyCovered

-----------------------------------------------------------------------------
(* What the operations of the store do. *)

\* The store after an operation on one resource, which is new or in a version
\* that no answer had before.
Step(s, t, id, n) ==
    /\ StoreOK(t, n + 1)
    /\ Grows(s, t)
    /\ id \in DOMAIN t.items
    /\ id \in DOMAIN s.items => s.items[id].version < t.items[id].version
    /\ t.cache = s.cache

\* The resources with one put at a free number or in its next version.
LEMMA PutItems ==
    ASSUME NEW items, NEW n \in Nat, ItemsOK(items, n),
           NEW id \in Nat, id <= n, NEW item, ItemOK(item)
    PROVE  /\ DOMAIN With(items, id, item) = DOMAIN items \cup {id}
           /\ With(items, id, item)[id] = item
           /\ \A k \in DOMAIN items : k # id => With(items, id, item)[k] = items[k]
           /\ ItemsOK(With(items, id, item), n + 1)
<1>1. PICK f : f = With(items, id, item)
  OBVIOUS
<1>2. /\ DOMAIN f = DOMAIN items \cup {id} /\ f[id] = item /\ IsMap(f)
      /\ \A k \in DOMAIN items : k # id => f[k] = items[k]
  <2>1. IsMap(items)
    BY DEF ItemsOK
  <2>2. /\ DOMAIN With(items, id, item) = DOMAIN items \cup {id}
        /\ With(items, id, item)[id] = item
        /\ \A k \in DOMAIN items : k # id => With(items, id, item)[k] = items[k]
        /\ IsMap(With(items, id, item))
    BY <2>1, WithEffect, Zenon
  <2> QED
    BY <1>1, <2>2
<1>3. ASSUME NEW k \in DOMAIN f PROVE k \in Nat /\ k < n + 1 /\ ItemOK(f[k])
  <2>1. CASE k = id
    BY <1>2, <2>1
  <2>2. CASE k # id
    <3>1. k \in DOMAIN items /\ f[k] = items[k]
      BY <1>2, <1>3, <2>2
    <3>2. k \in Nat /\ k < n /\ ItemOK(items[k])
      BY <3>1 DEF ItemsOK
    <3> QED
      BY <3>1, <3>2
  <2> QED
    BY <2>1, <2>2
<1> QED
  BY <1>1, <1>2, <1>3 DEF ItemsOK

\* What an operation has to show beside its effect on the resources: its
\* secrets, and that answers of API keys stay covered.
LEMMA StepFrom ==
    ASSUME NEW s, NEW n \in Nat, StoreOK(s, n), NEW t,
           NEW id \in Nat, id <= n, NEW item, ItemOK(item),
           t = [items |-> t.items, policies |-> t.policies, secret |-> t.secret,
                grace |-> t.grace, cache |-> t.cache],
           t.items = With(s.items, id, item), t.cache = s.cache,
           id \in DOMAIN s.items => /\ s.items[id].version < item.version
                                    /\ s.items[id].kind = item.kind,
           SecretsOK(t.items, t.secret, t.grace, n + 1),
           \A e : Covers(s, e) => KeyCovered(t, e.told)
    PROVE  Step(s, t, id, n)
<1>1. ItemsOK(s.items, n) /\ CacheOK(s)
  BY DEF StoreOK
<1>2. /\ DOMAIN t.items = DOMAIN s.items \cup {id}
      /\ t.items[id] = item
      /\ \A k \in DOMAIN s.items : k # id => t.items[k] = s.items[k]
      /\ ItemsOK(t.items, n + 1)
  <2>1. PICK items : items = s.items
    OBVIOUS
  <2>2. /\ DOMAIN With(items, id, item) = DOMAIN items \cup {id}
        /\ With(items, id, item)[id] = item
        /\ \A k \in DOMAIN items : k # id => With(items, id, item)[k] = items[k]
        /\ ItemsOK(With(items, id, item), n + 1)
    BY <1>1, <2>1, PutItems
  <2> QED
    BY <2>1, <2>2
<1>3. Grows(s, t)
  <2> SUFFICES ASSUME NEW e, Covers(s, e) PROVE Covers(t, e)
    BY DEF Grows
  <2>1. /\ e.told.id \in DOMAIN s.items /\ e.told.item.version \in Nat
        /\ e.told.item.version <= s.items[e.told.id].version
        /\ e.told.item.kind = s.items[e.told.id].kind
        /\ e.ck # Keyless => e.ck \in DOMAIN t.cache
    BY DEF Covers
  <2>2. s.items[e.told.id].version \in Nat /\ item.version \in Nat
    BY <1>1, <2>1 DEF ItemsOK, ItemOK
  <2>3. /\ e.told.item.version <= t.items[e.told.id].version
        /\ e.told.item.kind = t.items[e.told.id].kind
    <3>1. CASE e.told.id = id
      BY <1>2, <2>1, <2>2, <3>1
    <3>2. CASE e.told.id # id
      BY <1>2, <2>1, <3>2
    <3> QED
      BY <3>1, <3>2
  <2>4. KeyCovered(t, e.told) /\ e.told.id \in DOMAIN t.items
    BY <1>2, <2>1
  <2> QED
    BY <2>1, <2>3, <2>4 DEF Covers
<1>4. CacheOK(t)
  <2>1. PICK c : c = s.cache
    OBVIOUS
  <2>2. /\ IsMap(c)
        /\ \A ck \in DOMAIN c :
              /\ c[ck] = [body |-> c[ck].body, told |-> c[ck].told]
              /\ \A told \in c[ck].told : Covers(s, [ck |-> ck, told |-> told])
    BY <1>1, <2>1 DEF CacheOK
  <2>3. \A ck \in DOMAIN c : \A told \in c[ck].told : Covers(t, [ck |-> ck, told |-> told])
    BY <1>3, <2>2 DEF Grows
  <2> QED
    BY <2>1, <2>2, <2>3 DEF CacheOK
<1> QED
  BY <1>2, <1>3, <1>4 DEF Step, StoreOK

\* An answer about another API key stays covered.
LEMMA KeyElsewhere ==
    ASSUME NEW s, NEW t, NEW told, KeyCovered(s, told),
           told.item.kind = "api-key" =>
              /\ t.items[told.id] = s.items[told.id]
              /\ told.id \in DOMAIN t.secret <=> told.id \in DOMAIN s.secret
              /\ told.id \in DOMAIN t.secret => t.secret[told.id] = s.secret[told.id]
              /\ told.id \in DOMAIN t.grace <=> told.id \in DOMAIN s.grace
              /\ told.id \in DOMAIN t.grace => t.grace[told.id] = s.grace[told.id]
    PROVE  KeyCovered(t, told)
BY DEF KeyCovered

\* A resource that is no API key is put.
LEMMA PutStep ==
    ASSUME NEW s, NEW n \in Nat, StoreOK(s, n), NEW t,
           NEW id \in Nat, id <= n, NEW item, ItemOK(item), item.kind # "api-key",
           t = [items |-> t.items, policies |-> t.policies, secret |-> t.secret,
                grace |-> t.grace, cache |-> t.cache],
           t.items = With(s.items, id, item), t.cache = s.cache,
           t.secret = s.secret, t.grace = s.grace,
           id \in DOMAIN s.items => /\ s.items[id].version < item.version
                                    /\ s.items[id].kind = item.kind
    PROVE  Step(s, t, id, n) /\ t.items[id] = item
<1>1. /\ DOMAIN t.items = DOMAIN s.items \cup {id}
      /\ t.items[id] = item
      /\ \A k \in DOMAIN s.items : k # id => t.items[k] = s.items[k]
  <2>1. PICK items : items = s.items
    OBVIOUS
  <2>2. /\ DOMAIN With(items, id, item) = DOMAIN items \cup {id}
        /\ With(items, id, item)[id] = item
        /\ \A k \in DOMAIN items : k # id => With(items, id, item)[k] = items[k]
        /\ ItemsOK(With(items, id, item), n + 1)
    <3>1. ItemsOK(items, n)
      BY <2>1 DEF StoreOK
    <3> QED
      BY <3>1, PutItems
  <2> QED
    BY <2>1, <2>2
<1>2. SecretsOK(t.items, t.secret, t.grace, n + 1)
  <2>1. PICK secret, grace : secret = s.secret /\ grace = s.grace
    OBVIOUS
  <2>2. SecretsOK(s.items, secret, grace, n)
    BY <2>1 DEF StoreOK
  <2>3. \A k \in DOMAIN secret : secret[k] \in Nat /\ secret[k] < n + 1
    BY <2>2 DEF SecretsOK
  <2>4. \A k \in DOMAIN t.items :
          t.items[k].kind = "api-key" /\ t.items[k].status = "active" => k \in DOMAIN secret
    BY <1>1, <2>2 DEF SecretsOK
  <2>5. SecretsOK(t.items, secret, grace, n + 1)
    BY <1>1, <2>2, <2>3, <2>4 DEF SecretsOK
  <2> QED
    BY <2>1, <2>5
<1>3. ASSUME NEW e, Covers(s, e) PROVE KeyCovered(t, e.told)
  <2>1. KeyCovered(s, e.told) /\ e.told.id \in DOMAIN s.items
    BY <1>3 DEF Covers
  <2>2. e.told.item.kind = "api-key" => t.items[e.told.id] = s.items[e.told.id]
    <3>1. e.told.item.kind = s.items[e.told.id].kind
      BY <1>3 DEF Covers
    <3> QED
      BY <1>1, <2>1, <3>1
  <2> QED
    BY <2>1, <2>2, KeyElsewhere
<1>4. Step(s, t, id, n)
  BY <1>2, <1>3, StepFrom
<1> QED
  BY <1>1, <1>4

\* A store is a record of these fields.
StoreShape(st) ==
    st = [items |-> st.items, policies |-> st.policies, secret |-> st.secret,
          grace |-> st.grace, cache |-> st.cache]

\* The fields that an operation changes.
LEMMA PutFields ==
    ASSUME NEW s, StoreShape(s), NEW id, NEW item, NEW t, t = Put(s, id, item)
    PROVE  /\ StoreShape(t) /\ t.items = With(s.items, id, item)
           /\ t.secret = s.secret /\ t.grace = s.grace /\ t.cache = s.cache
<1>1. PICK a, b, c, d, e : s = [items |-> a, policies |-> b, secret |-> c, grace |-> d, cache |-> e]
  BY DEF StoreShape
<1>2. PICK f : f = With(a, id, item)
  OBVIOUS
<1>3. t = [items |-> f, policies |-> b, secret |-> c, grace |-> d, cache |-> e]
  BY <1>1, <1>2 DEF Put
<1> QED
  BY <1>1, <1>2, <1>3 DEF StoreShape

\* The store with a policy more.
WithPolicy(st, named) == [st EXCEPT !.policies = @ \cup {named}]

\* It differs in nothing else.
LEMMA PolicyFields ==
    ASSUME NEW s, StoreShape(s), NEW named, NEW t, t = WithPolicy(s, named)
    PROVE  /\ StoreShape(t) /\ t.items = s.items
           /\ t.secret = s.secret /\ t.grace = s.grace /\ t.cache = s.cache
<1>1. PICK a, b, c, d, e : s = [items |-> a, policies |-> b, secret |-> c, grace |-> d, cache |-> e]
  BY DEF StoreShape
<1>2. PICK v : v = b \cup {named}
  OBVIOUS
<1>3. t = [items |-> a, policies |-> v, secret |-> c, grace |-> d, cache |-> e]
  BY <1>1, <1>2 DEF WithPolicy
<1> QED
  BY <1>1, <1>3 DEF StoreShape

\* Other secrets leave the rest of the store alone.
LEMMA SecretFields ==
    ASSUME NEW s, StoreShape(s), NEW secret, NEW grace, NEW t, t = WithSecrets(s, secret, grace)
    PROVE  /\ StoreShape(t) /\ t.items = s.items
           /\ t.secret = secret /\ t.grace = grace /\ t.cache = s.cache
<1>1. PICK a, b, c, d, e : s = [items |-> a, policies |-> b, secret |-> c, grace |-> d, cache |-> e]
  BY DEF StoreShape
<1>2. t = [items |-> a, policies |-> b, secret |-> secret, grace |-> grace, cache |-> e]
  BY <1>1 DEF WithSecrets
<1> QED
  BY <1>1, <1>2 DEF StoreShape

\* A new resource is in its first version.
LEMMA NewItemOK ==
    ASSUME NEW kind, NEW owner, NEW name, NEW status, NEW n,
           kind = "api-key" => status \in {"active", "revoked"}
    PROVE  /\ ItemOK(NewItem(kind, owner, name, status, n))
           /\ NewItem(kind, owner, name, status, n).kind = kind
           /\ NewItem(kind, owner, name, status, n).status = status
BY DEF NewItem, ItemOK

\* A new environment is a resource in its first version.
LEMMA NewEnvironmentOK ==
    ASSUME NEW owner, NEW name, NEW n, NEW policy, NEW env,
           env = [NewItem("environment", owner, name, "active", n) EXCEPT !.policy = policy]
    PROVE  ItemOK(env) /\ env.kind = "environment"
BY DEF NewItem, ItemOK

\* The next version counts one more.
LEMMA NewVersionOK ==
    ASSUME NEW x, ItemOK(x), NEW status, NEW policy, NEW n,
           x.kind = "api-key" => status \in {"active", "revoked"}
    PROVE  /\ ItemOK(NewVersion(x, status, policy, n))
           /\ x.version < NewVersion(x, status, policy, n).version
           /\ NewVersion(x, status, policy, n).kind = x.kind
           /\ NewVersion(x, status, policy, n).status = status
<1>1. PICK a, b, c, d, e, f, g :
         x = [kind |-> a, owner |-> b, name |-> c, status |-> d, version |-> e,
              stamp |-> f, policy |-> g] /\ e \in Nat
  BY DEF ItemOK
<1>2. PICK y : y = NewVersion(x, status, policy, n)
  OBVIOUS
<1>3. y = [kind |-> a, owner |-> b, name |-> c, status |-> status, version |-> e + 1,
           stamp |-> n, policy |-> policy]
  BY <1>1, <1>2 DEF NewVersion
<1>4. /\ y.version = e + 1 /\ e + 1 \in Nat /\ x.version = e
      /\ y.kind = x.kind /\ y.status = status
  BY <1>1, <1>3
<1>5. ItemOK(y)
  BY <1>3, <1>4 DEF ItemOK
<1>6. e < e + 1
  BY <1>1
<1> QED
  BY <1>2, <1>4, <1>5, <1>6

\* A new resource that is no API key.
LEMMA NewStep ==
    ASSUME NEW s, NEW n \in Nat, StoreOK(s, n), NEW item, ItemOK(item), item.kind # "api-key",
           NEW t, t = Put(s, n, item)
    PROVE  Step(s, t, n, n) /\ t.items[n] = item
<1>1. n \notin DOMAIN s.items /\ n <= n /\ StoreShape(s)
  BY DEF StoreOK, ItemsOK, StoreShape
<1>2. /\ StoreShape(t) /\ t.items = With(s.items, n, item)
      /\ t.secret = s.secret /\ t.grace = s.grace /\ t.cache = s.cache
  BY <1>1, PutFields
<1> QED
  BY <1>1, <1>2, PutStep DEF StoreShape

\* It may bring a policy.
LEMMA NewPolicyStep ==
    ASSUME NEW s, NEW n \in Nat, StoreOK(s, n), NEW item, ItemOK(item), item.kind # "api-key",
           NEW t, t = Put(s, n, item), NEW named, NEW u, u = WithPolicy(t, named)
    PROVE  Step(s, u, n, n) /\ u.items[n] = item
<1>1. n \notin DOMAIN s.items /\ n <= n /\ StoreShape(s)
  BY DEF StoreOK, ItemsOK, StoreShape
<1>2. /\ StoreShape(t) /\ t.items = With(s.items, n, item)
      /\ t.secret = s.secret /\ t.grace = s.grace /\ t.cache = s.cache
  BY <1>1, PutFields
<1>3. /\ StoreShape(u) /\ u.items = With(s.items, n, item)
      /\ u.secret = s.secret /\ u.grace = s.grace /\ u.cache = s.cache
  BY <1>2, PolicyFields
<1> QED
  BY <1>1, <1>3, PutStep DEF StoreShape

\* The next version of a resource that is no API key.
LEMMA NextStep ==
    ASSUME NEW s, NEW n \in Nat, StoreOK(s, n), NEW id \in DOMAIN s.items,
           s.items[id].kind # "api-key", NEW status, NEW policy
    PROVE  LET t == Put(s, id, NewVersion(s.items[id], status, policy, n))
           IN  Step(s, t, id, n) /\ t.items[id].kind # "api-key"
<1>1. PICK x : x = s.items[id]
  OBVIOUS
<1>2. ItemOK(x) /\ x.kind # "api-key" /\ id \in Nat /\ id < n
  BY <1>1 DEF StoreOK, ItemsOK
<1>3. PICK y : y = NewVersion(x, status, policy, n)
  OBVIOUS
<1>4. ItemOK(y) /\ x.version < y.version /\ y.kind = x.kind
  BY <1>2, <1>3, NewVersionOK
<1>5. PICK t : t = Put(s, id, y)
  OBVIOUS
<1>6. StoreShape(s)
  BY DEF StoreOK, StoreShape
<1>7. /\ StoreShape(t) /\ t.items = With(s.items, id, y)
      /\ t.secret = s.secret /\ t.grace = s.grace /\ t.cache = s.cache
  BY <1>5, <1>6, PutFields
<1>8. id <= n
  BY <1>2
<1>9. Step(s, t, id, n) /\ t.items[id] = y
  BY <1>1, <1>2, <1>4, <1>7, <1>8, PutStep DEF StoreShape
<1> QED
  BY <1>1, <1>2, <1>3, <1>4, <1>5, <1>9

\* What is told of a change that is not about an API key asks for no secret.
LEMMA NoKeyTold ==
    ASSUME NEW t, NEW id, t.items[id].kind # "api-key", NEW secret, NEW at
    PROVE  KeyCovered(t, Told(t, id, secret, at))
<1>1. PICK told : told = Told(t, id, secret, at)
  OBVIOUS
<1>2. told.item.kind # "api-key"
  BY <1>1 DEF Told
<1> QED
  BY <1>1, <1>2 DEF KeyCovered

\* An operation whose answer its store covers.
Made(s, t, id, n, secret, at) == Step(s, t, id, n) /\ KeyCovered(t, Told(t, id, secret, at))

\* New tenants, projects, members and environments.
LEMMA TenancySteps ==
    ASSUME NEW s, NEW n \in Nat, StoreOK(s, n), NEW owner, NEW name, NEW policy, NEW secret, NEW at
    PROVE  /\ Made(s, WithTenant(s, name, n), n, n, secret, at)
           /\ Made(s, WithProject(s, owner, name, n), n, n, secret, at)
           /\ Made(s, WithMember(s, owner, name, n), n, n, secret, at)
           /\ Made(s, WithEnvironment(s, owner, name, policy, n), n, n, secret, at)
<1>1. ASSUME NEW kind \in {"tenant", "project", "member"}, NEW parent, NEW status
      PROVE  Made(s, Put(s, n, NewItem(kind, parent, name, status, n)), n, n, secret, at)
  <2>1. PICK item : item = NewItem(kind, parent, name, status, n)
    OBVIOUS
  <2>2. ItemOK(item) /\ item.kind # "api-key"
    BY <2>1, NewItemOK
  <2>3. PICK t : t = Put(s, n, item)
    OBVIOUS
  <2>4. Step(s, t, n, n) /\ t.items[n] = item
    BY <2>2, <2>3, NewStep
  <2>5. KeyCovered(t, Told(t, n, secret, at))
    BY <2>2, <2>4, NoKeyTold
  <2> QED
    BY <2>1, <2>3, <2>4, <2>5 DEF Made
<1>2. /\ Made(s, WithTenant(s, name, n), n, n, secret, at)
      /\ Made(s, WithProject(s, owner, name, n), n, n, secret, at)
      /\ Made(s, WithMember(s, owner, name, n), n, n, secret, at)
  BY <1>1 DEF WithTenant, WithProject, WithMember
<1>3. Made(s, WithEnvironment(s, owner, name, policy, n), n, n, secret, at)
  <2>1. PICK named : named = IF policy = None THEN n ELSE policy
    OBVIOUS
  <2>2. PICK env : env = [NewItem("environment", owner, name, "active", n) EXCEPT !.policy = named]
    OBVIOUS
  <2>3. ItemOK(env) /\ env.kind # "api-key"
    BY <2>2, NewEnvironmentOK
  <2>4. PICK t, u : t = Put(s, n, env) /\ u = WithPolicy(t, named)
    OBVIOUS
  <2>5. Step(s, u, n, n) /\ u.items[n] = env
    BY <2>3, <2>4, NewPolicyStep
  <2>6. KeyCovered(u, Told(u, n, secret, at))
    BY <2>3, <2>5, NoKeyTold
  <2>7. WithEnvironment(s, owner, name, policy, n) = u
    BY <2>1, <2>2, <2>4 DEF WithEnvironment, WithPolicy
  <2> QED
    BY <2>5, <2>6, <2>7 DEF Made
<1> QED
  BY <1>2, <1>3

\* Changes of environments and members.
LEMMA UpdateSteps ==
    ASSUME NEW s, NEW n \in Nat, StoreOK(s, n), NEW id \in DOMAIN s.items,
           s.items[id].kind # "api-key", NEW status, NEW policy, NEW secret, NEW at
    PROVE  /\ Made(s, UpdatedEnvironment(s, id, status, policy, n), id, n, secret, at)
           /\ Made(s, UpdatedMember(s, id, status, n), id, n, secret, at)
<1>1. ASSUME NEW p
      PROVE  Made(s, Put(s, id, NewVersion(s.items[id], status, p, n)), id, n, secret, at)
  <2>1. PICK t : t = Put(s, id, NewVersion(s.items[id], status, p, n))
    OBVIOUS
  <2>2. Step(s, t, id, n) /\ t.items[id].kind # "api-key"
    BY <2>1, NextStep
  <2> QED
    BY <2>1, <2>2, NoKeyTold DEF Made
<1>2. PICK p : p = IF policy = None THEN s.items[id].policy ELSE policy
  OBVIOUS
<1>3. UpdatedEnvironment(s, id, status, policy, n)
         = Put(s, id, NewVersion(s.items[id], status, p, n))
  BY <1>2, Zenon DEF UpdatedEnvironment
<1>4. UpdatedMember(s, id, status, n) = Put(s, id, NewVersion(s.items[id], status, None, n))
  BY DEF UpdatedMember
<1> QED
  BY <1>1, <1>3, <1>4

\* A change of an API key: of the secrets only that key's change, to the number
\* of the change or to none, and the one replaced is good for the grace period.
LEMMA KeyStep ==
    ASSUME NEW s, NEW n \in Nat, StoreOK(s, n), NEW at \in Nat,
           NEW id \in Nat, id <= n, NEW item, ItemOK(item), item.kind = "api-key",
           id \in DOMAIN s.items => /\ s.items[id].version < item.version
                                    /\ s.items[id].kind = item.kind
                                    /\ item.status = "active" => s.items[id].status = "active",
           NEW sec, NEW gr, IsMap(sec), IsMap(gr),
           \A k : k # id =>
              /\ k \in DOMAIN sec <=> k \in DOMAIN s.secret
              /\ k \in DOMAIN s.secret => sec[k] = s.secret[k]
              /\ k \in DOMAIN gr <=> k \in DOMAIN s.grace
              /\ k \in DOMAIN s.grace => gr[k] = s.grace[k],
           id \in DOMAIN sec <=> item.status = "active",
           id \in DOMAIN sec => sec[id] = n,
           id \in DOMAIN gr => /\ Grace > 0 /\ id \in DOMAIN s.secret /\ item.status = "active"
                               /\ gr[id] = [secret |-> s.secret[id], until |-> at + Grace],
           NEW secret, item.status = "active" => secret = n,
           NEW p, p = Put(s, id, item), NEW t, t = WithSecrets(p, sec, gr)
    PROVE  Made(s, t, id, n, secret, at)
<1>1. StoreShape(s) /\ ItemsOK(s.items, n) /\ SecretsOK(s.items, s.secret, s.grace, n)
  BY DEF StoreOK, StoreShape
<1>2. /\ StoreShape(p) /\ p.items = With(s.items, id, item) /\ p.cache = s.cache
  BY <1>1, PutFields
<1>3. /\ StoreShape(t) /\ t.items = With(s.items, id, item)
      /\ t.secret = sec /\ t.grace = gr /\ t.cache = s.cache
  BY <1>2, SecretFields
<1>4. /\ DOMAIN t.items = DOMAIN s.items \cup {id}
      /\ t.items[id] = item
      /\ \A k \in DOMAIN s.items : k # id => t.items[k] = s.items[k]
  <2>1. PICK items : items = s.items
    OBVIOUS
  <2>2. /\ DOMAIN With(items, id, item) = DOMAIN items \cup {id}
        /\ With(items, id, item)[id] = item
        /\ \A k \in DOMAIN items : k # id => With(items, id, item)[k] = items[k]
        /\ ItemsOK(With(items, id, item), n + 1)
    <3>1. ItemsOK(items, n)
      BY <1>1, <2>1
    <3> QED
      BY <3>1, PutItems, Zenon
  <2> QED
    BY <1>3, <2>1, <2>2
<1>5. \A k \in DOMAIN s.secret : s.secret[k] \in Nat /\ s.secret[k] < n
  BY <1>1 DEF SecretsOK
<1>6. /\ Grace \in Nat
      /\ id \in DOMAIN gr => gr[id].secret = s.secret[id] /\ gr[id].until = at + Grace
  BY StoreAssumption
<1>7. SecretsOK(t.items, sec, gr, n + 1)
  <2>1. ASSUME NEW k \in DOMAIN sec PROVE sec[k] \in Nat /\ sec[k] < n + 1
    <3>1. CASE k = id
      BY <3>1
    <3>2. CASE k # id
      <4>1. k \in DOMAIN s.secret /\ sec[k] = s.secret[k]
        BY <2>1, <3>2
      <4> QED
        BY <1>5, <4>1
    <3> QED
      BY <3>1, <3>2
  <2>2. ASSUME NEW k \in DOMAIN gr
        PROVE  /\ k \in DOMAIN t.items /\ Grace > 0
               /\ gr[k] = [secret |-> gr[k].secret, until |-> gr[k].until]
               /\ gr[k].secret \in Nat /\ gr[k].until \in Nat
    <3>1. CASE k = id
      <4>1. /\ Grace > 0 /\ id \in DOMAIN s.secret
            /\ gr[id] = [secret |-> s.secret[id], until |-> at + Grace]
        BY <2>2, <3>1
      <4>2. s.secret[id] \in Nat /\ at + Grace \in Nat
        BY <1>5, <1>6, <4>1
      <4> QED
        BY <1>4, <3>1, <4>1, <4>2
    <3>2. CASE k # id
      <4>1. k \in DOMAIN s.grace /\ gr[k] = s.grace[k]
        BY <2>2, <3>2
      <4> QED
        BY <1>1, <1>4, <4>1 DEF SecretsOK
    <3> QED
      BY <3>1, <3>2
  <2>3. ASSUME NEW k \in DOMAIN t.items, t.items[k].kind = "api-key", t.items[k].status = "active"
        PROVE  k \in DOMAIN sec
    <3>1. CASE k = id
      BY <1>4, <2>3, <3>1
    <3>2. CASE k # id
      BY <1>1, <1>4, <2>3, <3>2 DEF SecretsOK
    <3> QED
      BY <3>1, <3>2
  <2> QED
    BY <2>1, <2>2, <2>3 DEF SecretsOK
<1>8. ASSUME NEW e, Covers(s, e) PROVE KeyCovered(t, e.told)
  <2>1. PICK told : told = e.told
    OBVIOUS
  <2>2. /\ KeyCovered(s, told) /\ told.id \in DOMAIN s.items
        /\ told.item.kind = s.items[told.id].kind
    BY <1>8, <2>1 DEF Covers
  <2>3. CASE told.id # id
    <3>1. t.items[told.id] = s.items[told.id]
      BY <1>4, <2>2, <2>3
    <3>2. KeyCovered(t, told)
      BY <1>3, <2>2, <2>3, <3>1, KeyElsewhere
    <3> QED
      BY <2>1, <3>2
  <2>4. CASE told.id = id /\ told.item.kind = "api-key"
    <3>1. /\ told.item.status \in {"active", "revoked"}
          /\ told.item.status = "revoked" => s.items[id].status = "revoked"
          /\ told.item.status = "active" =>
                /\ told.secret \in Nat /\ told.at \in Nat
                /\ id \in DOMAIN s.secret => told.secret <= s.secret[id]
      BY <2>2, <2>4 DEF KeyCovered
    <3>2. /\ item.status \in {"active", "revoked"}
          /\ item.status = "active" => s.items[id].status = "active" /\ id \in DOMAIN s.secret
      <4>1. item.status = "active" => s.items[id].status = "active"
        BY <2>2, <2>4
      <4>2. s.items[id].kind = "api-key" /\ s.items[id].status = "active" => id \in DOMAIN s.secret
        BY <1>1, <2>2, <2>4 DEF SecretsOK
      <4> QED
        BY <2>2, <2>4, <4>1, <4>2 DEF ItemOK
    <3>3. told.item.status = "revoked" => t.items[id].status = "revoked"
      BY <1>4, <3>1, <3>2
    <3>4. ASSUME told.item.status = "active", id \in DOMAIN sec PROVE told.secret <= sec[id]
      <4>1. id \in DOMAIN s.secret /\ told.secret <= s.secret[id] /\ sec[id] = n
        BY <3>1, <3>2, <3>4
      <4>2. told.secret \in Nat /\ s.secret[id] \in Nat /\ s.secret[id] < n
        BY <1>5, <3>1, <3>4, <4>1
      <4> QED
        BY <4>1, <4>2
    <3>5. ASSUME told.item.status = "active", id \in DOMAIN gr PROVE told.secret <= gr[id].secret
      BY <1>6, <3>1, <3>5
    <3>6. KeyCovered(t, told)
      BY <1>3, <2>4, <3>1, <3>3, <3>4, <3>5 DEF KeyCovered
    <3> QED
      BY <2>1, <3>6
  <2>5. CASE told.item.kind # "api-key"
    BY <2>1, <2>5 DEF KeyCovered
  <2> QED
    BY <2>3, <2>4, <2>5
<1>9. Step(s, t, id, n)
  BY <1>3, <1>7, <1>8, StepFrom DEF StoreShape
<1>10. PICK told : told = Told(t, id, secret, at)
  OBVIOUS
<1>11. told.id = id /\ told.item = item /\ told.secret = secret /\ told.at = at
  BY <1>4, <1>10 DEF Told
<1>12. KeyCovered(t, told)
  <2>1. item.status \in {"active", "revoked"}
    BY DEF ItemOK
  <2>2. ASSUME item.status = "active"
        PROVE  /\ told.secret \in Nat
               /\ id \in DOMAIN sec => told.secret <= sec[id]
               /\ id \in DOMAIN gr => gr[id].until <= told.at + Grace
    BY <1>6, <1>11, <2>2
  <2> QED
    BY <1>3, <1>4, <1>11, <2>1, <2>2 DEF KeyCovered
<1> QED
  BY <1>9, <1>10, <1>12 DEF Made

\* API keys issued, rotated and revoked.
LEMMA KeyIssued ==
    ASSUME NEW s, NEW n \in Nat, StoreOK(s, n), NEW env, NEW scopes, NEW at \in Nat
    PROVE  Made(s, WithKey(s, env, scopes, n), n, n, n, at)
<1>1. PICK item : item = NewItem("api-key", env, scopes, "active", n)
  OBVIOUS
<1>2. ItemOK(item) /\ item.kind = "api-key" /\ item.status = "active"
  BY <1>1, NewItemOK
<1>3. PICK f, gr : f = s.secret /\ gr = s.grace
  OBVIOUS
<1>4. IsMap(f) /\ IsMap(gr) /\ DOMAIN gr \subseteq DOMAIN s.items
  BY <1>3 DEF StoreOK, SecretsOK
<1>5. PICK sec : sec = With(f, n, n)
  OBVIOUS
<1>6. DOMAIN sec = DOMAIN f \cup {n} /\ sec[n] = n /\ IsMap(sec)
      /\ \A k \in DOMAIN f : k # n => sec[k] = f[k]
  <2>1. /\ DOMAIN With(f, n, n) = DOMAIN f \cup {n}
        /\ With(f, n, n)[n] = n
        /\ \A k \in DOMAIN f : k # n => With(f, n, n)[k] = f[k]
        /\ IsMap(With(f, n, n))
    BY <1>4, WithEffect, Zenon
  <2> QED
    BY <1>5, <2>1
<1>7. n \notin DOMAIN s.items /\ n <= n
  BY DEF StoreOK, ItemsOK
<1>8. PICK p : p = Put(s, n, item)
  OBVIOUS
<1>9. PICK t : t = WithSecrets(p, sec, gr)
  OBVIOUS
<1>10. n \notin DOMAIN gr
  BY <1>4, <1>7
<1>11. \A k : k # n =>
              /\ k \in DOMAIN sec <=> k \in DOMAIN s.secret
              /\ k \in DOMAIN s.secret => sec[k] = s.secret[k]
              /\ k \in DOMAIN gr <=> k \in DOMAIN s.grace
              /\ k \in DOMAIN s.grace => gr[k] = s.grace[k]
  BY <1>3, <1>6
<1>12. Made(s, t, n, n, n, at)
  BY <1>2, <1>4, <1>6, <1>7, <1>8, <1>9, <1>10, <1>11, KeyStep
<1>13. t = WithKey(s, env, scopes, n)
  BY <1>1, <1>3, <1>5, <1>8, <1>9 DEF WithKey
<1> QED
  BY <1>12, <1>13

\* A rotation replaces the secret by a newer one.
LEMMA KeyRotated ==
    ASSUME NEW s, NEW n \in Nat, StoreOK(s, n), NEW at \in Nat, NEW id, MayRotate(s, id)
    PROVE  Made(s, Rotated(s, id, at, n), id, n, n, at)
<1>1. PICK x : x = s.items[id]
  OBVIOUS
<1>2. id \in DOMAIN s.items /\ x.kind = "api-key" /\ x.status = "active"
  BY <1>1 DEF MayRotate, Is
<1>3. ItemOK(x) /\ id \in Nat /\ id < n /\ id <= n /\ id \in DOMAIN s.secret
  BY <1>1, <1>2 DEF StoreOK, ItemsOK, SecretsOK
<1>4. PICK y : y = NewVersion(x, "active", None, n)
  OBVIOUS
<1>5. ItemOK(y) /\ x.version < y.version /\ y.kind = "api-key" /\ y.status = "active"
  BY <1>2, <1>3, <1>4, NewVersionOK
<1>6. PICK f, g : f = s.secret /\ g = s.grace
  OBVIOUS
<1>7. IsMap(f) /\ IsMap(g) /\ \A k \in DOMAIN g : Grace > 0
  BY <1>6 DEF StoreOK, SecretsOK
<1>8. PICK sec : sec = With(f, id, n)
  OBVIOUS
<1>9. DOMAIN sec = DOMAIN f \cup {id} /\ sec[id] = n /\ IsMap(sec)
      /\ \A k \in DOMAIN f : k # id => sec[k] = f[k]
  <2>1. /\ DOMAIN With(f, id, n) = DOMAIN f \cup {id}
        /\ With(f, id, n)[id] = n
        /\ \A k \in DOMAIN f : k # id => With(f, id, n)[k] = f[k]
        /\ IsMap(With(f, id, n))
    BY <1>7, WithEffect, Zenon
  <2> QED
    BY <1>8, <2>1
<1>10. PICK v : v = [secret |-> f[id], until |-> at + Grace]
  OBVIOUS
<1>11. PICK gr : gr = IF id \in DOMAIN f /\ Grace > 0 THEN With(g, id, v) ELSE g
  OBVIOUS
<1>12. /\ IsMap(gr)
       /\ \A k : k # id => (k \in DOMAIN gr <=> k \in DOMAIN g) /\ (k \in DOMAIN g => gr[k] = g[k])
       /\ id \in DOMAIN gr => Grace > 0 /\ gr[id] = v
  <2>1. CASE Grace > 0
    <3>1. gr = With(g, id, v)
      BY <1>3, <1>6, <1>11, <2>1
    <3>2. /\ DOMAIN With(g, id, v) = DOMAIN g \cup {id}
          /\ With(g, id, v)[id] = v
          /\ \A k \in DOMAIN g : k # id => With(g, id, v)[k] = g[k]
          /\ IsMap(With(g, id, v))
      BY <1>7, WithEffect, Zenon
    <3> QED
      BY <2>1, <3>1, <3>2
  <2>2. CASE ~(Grace > 0)
    BY <1>7, <1>11, <2>2
  <2> QED
    BY <2>1, <2>2
<1>13. PICK p : p = Put(s, id, y)
  OBVIOUS
<1>14. PICK t : t = WithSecrets(p, sec, gr)
  OBVIOUS
<1>15. \A k : k # id =>
              /\ k \in DOMAIN sec <=> k \in DOMAIN s.secret
              /\ k \in DOMAIN s.secret => sec[k] = s.secret[k]
              /\ k \in DOMAIN gr <=> k \in DOMAIN s.grace
              /\ k \in DOMAIN s.grace => gr[k] = s.grace[k]
  BY <1>6, <1>9, <1>12
<1>16. id \in DOMAIN gr => /\ Grace > 0 /\ id \in DOMAIN s.secret /\ y.status = "active"
                           /\ gr[id] = [secret |-> s.secret[id], until |-> at + Grace]
  BY <1>3, <1>5, <1>6, <1>10, <1>12
<1>17. id \in DOMAIN sec /\ s.items[id].version < y.version /\ s.items[id].kind = y.kind
       /\ s.items[id].status = "active"
  BY <1>1, <1>2, <1>5, <1>9
<1>18. Made(s, t, id, n, n, at)
  BY <1>3, <1>5, <1>9, <1>12, <1>13, <1>14, <1>15, <1>16, <1>17, KeyStep
<1>19. t = Rotated(s, id, at, n)
  BY <1>1, <1>4, <1>6, <1>8, <1>10, <1>11, <1>13, <1>14 DEF Rotated
<1> QED
  BY <1>18, <1>19

\* A revocation takes every secret of the key away.
LEMMA KeyRevoked ==
    ASSUME NEW s, NEW n \in Nat, StoreOK(s, n), NEW at \in Nat, NEW id, MayRevoke(s, id), NEW secret
    PROVE  Made(s, Revoked(s, id, n), id, n, secret, at)
<1>1. PICK x : x = s.items[id]
  OBVIOUS
<1>2. id \in DOMAIN s.items /\ x.kind = "api-key"
  BY <1>1 DEF MayRevoke, Is
<1>3. ItemOK(x) /\ id \in Nat /\ id < n /\ id <= n
  BY <1>1, <1>2 DEF StoreOK, ItemsOK
<1>4. PICK y : y = NewVersion(x, "revoked", None, n)
  OBVIOUS
<1>5. ItemOK(y) /\ x.version < y.version /\ y.kind = "api-key" /\ y.status = "revoked"
  BY <1>2, <1>3, <1>4, NewVersionOK
<1>6. PICK f, g : f = s.secret /\ g = s.grace
  OBVIOUS
<1>7. IsMap(f) /\ IsMap(g)
  BY <1>6 DEF StoreOK, SecretsOK
<1>8. PICK sec, gr : sec = Without(f, id) /\ gr = Without(g, id)
  OBVIOUS
<1>9. /\ DOMAIN sec = DOMAIN f \ {id} /\ IsMap(sec) /\ \A k \in DOMAIN f \ {id} : sec[k] = f[k]
      /\ DOMAIN gr = DOMAIN g \ {id} /\ IsMap(gr) /\ \A k \in DOMAIN g \ {id} : gr[k] = g[k]
  BY <1>7, <1>8, WithoutEffect
<1>10. PICK p : p = Put(s, id, y)
  OBVIOUS
<1>11. PICK t : t = WithSecrets(p, sec, gr)
  OBVIOUS
<1>12. \A k : k # id =>
              /\ k \in DOMAIN sec <=> k \in DOMAIN s.secret
              /\ k \in DOMAIN s.secret => sec[k] = s.secret[k]
              /\ k \in DOMAIN gr <=> k \in DOMAIN s.grace
              /\ k \in DOMAIN s.grace => gr[k] = s.grace[k]
  BY <1>6, <1>9
<1>13. /\ id \notin DOMAIN sec /\ id \notin DOMAIN gr /\ y.status # "active"
       /\ s.items[id].version < y.version /\ s.items[id].kind = y.kind
  BY <1>1, <1>2, <1>5, <1>9
<1>14. Made(s, t, id, n, secret, at)
  BY <1>3, <1>5, <1>9, <1>10, <1>11, <1>12, <1>13, KeyStep
<1>15. t = Revoked(s, id, n)
  BY <1>1, <1>4, <1>6, <1>8, <1>10, <1>11 DEF Revoked
<1> QED
  BY <1>14, <1>15

\* An answer is cached.
LEMMA RememberOK ==
    ASSUME NEW s, NEW n, StoreOK(s, n), NEW ck, NEW body, NEW told, Covers(s, [ck |-> Keyless, told |-> told]),
           NEW t, t = Remember(s, ck, body, told)
    PROVE  /\ StoreOK(t, n) /\ Grows(s, t) /\ Covers(t, [ck |-> ck, told |-> told])
           /\ t.items = s.items
           /\ DOMAIN t.cache = DOMAIN s.cache \cup {ck} /\ t.cache[ck].told = {told}
           /\ \A k \in DOMAIN s.cache : k # ck => t.cache[k] = s.cache[k]
<1>1. PICK a, b, c, d, e : s = [items |-> a, policies |-> b, secret |-> c, grace |-> d, cache |-> e]
  BY DEF StoreOK
<1>2. PICK v : v = [body |-> body, told |-> {told}]
  OBVIOUS
<1>3. PICK f : f = With(e, ck, v)
  OBVIOUS
<1>4. CacheOK(s) /\ IsMap(e)
  BY <1>1 DEF StoreOK, CacheOK
<1>5. /\ DOMAIN f = DOMAIN e \cup {ck} /\ f[ck] = v
      /\ \A k \in DOMAIN e : k # ck => f[k] = e[k]
      /\ IsMap(f)
  <2>1. /\ DOMAIN With(e, ck, v) = DOMAIN e \cup {ck}
        /\ With(e, ck, v)[ck] = v
        /\ \A k \in DOMAIN e : k # ck => With(e, ck, v)[k] = e[k]
        /\ IsMap(With(e, ck, v))
    BY <1>4, WithEffect, Zenon
  <2> QED
    BY <1>3, <2>1
<1>6. t = [items |-> a, policies |-> b, secret |-> c, grace |-> d, cache |-> f]
  BY <1>1, <1>2, <1>3 DEF Remember
<1>7. /\ t.items = s.items /\ t.secret = s.secret /\ t.grace = s.grace
      /\ s.cache = e /\ t.cache = f
      /\ t = [items |-> t.items, policies |-> t.policies, secret |-> t.secret,
              grace |-> t.grace, cache |-> t.cache]
  BY <1>1, <1>6
<1>8. Grows(s, t)
  BY <1>5, <1>7, SameCovered
<1>9. Covers(t, [ck |-> ck, told |-> told])
  <2>1. PICK x : x = [ck |-> Keyless, told |-> told]
    OBVIOUS
  <2>2. PICK y : y = [ck |-> ck, told |-> told]
    OBVIOUS
  <2>3. x.told = told /\ y.told = told /\ y.ck = ck
    BY <2>1, <2>2
  <2>4. Covers(t, x)
    BY <1>8, <2>1 DEF Grows
  <2>5. Covers(t, y)
    BY <1>5, <1>7, <2>3, <2>4 DEF Covers
  <2> QED
    BY <2>2, <2>5
<1>10. CacheOK(t)
  <2>1. ASSUME NEW k \in DOMAIN f
        PROVE  /\ f[k] = [body |-> f[k].body, told |-> f[k].told]
               /\ \A x \in f[k].told : Covers(t, [ck |-> k, told |-> x])
    <3>1. CASE k = ck
      BY <1>2, <1>5, <1>9, <3>1
    <3>2. CASE k # ck
      <4>1. k \in DOMAIN e /\ f[k] = e[k]
        BY <1>5, <2>1, <3>2
      <4>2. /\ e[k] = [body |-> e[k].body, told |-> e[k].told]
            /\ \A x \in e[k].told : Covers(s, [ck |-> k, told |-> x])
        BY <1>4, <1>7, <4>1 DEF CacheOK
      <4> QED
        BY <1>8, <4>1, <4>2 DEF Grows
    <3> QED
      BY <3>1, <3>2
  <2> QED
    BY <1>5, <1>7, <2>1 DEF CacheOK
<1>11. StoreOK(t, n)
  BY <1>7, <1>10 DEF StoreOK
<1>12. t.cache[ck].told = {told}
  BY <1>2, <1>5, <1>7
<1> QED
  BY <1>5, <1>7, <1>8, <1>9, <1>11, <1>12

\* A snapshot has the same resources, secrets and cache keys, and fewer answers.
LEMMA SnapshotOK ==
    ASSUME NEW s, NEW n, StoreOK(s, n), NEW t, t = Snapshot(s)
    PROVE  /\ StoreOK(t, n) /\ Grows(s, t) /\ Grows(t, s)
           /\ DOMAIN t.cache = DOMAIN s.cache
           /\ \A k \in DOMAIN s.cache : t.cache[k].told \subseteq s.cache[k].told
<1>1. PICK a, b, c, d, e : s = [items |-> a, policies |-> b, secret |-> c, grace |-> d, cache |-> e]
  BY DEF StoreOK
<1>2. PICK f : f = [ck \in DOMAIN e |->
                       IF ck[1] \in SecretBearing THEN [e[ck] EXCEPT !.told = {}] ELSE e[ck]]
  OBVIOUS
<1>3. t = [items |-> a, policies |-> b, secret |-> c, grace |-> d, cache |-> f]
  BY <1>1, <1>2 DEF Snapshot
<1>4. CacheOK(s)
  BY DEF StoreOK
<1>5. ASSUME NEW k \in DOMAIN e
      PROVE  /\ e[k] = [body |-> e[k].body, told |-> e[k].told]
             /\ \A x \in e[k].told : Covers(s, [ck |-> k, told |-> x])
             /\ f[k] = [body |-> f[k].body, told |-> f[k].told]
             /\ f[k].told \subseteq e[k].told
  <2>1. /\ e[k] = [body |-> e[k].body, told |-> e[k].told]
        /\ \A x \in e[k].told : Covers(s, [ck |-> k, told |-> x])
    BY <1>1, <1>4, <1>5 DEF CacheOK
  <2>2. CASE k[1] \in SecretBearing
    <3>1. f[k] = [e[k] EXCEPT !.told = {}]
      BY <1>2, <1>5, <2>2
    <3> QED
      BY <2>1, <3>1
  <2>3. CASE k[1] \notin SecretBearing
    <3>1. f[k] = e[k]
      BY <1>2, <1>5, <2>3
    <3> QED
      BY <2>1, <3>1
  <2> QED
    BY <2>2, <2>3
<1>6. DOMAIN f = DOMAIN e /\ IsMap(f)
  BY <1>2 DEF IsMap
<1>7. /\ t.items = s.items /\ t.secret = s.secret /\ t.grace = s.grace
      /\ s.cache = e /\ t.cache = f
      /\ t = [items |-> t.items, policies |-> t.policies, secret |-> t.secret,
              grace |-> t.grace, cache |-> t.cache]
  BY <1>1, <1>3
<1>8. Grows(s, t) /\ Grows(t, s)
  BY <1>6, <1>7, SameCovered
<1>9. CacheOK(t)
  <2>1. \A k \in DOMAIN f : \A x \in f[k].told : Covers(t, [ck |-> k, told |-> x])
    BY <1>5, <1>6, <1>8 DEF Grows
  <2> QED
    BY <1>5, <1>6, <1>7, <2>1 DEF CacheOK
<1>10. StoreOK(t, n)
  BY <1>7, <1>9 DEF StoreOK
<1>11. \A k \in DOMAIN s.cache : t.cache[k].told \subseteq s.cache[k].told
  BY <1>5, <1>7
<1> QED
  BY <1>6, <1>7, <1>8, <1>10, <1>11
-----------------------------------------------------------------------------
(* One replica: its store m, its handlers wk and its queue q. *)

\* A queue is a sequence, of whatever.
IsSeq(q) == \E S : q \in Seq(S)

\* What a handler that is not idle does.
BusyOK(w) == w = Doing(w.pc, w.ck, w.told) /\ w.pc \in {"auditing", "saving"}

\* The store covers what every handler is about to answer, and so does the
\* copy that a handler waits for.  Copies only grow along the queue, and the
\* store has grown beyond each of them.
ReplicaOK(m, wk, q, n) ==
    /\ StoreOK(m, n)
    /\ DOMAIN wk = Handlers
    /\ \A h \in Handlers : wk[h] = Idle \/ (BusyOK(wk[h]) /\ Covers(m, wk[h]))
    /\ IsSeq(q)
    /\ \A i \in 1 .. Len(q) :
          /\ q[i].handler \in Handlers
          /\ wk[q[i].handler].pc = "saving"
          /\ StoreOK(q[i].store, n)
          /\ Covers(q[i].store, wk[q[i].handler])
          /\ Grows(q[i].store, m)
    /\ \A i, j \in 1 .. Len(q) :
          i < j => Grows(q[i].store, q[j].store) /\ q[i].handler # q[j].handler

\* The replica's store and its copies have grown from the row.
LinkOK(rw, m, q) ==
    /\ Grows(rw, m)
    /\ \A i \in 1 .. Len(q) : Grows(rw, q[i].store)

\* A sequence with one element more.
LEMMA AppendFacts ==
    ASSUME NEW q, IsSeq(q), NEW e
    PROVE  /\ IsSeq(Append(q, e))
           /\ Len(q) \in Nat
           /\ Len(Append(q, e)) = Len(q) + 1
           /\ Append(q, e)[Len(q) + 1] = e
           /\ \A i \in 1 .. Len(q) : Append(q, e)[i] = q[i]
<1>1. PICK S : q \in Seq(S)
  BY DEF IsSeq
<1>2. PICK T : T = S \cup {e}
  OBVIOUS
<1>3. q \in Seq(T) /\ e \in T
  BY <1>1, <1>2
<1>4. Append(q, e) \in Seq(T)
  BY <1>3
<1> QED
  BY <1>3, <1>4 DEF IsSeq

\* A sequence without its first element.
LEMMA TailFacts ==
    ASSUME NEW q, IsSeq(q), q # << >>
    PROVE  /\ IsSeq(Tail(q))
           /\ Len(q) \in Nat /\ Len(q) >= 1
           /\ Len(Tail(q)) = Len(q) - 1
           /\ Head(q) = q[1]
           /\ \A i \in 1 .. Len(q) - 1 : Tail(q)[i] = q[i + 1]
<1>1. PICK S : q \in Seq(S)
  BY DEF IsSeq
<1>2. Tail(q) \in Seq(S)
  BY <1>1
<1> QED
  BY <1>1, <1>2 DEF IsSeq

\* What is covered of a handler is its cache key and its answer.
LEMMA SameEntry ==
    ASSUME NEW s, NEW x, NEW y, x.ck = y.ck, x.told = y.told, Covers(s, x)
    PROVE  Covers(s, y)
BY DEF Covers

\* Numbers may only grow.
LEMMA ReplicaLater ==
    ASSUME NEW m, NEW wk, NEW q, NEW n \in Nat, NEW o \in Nat, n <= o,
           ReplicaOK(m, wk, q, n)
    PROVE  ReplicaOK(m, wk, q, o)
<1>1. StoreOK(m, o)
  BY StoreOKLater DEF ReplicaOK
<1>2. \A i \in 1 .. Len(q) : StoreOK(q[i].store, o)
  BY StoreOKLater DEF ReplicaOK
<1> QED
  BY <1>1, <1>2 DEF ReplicaOK

\* A replica with nothing under way.
LEMMA ReplicaFresh ==
    ASSUME NEW m, NEW n, StoreOK(m, n)
    PROVE  ReplicaOK(m, [h \in Handlers |-> Idle], << >>, n)
<1>1. IsSeq(<< >>)
  <2>1. << >> \in Seq({})
    OBVIOUS
  <2> QED
    BY <2>1 DEF IsSeq
<1>2. 1 .. Len(<< >>) = {}
  OBVIOUS
<1>3. PICK wk : wk = [h \in Handlers |-> Idle]
  OBVIOUS
<1>4. DOMAIN wk = Handlers /\ \A h \in Handlers : wk[h] = Idle
  BY <1>3
<1>5. ReplicaOK(m, wk, << >>, n)
  <2>1. PICK q : q = << >> /\ IsSeq(q) /\ 1 .. Len(q) = {}
    BY <1>1, <1>2
  <2>2. IsSeq(q) /\ \A i \in 1 .. Len(q) : FALSE
    BY <2>1
  <2>3. ReplicaOK(m, wk, q, n)
    BY <1>4, <2>2, Zenon DEF ReplicaOK
  <2> QED
    BY <2>1, <2>3
<1> QED
  BY <1>3, <1>5

\* A route: the store changes, or keeps what it has, and a handler is busy.
LEMMA ReplicaStage ==
    ASSUME NEW m, NEW wk, NEW q, NEW n \in Nat, ReplicaOK(m, wk, q, n),
           NEW st, StoreOK(st, n), Grows(m, st),
           NEW h \in Handlers, wk[h] = Idle,
           NEW ck, NEW told, Covers(st, [ck |-> ck, told |-> told])
    PROVE  /\ ReplicaOK(st, [wk EXCEPT ![h] = Doing("auditing", ck, told)], q, n)
           /\ \A rw : LinkOK(rw, m, q) => LinkOK(rw, st, q)
<1>1. PICK w : w = Doing("auditing", ck, told)
  OBVIOUS
<1>2. BusyOK(w) /\ Covers(st, w)
  <2>1. PICK x : x = [ck |-> ck, told |-> told]
    OBVIOUS
  <2>2. x.ck = w.ck /\ x.told = w.told /\ BusyOK(w)
    BY <1>1, <2>1 DEF BusyOK, Doing
  <2> QED
    BY <2>1, <2>2, SameEntry
<1>3. PICK v : v = [wk EXCEPT ![h] = w]
  OBVIOUS
<1>4. DOMAIN v = Handlers /\ v[h] = w /\ \A g \in Handlers : g # h => v[g] = wk[g]
  BY <1>3 DEF ReplicaOK
<1>5. StoreOK(m, n)
  BY DEF ReplicaOK
<1>6. \A g \in Handlers : v[g] = Idle \/ (BusyOK(v[g]) /\ Covers(st, v[g]))
  <2> SUFFICES ASSUME NEW g \in Handlers
               PROVE  v[g] = Idle \/ (BusyOK(v[g]) /\ Covers(st, v[g]))
    OBVIOUS
  <2>1. CASE g = h
    BY <1>2, <1>4, <2>1
  <2>2. CASE g # h
    <3>1. v[g] = wk[g]
      BY <1>4, <2>2
    <3>2. wk[g] = Idle \/ (BusyOK(wk[g]) /\ Covers(m, wk[g]))
      BY DEF ReplicaOK
    <3> QED
      BY <3>1, <3>2 DEF Grows
  <2> QED
    BY <2>1, <2>2
<1>7. \A i \in 1 .. Len(q) :
         /\ q[i].handler \in Handlers
         /\ v[q[i].handler].pc = "saving"
         /\ StoreOK(q[i].store, n)
         /\ Covers(q[i].store, v[q[i].handler])
         /\ Grows(q[i].store, st)
  <2> SUFFICES ASSUME NEW i \in 1 .. Len(q)
               PROVE  /\ q[i].handler \in Handlers
                      /\ v[q[i].handler].pc = "saving"
                      /\ StoreOK(q[i].store, n)
                      /\ Covers(q[i].store, v[q[i].handler])
                      /\ Grows(q[i].store, st)
    OBVIOUS
  <2>1. /\ q[i].handler \in Handlers
        /\ wk[q[i].handler].pc = "saving"
        /\ StoreOK(q[i].store, n)
        /\ Covers(q[i].store, wk[q[i].handler])
        /\ Grows(q[i].store, m)
    BY DEF ReplicaOK
  <2>2. q[i].handler # h
    BY <2>1 DEF Idle
  <2>3. Grows(q[i].store, st)
    BY <2>1, GrowsTransitive
  <2> QED
    BY <1>4, <2>1, <2>2, <2>3
<1>8. ReplicaOK(st, v, q, n)
  BY <1>4, <1>6, <1>7 DEF ReplicaOK
<1>9. ASSUME NEW rw, LinkOK(rw, m, q)
      PROVE  LinkOK(rw, st, q)
  BY <1>9, GrowsTransitive DEF LinkOK
<1> QED
  BY <1>1, <1>3, <1>8, <1>9

\* The audit commits: a copy of the store ends the queue.
LEMMA ReplicaCommit ==
    ASSUME NEW m, NEW wk, NEW q, NEW n \in Nat, ReplicaOK(m, wk, q, n),
           NEW h \in Handlers, wk[h].pc = "auditing"
    PROVE  /\ ReplicaOK(m, [wk EXCEPT ![h].pc = "saving"],
                        Append(q, [handler |-> h, store |-> Snapshot(m)]), n)
           /\ \A rw : LinkOK(rw, m, q) =>
                 LinkOK(rw, m, Append(q, [handler |-> h, store |-> Snapshot(m)]))
<1>1. PICK c : c = Snapshot(m)
  OBVIOUS
<1>2. StoreOK(m, n) /\ StoreOK(c, n) /\ Grows(m, c) /\ Grows(c, m)
  BY <1>1, SnapshotOK DEF ReplicaOK
<1>3. PICK e : e = [handler |-> h, store |-> c]
  OBVIOUS
<1>4. PICK p : p = Append(q, e)
  OBVIOUS
<1>5. /\ IsSeq(p) /\ Len(q) \in Nat /\ Len(p) = Len(q) + 1 /\ p[Len(q) + 1] = e
      /\ \A i \in 1 .. Len(q) : p[i] = q[i]
  BY <1>4, AppendFacts DEF ReplicaOK
<1>6. BusyOK(wk[h]) /\ Covers(m, wk[h])
  BY DEF ReplicaOK, Idle
<1>7. PICK w : w = [wk[h] EXCEPT !.pc = "saving"]
  OBVIOUS
<1>8. BusyOK(w) /\ w.told = wk[h].told /\ w.ck = wk[h].ck /\ w.pc = "saving"
  <2>1. w = Doing("saving", wk[h].ck, wk[h].told)
    BY <1>6, <1>7 DEF BusyOK, Doing
  <2> QED
    BY <2>1 DEF BusyOK, Doing
<1>9. PICK v : v = [wk EXCEPT ![h] = w]
  OBVIOUS
<1>10. DOMAIN v = Handlers /\ v[h] = w /\ \A g \in Handlers : g # h => v[g] = wk[g]
  BY <1>9 DEF ReplicaOK
<1>11. \A g \in Handlers : v[g] = Idle \/ (BusyOK(v[g]) /\ Covers(m, v[g]))
  <2>1. Covers(m, w)
    BY <1>6, <1>8, SameEntry
  <2> QED
    BY <1>8, <1>10, <2>1 DEF ReplicaOK
<1>12. ASSUME NEW i \in 1 .. Len(p)
       PROVE  /\ p[i].handler \in Handlers
              /\ v[p[i].handler].pc = "saving"
              /\ StoreOK(p[i].store, n)
              /\ Covers(p[i].store, v[p[i].handler])
              /\ Grows(p[i].store, m)
              /\ i <= Len(q) => p[i] = q[i] /\ p[i].handler # h
  <2>1. CASE i = Len(q) + 1
    <3>1. p[i].handler = h /\ p[i].store = c
      BY <1>3, <1>5, <2>1
    <3>2. Covers(c, v[h])
      <4>1. Covers(c, wk[h])
        BY <1>2, <1>6 DEF Grows
      <4> QED
        BY <1>8, <1>10, <4>1, SameEntry
    <3>3. Grows(c, m)
      BY <1>2
    <3>4. ~(i <= Len(q))
      BY <1>5, <2>1
    <3> QED
      BY <1>2, <1>8, <1>10, <3>1, <3>2, <3>3, <3>4
  <2>2. CASE i # Len(q) + 1
    <3>1. i \in 1 .. Len(q) /\ p[i] = q[i]
      BY <1>5, <1>12, <2>2
    <3>2. /\ q[i].handler \in Handlers
          /\ wk[q[i].handler].pc = "saving"
          /\ StoreOK(q[i].store, n)
          /\ Covers(q[i].store, wk[q[i].handler])
          /\ Grows(q[i].store, m)
      BY <3>1 DEF ReplicaOK
    <3> QED
      BY <1>10, <3>1, <3>2
  <2> QED
    BY <2>1, <2>2
<1>13. ASSUME NEW i \in 1 .. Len(p), NEW j \in 1 .. Len(p), i < j
       PROVE  Grows(p[i].store, p[j].store) /\ p[i].handler # p[j].handler
  <2>1. i \in 1 .. Len(q) /\ i <= Len(q)
    BY <1>5, <1>13
  <2>2. CASE j = Len(q) + 1
    <3>1. p[j].handler = h /\ p[j].store = c
      BY <1>3, <1>5, <2>2
    <3>2. Grows(p[i].store, m) /\ p[i].handler # h
      BY <1>12, <2>1
    <3> QED
      BY <1>2, <3>1, <3>2, GrowsTransitive
  <2>3. CASE j # Len(q) + 1
    <3>1. j \in 1 .. Len(q)
      BY <1>5, <1>13, <2>3
    <3>2. Grows(q[i].store, q[j].store) /\ q[i].handler # q[j].handler
      BY <1>13, <2>1, <3>1 DEF ReplicaOK
    <3> QED
      BY <1>5, <2>1, <3>1, <3>2
  <2> QED
    BY <2>2, <2>3
<1>14. ReplicaOK(m, v, p, n)
  BY <1>2, <1>5, <1>10, <1>11, <1>12, <1>13 DEF ReplicaOK
<1>15. ASSUME NEW rw, LinkOK(rw, m, q)
       PROVE  LinkOK(rw, m, p)
  <2>1. Grows(rw, m) /\ \A i \in 1 .. Len(q) : Grows(rw, q[i].store)
    BY <1>15 DEF LinkOK
  <2>2. Grows(rw, c)
    BY <1>2, <2>1, GrowsTransitive
  <2>3. ASSUME NEW i \in 1 .. Len(p)
        PROVE  Grows(rw, p[i].store)
    <3>1. CASE i = Len(q) + 1
      BY <1>3, <1>5, <2>2, <3>1
    <3>2. CASE i # Len(q) + 1
      BY <1>5, <2>1, <2>3, <3>2
    <3> QED
      BY <3>1, <3>2
  <2> QED
    BY <2>1, <2>3 DEF LinkOK
<1>16. v = [wk EXCEPT ![h].pc = "saving"]
  BY <1>7, <1>9
<1>17. p = Append(q, [handler |-> h, store |-> Snapshot(m)])
  BY <1>1, <1>3, <1>4
<1> QED
  BY <1>14, <1>15, <1>16, <1>17

\* A handler that no copy names gives up.
LEMMA ReplicaIdle ==
    ASSUME NEW m, NEW wk, NEW q, NEW n, ReplicaOK(m, wk, q, n),
           NEW h \in Handlers, wk[h].pc = "auditing"
    PROVE  ReplicaOK(m, [wk EXCEPT ![h] = Idle], q, n)
<1>1. PICK v : v = [wk EXCEPT ![h] = Idle]
  OBVIOUS
<1>2. DOMAIN v = Handlers /\ v[h] = Idle /\ \A g \in Handlers : g # h => v[g] = wk[g]
  BY <1>1 DEF ReplicaOK
<1>3. \A i \in 1 .. Len(q) : q[i].handler \in Handlers /\ q[i].handler # h
  BY DEF ReplicaOK
<1>4. \A i \in 1 .. Len(q) : v[q[i].handler] = wk[q[i].handler]
  BY <1>2, <1>3
<1>5. \A g \in Handlers : v[g] = Idle \/ (BusyOK(v[g]) /\ Covers(m, v[g]))
  <2> SUFFICES ASSUME NEW g \in Handlers
               PROVE  v[g] = Idle \/ (BusyOK(v[g]) /\ Covers(m, v[g]))
    OBVIOUS
  <2>1. wk[g] = Idle \/ (BusyOK(wk[g]) /\ Covers(m, wk[g]))
    BY Zenon DEF ReplicaOK
  <2>2. CASE g = h
    BY <1>2, <2>2
  <2>3. CASE g # h
    BY <1>2, <2>1, <2>3
  <2> QED
    BY <2>2, <2>3
<1>6. ReplicaOK(m, v, q, n)
  BY <1>2, <1>4, <1>5 DEF ReplicaOK
<1> QED
  BY <1>1, <1>6

\* The write at the head of the queue ends.
LEMMA ReplicaWritten ==
    ASSUME NEW m, NEW wk, NEW q, NEW n, ReplicaOK(m, wk, q, n), q # << >>
    PROVE  /\ ReplicaOK(m, [wk EXCEPT ![Head(q).handler] = Idle], Tail(q), n)
           /\ LinkOK(Head(q).store, m, Tail(q))
           /\ \A rw : LinkOK(rw, m, q) => LinkOK(rw, m, Tail(q)) /\ Grows(rw, Head(q).store)
           /\ StoreOK(Head(q).store, n)
           /\ Covers(Head(q).store, wk[Head(q).handler])
<1>1. PICK p, h, c : p = Tail(q) /\ h = Head(q).handler /\ c = Head(q).store
  OBVIOUS
<1>2. /\ IsSeq(p) /\ Len(q) \in Nat /\ Len(q) >= 1 /\ Len(p) = Len(q) - 1 /\ Head(q) = q[1]
      /\ \A i \in 1 .. Len(q) - 1 : p[i] = q[i + 1]
  BY <1>1, TailFacts DEF ReplicaOK
<1>3. /\ 1 \in 1 .. Len(q)
      /\ \A i \in 1 .. Len(p) : i + 1 \in 1 .. Len(q) /\ 1 < i + 1 /\ p[i] = q[i + 1]
  BY <1>2
<1>4. /\ h \in Handlers /\ wk[h].pc = "saving" /\ StoreOK(c, n)
      /\ Covers(c, wk[h]) /\ Grows(c, m)
  BY <1>1, <1>2, <1>3 DEF ReplicaOK
<1>5. PICK v : v = [wk EXCEPT ![h] = Idle]
  OBVIOUS
<1>6. DOMAIN v = Handlers /\ v[h] = Idle /\ \A g \in Handlers : g # h => v[g] = wk[g]
  BY <1>4, <1>5 DEF ReplicaOK
<1>7. ASSUME NEW i \in 1 .. Len(p)
      PROVE  /\ p[i].handler \in Handlers
             /\ v[p[i].handler].pc = "saving"
             /\ StoreOK(p[i].store, n)
             /\ Covers(p[i].store, v[p[i].handler])
             /\ Grows(p[i].store, m)
             /\ Grows(c, p[i].store)
  <2>1. PICK k : k = i + 1 /\ k \in 1 .. Len(q) /\ 1 < k /\ p[i] = q[k]
    BY <1>3
  <2>2. /\ q[k].handler \in Handlers
        /\ wk[q[k].handler].pc = "saving"
        /\ StoreOK(q[k].store, n)
        /\ Covers(q[k].store, wk[q[k].handler])
        /\ Grows(q[k].store, m)
    BY <2>1 DEF ReplicaOK
  <2>3. Grows(c, q[k].store) /\ q[k].handler # h
    BY <1>1, <1>2, <1>3, <2>1 DEF ReplicaOK
  <2> QED
    BY <1>6, <2>1, <2>2, <2>3
<1>8. ASSUME NEW i \in 1 .. Len(p), NEW j \in 1 .. Len(p), i < j
      PROVE  Grows(p[i].store, p[j].store) /\ p[i].handler # p[j].handler
  <2>1. PICK k, l : /\ k \in 1 .. Len(q) /\ p[i] = q[k]
                    /\ l \in 1 .. Len(q) /\ p[j] = q[l] /\ k < l
    <3>1. PICK k : k = i + 1 /\ k \in 1 .. Len(q) /\ p[i] = q[k]
      BY <1>3
    <3>2. PICK l : l = j + 1 /\ l \in 1 .. Len(q) /\ p[j] = q[l]
      BY <1>3
    <3>3. k < l
      BY <1>8, <3>1, <3>2
    <3> QED
      BY <3>1, <3>2, <3>3
  <2> QED
    BY <2>1 DEF ReplicaOK
<1>9. \A g \in Handlers : v[g] = Idle \/ (BusyOK(v[g]) /\ Covers(m, v[g]))
  <2> SUFFICES ASSUME NEW g \in Handlers
               PROVE  v[g] = Idle \/ (BusyOK(v[g]) /\ Covers(m, v[g]))
    OBVIOUS
  <2>1. wk[g] = Idle \/ (BusyOK(wk[g]) /\ Covers(m, wk[g]))
    BY Zenon DEF ReplicaOK
  <2>2. CASE g = h
    BY <1>6, <2>2
  <2>3. CASE g # h
    BY <1>6, <2>1, <2>3
  <2> QED
    BY <2>2, <2>3
<1>10. ReplicaOK(m, v, p, n)
  <2>1. StoreOK(m, n)
    BY DEF ReplicaOK
  <2> QED
    BY <2>1, <1>2, <1>6, <1>7, <1>8, <1>9 DEF ReplicaOK
<1>11. LinkOK(c, m, p)
  BY <1>4, <1>7 DEF LinkOK
<1>12. ASSUME NEW rw, LinkOK(rw, m, q)
       PROVE  LinkOK(rw, m, p) /\ Grows(rw, c)
  BY <1>1, <1>2, <1>3, <1>12 DEF LinkOK
<1> QED
  BY <1>1, <1>4, <1>5, <1>10, <1>11, <1>12

-----------------------------------------------------------------------------
(* The replicas. *)

\* A replica that does not serve has nothing under way.
QuietOK(wk, q) == q = << >> /\ \A h \in Handlers : wk[h] = Idle

\* Every replica has its state.
DomainsOK ==
    /\ DOMAIN up = Replicas /\ DOMAIN synced = Replicas /\ DOMAIN mem = Replicas
    /\ DOMAIN work = Replicas /\ DOMAIN queue = Replicas

\* A replica's copies may replace the row while it has the row's version:
\* they have all grown from the row, which covers every answer.
DurInv ==
    /\ next \in Nat /\ 5 <= next /\ now \in Nat
    /\ DomainsOK
    /\ StoreOK(row, next)
    /\ \A r \in Replicas :
          /\ ReplicaOK(mem[r], work[r], queue[r], next)
          /\ up[r] \/ QuietOK(work[r], queue[r])
          /\ up[r] /\ synced[r] => LinkOK(row, mem[r], queue[r])
    /\ \A a \in answered : Covers(row, a)

\* The seed is a store, with numbers below 5.
LEMMA SeededOK == StoreOK(Seeded, 5)
<1>1. PICK i1, i2, i3, i4 :
         /\ i1 = NewItem("tenant", None, SeedName, "active", 1)
         /\ i2 = NewItem("project", 1, SeedName, "active", 2)
         /\ i3 = [NewItem("environment", 2, SeedName, "active", 3) EXCEPT !.policy = 3]
         /\ i4 = NewItem("member", 1, SeedName, "active", 4)
  OBVIOUS
<1>2. /\ ItemOK(i1) /\ ItemOK(i2) /\ ItemOK(i3) /\ ItemOK(i4)
      /\ i1.kind = "tenant" /\ i2.kind = "project" /\ i3.kind = "environment" /\ i4.kind = "member"
  BY <1>1 DEF NewItem, ItemOK
<1>3. PICK f : f = <<i1, i2, i3, i4>>
  OBVIOUS
<1>4. /\ DOMAIN f = 1 .. 4 /\ IsMap(f)
      /\ f[1] = i1 /\ f[2] = i2 /\ f[3] = i3 /\ f[4] = i4
  BY <1>3 DEF IsMap
<1>5. \A id \in DOMAIN f : id \in Nat /\ id < 5 /\ ItemOK(f[id]) /\ f[id].kind # "api-key"
  BY <1>2, <1>4
<1>6. PICK e : e = << >>
  OBVIOUS
<1>7. DOMAIN e = {} /\ IsMap(e)
  BY <1>6 DEF IsMap
<1>8. PICK t : t = Seeded
  OBVIOUS
<1>9. t = [items |-> f, policies |-> {3}, secret |-> e, grace |-> e, cache |-> e]
  BY <1>1, <1>3, <1>6, <1>8 DEF Seeded
<1>10. ItemsOK(f, 5) /\ SecretsOK(f, e, e, 5)
  BY <1>4, <1>5, <1>7 DEF ItemsOK, SecretsOK
<1>11. CacheOK(t)
  <2>1. t.cache = e
    BY <1>9
  <2> QED
    BY <1>7, <2>1 DEF CacheOK
<1> QED
  BY <1>8, <1>9, <1>10, <1>11 DEF StoreOK

\* The invariant holds at first.
LEMMA DurInit == Init => DurInv
<1> SUFFICES ASSUME Init PROVE DurInv
  OBVIOUS
<1>1. /\ next \in Nat /\ 5 <= next /\ now \in Nat /\ DomainsOK
      /\ row = Seeded /\ next = 5 /\ answered = {}
  BY DEF Init, DomainsOK
<1>2. StoreOK(Seeded, 5)
  BY SeededOK
<1>3. ASSUME NEW r \in Replicas
      PROVE  /\ ReplicaOK(mem[r], work[r], queue[r], next)
             /\ up[r] \/ QuietOK(work[r], queue[r])
             /\ up[r] /\ synced[r] => LinkOK(row, mem[r], queue[r])
  <2>1. /\ up[r] /\ mem[r] = Seeded
        /\ work[r] = [h \in Handlers |-> Idle] /\ queue[r] = << >>
    BY <1>3 DEF Init
  <2>2. ReplicaOK(mem[r], work[r], queue[r], next)
    BY <1>1, <1>2, <2>1, ReplicaFresh
  <2>3. Grows(row, mem[r])
    BY <1>1, <2>1 DEF Grows
  <2>4. 1 .. Len(queue[r]) = {}
    BY <2>1
  <2> QED
    BY <2>1, <2>2, <2>3, <2>4 DEF LinkOK
<1> QED
  BY <1>1, <1>2, <1>3 DEF DurInv

\* The answers in a cache.
Entries(st) ==
    UNION {{[ck |-> ck, told |-> told] : told \in st.cache[ck].told} : ck \in DOMAIN st.cache}

\* Two answers agree on a version of a resource, and on the change of a key.
Agree(a, b) ==
    /\ a.told.id = b.told.id /\ a.told.item.version = b.told.item.version
          => a.told.item = b.told.item
    /\ a.ck = b.ck /\ a.ck # Keyless => a.told = b.told

\* An answer that no answer covered by the store contradicts.
Fresh(s, e) == \A x : Covers(s, x) => Agree(x, e)

\* Every route stages a store that has grown from the replica's and covers
\* the answer, which is a cached one or new.
StageOK(r, h) ==
    \E st, ck, told :
       /\ StoreOK(st, next')
       /\ Grows(mem[r], st)
       /\ Covers(st, [ck |-> ck, told |-> told])
       /\ Stage(r, h, st, ck, told)
       /\ next' \in Nat /\ next <= next'
       /\ next' = next \/ (next' = next + 1 /\ next <= MaxNumber)
       /\ Entries(st) \subseteq Entries(mem[r]) \cup {[ck |-> ck, told |-> told]}
       /\ \/ [ck |-> ck, told |-> told] \in Entries(mem[r])
          \/ Fresh(mem[r], [ck |-> ck, told |-> told])

\* A staged change keeps the invariant.
LEMMA StageKeeps ==
    ASSUME DurInv, NEW r \in Replicas, NEW h \in Handlers, Free(r, h), StageOK(r, h)
    PROVE  DurInv'
<1>1. PICK st, ck, told :
         /\ StoreOK(st, next')
         /\ Grows(mem[r], st)
         /\ Covers(st, [ck |-> ck, told |-> told])
         /\ Stage(r, h, st, ck, told)
         /\ next' \in Nat /\ next <= next'
  BY DEF StageOK
<1>2. /\ next \in Nat /\ now \in Nat /\ DomainsOK /\ StoreOK(row, next)
      /\ up[r] /\ work[r][h] = Idle
  BY DEF DurInv, Free
<1>3. /\ mem' = [mem EXCEPT ![r] = st]
      /\ work' = [work EXCEPT ![r][h] = Doing("auditing", ck, told)]
      /\ up' = up /\ queue' = queue /\ synced' = synced /\ row' = row /\ answered' = answered
      /\ now' = now
  BY <1>1 DEF Stage
<1>4. /\ DomainsOK'
      /\ mem'[r] = st
      /\ work'[r] = [work[r] EXCEPT ![h] = Doing("auditing", ck, told)]
      /\ \A s \in Replicas : s # r => mem'[s] = mem[s] /\ work'[s] = work[s]
  BY <1>2, <1>3 DEF DomainsOK
<1>5. StoreOK(row, next')
  BY <1>1, <1>2, StoreOKLater
<1>6. ASSUME NEW s \in Replicas
      PROVE  /\ ReplicaOK(mem'[s], work'[s], queue[s], next')
             /\ up[s] \/ QuietOK(work'[s], queue[s])
             /\ up[s] /\ synced[s] => LinkOK(row, mem'[s], queue[s])
  <2>1. /\ ReplicaOK(mem[s], work[s], queue[s], next)
        /\ up[s] \/ QuietOK(work[s], queue[s])
        /\ up[s] /\ synced[s] => LinkOK(row, mem[s], queue[s])
    BY DEF DurInv
  <2>2. ReplicaOK(mem[s], work[s], queue[s], next')
    BY <1>1, <1>2, <2>1, ReplicaLater
  <2>3. CASE s = r
    <3>1. /\ ReplicaOK(st, [work[r] EXCEPT ![h] = Doing("auditing", ck, told)], queue[r], next')
          /\ \A rw : LinkOK(rw, mem[r], queue[r]) => LinkOK(rw, st, queue[r])
      BY <1>1, <1>2, <2>2, <2>3, ReplicaStage
    <3> QED
      BY <1>2, <1>4, <1>5, <2>1, <2>3, <3>1
  <2>4. CASE s # r
    BY <1>4, <2>1, <2>2, <2>4
  <2> QED
    BY <2>3, <2>4
<1>7. \A a \in answered : Covers(row, a)
  BY DEF DurInv
<1> QED
  BY <1>1, <1>2, <1>3, <1>4, <1>5, <1>6, <1>7 DEF DurInv

\* A change is covered by the store it made, and no answer had its version.
LEMMA ToldCovered ==
    ASSUME NEW s, NEW st, NEW id, NEW n, NEW secret, NEW at, StoreOK(s, n),
           Made(s, st, id, n, secret, at),
           NEW ck, ck = Keyless \/ ck \notin DOMAIN s.cache,
           NEW told, told = Told(st, id, secret, at)
    PROVE  Covers(st, [ck |-> Keyless, told |-> told]) /\ Fresh(s, [ck |-> ck, told |-> told])
<1>1. /\ Step(s, st, id, n) /\ KeyCovered(st, told)
      /\ id \in DOMAIN st.items /\ ItemOK(st.items[id])
  BY DEF Made, Step, StoreOK, ItemsOK
<1>2. st.items[id].version \in Nat
  BY <1>1 DEF ItemOK
<1>3. told.id = id /\ told.item = st.items[id]
  BY DEF Told
<1>4. PICK x : x = [ck |-> Keyless, told |-> told]
  OBVIOUS
<1>5. Covers(st, x)
  BY <1>1, <1>2, <1>3, <1>4 DEF Covers
<1>6. PICK e : e = [ck |-> ck, told |-> told]
  OBVIOUS
<1>7. ASSUME NEW y, Covers(s, y) PROVE Agree(y, e)
  <2>1. /\ y.told.id \in DOMAIN s.items /\ y.told.item.version \in Nat
        /\ y.told.item.version <= s.items[y.told.id].version
        /\ y.ck # Keyless => y.ck \in DOMAIN s.cache
    BY <1>7 DEF Covers
  <2>2. s.items[y.told.id].version \in Nat
    BY <2>1 DEF StoreOK, ItemsOK, ItemOK
  <2>3. y.told.id = id => y.told.item.version < st.items[id].version
    BY <1>1, <1>2, <2>1, <2>2 DEF Step
  <2>4. y.told.id = e.told.id => y.told.item.version # e.told.item.version
    BY <1>2, <1>3, <1>6, <2>1, <2>3
  <2>5. ~(y.ck = e.ck /\ y.ck # Keyless)
    BY <1>6, <2>1
  <2> QED
    BY <2>4, <2>5 DEF Agree
<1> QED
  BY <1>4, <1>5, <1>6, <1>7 DEF Fresh

\* A change without a key is staged as it must be.
LEMMA ChangeStages ==
    ASSUME DurInv, NEW r \in Replicas, NEW h \in Handlers,
           NEW may, NEW st, NEW id, may => Made(mem[r], st, id, next, None, now),
           Change(r, h, may, st, id)
    PROVE  StageOK(r, h)
<1>1. next \in Nat /\ next' = next + 1 /\ may /\ StoreOK(mem[r], next)
  BY DEF DurInv, Change, ReplicaOK
<1>2. PICK told : told = Told(st, id, None, now)
  OBVIOUS
<1>3. Stage(r, h, st, Keyless, told)
  BY <1>2 DEF Change
<1>4. Covers(st, [ck |-> Keyless, told |-> told]) /\ Fresh(mem[r], [ck |-> Keyless, told |-> told])
  BY <1>1, <1>2, ToldCovered
<1>5. StoreOK(st, next') /\ Grows(mem[r], st) /\ st.cache = mem[r].cache
  BY <1>1 DEF Made, Step
<1>6. next' \in Nat /\ next <= next' /\ next' = next + 1 /\ next <= MaxNumber
  BY <1>1 DEF Change
<1>7. Entries(st) = Entries(mem[r])
  BY <1>5 DEF Entries
<1> QED
  BY <1>3, <1>4, <1>5, <1>6, <1>7 DEF StageOK

\* So is a change with a key, and so is a cached answer.
LEMMA ChangeOnceStages ==
    ASSUME DurInv, NEW r \in Replicas, NEW h \in Handlers,
           NEW ck, NEW body, NEW may, NEW st, NEW id, NEW secret,
           may => Made(mem[r], st, id, next, secret, now),
           ChangeOnce(r, h, ck, body, may, st, id, secret)
    PROVE  StageOK(r, h)
<1>1. next \in Nat /\ StoreOK(mem[r], next)
  BY DEF DurInv, ReplicaOK
<1>2. CASE /\ \E told \in Replays(mem[r], ck, body) : Stage(r, h, mem[r], ck, told)
           /\ UNCHANGED next
  <2>1. PICK told \in Replays(mem[r], ck, body) : Stage(r, h, mem[r], ck, told)
    BY <1>2
  <2>2. ck \in DOMAIN mem[r].cache /\ told \in mem[r].cache[ck].told
    BY <2>1 DEF Replays, Cached
  <2>3. Covers(mem[r], [ck |-> ck, told |-> told])
    BY <1>1, <2>2 DEF StoreOK, CacheOK
  <2>4. Grows(mem[r], mem[r])
    BY DEF Grows
  <2>5. next' = next /\ next <= next'
    BY <1>1, <1>2
  <2>6. [ck |-> ck, told |-> told] \in Entries(mem[r])
    BY <2>2 DEF Entries
  <2> QED
    BY <1>1, <2>1, <2>3, <2>4, <2>5, <2>6 DEF StageOK
<1>3. CASE ~ /\ \E told \in Replays(mem[r], ck, body) : Stage(r, h, mem[r], ck, told)
             /\ UNCHANGED next
  <2>1. PICK told : told = Told(st, id, secret, now)
    OBVIOUS
  <2>2. PICK u : u = Remember(st, ck, body, told)
    OBVIOUS
  <2>3. Stage(r, h, u, ck, told) /\ next' = next + 1 /\ may /\ ck \notin DOMAIN mem[r].cache
    BY <1>3, <2>1, <2>2 DEF ChangeOnce, Cached
  <2>4. Covers(st, [ck |-> Keyless, told |-> told]) /\ Fresh(mem[r], [ck |-> ck, told |-> told])
    BY <1>1, <2>1, <2>3, ToldCovered
  <2>5. StoreOK(st, next') /\ Grows(mem[r], st) /\ st.cache = mem[r].cache
    BY <2>3 DEF Made, Step
  <2>6. /\ StoreOK(u, next') /\ Grows(st, u) /\ Covers(u, [ck |-> ck, told |-> told])
        /\ DOMAIN u.cache = DOMAIN st.cache \cup {ck} /\ u.cache[ck].told = {told}
        /\ \A k \in DOMAIN st.cache : k # ck => u.cache[k] = st.cache[k]
    BY <2>2, <2>4, <2>5, RememberOK
  <2>7. Grows(mem[r], u)
    BY <2>5, <2>6, GrowsTransitive
  <2>8. next' \in Nat /\ next <= next' /\ next' = next + 1 /\ next <= MaxNumber
    BY <1>1, <1>3, <2>3 DEF ChangeOnce
  <2>9. Entries(u) \subseteq Entries(mem[r]) \cup {[ck |-> ck, told |-> told]}
    <3> SUFFICES ASSUME NEW x \in Entries(u)
                 PROVE  x \in Entries(mem[r]) \/ x = [ck |-> ck, told |-> told]
      OBVIOUS
    <3>1. PICK k \in DOMAIN u.cache : \E y \in u.cache[k].told : x = [ck |-> k, told |-> y]
      BY DEF Entries
    <3>2. CASE k = ck
      BY <2>6, <3>1, <3>2
    <3>3. CASE k # ck
      <4>1. k \in DOMAIN mem[r].cache /\ u.cache[k] = mem[r].cache[k]
        BY <2>5, <2>6, <3>1, <3>3
      <4> QED
        BY <3>1, <4>1 DEF Entries
    <3> QED
      BY <3>2, <3>3
  <2> QED
    BY <2>3, <2>4, <2>6, <2>7, <2>8, <2>9 DEF StageOK
<1> QED
  BY <1>2, <1>3

\* Every route stages.
LEMMA RouteStages ==
    ASSUME DurInv, NEW r \in Replicas, NEW h \in Handlers, Route(r, h)
    PROVE  StageOK(r, h) /\ Free(r, h)
<1>1. next \in Nat /\ now \in Nat /\ StoreOK(mem[r], next)
  BY DEF DurInv, ReplicaOK
<1>2. CASE CreateTenant(r, h)
  <2>1. PICK k \in Keys, name \in Names :
           ChangeOnce(r, h, <<"tenant", None, k>>, name,
                      TRUE, WithTenant(mem[r], name, next), next, None)
    BY <1>2 DEF CreateTenant
  <2>2. Made(mem[r], WithTenant(mem[r], name, next), next, next, None, now)
    BY <1>1, TenancySteps
  <2>3. StageOK(r, h)
    BY <2>1, <2>2, ChangeOnceStages
  <2> QED
    BY <1>2, <2>3 DEF CreateTenant
<1>3. CASE CreateProject(r, h)
  <2>1. PICK tenant \in Owners(r, "tenant"), k \in Keys, slug \in Names :
           ChangeOnce(r, h, <<"project", tenant, k>>, slug,
                      MayAddProject(mem[r], tenant, slug),
                      WithProject(mem[r], tenant, slug, next), next, None)
    BY <1>3 DEF CreateProject
  <2>2. Made(mem[r], WithProject(mem[r], tenant, slug, next), next, next, None, now)
    BY <1>1, TenancySteps
  <2>3. StageOK(r, h)
    BY <2>1, <2>2, ChangeOnceStages
  <2> QED
    BY <1>3, <2>3 DEF CreateProject
<1>4. CASE CreateEnvironment(r, h)
  <2>1. PICK project \in Owners(r, "project"), k \in Keys, name \in Names,
             policy \in PolicyNames \cup {None} :
           ChangeOnce(r, h, <<"environment", project, k>>, <<name, policy>>,
                      TRUE, WithEnvironment(mem[r], project, name, policy, next), next, None)
    BY <1>4 DEF CreateEnvironment
  <2>2. Made(mem[r], WithEnvironment(mem[r], project, name, policy, next), next, next, None, now)
    BY <1>1, TenancySteps
  <2>3. StageOK(r, h)
    BY <2>1, <2>2, ChangeOnceStages
  <2> QED
    BY <1>4, <2>3 DEF CreateEnvironment
<1>5. CASE UpdateEnvironment(r, h)
  <2>1. PICK env \in Owners(r, "environment"), status \in {"active", "retired"},
             policy \in PolicyNames \cup {None}, version \in 1 .. MaxNumber :
           Change(r, h, MayUpdateEnvironment(mem[r], env, version),
                  UpdatedEnvironment(mem[r], env, status, policy, next), env)
    BY <1>5 DEF UpdateEnvironment
  <2>2. env \in DOMAIN mem[r].items /\ mem[r].items[env].kind # "api-key"
    BY DEF Owners
  <2>3. Made(mem[r], UpdatedEnvironment(mem[r], env, status, policy, next), env, next, None, now)
    BY <1>1, <2>2, UpdateSteps
  <2>4. StageOK(r, h)
    BY <2>1, <2>3, ChangeStages
  <2> QED
    BY <1>5, <2>4 DEF UpdateEnvironment
<1>6. CASE CreateMember(r, h)
  <2>1. PICK tenant \in Owners(r, "tenant"), k \in Keys, subject \in Names :
           ChangeOnce(r, h, <<"member", tenant, k>>, subject,
                      MayAddMember(mem[r], tenant, subject),
                      WithMember(mem[r], tenant, subject, next), next, None)
    BY <1>6 DEF CreateMember
  <2>2. Made(mem[r], WithMember(mem[r], tenant, subject, next), next, next, None, now)
    BY <1>1, TenancySteps
  <2>3. StageOK(r, h)
    BY <2>1, <2>2, ChangeOnceStages
  <2> QED
    BY <1>6, <2>3 DEF CreateMember
<1>7. CASE UpdateMember(r, h)
  <2>1. PICK member \in Owners(r, "member"), status \in {"active", "removed"} :
           Change(r, h, TRUE, UpdatedMember(mem[r], member, status, next), member)
    BY <1>7 DEF UpdateMember
  <2>2. member \in DOMAIN mem[r].items /\ mem[r].items[member].kind # "api-key"
    BY DEF Owners
  <2>3. Made(mem[r], UpdatedMember(mem[r], member, status, next), member, next, None, now)
    BY <1>1, <2>2, UpdateSteps
  <2>4. StageOK(r, h)
    BY <2>1, <2>3, ChangeStages
  <2> QED
    BY <1>7, <2>4 DEF UpdateMember
<1>8. CASE CreateApiKey(r, h)
  <2>1. PICK env \in Owners(r, "environment"), k \in Keys, scopes \in Names :
           ChangeOnce(r, h, <<"api-key", env, k>>, scopes,
                      TRUE, WithKey(mem[r], env, scopes, next), next, next)
    BY <1>8 DEF CreateApiKey
  <2>2. Made(mem[r], WithKey(mem[r], env, scopes, next), next, next, next, now)
    BY <1>1, KeyIssued
  <2>3. StageOK(r, h)
    BY <2>1, <2>2, ChangeOnceStages
  <2> QED
    BY <1>8, <2>3 DEF CreateApiKey
<1>9. CASE RotateApiKey(r, h)
  <2>1. PICK key \in Owners(r, "api-key"), k \in Keys :
           ChangeOnce(r, h, <<"api-key-rotate", key, k>>, None,
                      MayRotate(mem[r], key), Rotated(mem[r], key, now, next), key, next)
    BY <1>9 DEF RotateApiKey
  <2>2. MayRotate(mem[r], key) => Made(mem[r], Rotated(mem[r], key, now, next), key, next, next, now)
    BY <1>1, KeyRotated
  <2>3. StageOK(r, h)
    BY <2>1, <2>2, ChangeOnceStages
  <2> QED
    BY <1>9, <2>3 DEF RotateApiKey
<1>10. CASE RevokeApiKey(r, h)
  <2>1. PICK key \in Owners(r, "api-key"), k \in Keys :
           ChangeOnce(r, h, <<"api-key-revoke", key, k>>, None,
                      MayRevoke(mem[r], key), Revoked(mem[r], key, next), key, None)
    BY <1>10 DEF RevokeApiKey
  <2>2. MayRevoke(mem[r], key) => Made(mem[r], Revoked(mem[r], key, next), key, next, None, now)
    BY <1>1, KeyRevoked
  <2>3. StageOK(r, h)
    BY <2>1, <2>2, ChangeOnceStages
  <2> QED
    BY <1>10, <2>3 DEF RevokeApiKey
<1> QED
  BY <1>2, <1>3, <1>4, <1>5, <1>6, <1>7, <1>8, <1>9, <1>10 DEF Route

\* One replica's part of the invariant.
PartOK(r) ==
    /\ ReplicaOK(mem[r], work[r], queue[r], next)
    /\ up[r] \/ QuietOK(work[r], queue[r])
    /\ up[r] /\ synced[r] => LinkOK(row, mem[r], queue[r])

\* A step of one replica that leaves the others, the row, the numbers and the
\* answers alone keeps the invariant if it keeps that replica's part.
LEMMA OneReplica ==
    ASSUME DurInv, NEW r \in Replicas, PartOK(r)', DomainsOK',
           \A s \in Replicas : s # r =>
              /\ mem'[s] = mem[s] /\ work'[s] = work[s] /\ queue'[s] = queue[s]
              /\ up'[s] = up[s] /\ synced'[s] = synced[s],
           row' = row, next' = next, now' = now, answered' = answered
    PROVE  DurInv'
<1>1. ASSUME NEW s \in Replicas PROVE PartOK(s)'
  <2>1. CASE s = r
    BY <2>1
  <2>2. CASE s # r
    BY <2>2 DEF DurInv, PartOK
  <2> QED
    BY <2>1, <2>2
<1> QED
  BY <1>1 DEF DurInv, PartOK

\* So does the copy taken after the audit.
LEMMA AuditCommitsKeeps ==
    ASSUME DurInv, NEW r \in Replicas, NEW h \in Handlers, AuditCommits(r, h)
    PROVE  DurInv'
<1>1. /\ next \in Nat /\ DomainsOK /\ PartOK(r) /\ work[r][h].pc = "auditing"
      /\ ReplicaOK(mem[r], work[r], queue[r], next)
  BY DEF DurInv, PartOK, AuditCommits
<1>2. PICK wk, q : /\ wk = [work[r] EXCEPT ![h].pc = "saving"]
                   /\ q = Append(queue[r], [handler |-> h, store |-> Snapshot(mem[r])])
  OBVIOUS
<1>3. /\ work' = [work EXCEPT ![r] = wk] /\ queue' = [queue EXCEPT ![r] = q]
      /\ up' = up /\ mem' = mem /\ synced' = synced /\ row' = row /\ next' = next
      /\ answered' = answered /\ now' = now
  BY <1>2 DEF AuditCommits
<1>4. /\ DomainsOK' /\ work'[r] = wk /\ queue'[r] = q
      /\ \A s \in Replicas : s # r => work'[s] = work[s] /\ queue'[s] = queue[s]
  BY <1>1, <1>3 DEF DomainsOK
<1>5. /\ ReplicaOK(mem[r], wk, q, next)
      /\ LinkOK(row, mem[r], queue[r]) => LinkOK(row, mem[r], q)
  BY <1>1, <1>2, ReplicaCommit
<1>6. up[r]
  BY <1>1 DEF PartOK, QuietOK, Idle
<1>7. PartOK(r)'
  BY <1>1, <1>3, <1>4, <1>5, <1>6 DEF PartOK
<1> QED
  BY <1>3, <1>4, <1>7, OneReplica

\* So does a failed audit.
LEMMA AuditFailsKeeps ==
    ASSUME DurInv, NEW r \in Replicas, NEW h \in Handlers, AuditFails(r, h)
    PROVE  DurInv'
<1>1. /\ DomainsOK /\ PartOK(r) /\ work[r][h].pc = "auditing"
      /\ ReplicaOK(mem[r], work[r], queue[r], next)
  BY DEF DurInv, PartOK, AuditFails
<1>2. PICK wk : wk = [work[r] EXCEPT ![h] = Idle]
  OBVIOUS
<1>3. /\ work' = [work EXCEPT ![r] = wk] /\ queue' = queue
      /\ up' = up /\ mem' = mem /\ synced' = synced /\ row' = row /\ next' = next
      /\ answered' = answered /\ now' = now
  BY <1>2 DEF AuditFails
<1>4. /\ DomainsOK' /\ work'[r] = wk
      /\ \A s \in Replicas : s # r => work'[s] = work[s]
  BY <1>1, <1>3 DEF DomainsOK
<1>5. ReplicaOK(mem[r], wk, queue[r], next)
  BY <1>1, <1>2, ReplicaIdle
<1>6. up[r]
  BY <1>1 DEF PartOK, QuietOK, Idle
<1>7. PartOK(r)'
  BY <1>1, <1>3, <1>4, <1>5, <1>6 DEF PartOK
<1> QED
  BY <1>3, <1>4, <1>7, OneReplica

\* What the end of a write does to the replica and finds at its head.
WrittenOK(r) ==
    /\ up[r] /\ up' = up /\ mem' = mem /\ next' = next /\ now' = now
    /\ DOMAIN work' = Replicas /\ DOMAIN queue' = Replicas
    /\ \A s \in Replicas : s # r => work'[s] = work[s] /\ queue'[s] = queue[s]
    /\ ReplicaOK(mem[r], work'[r], queue'[r], next)
    /\ LinkOK(Head(queue[r]).store, mem[r], queue'[r])
    /\ \A rw : LinkOK(rw, mem[r], queue[r])
                 => LinkOK(rw, mem[r], queue'[r]) /\ Grows(rw, Head(queue[r]).store)
    /\ StoreOK(Head(queue[r]).store, next)
    /\ Covers(Head(queue[r]).store, work[r][Head(queue[r]).handler])

\* The end of a write is as described.
LEMMA WriteEnds ==
    ASSUME DurInv, NEW r \in Replicas, queue[r] # << >>, Written(r)
    PROVE  WrittenOK(r)
<1>1. DomainsOK /\ PartOK(r) /\ ReplicaOK(mem[r], work[r], queue[r], next)
  BY DEF DurInv, PartOK
<1>2. PICK h, wk, q : /\ h = Head(queue[r]).handler
                      /\ wk = [work[r] EXCEPT ![h] = Idle]
                      /\ q = Tail(queue[r])
  OBVIOUS
<1>3. /\ work' = [work EXCEPT ![r] = wk] /\ queue' = [queue EXCEPT ![r] = q]
      /\ up' = up /\ mem' = mem /\ next' = next /\ now' = now
  BY <1>2 DEF Written
<1>4. /\ DOMAIN work' = Replicas /\ DOMAIN queue' = Replicas
      /\ work'[r] = wk /\ queue'[r] = q
      /\ \A s \in Replicas : s # r => work'[s] = work[s] /\ queue'[s] = queue[s]
  BY <1>1, <1>3 DEF DomainsOK
<1>5. /\ ReplicaOK(mem[r], wk, q, next)
      /\ LinkOK(Head(queue[r]).store, mem[r], q)
      /\ \A rw : LinkOK(rw, mem[r], queue[r])
                   => LinkOK(rw, mem[r], q) /\ Grows(rw, Head(queue[r]).store)
      /\ StoreOK(Head(queue[r]).store, next)
      /\ Covers(Head(queue[r]).store, work[r][Head(queue[r]).handler])
  BY <1>1, <1>2, ReplicaWritten
<1>6. up[r]
  BY <1>1 DEF PartOK, QuietOK
<1> QED
  BY <1>3, <1>4, <1>5, <1>6 DEF WrittenOK

\* A refused write keeps the invariant.
LEMMA SaveFailsKeeps ==
    ASSUME DurInv, NEW r \in Replicas, SaveFails(r)
    PROVE  DurInv'
<1>1. /\ WrittenOK(r) /\ DomainsOK /\ PartOK(r)
      /\ row' = row /\ synced' = synced /\ answered' = answered
  BY WriteEnds DEF SaveFails, DurInv, PartOK
<1>2. DomainsOK'
  BY <1>1 DEF WrittenOK, DomainsOK
<1>3. PartOK(r)'
  BY <1>1 DEF WrittenOK, PartOK
<1>4. \A s \in Replicas : s # r =>
         /\ mem'[s] = mem[s] /\ work'[s] = work[s] /\ queue'[s] = queue[s]
         /\ up'[s] = up[s] /\ synced'[s] = synced[s]
  BY <1>1 DEF WrittenOK
<1> QED
  BY <1>1, <1>2, <1>3, <1>4, OneReplica DEF WrittenOK

\* The row takes the copy of a replica that has the row's version.
LEMMA RowReplaced ==
    ASSUME DurInv, NEW r \in Replicas, WrittenOK(r), synced[r],
           row' = Head(queue[r]).store, DOMAIN synced' = Replicas,
           \A s \in Replicas : synced'[s] => s = r
    PROVE  /\ DomainsOK' /\ StoreOK(row', next') /\ next' \in Nat /\ 5 <= next' /\ now' \in Nat
           /\ \A s \in Replicas : PartOK(s)'
           /\ \A a \in answered : Covers(row', a)
<1>1. /\ next \in Nat /\ 5 <= next /\ now \in Nat /\ DomainsOK /\ StoreOK(row, next)
      /\ \A s \in Replicas : PartOK(s)
      /\ \A a \in answered : Covers(row, a)
  BY DEF DurInv, PartOK
<1>2. DomainsOK'
  BY <1>1 DEF WrittenOK, DomainsOK
<1>3. StoreOK(row', next') /\ next' \in Nat /\ 5 <= next' /\ now' \in Nat
  BY <1>1 DEF WrittenOK
<1>4. ASSUME NEW s \in Replicas PROVE PartOK(s)'
  <2>1. CASE s = r
    <3>1. PartOK(r)'
      BY DEF WrittenOK, PartOK
    <3> QED
      BY <2>1, <3>1
  <2>2. CASE s # r
    <3>1. ~synced'[s] /\ PartOK(s)
      BY <1>1, <2>2
    <3> QED
      BY <2>2, <3>1 DEF WrittenOK, PartOK
  <2> QED
    BY <2>1, <2>2
<1>5. Grows(row, row')
  <2>1. LinkOK(row, mem[r], queue[r])
    BY <1>1 DEF PartOK, WrittenOK
  <2> QED
    BY <2>1 DEF WrittenOK
<1>6. \A a \in answered : Covers(row', a)
  BY <1>1, <1>5 DEF Grows
<1> QED
  BY <1>2, <1>3, <1>4, <1>6

\* A write that is answered keeps the invariant.
LEMMA SaveSucceedsKeeps ==
    ASSUME DurInv, NEW r \in Replicas, SaveSucceeds(r)
    PROVE  DurInv'
<1>1. PICK doing : doing = work[r][Head(queue[r]).handler]
  OBVIOUS
<1>2. /\ WrittenOK(r) /\ synced[r] /\ row' = Head(queue[r]).store
      /\ synced' = [s \in Replicas |-> s = r]
      /\ answered' = answered \cup {[ck |-> doing.ck, told |-> doing.told]}
  BY <1>1, WriteEnds DEF SaveSucceeds
<1>3. DOMAIN synced' = Replicas /\ \A s \in Replicas : synced'[s] => s = r
  BY <1>2
<1>4. /\ DomainsOK' /\ StoreOK(row', next') /\ next' \in Nat /\ 5 <= next' /\ now' \in Nat
      /\ \A s \in Replicas : PartOK(s)'
      /\ \A a \in answered : Covers(row', a)
  BY <1>2, <1>3, RowReplaced
<1>5. Covers(row', [ck |-> doing.ck, told |-> doing.told])
  <2>1. PICK e : e = [ck |-> doing.ck, told |-> doing.told]
    OBVIOUS
  <2>2. Covers(row', doing) /\ e.ck = doing.ck /\ e.told = doing.told
    BY <1>1, <1>2, <2>1 DEF WrittenOK
  <2>3. PICK rw : rw = row'
    OBVIOUS
  <2>4. Covers(rw, e)
    BY <2>2, <2>3, SameEntry
  <2> QED
    BY <2>1, <2>3, <2>4
<1>6. \A a \in answered' : Covers(row', a)
  BY <1>2, <1>4, <1>5
<1> QED
  BY <1>4, <1>6 DEF DurInv, PartOK

\* So does a write whose reply is lost.
LEMMA SaveUncertainKeeps ==
    ASSUME DurInv, NEW r \in Replicas, SaveUncertain(r)
    PROVE  DurInv'
<1>1. /\ WrittenOK(r) /\ synced[r] /\ row' = Head(queue[r]).store
      /\ synced' = [s \in Replicas |-> FALSE]
      /\ answered' = answered
  BY WriteEnds DEF SaveUncertain
<1>2. DOMAIN synced' = Replicas /\ \A s \in Replicas : synced'[s] => s = r
  BY <1>1
<1>3. /\ DomainsOK' /\ StoreOK(row', next') /\ next' \in Nat /\ 5 <= next' /\ now' \in Nat
      /\ \A s \in Replicas : PartOK(s)'
      /\ \A a \in answered : Covers(row', a)
  BY <1>1, <1>2, RowReplaced
<1> QED
  BY <1>1, <1>3 DEF DurInv, PartOK

\* So does a restart, whether or not the row can be restored.
LEMMA RestartKeeps ==
    ASSUME DurInv, NEW r \in Replicas, Restart(r)
    PROVE  DurInv'
<1>1. /\ next \in Nat /\ DomainsOK /\ StoreOK(row, next) /\ PartOK(r)
  BY DEF DurInv, PartOK
<1>2. PICK m, wk : /\ m = IF Restorable(row) THEN row ELSE Seeded
                   /\ wk = [h \in Handlers |-> Idle]
  OBVIOUS
<1>3. /\ mem' = [mem EXCEPT ![r] = m] /\ work' = [work EXCEPT ![r] = wk]
      /\ queue' = [queue EXCEPT ![r] = << >>]
      /\ up' = [up EXCEPT ![r] = Restorable(row)]
      /\ synced' = [synced EXCEPT ![r] = TRUE]
      /\ row' = row /\ next' = next /\ now' = now /\ answered' = answered
  BY <1>2 DEF Restart
<1>4. /\ DomainsOK'
      /\ mem'[r] = m /\ work'[r] = wk /\ queue'[r] = << >>
      /\ up'[r] = Restorable(row)
      /\ \A s \in Replicas : s # r =>
            /\ mem'[s] = mem[s] /\ work'[s] = work[s] /\ queue'[s] = queue[s]
            /\ up'[s] = up[s] /\ synced'[s] = synced[s]
  BY <1>1, <1>3 DEF DomainsOK
<1>5. \A h \in Handlers : wk[h] = Idle
  BY <1>2
<1>6. StoreOK(m, next)
  <2>1. CASE Restorable(row)
    BY <1>1, <1>2, <2>1
  <2>2. CASE ~Restorable(row)
    <3>1. StoreOK(Seeded, 5) /\ 5 <= next
      BY SeededOK DEF DurInv
    <3> QED
      BY <1>1, <1>2, <2>2, <3>1, StoreOKLater
  <2> QED
    BY <2>1, <2>2
<1>7. ReplicaOK(m, wk, << >>, next)
  BY <1>2, <1>6, ReplicaFresh
<1>8. Restorable(row) => LinkOK(row, m, << >>)
  <2>1. Grows(row, row)
    BY DEF Grows
  <2>2. 1 .. Len(<< >>) = {}
    OBVIOUS
  <2> QED
    BY <1>2, <2>1, <2>2 DEF LinkOK
<1>9. Restorable(row) \/ QuietOK(wk, << >>)
  BY <1>5 DEF QuietOK
<1>10. PartOK(r)'
  BY <1>3, <1>4, <1>7, <1>8, <1>9 DEF PartOK
<1> QED
  BY <1>3, <1>4, <1>10, OneReplica

\* Every step keeps the invariant.
LEMMA DurNext == DurInv /\ [Next]_vars => DurInv'
<1> SUFFICES ASSUME DurInv, [Next]_vars PROVE DurInv'
  OBVIOUS
<1>1. ASSUME NEW r \in Replicas, NEW h \in Handlers,
             Route(r, h) \/ AuditCommits(r, h) \/ AuditFails(r, h)
      PROVE  DurInv'
  BY <1>1, RouteStages, StageKeeps, AuditCommitsKeeps, AuditFailsKeeps
<1>2. ASSUME NEW r \in Replicas,
             SaveSucceeds(r) \/ SaveFails(r) \/ SaveUncertain(r) \/ Restart(r)
      PROVE  DurInv'
  BY <1>2, SaveSucceedsKeeps, SaveFailsKeeps, SaveUncertainKeeps, RestartKeeps
<1>3. CASE Tick \/ UNCHANGED vars
  <2>1. /\ up' = up /\ mem' = mem /\ work' = work /\ queue' = queue
        /\ synced' = synced /\ row' = row /\ next' = next /\ answered' = answered
    BY <1>3 DEF Tick, vars
  <2>2. now' \in Nat
    BY <1>3 DEF Tick, vars, DurInv
  <2> QED
    BY <2>1, <2>2 DEF DurInv, DomainsOK
<1> QED
  BY <1>1, <1>2, <1>3 DEF Next

\* A change that was answered is in the row, or a later version of it is
\* (store-persistence.ts:36-52, server.ts:359-365).
THEOREM Durable == Spec => []AnsweredIsDurable
<1>1. DurInv => AnsweredIsDurable
  BY DEF DurInv, Covers, AnsweredIsDurable
<1> QED
  BY DurInit, DurNext, <1>1, PTL DEF Spec
-----------------------------------------------------------------------------
(* Answers agree: those given, those in the row, and, on one replica, those *)
(* that are cached or under way.                                           *)

\* The answers that a handler of the replica is about to give, and those in
\* the caches of its store and its copies.
Pool(m, wk, q) ==
    {[ck |-> wk[h].ck, told |-> wk[h].told] : h \in {g \in Handlers : wk[g] # Idle}}
       \cup Entries(m)
       \cup UNION {Entries(q[i].store) : i \in 1 .. Len(q)}

\* No answer of the one set contradicts one of the other.
AllAgree(S, T) == \A a \in S, b \in T : Agree(a, b)

\* Agreement is symmetric, and an answer agrees with itself.
LEMMA AgreeFacts ==
    ASSUME NEW a, NEW b, Agree(a, b)
    PROVE  Agree(b, a) /\ Agree(a, a)
BY DEF Agree

\* A snapshot has no answer that the store has not.
LEMMA SnapshotEntries ==
    ASSUME NEW s, NEW n, StoreOK(s, n)
    PROVE  Entries(Snapshot(s)) \subseteq Entries(s)
<1>1. PICK t : t = Snapshot(s)
  OBVIOUS
<1>2. /\ DOMAIN t.cache = DOMAIN s.cache
      /\ \A k \in DOMAIN s.cache : t.cache[k].told \subseteq s.cache[k].told
  BY <1>1, SnapshotOK
<1>3. Entries(t) \subseteq Entries(s)
  BY <1>2 DEF Entries
<1> QED
  BY <1>1, <1>3

\* A replica's store covers all its answers.
LEMMA PoolCovered ==
    ASSUME NEW m, NEW wk, NEW q, NEW n, ReplicaOK(m, wk, q, n), NEW e \in Pool(m, wk, q)
    PROVE  Covers(m, e)
<1>1. CASE \E h \in Handlers : wk[h] # Idle /\ e = [ck |-> wk[h].ck, told |-> wk[h].told]
  <2>1. PICK h \in Handlers : wk[h] # Idle /\ e = [ck |-> wk[h].ck, told |-> wk[h].told]
    BY <1>1
  <2>2. Covers(m, wk[h])
    BY <2>1, Zenon DEF ReplicaOK
  <2>3. wk[h].ck = e.ck /\ wk[h].told = e.told
    BY <2>1
  <2> QED
    BY <2>2, <2>3, SameEntry
<1>2. ASSUME NEW s, NEW o, StoreOK(s, o), Grows(s, m), e \in Entries(s)
      PROVE  Covers(m, e)
  <2>1. PICK ck, told : /\ ck \in DOMAIN s.cache /\ told \in s.cache[ck].told
                        /\ e = [ck |-> ck, told |-> told]
    BY <1>2 DEF Entries
  <2>2. Covers(s, e)
    BY <1>2, <2>1 DEF StoreOK, CacheOK
  <2> QED
    BY <1>2, <2>2 DEF Grows
<1>3. CASE e \in Entries(m)
  <2>1. StoreOK(m, n) /\ Grows(m, m)
    BY DEF ReplicaOK, Grows
  <2> QED
    BY <1>2, <1>3, <2>1
<1>4. CASE \E i \in 1 .. Len(q) : e \in Entries(q[i].store)
  <2>1. PICK i \in 1 .. Len(q) : e \in Entries(q[i].store)
    BY <1>4
  <2>2. StoreOK(q[i].store, n) /\ Grows(q[i].store, m)
    BY DEF ReplicaOK
  <2> QED
    BY <1>2, <2>1, <2>2
<1> QED
  BY <1>1, <1>3, <1>4 DEF Pool

\* A route adds its answer to the replica's, if it was not one of them.
LEMMA PoolStage ==
    ASSUME NEW m, NEW wk, NEW q, NEW st, NEW e, NEW h \in Handlers, NEW ck, NEW told,
           DOMAIN wk = Handlers, e = [ck |-> ck, told |-> told],
           Entries(st) \subseteq Entries(m) \cup {e}
    PROVE  Pool(st, [wk EXCEPT ![h] = Doing("auditing", ck, told)], q)
              \subseteq Pool(m, wk, q) \cup {e}
<1>1. PICK w : w = Doing("auditing", ck, told)
  OBVIOUS
<1>2. w.ck = ck /\ w.told = told
  BY <1>1 DEF Doing
<1>3. PICK v : v = [wk EXCEPT ![h] = w]
  OBVIOUS
<1>4. v[h] = w /\ \A g \in Handlers : g # h => v[g] = wk[g]
  BY <1>3
<1>5. ASSUME NEW x \in Pool(st, v, q) PROVE x \in Pool(m, wk, q) \/ x = e
  <2>1. CASE \E g \in Handlers : v[g] # Idle /\ x = [ck |-> v[g].ck, told |-> v[g].told]
    <3>1. PICK g \in Handlers : v[g] # Idle /\ x = [ck |-> v[g].ck, told |-> v[g].told]
      BY <2>1
    <3>2. CASE g = h
      BY <1>2, <1>4, <3>1, <3>2
    <3>3. CASE g # h
      BY <1>4, <3>1, <3>3 DEF Pool
    <3> QED
      BY <3>2, <3>3
  <2>2. CASE x \in Entries(st)
    BY <2>2 DEF Pool
  <2>3. CASE \E i \in 1 .. Len(q) : x \in Entries(q[i].store)
    BY <2>3 DEF Pool
  <2> QED
    BY <1>5, <2>1, <2>2, <2>3 DEF Pool
<1> QED
  BY <1>1, <1>3, <1>5

\* A copy adds nothing to a replica's answers.
LEMMA PoolCommit ==
    ASSUME NEW m, NEW wk, NEW q, NEW n, ReplicaOK(m, wk, q, n),
           NEW h \in Handlers, wk[h].pc = "auditing"
    PROVE  Pool(m, [wk EXCEPT ![h].pc = "saving"],
                Append(q, [handler |-> h, store |-> Snapshot(m)])) \subseteq Pool(m, wk, q)
<1>1. PICK c : c = Snapshot(m)
  OBVIOUS
<1>2. Entries(c) \subseteq Entries(m)
  BY <1>1, SnapshotEntries DEF ReplicaOK
<1>3. PICK e : e = [handler |-> h, store |-> c]
  OBVIOUS
<1>4. PICK p : p = Append(q, e)
  OBVIOUS
<1>5. /\ Len(q) \in Nat /\ Len(p) = Len(q) + 1 /\ p[Len(q) + 1] = e
      /\ \A i \in 1 .. Len(q) : p[i] = q[i]
  BY <1>4, AppendFacts DEF ReplicaOK
<1>6. BusyOK(wk[h]) /\ wk[h] # Idle
  BY DEF ReplicaOK, Idle
<1>7. PICK w : w = [wk[h] EXCEPT !.pc = "saving"]
  OBVIOUS
<1>8. w.told = wk[h].told /\ w.ck = wk[h].ck
  BY <1>6, <1>7 DEF BusyOK, Doing
<1>9. PICK v : v = [wk EXCEPT ![h] = w]
  OBVIOUS
<1>10. v[h] = w /\ \A g \in Handlers : g # h => v[g] = wk[g]
  BY <1>9 DEF ReplicaOK
<1>11. ASSUME NEW x \in Pool(m, v, p) PROVE x \in Pool(m, wk, q)
  <2>1. CASE \E g \in Handlers : v[g] # Idle /\ x = [ck |-> v[g].ck, told |-> v[g].told]
    <3>1. PICK g \in Handlers : v[g] # Idle /\ x = [ck |-> v[g].ck, told |-> v[g].told]
      BY <2>1
    <3>2. wk[g] # Idle /\ x = [ck |-> wk[g].ck, told |-> wk[g].told]
      BY <1>6, <1>8, <1>10, <3>1
    <3> QED
      BY <3>2 DEF Pool
  <2>2. CASE x \in Entries(m)
    BY <2>2 DEF Pool
  <2>3. CASE \E i \in 1 .. Len(p) : x \in Entries(p[i].store)
    <3>1. PICK i \in 1 .. Len(p) : x \in Entries(p[i].store)
      BY <2>3
    <3>2. CASE i = Len(q) + 1
      BY <1>2, <1>3, <1>5, <3>1, <3>2 DEF Pool
    <3>3. CASE i # Len(q) + 1
      <4>1. i \in 1 .. Len(q) /\ x \in Entries(q[i].store)
        BY <1>5, <3>1, <3>3
      <4> QED
        BY <4>1 DEF Pool
    <3> QED
      BY <3>2, <3>3
  <2> QED
    BY <1>11, <2>1, <2>2, <2>3 DEF Pool
<1> QED
  BY <1>1, <1>3, <1>4, <1>7, <1>9, <1>11

\* A handler that becomes idle, and a queue with a copy less, leave fewer.
LEMMA PoolLess ==
    ASSUME NEW m, NEW wk, NEW q, NEW p, NEW h \in Handlers, DOMAIN wk = Handlers,
           \A i \in 1 .. Len(p) : \E j \in 1 .. Len(q) : p[i] = q[j]
    PROVE  Pool(m, [wk EXCEPT ![h] = Idle], p) \subseteq Pool(m, wk, q)
<1>1. PICK v : v = [wk EXCEPT ![h] = Idle]
  OBVIOUS
<1>2. v[h] = Idle /\ \A g \in Handlers : g # h => v[g] = wk[g]
  BY <1>1
<1>3. ASSUME NEW x \in Pool(m, v, p) PROVE x \in Pool(m, wk, q)
  <2>1. CASE \E g \in Handlers : v[g] # Idle /\ x = [ck |-> v[g].ck, told |-> v[g].told]
    BY <1>2, <2>1 DEF Pool
  <2>2. CASE x \in Entries(m)
    BY <2>2 DEF Pool
  <2>3. CASE \E i \in 1 .. Len(p) : x \in Entries(p[i].store)
    <3>1. PICK i \in 1 .. Len(p) : x \in Entries(p[i].store)
      BY <2>3
    <3>2. PICK j \in 1 .. Len(q) : x \in Entries(q[j].store)
      BY <3>1
    <3> QED
      BY <3>2 DEF Pool
  <2> QED
    BY <1>3, <2>1, <2>2, <2>3 DEF Pool
<1> QED
  BY <1>1, <1>3

\* What a write ends with was among the replica's answers.
LEMMA PoolWritten ==
    ASSUME NEW m, NEW wk, NEW q, NEW n, ReplicaOK(m, wk, q, n), q # << >>,
           NEW doing, doing = wk[Head(q).handler]
    PROVE  /\ Pool(m, [wk EXCEPT ![Head(q).handler] = Idle], Tail(q)) \subseteq Pool(m, wk, q)
           /\ Entries(Head(q).store) \subseteq Pool(m, wk, q)
           /\ [ck |-> doing.ck, told |-> doing.told] \in Pool(m, wk, q)
<1>1. PICK p, h : p = Tail(q) /\ h = Head(q).handler
  OBVIOUS
<1>2. /\ Len(q) \in Nat /\ Len(q) >= 1 /\ Len(p) = Len(q) - 1 /\ Head(q) = q[1]
      /\ \A i \in 1 .. Len(q) - 1 : p[i] = q[i + 1]
  BY <1>1, TailFacts DEF ReplicaOK
<1>3. 1 \in 1 .. Len(q) /\ h \in Handlers /\ wk[h].pc = "saving"
  BY <1>1, <1>2 DEF ReplicaOK
<1>4. \A i \in 1 .. Len(p) : i + 1 \in 1 .. Len(q) /\ p[i] = q[i + 1]
  BY <1>2
<1>5. \A i \in 1 .. Len(p) : \E j \in 1 .. Len(q) : p[i] = q[j]
  BY <1>4
<1>6. DOMAIN wk = Handlers
  BY DEF ReplicaOK
<1>7. Pool(m, [wk EXCEPT ![h] = Idle], p) \subseteq Pool(m, wk, q)
  BY <1>3, <1>5, <1>6, PoolLess
<1>8. Entries(Head(q).store) \subseteq Pool(m, wk, q)
  BY <1>2, <1>3 DEF Pool
<1>9. wk[h] # Idle
  BY <1>3 DEF Idle
<1>10. [ck |-> doing.ck, told |-> doing.told] \in Pool(m, wk, q)
  BY <1>1, <1>3, <1>9 DEF Pool
<1> QED
  BY <1>1, <1>7, <1>8, <1>10

\* The answers of a replica.
PoolOf(r) == Pool(mem[r], work[r], queue[r])

\* The answers given, and those cached in the row.
Published == answered \cup Entries(row)

\* What is published agrees; what a replica has agrees, and while it has the
\* row's version it agrees with what is published.
AgreeInv ==
    /\ \A a \in answered : a = [ck |-> a.ck, told |-> a.told]
    /\ AllAgree(Published, Published)
    /\ \A r \in Replicas :
          /\ AllAgree(PoolOf(r), PoolOf(r))
          /\ up[r] /\ synced[r] => AllAgree(PoolOf(r), Published)

\* The seed has no cached answers.
LEMMA SeedHasNone == Entries(Seeded) = {}
<1>1. PICK st : st = Seeded
  OBVIOUS
<1>2. st.cache = << >>
  BY <1>1 DEF Seeded
<1>3. DOMAIN st.cache = {}
  BY <1>2
<1> QED
  BY <1>1, <1>3 DEF Entries

\* Nothing is cached at first.
LEMMA AgreeInit == Init => AgreeInv
<1> SUFFICES ASSUME Init PROVE AgreeInv
  OBVIOUS
<1>1. Entries(Seeded) = {}
  BY SeedHasNone
<1>2. Published = {} /\ answered = {}
  BY <1>1 DEF Init, Published
<1>3. ASSUME NEW r \in Replicas PROVE PoolOf(r) = {}
  <2>1. /\ mem[r] = Seeded /\ queue[r] = << >>
        /\ \A h \in Handlers : work[r][h] = Idle
    BY DEF Init
  <2>2. 1 .. Len(queue[r]) = {}
    BY <2>1
  <2> QED
    BY <1>1, <2>1, <2>2 DEF PoolOf, Pool
<1> QED
  BY <1>2, <1>3 DEF AgreeInv, AllAgree

\* The row covers what is published.
LEMMA PublishedCovered ==
    ASSUME DurInv, NEW x \in Published
    PROVE  Covers(row, x)
<1>1. StoreOK(row, next) /\ \A a \in answered : Covers(row, a)
  BY DEF DurInv
<1>2. CASE x \in Entries(row)
  <2>1. PICK ck, told : /\ ck \in DOMAIN row.cache /\ told \in row.cache[ck].told
                        /\ x = [ck |-> ck, told |-> told]
    BY <1>2 DEF Entries
  <2> QED
    BY <1>1, <2>1 DEF StoreOK, CacheOK
<1> QED
  BY <1>1, <1>2 DEF Published

\* A step of one replica that publishes nothing and whose answers agree with
\* those it could meet.
LEMMA AgreeStep ==
    ASSUME AgreeInv, NEW r \in Replicas,
           \A s \in Replicas : s # r =>
              /\ mem'[s] = mem[s] /\ work'[s] = work[s] /\ queue'[s] = queue[s]
              /\ up'[s] = up[s] /\ synced'[s] = synced[s],
           row' = row, answered' = answered,
           AllAgree(PoolOf(r)', PoolOf(r)'),
           up'[r] /\ synced'[r] => AllAgree(PoolOf(r)', Published)
    PROVE  AgreeInv'
<1>1. Published' = Published
  BY DEF Published
<1>2. \A s \in Replicas : s # r => PoolOf(s)' = PoolOf(s)
  BY DEF PoolOf
<1> QED
  BY <1>1, <1>2 DEF AgreeInv

\* A step of one replica that publishes nothing and leaves it with no other
\* answers.
LEMMA AgreeLess ==
    ASSUME AgreeInv, NEW r \in Replicas,
           \A s \in Replicas : s # r =>
              /\ mem'[s] = mem[s] /\ work'[s] = work[s] /\ queue'[s] = queue[s],
           up' = up, synced' = synced, row' = row, answered' = answered,
           PoolOf(r)' \subseteq PoolOf(r)
    PROVE  AgreeInv'
<1>1. AllAgree(PoolOf(r)', PoolOf(r)')
  BY DEF AgreeInv, AllAgree
<1>2. up'[r] /\ synced'[r] => AllAgree(PoolOf(r)', Published)
  BY DEF AgreeInv, AllAgree
<1> QED
  BY <1>1, <1>2, AgreeStep

\* A staged answer agrees with all that the replica's store covers.
LEMMA StageAgrees ==
    ASSUME DurInv, AgreeInv, NEW r \in Replicas, NEW h \in Handlers, Free(r, h), StageOK(r, h)
    PROVE  AgreeInv'
<1>1. PICK st, ck, told :
         /\ Stage(r, h, st, ck, told)
         /\ Entries(st) \subseteq Entries(mem[r]) \cup {[ck |-> ck, told |-> told]}
         /\ \/ [ck |-> ck, told |-> told] \in Entries(mem[r])
            \/ Fresh(mem[r], [ck |-> ck, told |-> told])
  BY DEF StageOK
<1>2. PICK e : e = [ck |-> ck, told |-> told]
  OBVIOUS
<1>3. DomainsOK /\ PartOK(r) /\ DOMAIN work[r] = Handlers
  BY DEF DurInv, PartOK, ReplicaOK
<1>4. /\ mem' = [mem EXCEPT ![r] = st]
      /\ work' = [work EXCEPT ![r][h] = Doing("auditing", ck, told)]
      /\ up' = up /\ queue' = queue /\ synced' = synced /\ row' = row /\ answered' = answered
  BY <1>1 DEF Stage
<1>5. /\ mem'[r] = st /\ queue'[r] = queue[r]
      /\ work'[r] = [work[r] EXCEPT ![h] = Doing("auditing", ck, told)]
      /\ \A s \in Replicas : s # r =>
            /\ mem'[s] = mem[s] /\ work'[s] = work[s] /\ queue'[s] = queue[s]
            /\ up'[s] = up[s] /\ synced'[s] = synced[s]
  BY <1>3, <1>4 DEF DomainsOK
<1>6. PoolOf(r)' \subseteq PoolOf(r) \cup {e}
  <2>1. Entries(st) \subseteq Entries(mem[r]) \cup {e}
    BY <1>1, <1>2
  <2>2. Pool(st, [work[r] EXCEPT ![h] = Doing("auditing", ck, told)], queue[r])
           \subseteq PoolOf(r) \cup {e}
    BY <1>2, <1>3, <2>1, PoolStage DEF PoolOf
  <2> QED
    BY <1>5, <2>2 DEF PoolOf
<1>7. \A x \in PoolOf(r) : Covers(mem[r], x)
  BY <1>3, PoolCovered DEF PartOK, PoolOf
<1>8. AllAgree(PoolOf(r), PoolOf(r))
  BY DEF AgreeInv
<1>9. CASE e \in Entries(mem[r])
  <2>1. PoolOf(r)' \subseteq PoolOf(r)
    BY <1>6, <1>9 DEF PoolOf, Pool
  <2> QED
    BY <1>4, <1>5, <2>1, AgreeLess
<1>10. CASE Fresh(mem[r], e)
  <2>1. Agree(e, e)
    BY DEF Agree
  <2>2. \A x \in PoolOf(r) : Agree(x, e) /\ Agree(e, x)
    BY <1>7, <1>10, AgreeFacts DEF Fresh
  <2>3. AllAgree(PoolOf(r)', PoolOf(r)')
    <3> SUFFICES ASSUME NEW a \in PoolOf(r)', NEW b \in PoolOf(r)' PROVE Agree(a, b)
      BY DEF AllAgree
    <3>1. (a \in PoolOf(r) \/ a = e) /\ (b \in PoolOf(r) \/ b = e)
      BY <1>6
    <3>2. a \in PoolOf(r) /\ b \in PoolOf(r) => Agree(a, b)
      BY <1>8 DEF AllAgree
    <3> QED
      BY <2>1, <2>2, <3>1, <3>2
  <2>4. ASSUME up[r], synced[r] PROVE AllAgree(PoolOf(r)', Published)
    <3>1. \A x \in Published : Covers(row, x)
      BY PublishedCovered
    <3>2. Grows(row, mem[r])
      BY <1>3, <2>4 DEF PartOK, LinkOK
    <3>3. \A x \in Published : Agree(e, x)
      BY <1>10, <3>1, <3>2, AgreeFacts DEF Fresh, Grows
    <3>4. AllAgree(PoolOf(r), Published)
      BY <2>4 DEF AgreeInv
    <3> QED
      BY <1>6, <3>3, <3>4 DEF AllAgree
  <2> QED
    BY <1>4, <1>5, <2>3, <2>4, AgreeStep
<1> QED
  BY <1>1, <1>2, <1>9, <1>10

\* What an audit's end changes.
LEMMA AuditAgrees ==
    ASSUME DurInv, AgreeInv, NEW r \in Replicas, NEW h \in Handlers,
           AuditCommits(r, h) \/ AuditFails(r, h)
    PROVE  AgreeInv'
<1>1. /\ DomainsOK /\ ReplicaOK(mem[r], work[r], queue[r], next) /\ DOMAIN work[r] = Handlers
  BY DEF DurInv, ReplicaOK
<1>2. CASE AuditCommits(r, h)
  <2>1. PICK wk, q : /\ wk = [work[r] EXCEPT ![h].pc = "saving"]
                     /\ q = Append(queue[r], [handler |-> h, store |-> Snapshot(mem[r])])
    OBVIOUS
  <2>2. /\ work' = [work EXCEPT ![r] = wk] /\ queue' = [queue EXCEPT ![r] = q]
        /\ work[r][h].pc = "auditing"
        /\ up' = up /\ mem' = mem /\ synced' = synced /\ row' = row /\ answered' = answered
    BY <1>2, <2>1 DEF AuditCommits
  <2>3. /\ work'[r] = wk /\ queue'[r] = q
        /\ \A s \in Replicas : s # r => work'[s] = work[s] /\ queue'[s] = queue[s]
    BY <1>1, <2>2 DEF DomainsOK
  <2>4. Pool(mem[r], wk, q) \subseteq Pool(mem[r], work[r], queue[r])
    BY <1>1, <2>1, <2>2, PoolCommit
  <2>5. PoolOf(r)' \subseteq PoolOf(r)
    BY <2>2, <2>3, <2>4 DEF PoolOf
  <2> QED
    BY <2>2, <2>3, <2>5, AgreeLess
<1>3. CASE AuditFails(r, h)
  <2>1. PICK wk : wk = [work[r] EXCEPT ![h] = Idle]
    OBVIOUS
  <2>2. /\ work' = [work EXCEPT ![r] = wk] /\ queue' = queue
        /\ up' = up /\ mem' = mem /\ synced' = synced /\ row' = row /\ answered' = answered
    BY <1>3, <2>1 DEF AuditFails
  <2>3. /\ work'[r] = wk
        /\ \A s \in Replicas : s # r => work'[s] = work[s] /\ queue'[s] = queue[s]
    BY <1>1, <2>2 DEF DomainsOK
  <2>4. Pool(mem[r], wk, queue[r]) \subseteq Pool(mem[r], work[r], queue[r])
    BY <1>1, <2>1, PoolLess
  <2>5. PoolOf(r)' \subseteq PoolOf(r)
    BY <2>2, <2>3, <2>4 DEF PoolOf
  <2> QED
    BY <2>2, <2>3, <2>5, AgreeLess
<1> QED
  BY <1>2, <1>3

\* The end of a write leaves the replica with no other answers, and the other
\* replicas with theirs.
LEMMA WriteAgrees ==
    ASSUME DurInv, AgreeInv, NEW r \in Replicas, queue[r] # << >>, Written(r)
    PROVE  /\ up[r] /\ up' = up /\ mem' = mem
           /\ \A s \in Replicas : s # r => work'[s] = work[s] /\ queue'[s] = queue[s]
           /\ PoolOf(r)' \subseteq PoolOf(r)
           /\ \A s \in Replicas : AllAgree(PoolOf(s)', PoolOf(s)')
           /\ Entries(Head(queue[r]).store) \subseteq PoolOf(r)
           /\ \A doing : doing = work[r][Head(queue[r]).handler]
                 => [ck |-> doing.ck, told |-> doing.told] \in PoolOf(r)
<1>1. /\ DomainsOK /\ ReplicaOK(mem[r], work[r], queue[r], next)
  BY DEF DurInv
<1>2. WrittenOK(r)
  BY WriteEnds
<1>3. PICK doing : doing = work[r][Head(queue[r]).handler]
  OBVIOUS
<1>4. /\ Pool(mem[r], [work[r] EXCEPT ![Head(queue[r]).handler] = Idle], Tail(queue[r]))
            \subseteq Pool(mem[r], work[r], queue[r])
      /\ Entries(Head(queue[r]).store) \subseteq Pool(mem[r], work[r], queue[r])
      /\ [ck |-> doing.ck, told |-> doing.told] \in Pool(mem[r], work[r], queue[r])
  BY <1>1, <1>3, PoolWritten
<1>5. /\ work'[r] = [work[r] EXCEPT ![Head(queue[r]).handler] = Idle]
      /\ queue'[r] = Tail(queue[r]) /\ mem'[r] = mem[r]
  BY <1>1 DEF Written, DomainsOK
<1>6. PoolOf(r)' \subseteq PoolOf(r)
  BY <1>4, <1>5 DEF PoolOf
<1>7. \A s \in Replicas : s # r => PoolOf(s)' = PoolOf(s)
  BY <1>2 DEF PoolOf, WrittenOK
<1>8. \A s \in Replicas : AllAgree(PoolOf(s)', PoolOf(s)')
  BY <1>6, <1>7 DEF AgreeInv, AllAgree
<1> QED
  BY <1>2, <1>3, <1>4, <1>6, <1>8 DEF WrittenOK, PoolOf

\* A write that the row takes publishes answers of a replica that has the
\* row's version, and of nobody else.
LEMMA PublishAgrees ==
    ASSUME DurInv, AgreeInv, NEW r \in Replicas, queue[r] # << >>, Written(r), synced[r],
           row' = Head(queue[r]).store,
           \A s \in Replicas : synced'[s] => s = r,
           \A a \in answered' : /\ a = [ck |-> a.ck, told |-> a.told]
                                /\ a \in answered \/ a \in PoolOf(r)
    PROVE  AgreeInv'
<1>1. /\ up[r]
      /\ PoolOf(r)' \subseteq PoolOf(r)
      /\ \A s \in Replicas : AllAgree(PoolOf(s)', PoolOf(s)')
      /\ Entries(Head(queue[r]).store) \subseteq PoolOf(r)
  BY WriteAgrees
<1>2. Published' \subseteq Published \cup PoolOf(r)
  BY <1>1 DEF Published
<1>3. /\ AllAgree(PoolOf(r), PoolOf(r)) /\ AllAgree(PoolOf(r), Published)
      /\ AllAgree(Published, Published)
  BY <1>1 DEF AgreeInv
<1>4. ASSUME NEW a \in Published \cup PoolOf(r), NEW b \in Published \cup PoolOf(r)
      PROVE  Agree(a, b)
  <2>1. CASE a \in Published /\ b \in PoolOf(r)
    <3>1. Agree(b, a)
      BY <1>3, <2>1 DEF AllAgree
    <3> QED
      BY <3>1, AgreeFacts
  <2> QED
    BY <1>3, <1>4, <2>1 DEF AllAgree
<1>5. AllAgree(Published', Published')
  BY <1>2, <1>4 DEF AllAgree
<1>6. AllAgree(PoolOf(r)', Published')
  BY <1>1, <1>2, <1>4 DEF AllAgree
<1>7. \A s \in Replicas : up'[s] /\ synced'[s] => AllAgree(PoolOf(s)', Published')
  BY <1>6
<1>8. \A a \in answered' : a = [ck |-> a.ck, told |-> a.told]
  OBVIOUS
<1> QED
  BY <1>1, <1>5, <1>7, <1>8 DEF AgreeInv

\* The ends of a write keep the agreement.
LEMMA SaveAgrees ==
    ASSUME DurInv, AgreeInv, NEW r \in Replicas,
           SaveSucceeds(r) \/ SaveFails(r) \/ SaveUncertain(r)
    PROVE  AgreeInv'
<1>1. queue[r] # << >> /\ Written(r)
  BY DEF SaveSucceeds, SaveFails, SaveUncertain
<1>2. CASE SaveSucceeds(r)
  <2>1. PICK doing : doing = work[r][Head(queue[r]).handler]
    OBVIOUS
  <2>2. PICK e : e = [ck |-> doing.ck, told |-> doing.told]
    OBVIOUS
  <2>3. /\ synced[r] /\ row' = Head(queue[r]).store
        /\ synced' = [s \in Replicas |-> s = r]
        /\ answered' = answered \cup {e}
    BY <1>2, <2>1, <2>2 DEF SaveSucceeds
  <2>4. e \in PoolOf(r)
    BY <1>1, <2>1, <2>2, WriteAgrees
  <2>5. e = [ck |-> e.ck, told |-> e.told]
    BY <2>2
  <2>6. \A a \in answered' : /\ a = [ck |-> a.ck, told |-> a.told]
                             /\ a \in answered \/ a \in PoolOf(r)
    BY <2>3, <2>4, <2>5 DEF AgreeInv
  <2>7. \A s \in Replicas : synced'[s] => s = r
    BY <2>3
  <2> QED
    BY <1>1, <2>3, <2>6, <2>7, PublishAgrees
<1>3. CASE SaveUncertain(r)
  <2>1. /\ synced[r] /\ row' = Head(queue[r]).store /\ answered' = answered
        /\ synced' = [s \in Replicas |-> FALSE]
    BY <1>3 DEF SaveUncertain
  <2>2. \A a \in answered' : /\ a = [ck |-> a.ck, told |-> a.told]
                             /\ a \in answered \/ a \in PoolOf(r)
    BY <2>1 DEF AgreeInv
  <2>3. \A s \in Replicas : synced'[s] => s = r
    BY <2>1
  <2> QED
    BY <1>1, <2>1, <2>2, <2>3, PublishAgrees
<1>4. CASE SaveFails(r)
  <2>1. row' = row /\ synced' = synced /\ answered' = answered
    BY <1>4 DEF SaveFails
  <2>2. /\ up' = up /\ mem' = mem
        /\ \A s \in Replicas : s # r => work'[s] = work[s] /\ queue'[s] = queue[s]
        /\ PoolOf(r)' \subseteq PoolOf(r)
    BY <1>1, WriteAgrees
  <2> QED
    BY <2>1, <2>2, AgreeLess
<1> QED
  BY <1>2, <1>3, <1>4

\* After a restart a replica has the row's answers, or none and does not serve.
LEMMA RestartAgrees ==
    ASSUME DurInv, AgreeInv, NEW r \in Replicas, Restart(r)
    PROVE  AgreeInv'
<1>1. DomainsOK
  BY DEF DurInv
<1>2. PICK m, wk : /\ m = IF Restorable(row) THEN row ELSE Seeded
                   /\ wk = [h \in Handlers |-> Idle]
  OBVIOUS
<1>3. /\ mem' = [mem EXCEPT ![r] = m] /\ work' = [work EXCEPT ![r] = wk]
      /\ queue' = [queue EXCEPT ![r] = << >>]
      /\ up' = [up EXCEPT ![r] = Restorable(row)]
      /\ synced' = [synced EXCEPT ![r] = TRUE]
      /\ row' = row /\ answered' = answered
  BY <1>2 DEF Restart
<1>4. /\ mem'[r] = m /\ work'[r] = wk /\ queue'[r] = << >>
      /\ up'[r] = Restorable(row)
      /\ \A s \in Replicas : s # r =>
            /\ mem'[s] = mem[s] /\ work'[s] = work[s] /\ queue'[s] = queue[s]
            /\ up'[s] = up[s] /\ synced'[s] = synced[s]
  BY <1>1, <1>3 DEF DomainsOK
<1>5. \A h \in Handlers : wk[h] = Idle
  BY <1>2
<1>6. Pool(m, wk, << >>) = Entries(m)
  <2>1. 1 .. Len(<< >>) = {}
    OBVIOUS
  <2> QED
    BY <1>5, <2>1 DEF Pool
<1>7. PoolOf(r)' = Entries(m)
  BY <1>4, <1>6 DEF PoolOf
<1>8. AllAgree(Published, Published)
  BY DEF AgreeInv
<1>9. CASE Restorable(row)
  <2>1. Entries(m) \subseteq Published
    BY <1>2, <1>9 DEF Published
  <2>2. AllAgree(PoolOf(r)', PoolOf(r)') /\ AllAgree(PoolOf(r)', Published)
    BY <1>7, <1>8, <2>1 DEF AllAgree
  <2> QED
    BY <1>3, <1>4, <2>2, AgreeStep
<1>10. CASE ~Restorable(row)
  <2>1. Entries(m) = {}
    BY <1>2, <1>10, SeedHasNone
  <2>2. AllAgree(PoolOf(r)', PoolOf(r)') /\ AllAgree(PoolOf(r)', Published)
    BY <1>7, <2>1 DEF AllAgree
  <2> QED
    BY <1>3, <1>4, <2>2, AgreeStep
<1> QED
  BY <1>9, <1>10

\* Every step keeps the agreement.
LEMMA AgreeNext == DurInv /\ AgreeInv /\ [Next]_vars => AgreeInv'
<1> SUFFICES ASSUME DurInv, AgreeInv, [Next]_vars PROVE AgreeInv'
  OBVIOUS
<1>1. ASSUME NEW r \in Replicas, NEW h \in Handlers,
             Route(r, h) \/ AuditCommits(r, h) \/ AuditFails(r, h)
      PROVE  AgreeInv'
  BY <1>1, RouteStages, StageAgrees, AuditAgrees
<1>2. ASSUME NEW r \in Replicas,
             SaveSucceeds(r) \/ SaveFails(r) \/ SaveUncertain(r) \/ Restart(r)
      PROVE  AgreeInv'
  BY <1>2, SaveAgrees, RestartAgrees
<1>3. CASE Tick \/ UNCHANGED vars
  <2>1. /\ up' = up /\ mem' = mem /\ work' = work /\ queue' = queue
        /\ synced' = synced /\ row' = row /\ answered' = answered
    BY <1>3 DEF Tick, vars
  <2> QED
    BY <2>1 DEF AgreeInv, PoolOf, Published
<1> QED
  BY <1>1, <1>2, <1>3 DEF Next

\* No two answers report one version of a resource with different contents,
\* so no acknowledged update was lost under another
\* (platform-store.ts:291-506, store-persistence.ts:36-52).
THEOREM VersionsAgree == Spec => []OneContentPerVersion
<1>1. AgreeInv => OneContentPerVersion
  BY DEF AgreeInv, AllAgree, Agree, Published, OneContentPerVersion
<1> QED
  BY DurInit, DurNext, AgreeInit, AgreeNext, <1>1, PTL DEF Spec

-----------------------------------------------------------------------------
(* Type correctness. *)

\* A handler that waits for a write has its copy in the queue.
WaitsOK(wk, q) ==
    \A h \in Handlers : wk[h].pc = "saving" => \E i \in 1 .. Len(q) : q[i].handler = h

\* The bounds, and who waits for a write.
TypeInv ==
    /\ up \in [Replicas -> BOOLEAN] /\ synced \in [Replicas -> BOOLEAN]
    /\ next <= MaxNumber + 1
    /\ now \in 0 .. Horizon /\ restarts \in 0 .. MaxRestarts
    /\ \A r \in Replicas : WaitsOK(work[r], queue[r])

\* A queue names each handler once, so it is no longer than they are many.
LEMMA QueueIsShort ==
    ASSUME NEW m, NEW wk, NEW q, NEW n, ReplicaOK(m, wk, q, n)
    PROVE  DOMAIN q = 1 .. Len(q) /\ Len(q) <= Cardinality(Handlers)
<1>1. PICK S : q \in Seq(S)
  BY DEF ReplicaOK, IsSeq
<1>2. DOMAIN q = 1 .. Len(q) /\ Len(q) \in Nat
  BY <1>1
<1>3. PICK f : f = [i \in 1 .. Len(q) |-> q[i].handler]
  OBVIOUS
<1>4. f \in [1 .. Len(q) -> Handlers]
  BY <1>3 DEF ReplicaOK
<1>5. IsFiniteSet(1 .. Len(q)) /\ Cardinality(1 .. Len(q)) = Len(q)
  <2>1. Len(q) \in Int /\ (1 > Len(q) => Len(q) = 0) /\ Len(q) - 1 + 1 = Len(q)
    BY <1>2
  <2> QED
    BY <2>1, FS_Interval
<1>6. IsFiniteSet(Handlers) /\ Cardinality(Handlers) \in Nat
  BY ApiAssumption, FS_CardinalityType
<1>7. ASSUME Cardinality(Handlers) < Cardinality(1 .. Len(q)) PROVE FALSE
  <2>1. PICK i \in 1 .. Len(q), j \in 1 .. Len(q) : i # j /\ f[i] = f[j]
    BY <1>4, <1>5, <1>6, <1>7, FS_PigeonHole
  <2>2. q[i].handler = q[j].handler /\ (i < j \/ j < i)
    BY <1>2, <1>3, <2>1
  <2> QED
    BY <2>1, <2>2 DEF ReplicaOK
<1> QED
  BY <1>2, <1>5, <1>6, <1>7

\* The invariants give type correctness.
LEMMA TypesFollow == DurInv /\ TypeInv => TypeOK
<1> SUFFICES ASSUME DurInv, TypeInv PROVE TypeOK
  OBVIOUS
<1>1. next \in 5 .. MaxNumber + 1
  BY ApiAssumption DEF DurInv, TypeInv
<1>2. ASSUME NEW r \in Replicas
      PROVE  /\ DOMAIN queue[r] = 1 .. Len(queue[r])
             /\ Len(queue[r]) <= Cardinality(Handlers)
  BY <1>2, QueueIsShort DEF DurInv
<1>3. ASSUME NEW r \in Replicas, NEW h \in Handlers
      PROVE  /\ work[r][h].pc \in {"idle", "auditing", "saving"}
             /\ work[r][h].pc = "saving"
                   <=> \E i \in DOMAIN queue[r] : queue[r][i].handler = h
  <2>1. ReplicaOK(mem[r], work[r], queue[r], next) /\ WaitsOK(work[r], queue[r])
    BY DEF DurInv, TypeInv
  <2>2. work[r][h].pc \in {"idle", "auditing", "saving"}
    <3>1. work[r][h] = Idle \/ BusyOK(work[r][h])
      BY <2>1, Zenon DEF ReplicaOK
    <3> QED
      BY <3>1 DEF BusyOK, Idle
  <2>3. \A i \in 1 .. Len(queue[r]) : work[r][queue[r][i].handler].pc = "saving"
    BY <2>1 DEF ReplicaOK
  <2> QED
    BY <1>2, <2>1, <2>2, <2>3 DEF WaitsOK
<1> QED
  BY <1>1, <1>2, <1>3 DEF TypeOK, TypeInv

\* At first nobody waits.
LEMMA TypeInit == Init => TypeInv
<1> SUFFICES ASSUME Init PROVE TypeInv
  OBVIOUS
<1>1. \A r \in Replicas, h \in Handlers : work[r][h].pc = "idle"
  BY DEF Init, Idle
<1>2. \A r \in Replicas : WaitsOK(work[r], queue[r])
  BY <1>1 DEF WaitsOK
<1> QED
  BY <1>2, ApiAssumption DEF Init, TypeInv

\* A handler that stages or gives up does not wait.
LEMMA WaitsBusy ==
    ASSUME NEW wk, NEW q, WaitsOK(wk, q), DOMAIN wk = Handlers,
           NEW h \in Handlers, NEW w, w.pc # "saving"
    PROVE  WaitsOK([wk EXCEPT ![h] = w], q)
<1>1. PICK v : v = [wk EXCEPT ![h] = w]
  OBVIOUS
<1>2. v[h] = w /\ \A g \in Handlers : g # h => v[g] = wk[g]
  BY <1>1
<1>3. WaitsOK(v, q)
  BY <1>2 DEF WaitsOK
<1> QED
  BY <1>1, <1>3

\* A handler waits for the copy it has made.
LEMMA WaitsCommit ==
    ASSUME NEW m, NEW wk, NEW q, NEW n, ReplicaOK(m, wk, q, n), WaitsOK(wk, q),
           NEW h \in Handlers, NEW e, e.handler = h
    PROVE  WaitsOK([wk EXCEPT ![h].pc = "saving"], Append(q, e))
<1>1. PICK v, p : v = [wk EXCEPT ![h].pc = "saving"] /\ p = Append(q, e)
  OBVIOUS
<1>2. \A g \in Handlers : g # h => v[g] = wk[g]
  BY <1>1 DEF ReplicaOK
<1>3. /\ Len(q) \in Nat /\ Len(p) = Len(q) + 1 /\ p[Len(q) + 1] = e
      /\ \A i \in 1 .. Len(q) : p[i] = q[i]
  BY <1>1, AppendFacts DEF ReplicaOK
<1>4. ASSUME NEW g \in Handlers, v[g].pc = "saving"
      PROVE  \E i \in 1 .. Len(p) : p[i].handler = g
  <2>1. CASE g = h
    <3>1. Len(q) + 1 \in 1 .. Len(p) /\ p[Len(q) + 1].handler = g
      BY <1>3, <2>1
    <3> QED
      BY <3>1
  <2>2. CASE g # h
    <3>1. PICK i \in 1 .. Len(q) : q[i].handler = g
      BY <1>2, <1>4, <2>2 DEF WaitsOK
    <3>2. i \in 1 .. Len(p) /\ p[i].handler = g
      BY <1>3, <3>1
    <3> QED
      BY <3>2
  <2> QED
    BY <2>1, <2>2
<1>5. WaitsOK(v, p)
  BY <1>4 DEF WaitsOK
<1> QED
  BY <1>1, <1>5

\* Nobody waits for a write that has ended.
LEMMA WaitsWritten ==
    ASSUME NEW m, NEW wk, NEW q, NEW n, ReplicaOK(m, wk, q, n), WaitsOK(wk, q), q # << >>
    PROVE  WaitsOK([wk EXCEPT ![Head(q).handler] = Idle], Tail(q))
<1>1. PICK h, v, p : h = Head(q).handler /\ v = [wk EXCEPT ![h] = Idle] /\ p = Tail(q)
  OBVIOUS
<1>2. /\ Len(q) \in Nat /\ Len(q) >= 1 /\ Len(p) = Len(q) - 1 /\ Head(q) = q[1]
      /\ \A i \in 1 .. Len(q) - 1 : p[i] = q[i + 1]
  BY <1>1, TailFacts DEF ReplicaOK
<1>3. DOMAIN wk = Handlers
  BY DEF ReplicaOK
<1>4. ASSUME NEW g \in Handlers, v[g].pc = "saving"
      PROVE  \E i \in 1 .. Len(p) : p[i].handler = g
  <2>1. g # h /\ v[g] = wk[g]
    BY <1>1, <1>3, <1>4 DEF Idle
  <2>2. PICK i \in 1 .. Len(q) : q[i].handler = g
    BY <1>4, <2>1 DEF WaitsOK
  <2>3. i # 1
    BY <1>1, <1>2, <2>1, <2>2
  <2>4. PICK j : j = i - 1
    OBVIOUS
  <2>5. j \in 1 .. Len(p) /\ p[j] = q[i]
    BY <1>2, <2>2, <2>3, <2>4
  <2> QED
    BY <2>2, <2>5
<1>5. WaitsOK(v, p)
  BY <1>4 DEF WaitsOK
<1> QED
  BY <1>1, <1>5

\* A step of one replica that keeps its waits, the bounds and who serves.
LEMMA TypeStep ==
    ASSUME TypeInv, NEW r \in Replicas,
           \A s \in Replicas : s # r => work'[s] = work[s] /\ queue'[s] = queue[s],
           WaitsOK(work'[r], queue'[r]),
           up' \in [Replicas -> BOOLEAN], synced' \in [Replicas -> BOOLEAN],
           next' <= MaxNumber + 1, now' = now, restarts' \in 0 .. MaxRestarts
    PROVE  TypeInv'
<1>1. \A s \in Replicas : WaitsOK(work'[s], queue'[s])
  BY DEF TypeInv
<1> QED
  BY <1>1 DEF TypeInv, WaitsOK

\* Every step keeps the types.
LEMMA TypeNext == DurInv /\ TypeInv /\ [Next]_vars => TypeInv'
<1> SUFFICES ASSUME DurInv, TypeInv, [Next]_vars PROVE TypeInv'
  OBVIOUS
<1>1. ASSUME NEW r \in Replicas
      PROVE  /\ DomainsOK /\ DOMAIN work[r] = Handlers
             /\ ReplicaOK(mem[r], work[r], queue[r], next) /\ WaitsOK(work[r], queue[r])
             /\ up \in [Replicas -> BOOLEAN] /\ synced \in [Replicas -> BOOLEAN]
             /\ next \in Nat /\ MaxNumber \in Nat
             /\ next <= MaxNumber + 1 /\ restarts \in 0 .. MaxRestarts
  BY <1>1, ApiAssumption DEF DurInv, TypeInv, ReplicaOK
<1>2. ASSUME NEW r \in Replicas, NEW h \in Handlers, Route(r, h)
      PROVE  TypeInv'
  <2>1. StageOK(r, h)
    BY <1>2, RouteStages
  <2>2. PICK st, ck, told :
           /\ Stage(r, h, st, ck, told)
           /\ next' = next \/ (next' = next + 1 /\ next <= MaxNumber)
    BY <2>1 DEF StageOK
  <2>3. PICK w : w = Doing("auditing", ck, told)
    OBVIOUS
  <2>4. /\ work' = [work EXCEPT ![r][h] = w]
        /\ up' = up /\ queue' = queue /\ synced' = synced /\ now' = now /\ restarts' = restarts
    BY <2>2, <2>3 DEF Stage
  <2>5. /\ work'[r] = [work[r] EXCEPT ![h] = w]
        /\ \A s \in Replicas : s # r => work'[s] = work[s] /\ queue'[s] = queue[s]
    BY <1>1, <2>4 DEF DomainsOK
  <2>6. w.pc # "saving"
    BY <2>3 DEF Doing
  <2>7. WaitsOK([work[r] EXCEPT ![h] = w], queue[r])
    BY <1>1, <2>6, WaitsBusy
  <2>8. next' <= MaxNumber + 1
    BY <1>1, <2>2
  <2> QED
    BY <1>1, <2>4, <2>5, <2>7, <2>8, TypeStep
<1>3. ASSUME NEW r \in Replicas, NEW h \in Handlers, AuditCommits(r, h)
      PROVE  TypeInv'
  <2>1. PICK wk, q, e : /\ wk = [work[r] EXCEPT ![h].pc = "saving"]
                        /\ e = [handler |-> h, store |-> Snapshot(mem[r])]
                        /\ q = Append(queue[r], e)
    OBVIOUS
  <2>2. /\ work' = [work EXCEPT ![r] = wk] /\ queue' = [queue EXCEPT ![r] = q]
        /\ up' = up /\ synced' = synced /\ next' = next /\ now' = now /\ restarts' = restarts
    BY <1>3, <2>1 DEF AuditCommits
  <2>3. /\ work'[r] = wk /\ queue'[r] = q
        /\ \A s \in Replicas : s # r => work'[s] = work[s] /\ queue'[s] = queue[s]
    BY <1>1, <2>2 DEF DomainsOK
  <2>4. e.handler = h
    BY <2>1
  <2>5. WaitsOK(wk, q)
    BY <1>1, <2>1, <2>4, WaitsCommit
  <2> QED
    BY <1>1, <2>2, <2>3, <2>5, TypeStep
<1>4. ASSUME NEW r \in Replicas, NEW h \in Handlers, AuditFails(r, h)
      PROVE  TypeInv'
  <2>1. PICK wk : wk = [work[r] EXCEPT ![h] = Idle]
    OBVIOUS
  <2>2. /\ work' = [work EXCEPT ![r] = wk] /\ queue' = queue
        /\ up' = up /\ synced' = synced /\ next' = next /\ now' = now /\ restarts' = restarts
    BY <1>4, <2>1 DEF AuditFails
  <2>3. /\ work'[r] = wk
        /\ \A s \in Replicas : s # r => work'[s] = work[s] /\ queue'[s] = queue[s]
    BY <1>1, <2>2 DEF DomainsOK
  <2>4. Idle.pc # "saving"
    BY DEF Idle
  <2>5. WaitsOK(wk, queue[r])
    BY <1>1, <2>1, <2>4, WaitsBusy
  <2> QED
    BY <1>1, <2>2, <2>3, <2>5, TypeStep
<1>5. ASSUME NEW r \in Replicas, SaveSucceeds(r) \/ SaveFails(r) \/ SaveUncertain(r)
      PROVE  TypeInv'
  <2>1. queue[r] # << >> /\ Written(r) /\ synced' \in [Replicas -> BOOLEAN]
    BY <1>1, <1>5 DEF SaveSucceeds, SaveFails, SaveUncertain
  <2>2. PICK wk, q : /\ wk = [work[r] EXCEPT ![Head(queue[r]).handler] = Idle]
                     /\ q = Tail(queue[r])
    OBVIOUS
  <2>3. /\ work' = [work EXCEPT ![r] = wk] /\ queue' = [queue EXCEPT ![r] = q]
        /\ up' = up /\ next' = next /\ now' = now /\ restarts' = restarts
    BY <2>1, <2>2 DEF Written
  <2>4. /\ work'[r] = wk /\ queue'[r] = q
        /\ \A s \in Replicas : s # r => work'[s] = work[s] /\ queue'[s] = queue[s]
    BY <1>1, <2>3 DEF DomainsOK
  <2>5. WaitsOK(wk, q)
    BY <1>1, <2>1, <2>2, WaitsWritten
  <2> QED
    BY <1>1, <2>1, <2>3, <2>4, <2>5, TypeStep
<1>6. ASSUME NEW r \in Replicas, Restart(r)
      PROVE  TypeInv'
  <2>1. PICK wk : wk = [h \in Handlers |-> Idle]
    OBVIOUS
  <2>2. /\ work' = [work EXCEPT ![r] = wk] /\ queue' = [queue EXCEPT ![r] = << >>]
        /\ next' = next /\ now' = now /\ restarts' = restarts + 1 /\ restarts < MaxRestarts
    BY <1>6, <2>1 DEF Restart
  <2>3. /\ work'[r] = wk /\ queue'[r] = << >>
        /\ \A s \in Replicas : s # r => work'[s] = work[s] /\ queue'[s] = queue[s]
    BY <1>1, <2>2 DEF DomainsOK
  <2>4. WaitsOK(wk, << >>)
    BY <2>1 DEF WaitsOK, Idle
  <2>5. up' \in [Replicas -> BOOLEAN]
    <3>1. Restorable(row) \in BOOLEAN
      BY DEF Restorable
    <3> QED
      BY <1>1, <1>6, <3>1 DEF Restart
  <2>6. synced' \in [Replicas -> BOOLEAN]
    BY <1>1, <1>6 DEF Restart
  <2>7. restarts' \in 0 .. MaxRestarts
    BY <1>1, <2>2, ApiAssumption
  <2> QED
    BY <1>1, <2>2, <2>3, <2>4, <2>5, <2>6, <2>7, TypeStep
<1>7. CASE Tick
  <2>1. now' \in 0 .. Horizon
    BY <1>7, ApiAssumption DEF Tick, TypeInv
  <2>2. /\ up' = up /\ work' = work /\ queue' = queue /\ synced' = synced
        /\ next' = next /\ restarts' = restarts
    BY <1>7 DEF Tick
  <2> QED
    BY <2>1, <2>2 DEF TypeInv
<1>8. CASE UNCHANGED vars
  BY <1>8 DEF vars, TypeInv
<1> QED
  BY <1>2, <1>3, <1>4, <1>5, <1>6, <1>7, <1>8 DEF Next

\* The requests made with one idempotency key are never answered with two
\* results, on whatever replica and across restarts; replicas and their
\* queues are well-typed (platform-store.ts:698-716, 157-163).
THEOREM KeysAnswerOnce == Spec => []OneAnswerPerKey
<1>1. AgreeInv => \A a, b \in answered : a.ck = b.ck /\ a.ck # Keyless => a = b
  <2> SUFFICES ASSUME AgreeInv, NEW a \in answered, NEW b \in answered,
                      a.ck = b.ck, a.ck # Keyless
               PROVE  a = b
    OBVIOUS
  <2>1. a.told = b.told
    BY DEF AgreeInv, AllAgree, Agree, Published
  <2>2. a = [ck |-> a.ck, told |-> a.told] /\ b = [ck |-> b.ck, told |-> b.told]
    BY DEF AgreeInv
  <2> QED
    BY <2>1, <2>2
<1>2. DurInv /\ TypeInv /\ AgreeInv => OneAnswerPerKey
  BY <1>1, TypesFollow DEF OneAnswerPerKey
<1> QED
  BY DurInit, DurNext, AgreeInit, AgreeNext, TypeInit, TypeNext, <1>2, PTL DEF Spec

\* A replica that has the row's version refuses what an answered revocation
\* or an answered rotation, once its grace period is over, has taken from an
\* API key (platform-store.ts:435-506).
THEOREM LapsedSecrets == Spec => []LapsedIsRefused
<1>1. DurInv => LapsedIsRefused
  <2> SUFFICES ASSUME DurInv, NEW r \in Replicas, NEW a \in answered,
                      up[r], synced[r], a.told.item.kind = "api-key",
                      NEW s \in 1 .. next, Accepts(mem[r], a.told.id, s, now)
               PROVE  /\ a.told.item.status = "active"
                      /\ s >= a.told.secret \/ now < a.told.at + Grace
    BY DEF LapsedIsRefused
  <2>1. Covers(mem[r], a) /\ StoreOK(mem[r], next) /\ next \in Nat /\ now \in Nat /\ Grace \in Nat
    BY StoreAssumption DEF DurInv, LinkOK, Grows, ReplicaOK
  <2>2. PICK st, told : st = mem[r] /\ told = a.told
    OBVIOUS
  <2>3. /\ told.id \in DOMAIN st.secret /\ st.items[told.id].status = "active"
        /\ \/ st.secret[told.id] = s
           \/ /\ told.id \in DOMAIN st.grace
              /\ st.grace[told.id].until > now /\ st.grace[told.id].secret = s
    BY <2>2 DEF Accepts
  <2>4. /\ told.item.status = "active"
        /\ told.secret \in Nat /\ told.at \in Nat
        /\ told.secret <= st.secret[told.id]
        /\ told.id \in DOMAIN st.grace =>
              \/ told.secret <= st.grace[told.id].secret
              \/ st.grace[told.id].until <= told.at + Grace
    BY <2>1, <2>2, <2>3 DEF Covers, KeyCovered
  <2>5. told.id \in DOMAIN st.grace => st.grace[told.id].until \in Nat
    BY <2>1, <2>2 DEF StoreOK, SecretsOK
  <2>6. s >= told.secret \/ now < told.at + Grace
    BY <2>1, <2>3, <2>4, <2>5
  <2> QED
    BY <2>2, <2>4, <2>6
<1> QED
  BY DurInit, DurNext, <1>1, PTL DEF Spec
=============================================================================
