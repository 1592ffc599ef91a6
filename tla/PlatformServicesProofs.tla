------------------------ MODULE PlatformServicesProofs ------------------------
(***************************************************************************)
(* Proofs about what surrounds the store of the platform API, for every    *)
(* number of requests, replicas, nodes and accounts and every limit.       *)
(***************************************************************************)
EXTENDS TokenQuota, RtcAdmission, Coordination, DataRights, Billing, Gateway,
        FiniteSetTheorems, SequenceTheorems, WellFoundedInduction, TLAPS

-----------------------------------------------------------------------------
(* Rate limits and leases: leases are exclusive, and the limit of a window  *)
(* holds, whatever expires in between.                                      *)

\* A lease that was granted is covered by the key from the grant on, before the
\* reply has arrived; a key that has expired has nobody's token, and nobody who
\* only waits for an answer, or was refused, has the key's.
Covered(l) == lease[l] \in {"granted", "held"} /\ validFor[l] > 0
                => keyToken = l /\ keyTtl >= validFor[l]

KeyOK ==
    /\ keyTtl = 0 => keyToken = Nobody
    /\ \A l \in Leases : Covered(l)

CoordinationInv == CoordinationTypeOK /\ KeyOK /\ WindowsHold

-----------------------------------------------------------------------------
\* The invariant holds before anything was asked for (the keys do not exist).
LEMMA InvInit == CoordinationInit => CoordinationInv
BY CoordinationAssumption, SMT
DEF CoordinationInit, CoordinationInv, CoordinationTypeOK, LeasePoints, KeyOK, Covered, WindowsHold

\* What an operation on the lease l has to keep, when it leaves the rates alone.
LEMMA LeaseStep ==
    ASSUME CoordinationInv, NEW l \in Leases,
           \/ Acquire(l) \/ AcquireRuns(l) \/ AcquireAnswered(l)
           \/ ReleaseLease(l) \/ ReleaseRuns(l) \/ LeaseLost(l)
    PROVE  CoordinationInv'
<1>. USE CoordinationAssumption DEF CoordinationInv, CoordinationTypeOK, LeasePoints, LeaseTo
<1>1. UNCHANGED rateVars
  BY DEF Acquire, AcquireRuns, AcquireAnswered, ReleaseLease, ReleaseRuns, LeaseLost
<1>2. WindowsHold'
  BY <1>1 DEF WindowsHold, rateVars
<1>3. CASE Acquire(l)
  <2>1. CoordinationTypeOK'
    BY <1>1, <1>3 DEF Acquire, rateVars
  <2>2. KeyOK'
    BY <1>3 DEF Acquire, KeyOK, Covered
  <2>. QED
    BY <1>2, <2>1, <2>2
<1>4. CASE AcquireRuns(l)
  <2>1. CoordinationTypeOK'
    BY <1>1, <1>4 DEF AcquireRuns, rateVars
  <2>2. KeyOK'
    <3>1. CASE keyTtl = 0
      BY <1>4, <3>1 DEF AcquireRuns, KeyOK, Covered
    <3>2. CASE keyTtl # 0
      BY <1>4, <3>2 DEF AcquireRuns, KeyOK, Covered
    <3>. QED
      BY <3>1, <3>2
  <2>. QED
    BY <1>2, <2>1, <2>2
<1>5. CASE AcquireAnswered(l)
  <2>1. CoordinationTypeOK'
    BY <1>1, <1>5 DEF AcquireAnswered, rateVars
  <2>2. KeyOK'
    BY <1>5 DEF AcquireAnswered, KeyOK, Covered
  <2>. QED
    BY <1>2, <2>1, <2>2
<1>6. CASE ReleaseLease(l)
  <2>1. CoordinationTypeOK'
    BY <1>1, <1>6 DEF ReleaseLease, rateVars
  <2>2. KeyOK'
    BY <1>6 DEF ReleaseLease, KeyOK, Covered
  <2>. QED
    BY <1>2, <2>1, <2>2
<1>7. CASE ReleaseRuns(l)
  <2>1. CoordinationTypeOK'
    BY <1>1, <1>7 DEF ReleaseRuns, rateVars
  <2>2. KeyOK'
    <3>1. CASE keyToken = l
      BY <1>7, <3>1 DEF ReleaseRuns, KeyOK, Covered
    <3>2. CASE keyToken # l
      BY <1>7, <3>2 DEF ReleaseRuns, KeyOK, Covered
    <3>. QED
      BY <3>1, <3>2
  <2>. QED
    BY <1>2, <2>1, <2>2
<1>8. CASE LeaseLost(l)
  <2>1. CoordinationTypeOK'
    BY <1>1, <1>8 DEF LeaseLost, Forgotten, rateVars
  <2>2. KeyOK'
    BY <1>8 DEF LeaseLost, Forgotten, KeyOK, Covered
  <2>. QED
    BY <1>2, <2>1, <2>2
<1>. QED
  BY <1>3, <1>4, <1>5, <1>6, <1>7, <1>8

\* A request that is counted passes exactly while the count is within the limit.
LEMMA RateStep ==
    ASSUME CoordinationInv, CountRequest \/ CheckLocally
    PROVE  CoordinationInv'
<1>. USE CoordinationAssumption DEF CoordinationInv, CoordinationTypeOK, CountedUp
<1>1. KeyOK' /\ UNCHANGED leaseVars
  BY DEF KeyOK, Covered, CountRequest, CheckLocally, leaseVars
<1>2. CASE CountRequest
  BY <1>1, <1>2 DEF CountRequest, WindowsHold, leaseVars
<1>3. CASE CheckLocally
  BY <1>1, <1>3 DEF CheckLocally, WindowsHold, leaseVars
<1>. QED
  BY <1>2, <1>3

\* The time a holder was given passes no more slowly than that of the key.
LEMMA TickStep ==
    ASSUME CoordinationInv, CoordinationTick
    PROVE  CoordinationInv'
<1>. USE CoordinationAssumption DEF CoordinationInv, CoordinationTypeOK, CoordinationTick
<1>1. CoordinationTypeOK'
  OBVIOUS
<1>2. KeyOK'
  <2>1. (keyTtl = 0 => keyToken = Nobody)'
    OBVIOUS
  <2>2. ASSUME NEW l \in Leases
        PROVE  Covered(l)'
    <3>1. /\ validFor[l] \in 0 .. LeaseTtl
          /\ validFor'[l] = IF validFor[l] = 0 THEN 0 ELSE validFor[l] - 1
      OBVIOUS
    <3>. QED
      BY <2>2, <3>1 DEF KeyOK, Covered
  <2>. QED
    BY <2>1, <2>2 DEF KeyOK
<1>3. WindowsHold'
  BY DEF WindowsHold
<1>. QED
  BY <1>1, <1>2, <1>3

\* The invariant is inductive: every script, reply, loss and tick keeps it.
LEMMA InvariantIsKept == CoordinationSpec => []CoordinationInv
<1>1. CoordinationInv /\ [CoordinationNext]_coordinationVars => CoordinationInv'
  <2>. SUFFICES ASSUME CoordinationInv, [CoordinationNext]_coordinationVars
                PROVE  CoordinationInv'
    OBVIOUS
  <2>1. CASE CoordinationNext
    BY <2>1, LeaseStep, RateStep, TickStep DEF CoordinationNext
  <2>2. CASE UNCHANGED coordinationVars
    BY <2>2 DEF coordinationVars, leaseVars, rateVars, CoordinationInv, CoordinationTypeOK,
                KeyOK, Covered, WindowsHold
  <2>. QED
    BY <2>1, <2>2
<1>. QED
  BY <1>1, InvInit, PTL DEF CoordinationSpec

-----------------------------------------------------------------------------
\* Whatever is lost, late or crashed, two holders never trust leases on one key
\* at a time (redis-coordination.ts), and the windows let exactly the first
\* requests through, up to the limit (redis-rate-limit.ts, rate-limit.ts).
THEOREM LeasesAndWindowsHold == CoordinationSpec => []CoordinationHolds
<1>1. CoordinationInv => CoordinationHolds
  BY DEF CoordinationInv, CoordinationHolds, KeyOK, Covered, LeaseIsExclusive, Trusted
<1>. QED
  BY <1>1, InvariantIsKept, PTL

-----------------------------------------------------------------------------
(* The token quota: the invariant. *)

\* The counter of the minute that runs lives to the minute's end; a counter that
\* has not expired covers the requests it admitted.
RequestsOK ==
    /\ 0 \notin lapsed
    /\ \A a \in Ago \ lapsed : admitted[a] <= requests[a].count /\ admitted[a] <= MaxRequests
    /\ requests[0].count > 0 => requests[0].ttl >= MinuteTicks - phase

\* The counter covers the reservations that are its own.
SlotsOK == undercut \/ Cardinality(Counted) <= concurrent.count

QuotaInv == TypeOK /\ RequestsOK /\ SlotsOK

-----------------------------------------------------------------------------
(* Type correctness. *)

Counter == [count : 0 .. MaxRequests + 1, ttl : 0 .. MinuteTicks]

\* The minutes looked at are numbers, and the one that runs is among them.
LEMMA AgoFacts == Ago \subseteq Nat /\ 0 \in Ago /\ MaxLate \in Ago
BY QuotaAssumption DEF Ago

\* INCR of a counter that is not beyond the limit.
LEMMA IncrTypes ==
    ASSUME NEW key \in Counter
    PROVE  (IF key.count > MaxRequests THEN key ELSE Incr(key, MinuteTicks)) \in Counter
<1> USE QuotaAssumption
<1>1. CASE key.count > MaxRequests
  BY <1>1
<1>2. CASE ~ (key.count > MaxRequests)
  <2>1. Incr(key, MinuteTicks) = [count |-> key.count + 1,
                                  ttl |-> IF key.count = 0 THEN MinuteTicks ELSE key.ttl]
    BY DEF Incr
  <2> QED
    BY <1>2, <2>1 DEF Counter
<1> QED
  BY <1>1, <1>2

\* RESERVE_SCRIPT keeps the counters in their ranges.
LEMMA ReserveTypes ==
    ASSUME TypeOK, NEW a \in Ago, RunReserve(a)
    PROVE  /\ requests' \in [Ago -> Counter]
           /\ concurrent' \in [count : 0 .. MaxConcurrent, ttl : 0 .. ConcurrentTtl]
           /\ admitted' \in [Ago -> Nat]
<1> USE QuotaAssumption
<1>1. requests' \in [Ago -> Counter]
  <2>1. requests \in [Ago -> Counter]
    BY DEF TypeOK, Counter
  <2>2. (IF requests[a].count > MaxRequests THEN requests[a] ELSE Incr(requests[a], MinuteTicks)) \in Counter
    BY <2>1, IncrTypes
  <2>3. requests' = [requests EXCEPT ![a] =
            IF requests[a].count > MaxRequests THEN requests[a] ELSE Incr(requests[a], MinuteTicks)]
    BY DEF RunReserve
  <2> QED
    BY <2>1, <2>2, <2>3
<1>2. concurrent' \in [count : 0 .. MaxConcurrent, ttl : 0 .. ConcurrentTtl]
  <2>1. CASE Admits(a)
    <3>1. concurrent' = [count |-> concurrent.count + 1,
                         ttl |-> IF concurrent.count = 0 THEN ConcurrentTtl ELSE concurrent.ttl]
      BY <2>1 DEF RunReserve, Incr
    <3>2. concurrent.count < MaxConcurrent
      BY <2>1 DEF Admits
    <3> QED
      BY <3>1, <3>2 DEF TypeOK
  <2>2. CASE ~Admits(a)
    BY <2>2 DEF RunReserve, TypeOK
  <2> QED
    BY <2>1, <2>2
<1>3. admitted' \in [Ago -> Nat]
  <2>1. admitted \in [Ago -> Nat]
    BY DEF TypeOK
  <2>2. \A n \in Nat : (IF Admits(a) /\ a \notin lapsed THEN n + 1 ELSE n) \in Nat
    OBVIOUS
  <2>3. admitted' = [admitted EXCEPT ![a] =
            IF Admits(a) /\ a \notin lapsed THEN admitted[a] + 1 ELSE admitted[a]]
    BY DEF RunReserve
  <2> QED
    BY <2>1, <2>2, <2>3
<1> QED
  BY <1>1, <1>2, <1>3

\* RELEASE_SCRIPT keeps the counter in its range.
LEMMA ReleaseTypes ==
    ASSUME TypeOK, NEW s \in Slots, RunRelease(s) \/ UNCHANGED <<concurrent, undercut>>
    PROVE  /\ concurrent' \in [count : 0 .. MaxConcurrent, ttl : 0 .. ConcurrentTtl]
           /\ undercut' \in BOOLEAN
<1> USE QuotaAssumption
<1>1. CASE concurrent.count > 0 /\ RunRelease(s)
  <2>1. concurrent' = [concurrent EXCEPT !.count = @ - 1]
    BY <1>1 DEF RunRelease, TypeOK
  <2>2. undercut' = (undercut \/ ~work[s].mine)
    BY <1>1 DEF RunRelease, TypeOK
  <2> QED
    BY <1>1, <2>1, <2>2 DEF TypeOK
<1>2. CASE UNCHANGED <<concurrent, undercut>>
  BY <1>2 DEF TypeOK
<1> QED
  BY <1>1, <1>2 DEF RunRelease, TypeOK

Tasks == [pc : {"idle", "asking", "issuing", "releasing", "failing", "saving"},
          mine : BOOLEAN, ago : Ago]

\* The three ways in which a handler's task changes keep its type.
LEMMA TaskTypes ==
    ASSUME TypeOK, NEW s \in Slots
    PROVE  /\ work[s] \in Tasks
           /\ End(s) => work' \in [Slots -> Tasks]
           /\ Ended(s[1]) => work' \in [Slots -> Tasks]
           /\ \A pc \in {"asking", "issuing", "releasing", "failing", "saving"} :
                 To(s, pc) => work' \in [Slots -> Tasks]
<1>1. work \in [Slots -> Tasks] /\ Idle \in Tasks
  BY AgoFacts DEF TypeOK, Tasks, Idle
<1>2. ASSUME NEW pc \in {"asking", "issuing", "releasing", "failing", "saving"}, To(s, pc)
      PROVE  work' \in [Slots -> Tasks]
  <2>1. [work[s] EXCEPT !.pc = pc] \in Tasks
    BY <1>1 DEF Tasks
  <2>2. work' = [work EXCEPT ![s] = [work[s] EXCEPT !.pc = pc]]
    BY <1>2 DEF To
  <2> QED
    BY <1>1, <2>1, <2>2
<1>3. ASSUME End(s) PROVE work' \in [Slots -> Tasks]
  BY <1>1, <1>3 DEF End
<1>4. ASSUME Ended(s[1]) PROVE work' \in [Slots -> Tasks]
  BY <1>1, <1>4 DEF Ended
<1> QED
  BY <1>1, <1>2, <1>3, <1>4

\* A counter one tick later is in its range.
LEMMA AgedTypes ==
    ASSUME NEW c \in Nat, NEW t \in Nat, NEW key \in [count : 0 .. c, ttl : 0 .. t]
    PROVE  Aged(key) \in [count : 0 .. c, ttl : 0 .. t]
BY DEF Aged, Absent

\* What a tick does to a request keeps its type.
LEMMA WaitedTypes ==
    ASSUME NEW w \in Tasks, NEW m \in BOOLEAN
    PROVE  [Waited(w) EXCEPT !.mine = @ /\ m] \in Tasks
<1>1. Waited(w) \in Tasks
  <2>1. CASE w.pc # "asking" \/ phase' # 0
    BY <2>1 DEF Waited
  <2>2. CASE ~ (w.pc # "asking" \/ phase' # 0) /\ w.ago = MaxLate
    BY <2>2, AgoFacts DEF Waited, Idle, Tasks
  <2>3. CASE ~ (w.pc # "asking" \/ phase' # 0) /\ w.ago # MaxLate
    <3>1. w.ago + 1 \in Ago
      BY <2>3, QuotaAssumption DEF Tasks, Ago
    <3> QED
      BY <2>3, <3>1 DEF Waited, Tasks
  <2> QED
    BY <2>1, <2>2, <2>3
<1> QED
  BY <1>1 DEF Tasks

\* Every step keeps the types.
LEMMA TypesKept ==
    ASSUME TypeOK, Next
    PROVE  TypeOK'
<1> USE QuotaAssumption
<1> SUFFICES /\ work' \in [Slots -> Tasks]
             /\ requests' \in [Ago -> Counter]
             /\ concurrent' \in [count : 0 .. MaxConcurrent, ttl : 0 .. ConcurrentTtl]
             /\ phase' \in 0 .. MinuteTicks - 1
             /\ admitted' \in [Ago -> Nat]
             /\ lapsed' \subseteq Ago
             /\ undercut' \in BOOLEAN
  BY DEF TypeOK, Tasks, Slots, Counter
<1>0. work \in [Slots -> Tasks] /\ requests \in [Ago -> Counter] /\ admitted \in [Ago -> Nat]
  BY DEF TypeOK, Tasks, Counter
<1>00. ASSUME NEW s \in Slots, ReadClock(s) PROVE TypeOK'
  BY <1>00, TaskTypes DEF ReadClock, TypeOK, Tasks, Slots, minutes
<1>1. ASSUME NEW s \in Slots, Reserve(s) PROVE TypeOK'
  <2>1. work[s].ago \in Ago
    BY <1>0 DEF Tasks
  <2>2. Holding \in Tasks /\ Idle \in Tasks
    BY AgoFacts DEF Holding, Idle, Tasks
  <2>3. work' = [work EXCEPT ![s] = IF Admits(work[s].ago) THEN Holding ELSE Idle]
    BY <1>1 DEF Reserve
  <2>4. work' \in [Slots -> Tasks]
    BY <1>0, <2>2, <2>3
  <2>5. RunReserve(work[s].ago) /\ UNCHANGED <<phase, lapsed, undercut>>
    BY <1>1 DEF Reserve
  <2> QED
    BY <2>1, <2>4, <2>5, ReserveTypes DEF TypeOK, Tasks, Slots, Counter
<1>2. ASSUME NEW s \in Slots, ReserveFails(s) PROVE TypeOK'
  <2>1. work[s].ago \in Ago
    BY <1>0 DEF Tasks
  <2>2. RunReserve(work[s].ago) \/ UNCHANGED <<requests, concurrent, admitted>>
    BY <1>2 DEF ReserveFails
  <2>3. work' \in [Slots -> Tasks] /\ UNCHANGED <<phase, lapsed, undercut>>
    BY <1>2, TaskTypes DEF ReserveFails
  <2> QED
    BY <2>1, <2>2, <2>3, ReserveTypes DEF TypeOK, Tasks, Slots, Counter
<1>3. ASSUME NEW s \in Slots, Record(s) PROVE TypeOK'
  BY <1>3, TaskTypes DEF Record, TypeOK, Tasks, Slots, minutes
<1>4. ASSUME NEW s \in Slots, IssueFails(s) PROVE TypeOK'
  BY <1>4, TaskTypes DEF IssueFails, TypeOK, Tasks, Slots, minutes
<1>5. ASSUME NEW s \in Slots, Release(s) PROVE TypeOK'
  BY <1>5, TaskTypes, ReleaseTypes DEF Release, TypeOK, Tasks, Slots, minutes
<1>6. ASSUME NEW s \in Slots, ReleaseFails(s) PROVE TypeOK'
  BY <1>6, TaskTypes, ReleaseTypes DEF ReleaseFails, TypeOK, Tasks, Slots, minutes
<1>7. ASSUME NEW s \in Slots, ReleaseAfterError(s) PROVE TypeOK'
  BY <1>7, TaskTypes, ReleaseTypes DEF ReleaseAfterError, TypeOK, Tasks, Slots, minutes
<1>8. ASSUME NEW s \in Slots, ReleaseRejects(s) PROVE TypeOK'
  BY <1>8, TaskTypes, ReleaseTypes DEF ReleaseRejects, TypeOK, Tasks, Slots, minutes
<1>9. ASSUME NEW s \in Slots, Answer(s) PROVE TypeOK'
  BY <1>9, TaskTypes DEF Answer, TypeOK, Tasks, Slots, minutes
<1>10. ASSUME NEW r \in Replicas, Crash(r) PROVE TypeOK'
  <2>1. Idle \in Tasks
    BY AgoFacts DEF Idle, Tasks
  <2>2. work' \in [Slots -> Tasks]
    BY <1>0, <1>10, <2>1 DEF Crash, Ended
  <2> QED
    BY <1>10, <2>2 DEF Crash, TypeOK, Tasks, Slots, minutes
<1>11. ASSUME Tick PROVE TypeOK'
  <2>1. work' \in [Slots -> Tasks]
    <3>1. \A s \in Slots : [Waited(work[s]) EXCEPT !.mine = @ /\ concurrent' # Absent] \in Tasks
      BY <1>0, WaitedTypes
    <3> QED
      BY <1>11, <3>1 DEF Tick
  <2>2. requests' \in [Ago -> Counter] /\ admitted' \in [Ago -> Nat] /\ lapsed' \subseteq Ago
    <3>1. Absent \in Counter
      BY DEF Absent, Counter
    <3>2. \A a \in Ago : Aged(requests[a]) \in Counter
      <4>1. MaxRequests + 1 \in Nat /\ MinuteTicks \in Nat
        OBVIOUS
      <4> QED
        BY <1>0, <4>1, AgedTypes DEF Counter
    <3>3. \A a \in Ago : a # 0 => a - 1 \in Ago
      BY DEF Ago
    <3>4. CASE NewMinute
      BY <1>0, <3>1, <3>2, <3>3, <3>4 DEF NewMinute
    <3>5. CASE SameMinute
      BY <1>0, <3>2, <3>5 DEF SameMinute, Expiring, TypeOK
    <3> QED
      BY <1>11, <3>4, <3>5 DEF Tick
  <2>3. concurrent' \in [count : 0 .. MaxConcurrent, ttl : 0 .. ConcurrentTtl]
    BY <1>11, AgedTypes DEF Tick, TypeOK
  <2>4. phase' \in 0 .. MinuteTicks - 1
    BY <1>11 DEF Tick, TypeOK
  <2>5. undercut' \in BOOLEAN
    BY <1>11 DEF Tick, TypeOK
  <2> QED
    BY <2>1, <2>2, <2>3, <2>4, <2>5 DEF TypeOK, Tasks, Slots, Counter
<1>12. TypeOK'
  BY <1>00, <1>1, <1>2, <1>3, <1>4, <1>5, <1>6, <1>7, <1>8, <1>9, <1>10, <1>11, Zenon DEF Next
<1> QED
  BY <1>12 DEF TypeOK, Tasks, Slots, Counter

-----------------------------------------------------------------------------
(* The minute's limit. *)

\* A reservation is admitted only below the limit, and counted.
LEMMA ReserveCounts ==
    ASSUME TypeOK, RequestsOK, NEW a \in Ago, RunReserve(a), UNCHANGED <<phase, lapsed>>
    PROVE  RequestsOK'
<1> USE QuotaAssumption
<1> DEFINE key == requests[a]
<1>0. requests \in [Ago -> Counter] /\ admitted \in [Ago -> Nat] /\ phase \in Nat
  BY DEF TypeOK, Counter
<1>1. key.count \in Nat /\ key.ttl \in Nat /\ admitted[a] \in Nat /\ key \in Counter
  BY <1>0 DEF Counter
<1>2. /\ \A b \in Ago \ {a} : requests'[b] = requests[b] /\ admitted'[b] = admitted[b]
      /\ requests'[a] = IF key.count > MaxRequests THEN key ELSE Incr(key, MinuteTicks)
      /\ admitted'[a] = IF Admits(a) /\ a \notin lapsed THEN admitted[a] + 1 ELSE admitted[a]
  BY <1>0 DEF RunReserve
<1>3. /\ a \notin lapsed => admitted'[a] <= requests'[a].count /\ admitted'[a] <= MaxRequests
      /\ a = 0 /\ requests'[a].count > 0 => requests'[a].ttl >= MinuteTicks - phase
  <2>1. /\ a \notin lapsed => admitted[a] <= key.count /\ admitted[a] <= MaxRequests
        /\ a = 0 /\ key.count > 0 => key.ttl >= MinuteTicks - phase
    BY DEF RequestsOK
  <2>2. CASE key.count > MaxRequests
    <3>1. ~Admits(a)
      BY <1>1, <2>2 DEF Admits
    <3> QED
      BY <1>2, <2>1, <2>2, <3>1
  <2>3. CASE ~ (key.count > MaxRequests)
    <3>1. requests'[a].count = key.count + 1
          /\ requests'[a].ttl = IF key.count = 0 THEN MinuteTicks ELSE key.ttl
      BY <1>2, <2>3 DEF Incr
    <3>2. Admits(a) => key.count < MaxRequests
      BY DEF Admits
    <3> HIDE DEF key
    <3>3. a = 0 => requests'[a].ttl >= MinuteTicks - phase
      BY <1>0, <1>1, <2>1, <3>1
    <3>4. a \notin lapsed => admitted'[a] <= requests'[a].count /\ admitted'[a] <= MaxRequests
      BY <1>1, <1>2, <2>1, <3>1, <3>2
    <3> QED
      BY <3>3, <3>4
  <2> QED
    BY <2>2, <2>3
<1>4. 0 \notin lapsed' /\ lapsed' = lapsed
  BY DEF RequestsOK
<1>5. \A b \in Ago \ lapsed' : admitted'[b] <= requests'[b].count /\ admitted'[b] <= MaxRequests
  BY <1>2, <1>3, <1>4 DEF RequestsOK
<1>6. requests'[0].count > 0 => requests'[0].ttl >= MinuteTicks - phase'
  BY <1>2, <1>3, AgoFacts DEF RequestsOK
<1> QED
  BY <1>4, <1>5, <1>6 DEF RequestsOK

\* A counter that does not expire keeps its count.
LEMMA AgedCount ==
    ASSUME TypeOK, NEW a \in Ago
    PROVE  /\ a \notin Expiring => Aged(requests[a]).count = requests[a].count
           /\ requests[a].count > 0 /\ requests[a].ttl >= 2 =>
                a \notin Expiring /\ Aged(requests[a]).ttl = requests[a].ttl - 1
<1>1. requests[a] \in Counter
  BY DEF TypeOK, Counter
<1>2. CASE requests[a].ttl <= 1
  <2>1. Aged(requests[a]) = Absent /\ Absent.count = 0
    BY <1>2 DEF Aged, Absent
  <2> QED
    BY <1>1, <1>2, <2>1, QuotaAssumption DEF Expiring, Counter
<1>3. CASE ~ (requests[a].ttl <= 1)
  <2>1. Aged(requests[a]) = [requests[a] EXCEPT !.ttl = @ - 1]
    BY <1>3 DEF Aged
  <2>2. Aged(requests[a]).count = requests[a].count /\ Aged(requests[a]).ttl = requests[a].ttl - 1
    BY <1>1, <2>1 DEF Counter
  <2>3. requests[a].count > 0 => Aged(requests[a]) # Absent
    BY <1>1, <2>2, QuotaAssumption DEF Absent, Counter
  <2> QED
    BY <2>2, <2>3 DEF Expiring
<1> QED
  BY <1>2, <1>3

\* The counter of a minute does not expire before its minute ends, and what it
\* admitted stays covered until it does.
LEMMA MinuteEnds ==
    ASSUME TypeOK, RequestsOK, Tick
    PROVE  RequestsOK'
<1> USE QuotaAssumption
<1>0. requests \in [Ago -> Counter] /\ admitted \in [Ago -> Nat] /\ phase \in 0 .. MinuteTicks - 1
  BY DEF TypeOK, Counter
<1>1. ASSUME NEW a \in Ago, a \notin lapsed \cup Expiring
      PROVE  admitted[a] <= Aged(requests[a]).count /\ admitted[a] <= MaxRequests
  BY <1>1, AgedCount DEF RequestsOK
<1>2. CASE phase' = 0
  <2>1. NewMinute
    BY <1>2 DEF Tick
  <2>2. requests'[0] = Absent /\ admitted'[0] = 0 /\ Absent.count = 0 /\ 0 \notin lapsed'
    BY <2>1, AgoFacts DEF NewMinute, Absent
  <2>3. ASSUME NEW a \in Ago \ lapsed'
        PROVE  admitted'[a] <= requests'[a].count /\ admitted'[a] <= MaxRequests
    <3>1. CASE a = 0
      BY <2>2, <3>1
    <3>2. CASE a # 0
      <4>1. a - 1 \in Ago /\ a - 1 \notin lapsed \cup Expiring
        BY <2>1, <2>3, <3>2 DEF NewMinute, Ago
      <4>2. requests'[a] = Aged(requests[a - 1]) /\ admitted'[a] = admitted[a - 1]
        BY <2>1, <3>2 DEF NewMinute
      <4> QED
        BY <1>1, <4>1, <4>2
    <3> QED
      BY <3>1, <3>2
  <2> QED
    BY <2>2, <2>3 DEF RequestsOK
<1>3. CASE phase' # 0
  <2>1. phase' = phase + 1 /\ phase + 1 < MinuteTicks
    <3>1. phase \in 0 .. MinuteTicks - 1 /\ phase' = (phase + 1) % MinuteTicks
      BY DEF Tick, TypeOK
    <3>2. CASE phase + 1 = MinuteTicks
      <4>1. MinuteTicks % MinuteTicks = 0
        OBVIOUS
      <4> QED
        BY <1>3, <3>1, <3>2, <4>1
    <3>3. CASE phase + 1 < MinuteTicks
      <4>1. \A m \in Nat \ {0}, k \in Nat : k < m => k % m = k
        OBVIOUS
      <4> QED
        BY <3>1, <3>3, <4>1
    <3> QED
      BY <3>1, <3>2, <3>3
  <2>2. SameMinute
    BY <1>3 DEF Tick
  <2>3. \A a \in Ago : requests'[a] = Aged(requests[a]) /\ admitted'[a] = admitted[a]
    BY <2>2 DEF SameMinute
  <2>4. \A a \in Ago \ lapsed' : admitted'[a] <= requests'[a].count /\ admitted'[a] <= MaxRequests
    BY <1>1, <2>2, <2>3 DEF SameMinute
  <2>5. CASE requests[0].count > 0
    <3>1. requests[0].ttl >= MinuteTicks - phase /\ requests[0] \in Counter
      BY <1>0, <2>5, AgoFacts DEF RequestsOK
    <3>2. requests[0].ttl >= 2 /\ requests[0].ttl \in Nat
      BY <1>0, <2>1, <3>1 DEF Counter
    <3>3. 0 \notin Expiring /\ Aged(requests[0]).ttl = requests[0].ttl - 1
      BY <2>5, <3>2, AgedCount, AgoFacts
    <3>4. 0 \notin lapsed' /\ requests'[0].ttl >= MinuteTicks - phase'
      BY <1>0, <2>1, <2>2, <2>3, <3>1, <3>2, <3>3, AgoFacts DEF RequestsOK, SameMinute
    <3> QED
      BY <2>4, <3>4 DEF RequestsOK
  <2>6. CASE ~ (requests[0].count > 0)
    <3>1. 0 \notin Expiring
      BY <2>6 DEF Expiring
    <3>2. requests'[0].count = requests[0].count
      BY <2>3, <3>1, AgedCount, AgoFacts
    <3> QED
      BY <2>2, <2>4, <2>6, <3>1, <3>2 DEF RequestsOK, SameMinute
  <2> QED
    BY <2>5, <2>6
<1> QED
  BY <1>2, <1>3

\* Every step keeps the minute's count.
LEMMA RequestsKept ==
    ASSUME TypeOK, RequestsOK, Next
    PROVE  RequestsOK'
<1>1. CASE UNCHANGED <<requests, phase, admitted, lapsed>>
  BY <1>1 DEF RequestsOK
<1>2. ASSUME NEW s \in Slots, Reserve(s) \/ ReserveFails(s)
      PROVE  RequestsOK'
  <2>1. work[s].ago \in Ago
    BY DEF TypeOK
  <2>2. UNCHANGED <<phase, lapsed>> /\ (RunReserve(work[s].ago) \/ UNCHANGED <<requests, admitted>>)
    BY <1>2 DEF Reserve, ReserveFails
  <2> QED
    BY <1>1, <2>1, <2>2, ReserveCounts
<1>3. CASE Tick
  BY <1>3, MinuteEnds
<1> QED
  BY <1>1, <1>2, <1>3 DEF Next, minutes, ReadClock, Record, IssueFails, Release,
     ReleaseFails, ReleaseAfterError, ReleaseRejects, Answer, Crash

-----------------------------------------------------------------------------
(* The concurrency limit. *)

\* The reservations counted are finitely many.
LEMMA CountedFinite ==
    IsFiniteSet(Counted) /\ Cardinality(Counted) \in Nat
<1>1. IsFiniteSet(Slots)
  BY FS_Product, QuotaAssumption DEF Slots
<1>2. Counted \in SUBSET Slots
  BY DEF Counted, Holders
<1>3. IsFiniteSet(Counted)
  BY <1>1, <1>2, FS_Subset
<1> QED
  BY <1>3, FS_CardinalityType

\* Fewer reservations are covered by the same count.
LEMMA StillCovered ==
    ASSUME TypeOK, SlotsOK, Counted' \subseteq Counted, UNCHANGED <<concurrent, undercut>>
    PROVE  SlotsOK'
<1>1. Cardinality(Counted') <= Cardinality(Counted) /\ Cardinality(Counted') \in Nat
  BY CountedFinite, FS_Subset, FS_CardinalityType
<1>2. concurrent.count \in Nat
  BY DEF TypeOK
<1>3. CASE undercut
  BY <1>3 DEF SlotsOK
<1>4. CASE Cardinality(Counted) <= concurrent.count
  <2>1. Cardinality(Counted') <= concurrent.count
    BY <1>1, <1>2, <1>4, CountedFinite
  <2> QED
    BY <2>1 DEF SlotsOK
<1> QED
  BY <1>3, <1>4 DEF SlotsOK

\* A release takes off the count what it takes off the reservations; one that
\* was not counted leaves a mark.
LEMMA ReleaseCovered ==
    ASSUME TypeOK, SlotsOK, NEW s \in Slots, s \in Holders,
           RunRelease(s) \/ UNCHANGED <<concurrent, undercut>>,
           Counted' \subseteq Counted \ {s}
    PROVE  SlotsOK'
<1>1. CASE UNCHANGED <<concurrent, undercut>>
  BY <1>1, StillCovered
<1>2. CASE RunRelease(s) /\ concurrent.count > 0
  <2>1. concurrent' = [concurrent EXCEPT !.count = @ - 1]
    BY <1>2 DEF RunRelease, TypeOK
  <2>2. undercut' = (undercut \/ ~work[s].mine)
    BY <1>2 DEF RunRelease, TypeOK
  <2>3. CASE undercut \/ ~work[s].mine
    BY <2>2, <2>3 DEF SlotsOK
  <2>4. CASE ~undercut /\ work[s].mine
    <3>1. s \in Counted
      BY <2>4 DEF Counted
    <3>2. IsFiniteSet(Counted \ {s}) /\ Cardinality(Counted \ {s}) = Cardinality(Counted) - 1
      BY <3>1, CountedFinite, FS_RemoveElement
    <3>3. Cardinality(Counted') <= Cardinality(Counted \ {s}) /\ Cardinality(Counted') \in Nat
      BY <3>2, FS_Subset, FS_CardinalityType
    <3>4. Cardinality(Counted) <= concurrent.count
      BY <2>4 DEF SlotsOK
    <3>5. concurrent'.count = concurrent.count - 1 /\ concurrent.count \in Nat
      BY <2>1 DEF TypeOK
    <3>6. Cardinality(Counted') <= concurrent'.count
      BY <3>2, <3>3, <3>4, <3>5, CountedFinite
    <3> QED
      BY <3>6 DEF SlotsOK
  <2> QED
    BY <2>3, <2>4
<1> QED
  BY <1>1, <1>2 DEF RunRelease, TypeOK

\* A reservation that is admitted is counted.
LEMMA ReserveCovered ==
    ASSUME TypeOK, SlotsOK, NEW a, RunReserve(a), undercut' = undercut,
           NEW S, Counted' \subseteq S,
           IF Admits(a) THEN \E s : S = Counted \cup {s} ELSE S = Counted
    PROVE  SlotsOK'
<1>1. CASE ~Admits(a)
  <2>1. concurrent' = concurrent
    BY <1>1 DEF RunReserve
  <2> QED
    BY <1>1, <2>1, StillCovered
<1>2. CASE Admits(a)
  <2>1. PICK s : S = Counted \cup {s}
    BY <1>2
  <2>2. IsFiniteSet(S) /\ Cardinality(S) \in Nat /\ Cardinality(S) <= Cardinality(Counted) + 1
    <3>1. /\ IsFiniteSet(Counted \cup {s})
          /\ Cardinality(Counted \cup {s}) =
                IF s \in Counted THEN Cardinality(Counted) ELSE Cardinality(Counted) + 1
      BY CountedFinite, FS_AddElement
    <3> QED
      BY <2>1, <3>1, CountedFinite
  <2>3. Cardinality(Counted') <= Cardinality(S) /\ Cardinality(Counted') \in Nat
    BY <2>2, FS_Subset, FS_CardinalityType
  <2>4. concurrent'.count = concurrent.count + 1 /\ concurrent.count \in Nat
    BY <1>2 DEF RunReserve, Incr, TypeOK
  <2>5. CASE undercut
    BY <2>5 DEF SlotsOK
  <2>6. CASE Cardinality(Counted) <= concurrent.count
    <3>1. Cardinality(Counted') <= concurrent'.count
      BY <2>2, <2>3, <2>4, <2>6, CountedFinite
    <3> QED
      BY <3>1 DEF SlotsOK
  <2> QED
    BY <2>5, <2>6 DEF SlotsOK
<1> QED
  BY <1>1, <1>2

\* What the changes of a handler's task do to the reservations counted.
LEMMA TaskCounted ==
    ASSUME TypeOK, NEW s \in Slots
    PROVE  /\ \A pc \in {"issuing", "releasing", "failing"} :
                 s \in Holders /\ To(s, pc) => Counted' \subseteq Counted
           /\ To(s, "saving") => Counted' \subseteq Counted \ {s}
           /\ End(s) => Counted' \subseteq Counted \ {s}
           /\ Ended(s[1]) => Counted' \subseteq Counted \ {s}
<1>1. work \in [Slots -> Tasks]
  BY DEF TypeOK, Tasks
<1>2. ASSUME NEW pc \in {"issuing", "releasing", "failing", "saving"}, To(s, pc)
      PROVE  /\ work'[s].pc = pc /\ work'[s].mine = work[s].mine
             /\ \A u \in Slots \ {s} : work'[u] = work[u]
  BY <1>1, <1>2 DEF To, Tasks
<1>3. ASSUME NEW pc \in {"issuing", "releasing", "failing"}, s \in Holders, To(s, pc)
      PROVE  Counted' \subseteq Counted
  <2>1. /\ work'[s].mine = work[s].mine
        /\ \A u \in Slots \ {s} : work'[u] = work[u]
    BY <1>2, <1>3
  <2> QED
    BY <1>3, <2>1 DEF Counted, Holders
<1>4. ASSUME To(s, "saving") PROVE Counted' \subseteq Counted \ {s}
  <2>1. /\ work'[s].pc = "saving"
        /\ \A u \in Slots \ {s} : work'[u] = work[u]
    BY <1>2, <1>4
  <2> QED
    BY <2>1 DEF Counted, Holders
<1>5. ASSUME End(s) PROVE Counted' \subseteq Counted \ {s}
  <2>1. /\ work'[s].pc = "idle"
        /\ \A u \in Slots \ {s} : work'[u] = work[u]
    BY <1>1, <1>5 DEF End, Idle
  <2> QED
    BY <2>1 DEF Counted, Holders
<1>6. ASSUME Ended(s[1]) PROVE Counted' \subseteq Counted \ {s}
  <2>1. \A u \in Slots : work'[u] = (IF u[1] = s[1] THEN Idle ELSE work[u])
    BY <1>6 DEF Ended
  <2>2. Idle.pc = "idle"
    BY DEF Idle
  <2> QED
    BY <2>1, <2>2 DEF Counted, Holders
<1> QED
  BY <1>3, <1>4, <1>5, <1>6

\* Every step keeps the reservations covered.
LEMMA SlotsKept ==
    ASSUME TypeOK, SlotsOK, Next
    PROVE  SlotsOK'
<1>0. work \in [Slots -> Tasks]
  BY DEF TypeOK, Tasks
<1>00. ASSUME NEW s \in Slots, ReadClock(s) PROVE SlotsOK'
  <2>1. work' = [work EXCEPT ![s] = [work[s] EXCEPT !.pc = "asking"]]
    BY <1>00 DEF ReadClock, To
  <2>2. work'[s].pc = "asking" /\ \A u \in Slots \ {s} : work'[u] = work[u]
    BY <1>0, <2>1 DEF Tasks
  <2>3. Counted' \subseteq Counted
    BY <2>2 DEF Counted, Holders
  <2> QED
    BY <1>00, <2>3, StillCovered DEF ReadClock
<1>1. ASSUME NEW s \in Slots, Reserve(s) PROVE SlotsOK'
  <2>1. work' = [work EXCEPT ![s] = IF Admits(work[s].ago) THEN Holding ELSE Idle]
    BY <1>1 DEF Reserve
  <2>2. RunReserve(work[s].ago) /\ undercut' = undercut
    BY <1>1 DEF Reserve
  <2>3. CASE Admits(work[s].ago)
    <3>1. Counted' \subseteq Counted \cup {s}
      BY <1>0, <2>1 DEF Counted, Holders
    <3> QED
      BY <2>2, <2>3, <3>1, ReserveCovered
  <2>4. CASE ~Admits(work[s].ago)
    <3>1. Counted' \subseteq Counted
      BY <1>0, <2>1, <2>4 DEF Counted, Holders, Idle
    <3> QED
      BY <2>2, <2>4, <3>1, ReserveCovered
  <2> QED
    BY <2>3, <2>4
<1>2. ASSUME NEW s \in Slots, ReserveFails(s) PROVE SlotsOK'
  <2>1. undercut' = undercut /\ Counted' \subseteq Counted
    BY <1>2, TaskCounted DEF ReserveFails
  <2>2. CASE RunReserve(work[s].ago)
    <3>1. Counted' \subseteq Counted \cup {s}
      BY <2>1
    <3> QED
      BY <2>1, <2>2, <3>1, ReserveCovered
  <2>3. CASE UNCHANGED <<requests, concurrent, admitted>>
    BY <2>1, <2>3, StillCovered
  <2> QED
    BY <1>2, <2>2, <2>3 DEF ReserveFails
<1>3. ASSUME NEW s \in Slots, Record(s) PROVE SlotsOK'
  <2>1. s \in Holders
    BY <1>3 DEF Record, Holders
  <2> QED
    BY <1>3, <2>1, TaskCounted, StillCovered DEF Record
<1>4. ASSUME NEW s \in Slots, IssueFails(s) PROVE SlotsOK'
  <2>1. s \in Holders
    BY <1>4 DEF IssueFails, Holders
  <2> QED
    BY <1>4, <2>1, TaskCounted, StillCovered DEF IssueFails
<1>5. ASSUME NEW s \in Slots, Release(s) PROVE SlotsOK'
  <2>1. s \in Holders
    BY <1>5 DEF Release, Holders
  <2> QED
    BY <1>5, <2>1, TaskCounted, ReleaseCovered DEF Release
<1>6. ASSUME NEW s \in Slots, ReleaseFails(s) PROVE SlotsOK'
  <2>1. s \in Holders
    BY <1>6 DEF ReleaseFails, Holders
  <2> QED
    BY <1>6, <2>1, TaskCounted, ReleaseCovered DEF ReleaseFails
<1>7. ASSUME NEW s \in Slots, ReleaseAfterError(s) PROVE SlotsOK'
  <2>1. s \in Holders
    BY <1>7 DEF ReleaseAfterError, Holders
  <2> QED
    BY <1>7, <2>1, TaskCounted, ReleaseCovered DEF ReleaseAfterError
<1>8. ASSUME NEW s \in Slots, ReleaseRejects(s) PROVE SlotsOK'
  <2>1. s \in Holders
    BY <1>8 DEF ReleaseRejects, Holders
  <2> QED
    BY <1>8, <2>1, TaskCounted, ReleaseCovered DEF ReleaseRejects
<1>9. ASSUME NEW s \in Slots, Answer(s) PROVE SlotsOK'
  BY <1>9, TaskCounted, StillCovered DEF Answer
<1>10. ASSUME NEW r \in Replicas, Crash(r) PROVE SlotsOK'
  <2>1. \A u \in Slots : work'[u] = (IF u[1] = r THEN Idle ELSE work[u])
    BY <1>10 DEF Crash, Ended
  <2>2. Idle.pc = "idle"
    BY DEF Idle
  <2>3. Counted' \subseteq Counted
    BY <2>1, <2>2 DEF Counted, Holders
  <2> QED
    BY <1>10, <2>3, StillCovered DEF Crash
<1>11. ASSUME Tick PROVE SlotsOK'
  <2>1. \A s \in Slots : work'[s] = [Waited(work[s]) EXCEPT !.mine = @ /\ concurrent' # Absent]
    BY <1>11 DEF Tick
  <2>2. CASE concurrent' = Absent
    <3>1. \A s \in Slots : Waited(work[s]) \in Tasks
      BY <1>0, AgoFacts, QuotaAssumption DEF Waited, Tasks, Idle, Ago
    <3>2. \A s \in Slots : work'[s].mine = FALSE
      BY <2>1, <2>2, <3>1 DEF Tasks
    <3>3. Counted' = {}
      BY <3>2 DEF Counted, Holders
    <3>4. concurrent'.count = 0
      BY <2>2 DEF Absent
    <3>5. Cardinality(Counted') <= concurrent'.count
      BY <3>3, <3>4, FS_EmptySet
    <3> QED
      BY <3>5 DEF SlotsOK
  <2>3. CASE concurrent' # Absent
    <3>1. undercut' = undercut
      BY <1>11, <2>3 DEF Tick, TypeOK
    <3>2. concurrent'.count = concurrent.count
      BY <1>11, <2>3 DEF Tick, Aged, TypeOK
    <3>3. ASSUME NEW s \in Counted'
          PROVE  s \in Counted
      <4>1. s \in Slots /\ work'[s].pc \in {"issuing", "releasing", "failing"} /\ work'[s].mine
        BY <3>3 DEF Counted, Holders
      <4>2. CASE work[s].pc # "asking"
        <5>1. Waited(work[s]) = work[s]
          BY <4>2 DEF Waited
        <5>2. work'[s] = [work[s] EXCEPT !.mine = @ /\ concurrent' # Absent]
          BY <2>1, <4>1, <5>1
        <5> QED
          BY <1>0, <4>1, <5>2 DEF Counted, Holders, Tasks
      <4>3. CASE work[s].pc = "asking"
        <5>1. Waited(work[s]) \in Tasks /\ Waited(work[s]).pc \in {"asking", "idle"}
          BY <1>0, <4>1, <4>3, AgoFacts, QuotaAssumption DEF Waited, Tasks, Idle, Ago
        <5>2. work'[s].pc = Waited(work[s]).pc
          <6>1. \A w \in Tasks, m \in BOOLEAN : [w EXCEPT !.mine = @ /\ m].pc = w.pc
            BY DEF Tasks
          <6>. QED
            BY <2>1, <4>1, <5>1, <6>1
        <5> QED
          BY <4>1, <5>1, <5>2
      <4> QED
        BY <4>2, <4>3
    <3>4. Cardinality(Counted') <= Cardinality(Counted) /\ Cardinality(Counted') \in Nat
      BY <3>3, CountedFinite, FS_Subset, FS_CardinalityType
    <3>5. concurrent.count \in Nat
      BY DEF TypeOK
    <3> QED
      BY <3>1, <3>2, <3>4, <3>5, CountedFinite DEF SlotsOK
  <2> QED
    BY <2>2, <2>3
<1> QED
  BY <1>00, <1>1, <1>2, <1>3, <1>4, <1>5, <1>6, <1>7, <1>8, <1>9, <1>10, <1>11, Zenon DEF Next

-----------------------------------------------------------------------------
(* Theorems. *)

\* The invariant holds: types, the minute's count, the reservations' count
\* (redis-token-quota.ts:5-20, server.ts:1658-1767).
THEOREM QuotaInvariant == Spec => []QuotaInv
<1>1. Init => QuotaInv
  <2> SUFFICES ASSUME Init PROVE QuotaInv
    OBVIOUS
  <2> USE QuotaAssumption
  <2>1. TypeOK
    <3>1. Idle \in Tasks
      BY AgoFacts DEF Idle, Tasks
    <3>2. \A c, t \in Nat : Absent \in [count : 0 .. c, ttl : 0 .. t]
      BY DEF Absent
    <3>3. requests \in [Ago -> Counter]
      <4>1. MaxRequests + 1 \in Nat /\ MinuteTicks \in Nat
        OBVIOUS
      <4> QED
        BY <3>2, <4>1 DEF Init, Counter
    <3>4. concurrent \in [count : 0 .. MaxConcurrent, ttl : 0 .. ConcurrentTtl]
      BY <3>2 DEF Init
    <3>5. phase \in 0 .. MinuteTicks - 1 /\ admitted \in [Ago -> Nat] /\ lapsed \subseteq Ago
      BY DEF Init
    <3>6. undercut \in BOOLEAN
      BY DEF Init
    <3> QED
      BY <3>1, <3>3, <3>4, <3>5, <3>6 DEF Init, TypeOK, Tasks, Counter
  <2>2. RequestsOK
    BY AgoFacts DEF Init, RequestsOK, Absent
  <2>3. SlotsOK
    <3>1. \A s \in Slots : work[s].pc = "idle"
      BY DEF Init, Idle
    <3>2. Counted = {}
      BY <3>1 DEF Counted, Holders
    <3>3. Cardinality(Counted) <= concurrent.count
      BY <3>2, FS_EmptySet DEF Init, Absent
    <3> QED
      BY <3>3 DEF SlotsOK
  <2> QED
    BY <2>1, <2>2, <2>3 DEF QuotaInv
<1>2. QuotaInv /\ [Next]_vars => QuotaInv'
  <2>1. ASSUME QuotaInv, Next PROVE QuotaInv'
    BY <2>1, TypesKept, RequestsKept, SlotsKept DEF QuotaInv
  <2>2. ASSUME QuotaInv, UNCHANGED vars PROVE QuotaInv'
    BY <2>2 DEF QuotaInv, vars, TypeOK, RequestsOK, SlotsOK, Counted, Holders
  <2> QED
    BY <2>1, <2>2
<1> QED
  BY <1>1, <1>2, PTL DEF Spec

\* A minute's counter does not expire while the minute runs, and of the requests
\* that read the clock in one minute no more are admitted than the policy says
\* until it expires, however late their scripts run (redis-token-quota.ts:6-9,
\* :38-41).
THEOREM MinuteLimitHolds == Spec => []MinuteLimit
<1>1. QuotaInv => MinuteLimit
  BY DEF QuotaInv, RequestsOK, MinuteLimit
<1> QED
  BY <1>1, QuotaInvariant, PTL

\* Until the counter expires over a reservation, no more requests are being
\* worked on than the policy says, whatever fails, gets lost or crashes
\* (redis-token-quota.ts:10-13, 16-20, 43-48, server.ts:1766).
THEOREM ConcurrentLimitHolds == Spec => []ConcurrentLimit
<1>1. ASSUME QuotaInv, ~undercut, \A s \in Holders : work[s].mine
      PROVE  Cardinality(Holders) <= MaxConcurrent
  <2>1. Counted = Holders
    BY <1>1 DEF Counted
  <2>2. Cardinality(Counted) <= concurrent.count
    BY <1>1 DEF QuotaInv, SlotsOK
  <2>3. concurrent.count \in 0 .. MaxConcurrent
    BY <1>1 DEF QuotaInv, TypeOK
  <2> QED
    BY <2>1, <2>2, <2>3, CountedFinite, QuotaAssumption
<1>2. QuotaInv => ConcurrentLimit
  BY <1>1 DEF ConcurrentLimit
<1> QED
  BY <1>2, QuotaInvariant, PTL

-----------------------------------------------------------------------------
(* The requests of data subjects: both services keep the lifecycle, and     *)
(* what is said about a request is true of it.                              *)

Actors == RouteCallers \cup Processors

\* Requests are numbered without gaps, so a new one takes the place of none.
Numbered == \E n \in 0 .. MaxDataRequests : Stored = 1 .. n

OneRequestPerKey == \A i, j \in Stored : rows[i].key = rows[j].key => i = j

\* A caller under way has a request.
CallsOK == \A a \in Actors :
    /\ ~At(a, "idle") => call[a].row \in DataRequests
    /\ At(a, "loaded") => call[a].op \in Operations \ {"submit"}

\* A request whose processing has not begun has no executor call, made or about
\* to be made; of the processors of a request one at most is about to make it.
WorkOK ==
    /\ \A i \in DataRequests : executed[i] <= 1
    /\ \A i \in DataRequests : rows[i].status \in {"none", "received"} => executed[i] = 0
    /\ \A p \in Actors : At(p, "started") =>
        /\ rows[call[p].row].status \notin {"none", "received"}
        /\ executed[call[p].row] = 0
        /\ \A q \in Actors : At(q, "started") /\ call[q].row = call[p].row => q = p

\* Who was told to have ended a request did, and it stays ended.
ClaimsOK == \A a \in Actors, i \in DataRequests : <<a, i>> \in claims =>
    rows[i].endedBy = a /\ rows[i].status \in {"completed", "rejected"}

\* A route audits what was done.
AuditsOK ==
    /\ \A i \in DataRequests, op \in Operations : <<i, op>> \in auditedOps => op \in tried[i]
    /\ \A i \in Stored : "submit" \in tried[i]
    /\ \A a \in Actors : At(a, "auditing") => call[a].op \in tried[call[a].row]
    /\ answered \subseteq auditedOps

RightsInv ==
    DataRightsTypeOK /\ Numbered /\ OneRequestPerKey /\ CallsOK /\ WorkOK /\ ClaimsOK /\ AuditsOK

-----------------------------------------------------------------------------
(* The statements. *)

RowType == [key : SubmitKeys \cup {Unset}, content : Contents \cup {Unset},
            status : {"none", "received", "processing", "completed", "rejected"},
            endedBy : RouteCallers \cup Processors \cup {Unset}]

\* What the statements do to the rows of requests: they stay well formed,
\* processing that began stays begun, what ended stays as it is.
RowsGrow ==
    /\ rows' \in [DataRequests -> RowType]
    /\ tried' \in [DataRequests -> SUBSET Operations]
    /\ Numbered' /\ OneRequestPerKey'
    /\ (\A i \in Stored : "submit" \in tried[i])'
    /\ \A i \in DataRequests :
        /\ tried[i] \subseteq tried'[i]
        /\ rows'[i].status \in {"none", "received"} => rows[i].status \in {"none", "received"}
        /\ rows[i].status \in {"completed", "rejected"} => rows'[i] = rows[i]

\* A request's own number, when it is new, is free.
LEMMA NextNumber ==
    ASSUME RightsInv
    PROVE  /\ Cardinality(Stored) + 1 \notin Stored
           /\ Cardinality(Stored) \in Nat
           /\ Stored = 1 .. Cardinality(Stored)
<1>1. PICK n \in 0 .. MaxDataRequests : Stored = 1 .. n
  BY DEF RightsInv, Numbered
<1>2. n \in Nat
  BY <1>1, DataRightsAssumption
<1>3. Cardinality(1 .. n) = n
  BY <1>2, FS_Interval, SMT
<1>. QED
  BY <1>1, <1>2, <1>3

\* submit creates one request of its key, "received", or finds it.
LEMMA SubmitStep ==
    ASSUME RightsInv, NEW k \in SubmitKeys, NEW c \in Contents, NEW i \in DataRequests,
           Submitted(k, c, i)
    PROVE  \/ /\ OfKey(k, c) = {} /\ i = Cardinality(Stored) + 1
              /\ rows[i].status = "none"
              /\ rows' = [rows EXCEPT ![i] = [key |-> k, content |-> c,
                                              status |-> "received", endedBy |-> Unset]]
              /\ tried' = [tried EXCEPT ![i] = @ \cup {"submit"}]
           \/ i \in Stored /\ "submit" \in tried[i] /\ UNCHANGED <<rows, tried>>
<1>1. CASE OfKey(k, c) = {}
  <2>1. i \notin Stored
    BY <1>1, NextNumber DEF Submitted
  <2>. QED
    BY <1>1, <2>1 DEF Submitted, Stored
<1>2. CASE OfKey(k, c) # {}
  BY <1>2 DEF Submitted, OfKey, RightsInv, AuditsOK
<1>. QED
  BY <1>1, <1>2

\* Nothing done keeps the rows.
LEMMA NoStatement ==
    ASSUME RightsInv, UNCHANGED <<rows, tried>>
    PROVE  RowsGrow
BY DEF RightsInv, DataRightsTypeOK, RowType, RowsGrow, Numbered, OneRequestPerKey, Stored, AuditsOK

\* submit keeps the other rows; the key of a new one was not in use.
LEMMA SubmitGrows ==
    ASSUME RightsInv, NEW k \in SubmitKeys, NEW c \in Contents, NEW i \in DataRequests,
           Submitted(k, c, i)
    PROVE  RowsGrow /\ "submit" \in tried'[i]
<1>1. CASE UNCHANGED <<rows, tried>>
  <2>1. (i \in Stored /\ "submit" \in tried[i]) \/ i \notin Stored
    BY DEF RightsInv, AuditsOK
  <2>2. i \in Stored
    <3>1. CASE OfKey(k, c) = {}
      <4>1. rows[i].status = "none" /\ rows'[i].status = "received"
        BY <3>1, SubmitStep DEF RightsInv, DataRightsTypeOK, OfKey, Submitted
      <4>. QED
        BY <1>1, <4>1
    <3>2. CASE OfKey(k, c) # {}
      BY <3>2 DEF Submitted, OfKey
    <3>. QED
      BY <3>1, <3>2
  <2>. QED
    BY <1>1, <2>1, <2>2, NoStatement
<1>2. CASE ~(UNCHANGED <<rows, tried>>)
  <2>. DEFINE new == [key |-> k, content |-> c, status |-> "received", endedBy |-> Unset]
  <2>1. /\ OfKey(k, c) = {} /\ i = Cardinality(Stored) + 1
        /\ rows[i].status = "none"
        /\ rows' = [rows EXCEPT ![i] = new]
        /\ tried' = [tried EXCEPT ![i] = @ \cup {"submit"}]
    BY <1>2, SubmitStep
  <2>2. rows \in [DataRequests -> RowType] /\ tried \in [DataRequests -> SUBSET Operations]
    BY DEF RightsInv, DataRightsTypeOK, RowType
  <2>3. new \in RowType
    BY DEF RowType
  <2>4. rows' \in [DataRequests -> RowType] /\ tried' \in [DataRequests -> SUBSET Operations]
    BY <2>1, <2>2, <2>3 DEF Operations
  <2>5. /\ rows'[i] = new
        /\ \A j \in DataRequests \ {i} : rows'[j] = rows[j] /\ tried'[j] = tried[j]
        /\ tried'[i] = tried[i] \cup {"submit"}
    BY <2>1, <2>2
  <2>6. new.status = "received" /\ new.key = k
    OBVIOUS
  <2>. HIDE DEF new
  <2>7. Stored' = Stored \cup {i} /\ i \notin Stored
    BY <2>1, <2>5, <2>6 DEF Stored
  <2>8. Numbered'
    <3>1. /\ Stored = 1 .. Cardinality(Stored) /\ Cardinality(Stored) \in Nat
          /\ MaxDataRequests \in Nat /\ i \in 1 .. MaxDataRequests
      BY NextNumber, DataRightsAssumption DEF DataRequests
    <3>2. Stored' = 1 .. i /\ i \in 0 .. MaxDataRequests
      BY <2>1, <2>7, <3>1
    <3>. QED
      BY <3>2 DEF Numbered
  <2>9. OneRequestPerKey'
    <3>1. \A j \in Stored : rows[j].key # k
      BY <2>1 DEF OfKey
    <3>. QED
      BY <2>5, <2>6, <2>7, <3>1 DEF RightsInv, OneRequestPerKey, Stored
  <2>10. (\A j \in Stored : "submit" \in tried[j])'
    BY <2>5, <2>7 DEF RightsInv, AuditsOK, Stored
  <2>11. \A j \in DataRequests :
            /\ tried[j] \subseteq tried'[j]
            /\ rows'[j].status \in {"none", "received"} => rows[j].status \in {"none", "received"}
            /\ rows[j].status \in {"completed", "rejected"} => rows'[j] = rows[j]
    BY <2>1, <2>5, <2>6
  <2>. QED
    BY <2>4, <2>5, <2>8, <2>9, <2>10, <2>11 DEF RowsGrow
<1>. QED
  BY <1>1, <1>2

\* start, complete and reject move one request forward and say who ended it.
LEMMA UpdateStep ==
    ASSUME RightsInv, NEW a \in Actors, NEW op \in Operations \ {"submit"}, NEW i \in DataRequests,
           Updated(a, op, i)
    PROVE  /\ RowsGrow
           /\ i \in Stored /\ op \in tried'[i]
           /\ rows[i].status \in Permitted(op) /\ rows'[i].status = StatusAfter(op)
           /\ op # "start" => rows'[i].endedBy = a
           /\ \A j \in DataRequests \ {i} : rows'[j] = rows[j]
<1>. DEFINE by == IF op = "start" THEN Unset ELSE a
            new == [rows[i] EXCEPT !.status = StatusAfter(op), !.endedBy = by]
<1>1. rows \in [DataRequests -> RowType] /\ tried \in [DataRequests -> SUBSET Operations]
  BY DEF RightsInv, DataRightsTypeOK, RowType
<1>2. /\ Permitted(op) \subseteq {"received", "processing"}
      /\ StatusAfter(op) \in {"processing", "completed", "rejected"}
  BY DEF Permitted, StatusAfter, Operations
<1>3. rows[i].status \in Permitted(op) /\ i \in Stored
  BY <1>2 DEF Updated, Stored
<1>4. rows' = [rows EXCEPT ![i] = new] /\ tried' = [tried EXCEPT ![i] = @ \cup {op}]
  BY <1>1 DEF Updated
<1>5. /\ new \in RowType
      /\ new.status = StatusAfter(op) /\ new.endedBy = by /\ new.key = rows[i].key
  BY <1>1, <1>2 DEF RowType, Actors
<1>. HIDE DEF new
<1>6. /\ rows' \in [DataRequests -> RowType] /\ tried' \in [DataRequests -> SUBSET Operations]
      /\ rows'[i] = new /\ tried'[i] = tried[i] \cup {op}
      /\ \A j \in DataRequests \ {i} : rows'[j] = rows[j] /\ tried'[j] = tried[j]
  BY <1>1, <1>4, <1>5
<1>7. Stored' = Stored
  BY <1>2, <1>3, <1>5, <1>6 DEF Stored
<1>8. Numbered' /\ OneRequestPerKey' /\ (\A j \in Stored : "submit" \in tried[j])'
  <2>1. Numbered'
    BY <1>7 DEF RightsInv, Numbered
  <2>2. \A j \in DataRequests : rows'[j].key = rows[j].key
    BY <1>5, <1>6
  <2>3. Stored \subseteq DataRequests
    BY DEF Stored
  <2>4. OneRequestPerKey'
    BY <1>7, <2>2, <2>3 DEF RightsInv, OneRequestPerKey
  <2>5. \A j \in Stored : "submit" \in tried'[j]
    BY <1>6, <2>3 DEF RightsInv, AuditsOK
  <2>. QED
    BY <1>7, <2>1, <2>4, <2>5
<1>9. \A j \in DataRequests :
        /\ tried[j] \subseteq tried'[j]
        /\ rows'[j].status \in {"none", "received"} => rows[j].status \in {"none", "received"}
        /\ rows[j].status \in {"completed", "rejected"} => rows'[j] = rows[j]
  BY <1>2, <1>3, <1>5, <1>6
<1>. QED
  BY <1>3, <1>5, <1>6, <1>8, <1>9 DEF RowsGrow

-----------------------------------------------------------------------------
(* The steps of callers and processors. *)

CallType == [pc : {"idle", "loaded", "auditing", "started", "executing", "completing", "rejecting"},
             op : Operations, row : 0 .. MaxDataRequests]

\* No executor is called, or about to be.
LEMMA WorkKept ==
    ASSUME RightsInv, RowsGrow, NEW a \in Actors, NEW c \in CallType,
           call' = [call EXCEPT ![a] = c], c.pc # "started", UNCHANGED executed
    PROVE  WorkOK'
<1>1. \A i \in DataRequests : executed[i] <= 1
  BY DEF RightsInv, WorkOK
<1>2. \A i \in DataRequests : rows'[i].status \in {"none", "received"} => executed[i] = 0
  BY DEF RightsInv, WorkOK, RowsGrow
<1>3. \A p \in Actors : At(p, "started")' => p # a /\ At(p, "started") /\ call'[p] = call[p]
  BY DEF At, RightsInv, DataRightsTypeOK, Actors
<1>4. ASSUME NEW p \in Actors, At(p, "started")'
      PROVE  /\ rows'[call'[p].row].status \notin {"none", "received"}
             /\ executed'[call'[p].row] = 0
             /\ \A q \in Actors : At(q, "started")' /\ call'[q].row = call'[p].row => q = p
  <2>1. At(p, "started") /\ call'[p] = call[p]
    BY <1>3, <1>4
  <2>2. call[p].row \in DataRequests
    BY <2>1 DEF At, RightsInv, CallsOK
  <2>3. /\ rows[call[p].row].status \notin {"none", "received"}
        /\ executed[call[p].row] = 0
        /\ \A q \in Actors : At(q, "started") /\ call[q].row = call[p].row => q = p
    BY <2>1 DEF RightsInv, WorkOK
  <2>. QED
    BY <1>3, <2>1, <2>2, <2>3 DEF RowsGrow
<1>. QED
  BY <1>1, <1>2, <1>4 DEF WorkOK

\* A step of the caller a that keeps what was done to requests and who says so.
LEMMA Kept ==
    ASSUME RightsInv, RowsGrow, WorkOK', executed' \in [DataRequests -> Nat], UNCHANGED inPostgres,
           NEW a \in Actors, NEW c \in CallType, call' = [call EXCEPT ![a] = c],
           c.pc # "idle" => c.row \in DataRequests,
           c.pc = "loaded" => c.op # "submit",
           c.pc = "auditing" => c.op \in tried'[c.row],
           \/ UNCHANGED claims
           \/ \E i \in DataRequests : /\ claims' = claims \cup {<<a, i>>}
                                      /\ rows'[i].endedBy = a
                                      /\ rows'[i].status \in {"completed", "rejected"},
           auditedOps' \subseteq DataRequests \X Operations,
           \A i \in DataRequests, op \in Operations : <<i, op>> \in auditedOps' => op \in tried'[i],
           answered' \subseteq auditedOps'
    PROVE  RightsInv'
<1>1. CallsOK'
  BY DEF CallsOK, CallType, RightsInv, At, DataRightsTypeOK, Actors
<1>2. ClaimsOK' /\ claims' \subseteq Actors \X DataRequests
  <2>1. ClaimsOK /\ claims \subseteq Actors \X DataRequests
    BY DEF RightsInv, DataRightsTypeOK, Actors
  <2>2. CASE UNCHANGED claims
    BY <2>1, <2>2 DEF ClaimsOK, RowsGrow
  <2>3. CASE ~(UNCHANGED claims)
    <3>1. PICK i \in DataRequests : /\ claims' = claims \cup {<<a, i>>}
                                    /\ rows'[i].endedBy = a
                                    /\ rows'[i].status \in {"completed", "rejected"}
      BY <2>3
    <3>2. \A b \in Actors, j \in DataRequests :
            <<b, j>> \in claims' => <<b, j>> \in claims \/ (b = a /\ j = i)
      BY <3>1
    <3>. QED
      BY <2>1, <3>1, <3>2 DEF ClaimsOK, RowsGrow
  <2>. QED
    BY <2>2, <2>3
<1>3. AuditsOK'
  <2>1. \A b \in Actors : At(b, "auditing")' => call'[b].op \in tried'[call'[b].row]
    <3>. SUFFICES ASSUME NEW b \in Actors, At(b, "auditing")'
                  PROVE  call'[b].op \in tried'[call'[b].row]
      OBVIOUS
    <3>1. CASE b = a
      BY <3>1 DEF At, RightsInv, DataRightsTypeOK, Actors
    <3>2. CASE b # a
      <4>1. call'[b] = call[b] /\ At(b, "auditing")
        BY <3>2 DEF At, RightsInv, DataRightsTypeOK, Actors
      <4>2. call[b].row \in DataRequests /\ call[b].op \in tried[call[b].row]
        BY <4>1 DEF At, RightsInv, CallsOK, AuditsOK
      <4>. QED
        BY <4>1, <4>2 DEF RowsGrow
    <3>. QED
      BY <3>1, <3>2
  <2>. QED
    BY <2>1 DEF AuditsOK, RowsGrow
<1>4. DataRightsTypeOK'
  <2>1. call' \in [Actors -> CallType]
    BY DEF RightsInv, DataRightsTypeOK, Actors, CallType
  <2>2. rows' \in [DataRequests -> RowType] /\ tried' \in [DataRequests -> SUBSET Operations]
    BY DEF RowsGrow
  <2>3. inPostgres' \in BOOLEAN /\ answered' \subseteq DataRequests \X Operations
    BY DEF RightsInv, DataRightsTypeOK
  <2>. QED
    BY <1>2, <2>1, <2>2, <2>3 DEF DataRightsTypeOK, Actors, RowType, CallType
<1>. QED
  BY <1>1, <1>2, <1>3, <1>4 DEF RightsInv, RowsGrow

\* What the history says stays true when nothing is added to it.
LEMMA HistoryKept ==
    ASSUME RightsInv, RowsGrow
    PROVE  /\ auditedOps \subseteq DataRequests \X Operations
           /\ \A i \in DataRequests, op \in Operations : <<i, op>> \in auditedOps => op \in tried'[i]
           /\ answered \subseteq auditedOps
BY DEF RightsInv, DataRightsTypeOK, AuditsOK, RowsGrow

\* A caller of a route.
LEMMA RouteStep ==
    ASSUME RightsInv, NEW a \in RouteCallers,
           \/ \E k \in SubmitKeys, c \in Contents : SubmitRoute(a, k, c)
           \/ \E op \in Operations \ {"submit"}, i \in DataRequests : LoadRoute(a, op, i)
           \/ TransitionRoute(a) \/ AuditRoute(a)
    PROVE  RightsInv'
<1>. a \in Actors
  BY DEF Actors
<1>. USE DEF Goes, Rests
<1>1. AtRest \in CallType /\ AtRest.pc = "idle"
  BY DataRightsAssumption DEF AtRest, CallType, Operations
<1>2. call \in [Actors -> CallType] /\ executed \in [DataRequests -> Nat]
  BY DEF RightsInv, DataRightsTypeOK, CallType, Actors
<1>3. ASSUME NEW k \in SubmitKeys, NEW c \in Contents, SubmitRoute(a, k, c)
      PROVE  RightsInv'
  <2>1. PICK i \in DataRequests :
            /\ SubmittedInMemory(k, c, i) \/ SubmittedInPostgres(k, c, i)
            /\ Goes(a, "auditing", "submit", i) \/ UNCHANGED call
    BY <1>3 DEF SubmitRoute
  <2>2. RowsGrow /\ "submit" \in tried'[i]
    BY <2>1, SubmitGrows DEF SubmittedInMemory, SubmittedInPostgres
  <2>3. UNCHANGED <<inPostgres, executed, auditedOps, answered, claims>>
    BY <1>3 DEF SubmitRoute
  <2>4. PICK d \in CallType : /\ call' = [call EXCEPT ![a] = d] /\ d.pc \in {"auditing", "idle"}
                              /\ d.pc = "auditing" => d.op = "submit" /\ d.row = i
    <3>1. CASE Goes(a, "auditing", "submit", i)
      <4>1. [pc |-> "auditing", op |-> "submit", row |-> i] \in CallType
        BY DataRightsAssumption DEF CallType, Operations, DataRequests
      <4>. QED
        BY <3>1, <4>1
    <3>2. CASE UNCHANGED call
      <4>1. At(a, "idle") /\ call' = [call EXCEPT ![a] = call[a]]
        BY <1>2, <1>3, <3>2 DEF SubmitRoute
      <4>. QED
        BY <1>2, <4>1 DEF At
    <3>. QED
      BY <2>1, <3>1, <3>2
  <2>5. WorkOK'
    BY <2>2, <2>3, <2>4, WorkKept
  <2>. QED
    BY <1>2, <2>2, <2>3, <2>4, <2>5, HistoryKept, Kept
<1>4. ASSUME NEW op \in Operations \ {"submit"}, NEW i \in DataRequests, LoadRoute(a, op, i)
      PROVE  RightsInv'
  <2>. DEFINE d == [pc |-> "loaded", op |-> op, row |-> i]
  <2>1. RowsGrow
    BY <1>4, NoStatement DEF LoadRoute
  <2>2. d \in CallType /\ call' = [call EXCEPT ![a] = d]
    BY <1>4 DEF LoadRoute, CallType, DataRequests
  <2>3. UNCHANGED <<inPostgres, executed, auditedOps, answered, claims>>
    BY <1>4 DEF LoadRoute
  <2>4. d.pc = "loaded" /\ d.op = op /\ d.row = i
    OBVIOUS
  <2>. HIDE DEF d
  <2>5. WorkOK'
    BY <2>1, <2>2, <2>3, <2>4, WorkKept
  <2>. QED
    BY <1>2, <2>1, <2>2, <2>3, <2>4, <2>5, HistoryKept, Kept
<1>5. ASSUME TransitionRoute(a)
      PROVE  RightsInv'
  <2>. DEFINE op == call[a].op
              i == call[a].row
  <2>1. i \in DataRequests /\ op \in Operations \ {"submit"}
    BY <1>5 DEF TransitionRoute, RightsInv, CallsOK, At
  <2>2. UNCHANGED <<inPostgres, executed, auditedOps, answered>>
    BY <1>5 DEF TransitionRoute
  <2>3. CASE Updated(a, op, i) /\ Goes(a, "auditing", op, i) /\ Told(a, op, i)
    <3>. DEFINE d == [pc |-> "auditing", op |-> op, row |-> i]
    <3>1. /\ RowsGrow /\ op \in tried'[i]
          /\ rows'[i].status = StatusAfter(op)
          /\ op # "start" => rows'[i].endedBy = a
      BY <2>1, <2>3, UpdateStep
    <3>2. d \in CallType /\ call' = [call EXCEPT ![a] = d]
      BY <2>1, <2>3 DEF CallType, DataRequests
    <3>3. \/ UNCHANGED claims
          \/ /\ claims' = claims \cup {<<a, i>>}
             /\ rows'[i].endedBy = a
             /\ rows'[i].status \in {"completed", "rejected"}
      BY <2>1, <2>3, <3>1 DEF Told, StatusAfter, Operations
    <3>4. d.pc = "auditing" /\ d.op = op /\ d.row = i
      OBVIOUS
    <3>. HIDE DEF d, op, i
    <3>5. WorkOK'
      BY <2>2, <3>1, <3>2, <3>4, WorkKept
    <3>. QED
      BY <1>2, <2>1, <2>2, <3>1, <3>2, <3>3, <3>4, <3>5, HistoryKept, Kept
  <2>4. CASE /\ Updated(a, op, i) \/ UNCHANGED <<rows, tried>>
             /\ Rests(a) /\ UNCHANGED claims
    <3>1. RowsGrow
      BY <2>1, <2>4, UpdateStep, NoStatement
    <3>2. WorkOK'
      BY <1>1, <2>2, <2>4, <3>1, WorkKept
    <3>. QED
      BY <1>1, <1>2, <2>2, <2>4, <3>1, <3>2, HistoryKept, Kept
  <2>. QED
    BY <1>5, <2>3, <2>4 DEF TransitionRoute, Refused
<1>6. ASSUME AuditRoute(a)
      PROVE  RightsInv'
  <2>. DEFINE i == call[a].row
              op == call[a].op
  <2>1. RowsGrow /\ UNCHANGED <<inPostgres, rows, executed, tried, claims>>
    BY <1>6, NoStatement DEF AuditRoute
  <2>2. i \in DataRequests /\ op \in Operations /\ op \in tried'[i]
    BY <1>2, <1>6, <2>1 DEF AuditRoute, RightsInv, CallsOK, AuditsOK, At, CallType
  <2>3. call' = [call EXCEPT ![a] = AtRest]
    BY <1>6 DEF AuditRoute
  <2>4. auditedOps' \in {auditedOps, auditedOps \cup {<<i, op>>}}
    BY <1>6 DEF AuditRoute
  <2>5. answered' \subseteq auditedOps'
    <3>1. \/ auditedOps' = auditedOps \cup {<<i, op>>} /\ answered' = answered \cup {<<i, op>>}
          \/ auditedOps \subseteq auditedOps' /\ answered' = answered
      BY <1>6 DEF AuditRoute
    <3>. QED
      BY <2>1, <3>1, HistoryKept
  <2>. HIDE DEF i, op
  <2>6. auditedOps' \subseteq DataRequests \X Operations
    BY <2>1, <2>2, <2>4, HistoryKept
  <2>7. \A j \in DataRequests, o \in Operations : <<j, o>> \in auditedOps' => o \in tried'[j]
    BY <2>1, <2>2, <2>4, HistoryKept
  <2>8. WorkOK'
    BY <1>1, <2>1, <2>3, WorkKept
  <2>. QED
    BY <1>1, <1>2, <2>1, <2>3, <2>5, <2>6, <2>7, <2>8, Kept
<1>. QED
  BY <1>3, <1>4, <1>5, <1>6

\* A processor, or the process of any caller that ends.
LEMMA ProcessorStep ==
    ASSUME RightsInv, NEW a \in Actors,
           \/ \E i \in DataRequests : ProcessInMemory(a, i) \/ ProcessStarts(a, i)
           \/ EndInMemory(a) \/ Execute(a) \/ Executed(a)
           \/ ProcessCompletes(a) \/ ProcessRejects(a) \/ RightsCrash(a)
    PROVE  RightsInv'
<1>. USE DEF Goes, Rests
<1>1. AtRest \in CallType /\ AtRest.pc = "idle"
  BY DataRightsAssumption DEF AtRest, CallType, Operations
<1>2. call \in [Actors -> CallType] /\ executed \in [DataRequests -> Nat]
  BY DEF RightsInv, DataRightsTypeOK, CallType, Actors
<1>3. "start" \in Operations \ {"submit"} /\ "complete" \in Operations \ {"submit"}
      /\ "reject" \in Operations \ {"submit"}
  BY DEF Operations
<1>4. ASSUME NEW i \in DataRequests, ProcessInMemory(a, i)
      PROVE  RightsInv'
  <2>. DEFINE d == [pc |-> "executing", op |-> "complete", row |-> i]
  <2>1. /\ RowsGrow /\ rows[i].status = "received" /\ rows'[i].status = "processing"
        /\ \A j \in DataRequests \ {i} : rows'[j] = rows[j]
    BY <1>3, <1>4, UpdateStep DEF ProcessInMemory, Permitted, StatusAfter
  <2>2. d \in CallType /\ call' = [call EXCEPT ![a] = d]
    BY <1>3, <1>4, DataRightsAssumption DEF ProcessInMemory, CallType, DataRequests
  <2>3. executed' = [executed EXCEPT ![i] = @ + 1] /\ executed' \in [DataRequests -> Nat]
    BY <1>2, <1>4 DEF ProcessInMemory
  <2>4. UNCHANGED <<inPostgres, auditedOps, answered, claims>>
    BY <1>4 DEF ProcessInMemory
  <2>5. WorkOK'
    <3>1. executed[i] = 0
      BY <2>1 DEF RightsInv, WorkOK
    <3>2. \A j \in DataRequests : executed'[j] = IF j = i THEN 1 ELSE executed[j]
      BY <1>2, <2>3, <3>1
    <3>3. /\ \A j \in DataRequests : executed'[j] <= 1
          /\ \A j \in DataRequests :
                rows'[j].status \in {"none", "received"} => executed'[j] = 0
      BY <2>1, <3>2 DEF RightsInv, WorkOK
    <3>4. ASSUME NEW p \in Actors, At(p, "started")'
          PROVE  /\ p # a /\ At(p, "started") /\ call'[p] = call[p]
                 /\ call[p].row \in DataRequests \ {i}
      <4>1. p # a /\ At(p, "started") /\ call'[p] = call[p]
        BY <1>2, <2>2, <3>4 DEF At
      <4>2. call[p].row \in DataRequests /\ rows[call[p].row].status # "received"
        BY <4>1 DEF RightsInv, CallsOK, WorkOK, At
      <4>. QED
        BY <2>1, <4>1, <4>2
    <3>5. \A p \in Actors : At(p, "started")' =>
            /\ rows'[call'[p].row].status \notin {"none", "received"}
            /\ executed'[call'[p].row] = 0
            /\ \A q \in Actors : At(q, "started")' /\ call'[q].row = call'[p].row => q = p
      BY <2>1, <3>2, <3>4 DEF RightsInv, WorkOK
    <3>. QED
      BY <3>3, <3>5 DEF WorkOK
  <2>6. d.pc = "executing" /\ d.row = i
    OBVIOUS
  <2>. HIDE DEF d
  <2>. QED
    BY <2>1, <2>2, <2>3, <2>4, <2>5, <2>6, HistoryKept, Kept
<1>5. ASSUME NEW i \in DataRequests, ProcessStarts(a, i)
      PROVE  RightsInv'
  <2>1. /\ RowsGrow /\ rows[i].status = "received" /\ rows'[i].status = "processing"
        /\ \A j \in DataRequests \ {i} : rows'[j] = rows[j]
    BY <1>3, <1>5, UpdateStep DEF ProcessStarts, Permitted, StatusAfter
  <2>2. UNCHANGED <<inPostgres, executed, auditedOps, answered, claims>> /\ At(a, "idle")
    BY <1>5 DEF ProcessStarts
  <2>3. CASE UNCHANGED call
    <3>1. call' = [call EXCEPT ![a] = call[a]] /\ call[a] \in CallType /\ call[a].pc = "idle"
      BY <1>2, <2>2, <2>3 DEF At
    <3>2. WorkOK'
      BY <2>1, <2>2, <3>1, WorkKept
    <3>. QED
      BY <1>2, <2>1, <2>2, <3>1, <3>2, HistoryKept, Kept
  <2>4. CASE Goes(a, "started", "complete", i)
    <3>. DEFINE d == [pc |-> "started", op |-> "complete", row |-> i]
    <3>1. d \in CallType /\ call' = [call EXCEPT ![a] = d]
      BY <1>3, <2>4, DataRightsAssumption DEF CallType, DataRequests
    <3>2. d.pc = "started" /\ d.row = i
      OBVIOUS
    <3>3. WorkOK'
      <4>1. /\ executed[i] = 0
            /\ \A j \in DataRequests : executed[j] <= 1
            /\ \A j \in DataRequests : rows'[j].status \in {"none", "received"} => executed[j] = 0
        BY <2>1 DEF RightsInv, WorkOK, RowsGrow
      <4>2. ASSUME NEW p \in Actors \ {a}, At(p, "started")'
            PROVE  At(p, "started") /\ call'[p] = call[p] /\ call[p].row \in DataRequests \ {i}
        <5>1. At(p, "started") /\ call'[p] = call[p]
          BY <1>2, <3>1, <4>2 DEF At
        <5>2. call[p].row \in DataRequests /\ rows[call[p].row].status # "received"
          BY <5>1 DEF RightsInv, CallsOK, WorkOK, At
        <5>. QED
          BY <2>1, <5>1, <5>2
      <4>3. At(a, "started")' /\ call'[a].row = i
        BY <1>2, <3>1, <3>2 DEF At
      <4>4. \A p \in Actors : At(p, "started")' =>
              /\ rows'[call'[p].row].status \notin {"none", "received"}
              /\ executed[call'[p].row] = 0
              /\ \A q \in Actors : At(q, "started")' /\ call'[q].row = call'[p].row => q = p
        BY <2>1, <4>1, <4>2, <4>3 DEF RightsInv, WorkOK
      <4>. QED
        BY <2>2, <4>1, <4>4 DEF WorkOK
    <3>. HIDE DEF d
    <3>. QED
      BY <1>2, <2>1, <2>2, <3>1, <3>2, <3>3, HistoryKept, Kept
  <2>. QED
    BY <1>5, <2>3, <2>4 DEF ProcessStarts
<1>6. ASSUME EndInMemory(a)
      PROVE  RightsInv'
  <2>. DEFINE i == call[a].row
  <2>1. i \in DataRequests
    BY <1>6 DEF EndInMemory, RightsInv, CallsOK, At
  <2>2. UNCHANGED <<inPostgres, executed, auditedOps, answered>> /\ call' = [call EXCEPT ![a] = AtRest]
    BY <1>6 DEF EndInMemory
  <2>3. /\ RowsGrow
        /\ \/ UNCHANGED claims
           \/ /\ claims' = claims \cup {<<a, i>>}
              /\ rows'[i].endedBy = a
              /\ rows'[i].status \in {"completed", "rejected"}
    <3>1. CASE Updated(a, "complete", i) /\ Told(a, "complete", i)
      BY <1>3, <2>1, <3>1, UpdateStep DEF Told, StatusAfter
    <3>2. CASE (Updated(a, "reject", i) \/ UNCHANGED <<rows, tried>>) /\ UNCHANGED claims
      BY <1>3, <2>1, <3>2, UpdateStep, NoStatement
    <3>. QED
      BY <1>6, <3>1, <3>2 DEF EndInMemory, Refused
  <2>. HIDE DEF i
  <2>4. WorkOK'
    BY <1>1, <2>2, <2>3, WorkKept
  <2>. QED
    BY <1>1, <1>2, <2>1, <2>2, <2>3, <2>4, HistoryKept, Kept
<1>7. ASSUME Execute(a)
      PROVE  RightsInv'
  <2>. DEFINE i == call[a].row
              d == [pc |-> "executing", op |-> "complete", row |-> i]
  <2>1. RowsGrow /\ UNCHANGED <<inPostgres, rows, tried, auditedOps, answered, claims>>
    BY <1>7, NoStatement DEF Execute
  <2>2. i \in DataRequests /\ At(a, "started")
    BY <1>7 DEF Execute, RightsInv, CallsOK, At
  <2>3. d \in CallType /\ call' = [call EXCEPT ![a] = d]
    BY <1>3, <1>7, <2>2, DataRightsAssumption DEF Execute, CallType, DataRequests
  <2>4. executed' = [executed EXCEPT ![i] = @ + 1] /\ executed' \in [DataRequests -> Nat]
    BY <1>2, <1>7, <2>2 DEF Execute
  <2>5. WorkOK'
    <3>1. executed[i] = 0 /\ rows[i].status \notin {"none", "received"}
      BY <2>2 DEF RightsInv, WorkOK
    <3>2. \A j \in DataRequests : executed'[j] = IF j = i THEN 1 ELSE executed[j]
      BY <1>2, <2>4, <3>1
    <3>3. /\ \A j \in DataRequests : executed'[j] <= 1
          /\ \A j \in DataRequests :
                rows'[j].status \in {"none", "received"} => executed'[j] = 0
      BY <2>1, <3>1, <3>2 DEF RightsInv, WorkOK
    <3>4. ASSUME NEW p \in Actors, At(p, "started")'
          PROVE  /\ At(p, "started") /\ call'[p] = call[p]
                 /\ call[p].row \in DataRequests \ {i}
      <4>1. p # a /\ At(p, "started") /\ call'[p] = call[p]
        BY <1>2, <2>3, <3>4 DEF At
      <4>2. call[p].row \in DataRequests /\ call[p].row # i
        BY <2>2, <4>1 DEF RightsInv, CallsOK, WorkOK, At
      <4>. QED
        BY <4>1, <4>2
    <3>5. \A p \in Actors : At(p, "started")' =>
            /\ rows'[call'[p].row].status \notin {"none", "received"}
            /\ executed'[call'[p].row] = 0
            /\ \A q \in Actors : At(q, "started")' /\ call'[q].row = call'[p].row => q = p
      BY <2>1, <3>2, <3>4 DEF RightsInv, WorkOK
    <3>. QED
      BY <3>3, <3>5 DEF WorkOK
  <2>6. d.pc = "executing" /\ d.row = i
    OBVIOUS
  <2>. HIDE DEF d, i
  <2>. QED
    BY <2>1, <2>2, <2>3, <2>4, <2>5, <2>6, HistoryKept, Kept
<1>8. ASSUME Executed(a)
      PROVE  RightsInv'
  <2>1. RowsGrow /\ UNCHANGED <<inPostgres, executed, auditedOps, answered, claims>>
    BY <1>8, NoStatement DEF Executed
  <2>2. call[a].row \in DataRequests
    BY <1>8 DEF Executed, RightsInv, CallsOK, At
  <2>3. PICK d \in CallType : /\ call' = [call EXCEPT ![a] = d] /\ d.row \in DataRequests
                              /\ d.pc \in {"completing", "rejecting"}
    <3>1. /\ [pc |-> "completing", op |-> "complete", row |-> call[a].row] \in CallType
          /\ [pc |-> "rejecting", op |-> "reject", row |-> call[a].row] \in CallType
      BY <1>3, <2>2, DataRightsAssumption DEF CallType, DataRequests
    <3>. QED
      BY <1>8, <2>2, <3>1 DEF Executed
  <2>4. WorkOK'
    BY <2>1, <2>3, WorkKept
  <2>. QED
    BY <1>2, <2>1, <2>3, <2>4, HistoryKept, Kept
<1>9. ASSUME ProcessCompletes(a)
      PROVE  RightsInv'
  <2>. DEFINE i == call[a].row
  <2>1. i \in DataRequests
    BY <1>9 DEF ProcessCompletes, RightsInv, CallsOK, At
  <2>2. UNCHANGED <<inPostgres, executed, auditedOps, answered>>
    BY <1>9 DEF ProcessCompletes
  <2>3. PICK d \in CallType : /\ call' = [call EXCEPT ![a] = d] /\ d.pc \in {"idle", "rejecting"}
                              /\ d.pc = "rejecting" => d.row = i
    <3>1. [pc |-> "rejecting", op |-> "reject", row |-> call[a].row] \in CallType
      BY <1>3, <2>1, DataRightsAssumption DEF CallType, DataRequests
    <3>2. call' = [call EXCEPT ![a] = AtRest] \/ Goes(a, "rejecting", "reject", i)
      BY <1>9 DEF ProcessCompletes
    <3>. QED
      BY <1>1, <3>1, <3>2
  <2>4. /\ RowsGrow
        /\ \/ UNCHANGED claims
           \/ /\ claims' = claims \cup {<<a, i>>}
              /\ rows'[i].endedBy = a
              /\ rows'[i].status \in {"completed", "rejected"}
    <3>1. CASE Updated(a, "complete", i) /\ Told(a, "complete", i)
      BY <1>3, <2>1, <3>1, UpdateStep DEF Told, StatusAfter
    <3>2. CASE (Updated(a, "complete", i) \/ UNCHANGED <<rows, tried>>) /\ UNCHANGED claims
      BY <1>3, <2>1, <3>2, UpdateStep, NoStatement
    <3>. QED
      BY <1>9, <3>1, <3>2 DEF ProcessCompletes
  <2>. HIDE DEF i
  <2>5. WorkOK'
    BY <2>2, <2>3, <2>4, WorkKept
  <2>. QED
    BY <1>2, <2>1, <2>2, <2>3, <2>4, <2>5, HistoryKept, Kept
<1>10. ASSUME ProcessRejects(a) \/ RightsCrash(a)
       PROVE  RightsInv'
  <2>1. /\ UNCHANGED <<inPostgres, executed, auditedOps, answered, claims>>
        /\ call' = [call EXCEPT ![a] = AtRest]
    BY <1>10 DEF ProcessRejects, RightsCrash
  <2>2. RowsGrow
    <3>1. CASE ProcessRejects(a)
      <4>1. call[a].row \in DataRequests
        BY <3>1 DEF ProcessRejects, RightsInv, CallsOK, At
      <4>. QED
        BY <1>3, <3>1, <4>1, UpdateStep, NoStatement DEF ProcessRejects
    <3>2. CASE RightsCrash(a)
      BY <3>2, NoStatement DEF RightsCrash
    <3>. QED
      BY <1>10, <3>1, <3>2
  <2>3. WorkOK'
    BY <1>1, <2>1, <2>2, WorkKept
  <2>. QED
    BY <1>1, <1>2, <2>1, <2>2, <2>3, HistoryKept, Kept
<1>. QED
  BY <1>4, <1>5, <1>6, <1>7, <1>8, <1>9, <1>10

-----------------------------------------------------------------------------
\* Nothing is stored at first.
LEMMA RightsInit == DataRightsInit => RightsInv
<1>. SUFFICES ASSUME DataRightsInit
              PROVE  RightsInv
  OBVIOUS
<1>1. Stored = {} /\ MaxDataRequests \in Nat
  BY DataRightsAssumption DEF DataRightsInit, NoRow, Stored
<1>2. Numbered
  <2>1. Stored = 1 .. 0 /\ 0 \in 0 .. MaxDataRequests
    BY <1>1
  <2>. QED
    BY <2>1 DEF Numbered
<1>3. \A a \in Actors : At(a, "idle")
  BY DEF DataRightsInit, At, AtRest, Actors
<1>4. DataRightsTypeOK
  BY <1>1 DEF DataRightsInit, DataRightsTypeOK, NoRow, AtRest, Operations
<1>5. CallsOK /\ WorkOK /\ ClaimsOK /\ AuditsOK
  BY <1>1, <1>3 DEF DataRightsInit, At, CallsOK, WorkOK, ClaimsOK, AuditsOK
<1>. QED
  BY <1>1, <1>2, <1>4, <1>5 DEF RightsInv, OneRequestPerKey

\* The invariant is inductive: no interleaving, loss or crash breaks it.
LEMMA RightsInvariant == DataRightsSpec => []RightsInv
<1>1. RightsInv /\ [DataRightsNext]_rightsVars => RightsInv'
  <2>. SUFFICES ASSUME RightsInv, [DataRightsNext]_rightsVars
                PROVE  RightsInv'
    OBVIOUS
  <2>1. CASE DataRightsNext
    BY <2>1, RouteStep, ProcessorStep DEF DataRightsNext, Actors
  <2>2. CASE UNCHANGED rightsVars
    BY <2>2 DEF rightsVars, RightsInv, DataRightsTypeOK, Numbered, OneRequestPerKey, Stored,
                CallsOK, WorkOK, ClaimsOK, AuditsOK, At
  <2>. QED
    BY <2>1, <2>2
<1>. QED
  BY <1>1, RightsInit, PTL DEF DataRightsSpec

\* In every interleaving of routes and processors, with lost replies and
\* crashes, a key has one request, a request one executor call, and claims,
\* audits and answers are true of it (data-rights, server.ts).
THEOREM RightsStayExact == DataRightsSpec => []RightsAreExact
<1>1. RightsInv => RightsAreExact
  BY DEF RightsInv, RightsAreExact, OneRequestPerKey, WorkOK, ClaimsOK, AuditsOK, Actors
<1>. QED
  BY <1>1, RightsInvariant, PTL

-----------------------------------------------------------------------------
(* The refinement. *)

\* The abstract status and work.
StatusOf == [i \in DataRequests |-> rows[i].status]
Begun == {i \in DataRequests : executed[i] > 0}

\* A statement that changes one row only moves one status.
LEMMA StatusMoves ==
    ASSUME NEW i \in DataRequests, NEW s, rows'[i].status = s,
           \A j \in DataRequests \ {i} : rows'[j] = rows[j]
    PROVE  StatusOf' = [StatusOf EXCEPT ![i] = s]
BY DEF StatusOf

\* start, complete and reject are the lifecycle's moves; the work stays as it was.
LEMMA UpdateRefines ==
    ASSUME RightsInv, NEW a \in Actors, NEW op \in Operations \ {"submit"}, NEW i \in DataRequests,
           Updated(a, op, i), UNCHANGED executed
    PROVE  Lifecycle!Next
<1>1. /\ rows[i].status \in Permitted(op) /\ StatusOf[i] = rows[i].status
      /\ StatusOf' = [StatusOf EXCEPT ![i] = StatusAfter(op)]
  BY UpdateStep, StatusMoves DEF StatusOf
<1>2. Begun' = Begun
  BY DEF Begun
<1>3. CASE op = "start"
  BY <1>1, <1>2, <1>3 DEF Permitted, StatusAfter, Lifecycle!Next, Lifecycle!Processed, Lifecycle!Move,
     StatusOf, Begun
<1>4. CASE op = "complete"
  BY <1>1, <1>2, <1>4 DEF Permitted, StatusAfter, Lifecycle!Next, Lifecycle!Completed, Lifecycle!Move,
     StatusOf, Begun
<1>5. CASE op = "reject"
  BY <1>1, <1>2, <1>5 DEF Permitted, StatusAfter, Lifecycle!Next, Lifecycle!Rejected, Lifecycle!Move,
     StatusOf, Begun
<1>. QED
  BY <1>3, <1>4, <1>5 DEF Operations

\* A step that touches neither rows nor work is a stutter.
LEMMA Stutters ==
    ASSUME UNCHANGED <<rows, executed>>
    PROVE  UNCHANGED <<StatusOf, Begun>>
BY DEF StatusOf, Begun

\* A caller's step is a step of the lifecycle or none.
LEMMA CallerRefines ==
    ASSUME RightsInv, NEW a \in Actors,
           \/ \E k \in SubmitKeys, c \in Contents : SubmitRoute(a, k, c)
           \/ \E op \in Operations \ {"submit"}, i \in DataRequests : LoadRoute(a, op, i)
           \/ TransitionRoute(a) \/ AuditRoute(a)
           \/ \E i \in DataRequests : ProcessInMemory(a, i) \/ ProcessStarts(a, i)
           \/ EndInMemory(a) \/ Execute(a) \/ Executed(a)
           \/ ProcessCompletes(a) \/ ProcessRejects(a) \/ RightsCrash(a)
    PROVE  Lifecycle!Next \/ UNCHANGED <<StatusOf, Begun>>
<1>. USE DEF Lifecycle!Next, Lifecycle!Move
<1>1. "start" \in Operations \ {"submit"} /\ "complete" \in Operations \ {"submit"}
      /\ "reject" \in Operations \ {"submit"}
  BY DEF Operations
<1>2. rows \in [DataRequests -> RowType] /\ executed \in [DataRequests -> Nat]
  BY DEF RightsInv, DataRightsTypeOK, RowType
<1>3. ASSUME NEW k \in SubmitKeys, NEW c \in Contents, SubmitRoute(a, k, c)
      PROVE  Lifecycle!Next \/ UNCHANGED <<StatusOf, Begun>>
  <2>1. PICK i \in DataRequests : Submitted(k, c, i)
    BY <1>3 DEF SubmitRoute, SubmittedInMemory, SubmittedInPostgres
  <2>2. UNCHANGED executed
    BY <1>3 DEF SubmitRoute
  <2>3. CASE UNCHANGED rows
    BY <2>2, <2>3, Stutters
  <2>4. CASE ~(UNCHANGED rows)
    <3>. DEFINE new == [key |-> k, content |-> c, status |-> "received", endedBy |-> Unset]
    <3>1. rows[i].status = "none" /\ rows' = [rows EXCEPT ![i] = new]
      BY <2>1, <2>4, SubmitStep
    <3>2. rows'[i].status = "received" /\ \A j \in DataRequests \ {i} : rows'[j] = rows[j]
      BY <1>2, <3>1
    <3>3. StatusOf' = [StatusOf EXCEPT ![i] = "received"] /\ StatusOf[i] = "none"
      BY <3>1, <3>2, StatusMoves DEF StatusOf
    <3>4. Begun' = Begun
      BY <2>2 DEF Begun
    <3>. QED
      BY <3>3, <3>4 DEF Lifecycle!Submitted, StatusOf, Begun
  <2>. QED
    BY <2>3, <2>4
<1>4. CASE \/ \E op \in Operations \ {"submit"}, i \in DataRequests : LoadRoute(a, op, i)
           \/ AuditRoute(a) \/ Executed(a) \/ RightsCrash(a)
  BY <1>4, Stutters DEF LoadRoute, AuditRoute, Executed, RightsCrash
<1>5. CASE TransitionRoute(a)
  <2>1. call[a].row \in DataRequests /\ call[a].op \in Operations \ {"submit"}
    BY <1>5 DEF TransitionRoute, RightsInv, CallsOK, At
  <2>2. UNCHANGED executed /\ (Updated(a, call[a].op, call[a].row) \/ UNCHANGED rows)
    BY <1>5 DEF TransitionRoute, Refused
  <2>. QED
    BY <2>1, <2>2, UpdateRefines, Stutters
<1>6. ASSUME NEW i \in DataRequests, ProcessInMemory(a, i)
      PROVE  Lifecycle!Next
  <2>1. /\ rows[i].status = "received" /\ StatusOf[i] = "received"
        /\ StatusOf' = [StatusOf EXCEPT ![i] = "processing"]
    BY <1>1, <1>6, UpdateStep, StatusMoves DEF ProcessInMemory, Permitted, StatusAfter, StatusOf
  <2>2. Begun' = Begun \cup {i}
    <3>1. \A j \in DataRequests : executed'[j] = IF j = i THEN executed[i] + 1 ELSE executed[j]
      BY <1>2, <1>6 DEF ProcessInMemory
    <3>2. \A j \in DataRequests : executed[j] \in Nat
      BY <1>2
    <3>. QED
      BY <3>1, <3>2 DEF Begun
  <2>. QED
    BY <2>1, <2>2 DEF Lifecycle!Processed, StatusOf, Begun
<1>7. ASSUME NEW i \in DataRequests, ProcessStarts(a, i)
      PROVE  Lifecycle!Next
  BY <1>1, <1>7, UpdateRefines DEF ProcessStarts
<1>8. CASE EndInMemory(a)
  <2>1. call[a].row \in DataRequests
    BY <1>8 DEF EndInMemory, RightsInv, CallsOK, At
  <2>2. /\ UNCHANGED executed
        /\ \/ Updated(a, "complete", call[a].row) \/ Updated(a, "reject", call[a].row)
           \/ UNCHANGED rows
    BY <1>8 DEF EndInMemory, Refused
  <2>. QED
    BY <1>1, <2>1, <2>2, UpdateRefines, Stutters
<1>9. CASE Execute(a)
  <2>. DEFINE i == call[a].row
  <2>1. i \in DataRequests /\ At(a, "started") /\ executed[i] = 0
        /\ rows[i].status \notin {"none", "received"}
    BY <1>9 DEF Execute, RightsInv, CallsOK, WorkOK, At
  <2>2. UNCHANGED rows /\ executed' = [executed EXCEPT ![i] = @ + 1]
    BY <1>9 DEF Execute
  <2>. HIDE DEF i
  <2>3. Begun' = Begun \cup {i} /\ i \notin Begun
    <3>1. \A j \in DataRequests : executed'[j] = IF j = i THEN 1 ELSE executed[j]
      BY <1>2, <2>1, <2>2
    <3>. QED
      BY <2>1, <3>1 DEF Begun
  <2>4. StatusOf[i] \notin {"none", "received"} /\ StatusOf' = StatusOf
    BY <2>1, <2>2 DEF StatusOf
  <2>. QED
    BY <2>1, <2>3, <2>4 DEF Lifecycle!WorkBegins, StatusOf, Begun
<1>10. CASE ProcessCompletes(a)
  <2>1. call[a].row \in DataRequests
    BY <1>10 DEF ProcessCompletes, RightsInv, CallsOK, At
  <2>2. UNCHANGED executed /\ (Updated(a, "complete", call[a].row) \/ UNCHANGED rows)
    BY <1>10 DEF ProcessCompletes
  <2>. QED
    BY <1>1, <2>1, <2>2, UpdateRefines, Stutters
<1>11. CASE ProcessRejects(a)
  <2>1. call[a].row \in DataRequests
    BY <1>11 DEF ProcessRejects, RightsInv, CallsOK, At
  <2>2. UNCHANGED executed /\ (Updated(a, "reject", call[a].row) \/ UNCHANGED rows)
    BY <1>11 DEF ProcessRejects
  <2>. QED
    BY <1>1, <2>1, <2>2, UpdateRefines, Stutters
<1>. QED
  BY <1>3, <1>4, <1>5, <1>6, <1>7, <1>8, <1>9, <1>10, <1>11

\* Both services implement the lifecycle: each request is received, processed
\* and ended in this order, and its work begins once (data-rights).
THEOREM LifecycleImplemented == DataRightsSpec => LifecycleIsKept
<1>1. DataRightsInit => Lifecycle!Init
  BY DEF DataRightsInit, NoRow, Lifecycle!Init
<1>2. RightsInv /\ [DataRightsNext]_rightsVars => [Lifecycle!Next]_(Lifecycle!lifecycleVars)
  <2>. SUFFICES ASSUME RightsInv, [DataRightsNext]_rightsVars
                PROVE  Lifecycle!Next \/ UNCHANGED <<StatusOf, Begun>>
    BY DEF Lifecycle!lifecycleVars, StatusOf, Begun
  <2>1. CASE DataRightsNext
    <3>1. PICK a \in Actors :
           \/ \E k \in SubmitKeys, c \in Contents : SubmitRoute(a, k, c)
           \/ \E op \in Operations \ {"submit"}, i \in DataRequests : LoadRoute(a, op, i)
           \/ TransitionRoute(a) \/ AuditRoute(a)
           \/ \E i \in DataRequests : ProcessInMemory(a, i) \/ ProcessStarts(a, i)
           \/ EndInMemory(a) \/ Execute(a) \/ Executed(a)
           \/ ProcessCompletes(a) \/ ProcessRejects(a) \/ RightsCrash(a)
      BY <2>1 DEF DataRightsNext, Actors
    <3>. QED
      BY <3>1, CallerRefines
  <2>2. CASE UNCHANGED rightsVars
    BY <2>2, Stutters DEF rightsVars
  <2>. QED
    BY <2>1, <2>2
<1>. QED
  BY <1>1, <1>2, RightsInvariant, PTL DEF DataRightsSpec, LifecycleIsKept, Lifecycle!Spec

-----------------------------------------------------------------------------
(* The way of a request through the server. *)

LEMMA AtMostOne ==
    ASSUME NEW S, \A a, b \in S : a = b
    PROVE  IsFiniteSet(S) /\ Cardinality(S) <= 1
<1>1. CASE S = {}
  BY <1>1, FS_EmptySet
<1>2. ASSUME NEW a \in S PROVE IsFiniteSet(S) /\ Cardinality(S) <= 1
  <2>1. S = {a}
    OBVIOUS
  <2>2. IsFiniteSet({a}) /\ Cardinality({a}) = 1
    BY FS_Singleton
  <2> QED
    BY <2>1, <2>2
<1> QED
  BY <1>1, <1>2

\* Every route is for keys or for the administrator.
LEMMA RoutesAskWho == \A route \in Routes : route.who \subseteq {"key", "admin"}
<1>1. \A route \in ScopeReads \cup BillingReads \cup KeyAndMemberReads :
        route.who \subseteq {"key", "admin"}
  BY DEF ScopeReads, BillingReads, KeyAndMemberReads, Reading, Anyone
<1>2. \A route \in TelemetryRoutes \cup MediaReads \cup CallCommands \cup MediaCreates :
        route.who \subseteq {"key", "admin"}
  BY DEF TelemetryRoutes, MediaReads, CallCommands, MediaCreates, Reading, Writing
<1>3. \A route \in RoomRoutes \cup WebhookRoutes \cup EnvironmentReads :
        route.who \subseteq {"key", "admin"}
  BY DEF RoomRoutes, WebhookRoutes, EnvironmentReads, Reading, Writing
<1> QED
  BY <1>1, <1>2, <1>3 DEF Routes

\* What the credential was found to be, and what it was found to have.
Identified(r) ==
    LET caller == ask[r].caller
    IN  /\ caller.kind \in {"key", "admin"}
        /\ caller.kind = "key" => caller.key \notin revokedBefore[r]

Entitled(r) ==
    LET caller == ask[r].caller
    IN  caller.kind = "key" => Near(caller.key, ask[r].route.over, ask[r].env)

\* How far a request has come says what has been found out, done and recorded.
RequestOK(r) ==
    /\ stage[r] \in {"none", "arrived", "loading", "reading", "acting", "refused"} => r \notin acted
    /\ stage[r] \in {"auditing", "saving", "answered"} => r \in acted
    /\ r \in inAuditLog => r \in acted
    /\ stage[r] = "saving" \/ (stage[r] = "answered" /\ ask[r].route.audited) => r \in inAuditLog
    /\ stage[r] \in {"loading", "reading", "acting"} \/ r \in acted => Identified(r)
    /\ stage[r] \in {"reading", "acting"} \/ r \in acted => Entitled(r)

\* The last who wrote the row of a destination finds it as asked.
RowAsAsked == \A r \in Requests : r \in acted \ overtaken => AsAsked(r)

GatewayInv ==
    /\ stage \in [Requests -> Stages]
    /\ DOMAIN ask = Requests
    /\ \A r \in Requests : stage[r] # "none" => ask[r] \in Ask
    /\ revoked \subseteq Keys
    /\ destination \subseteq [env : GatewayEnvs, active : BOOLEAN]
    /\ \A d, e \in destination : d = e
    /\ acted \subseteq Requests /\ overtaken \subseteq acted /\ inAuditLog \subseteq Requests
    /\ revokedBefore \in [Requests -> SUBSET Keys]
    /\ \A r \in Requests : revokedBefore[r] \subseteq revoked
    /\ \A r \in Requests : RequestOK(r)
    /\ RowAsAsked

\* The writes to a destination's row.
LEMMA RowStaysOne ==
    ASSUME GatewayInv, NEW env \in GatewayEnvs,
           Upserted(env, TRUE) \/ Upserted(env, FALSE) \/ Disabled(env)
    PROVE  /\ destination' \subseteq [env : GatewayEnvs, active : BOOLEAN]
           /\ \A d, e \in destination' : d = e
<1>1. ASSUME NEW active \in BOOLEAN, Upserted(env, active)
      PROVE  /\ destination' \subseteq [env : GatewayEnvs, active : BOOLEAN]
             /\ \A d, e \in destination' : d = e
  BY <1>1 DEF Upserted, GatewayInv
<1>2. CASE Disabled(env)
  <2>1. \A d \in destination : [d EXCEPT !.active = @ /\ d.env # env]
                                    \in [env : GatewayEnvs, active : BOOLEAN]
    <3> SUFFICES ASSUME NEW d \in destination
                 PROVE  [d EXCEPT !.active = @ /\ d.env # env] \in [env : GatewayEnvs, active : BOOLEAN]
      OBVIOUS
    <3>1. d \in [env : GatewayEnvs, active : BOOLEAN]
      BY DEF GatewayInv
    <3>2. (d.active /\ d.env # env) \in BOOLEAN
      OBVIOUS
    <3> QED
      BY <3>1, <3>2
  <2> QED
    BY <1>2, <2>1 DEF Disabled, GatewayInv
<1> QED
  BY <1>1, <1>2

\* Who carries out a request for a destination overtakes everybody before.
LEMMA TakesKeepsRow ==
    ASSUME GatewayInv, NEW r \in Requests, Takes(r), UNCHANGED ask
    PROVE  overtaken' \subseteq acted' /\ RowAsAsked'
<1>1. \A q \in Requests : q \in acted' \ overtaken' => q = r \/ (q \in acted \ overtaken /\ ~OnDestination(r))
  BY DEF Takes
<1>2. CASE OnDestination(r)
  <2>1. AsAsked(r)'
    <3>1. CASE ask[r].route.effect = "activate"
      <4>1. Upserted(ask[r].env, TRUE)
        BY <3>1 DEF Takes
      <4>2. CASE destination = {}
        BY <3>1, <4>1, <4>2 DEF Upserted, AsAsked
      <4>3. ASSUME NEW d \in destination PROVE AsAsked(r)'
        <5>1. d \in [env : GatewayEnvs, active : BOOLEAN]
          BY DEF GatewayInv
        <5>2. [d EXCEPT !.active = TRUE] \in destination'
          BY <4>1 DEF Upserted
        <5>3. [d EXCEPT !.active = TRUE].active
          BY <5>1
        <5> QED
          BY <3>1, <5>2, <5>3 DEF AsAsked
      <4> QED
        BY <4>2, <4>3
    <3>2. CASE ask[r].route.effect = "deactivate"
      <4>1. Upserted(ask[r].env, FALSE)
        BY <3>2 DEF Takes
      <4>2. CASE destination = {}
        BY <3>2, <4>1, <4>2 DEF Upserted, AsAsked
      <4>3. ASSUME NEW d \in destination PROVE AsAsked(r)'
        <5>1. d \in [env : GatewayEnvs, active : BOOLEAN]
          BY DEF GatewayInv
        <5>2. [d EXCEPT !.active = FALSE] \in destination'
          BY <4>1 DEF Upserted
        <5>3. ~[d EXCEPT !.active = FALSE].active
          BY <5>1
        <5> QED
          BY <3>2, <5>2, <5>3 DEF AsAsked
      <4> QED
        BY <4>2, <4>3
    <3>3. CASE ask[r].route.effect = "disable"
      <4>1. Disabled(ask[r].env)
        BY <3>3 DEF Takes
      <4>2. ASSUME NEW d \in destination
            PROVE  LET n == [d EXCEPT !.active = @ /\ d.env # ask[r].env]
                   IN  n.env = ask[r].env => ~n.active
        <5>1. d \in [env : GatewayEnvs, active : BOOLEAN]
          BY DEF GatewayInv
        <5> QED
          BY <5>1
      <4>3. \A d \in destination' : d.env = ask[r].env => ~d.active
        BY <4>1, <4>2 DEF Disabled
      <4> QED
        BY <3>3, <4>3 DEF AsAsked
    <3> QED
      BY <1>2, <3>1, <3>2, <3>3 DEF OnDestination
  <2> QED
    BY <1>1, <1>2, <2>1 DEF RowAsAsked, Takes, GatewayInv
<1>3. CASE ~OnDestination(r)
  <2>1. UNCHANGED <<destination, overtaken>>
    BY <1>3 DEF Takes, OnDestination
  <2>2. AsAsked(r)'
    BY <1>3 DEF AsAsked, OnDestination
  <2>3. \A q \in Requests : q \in acted \ overtaken => AsAsked(q)'
    BY <2>1 DEF AsAsked, GatewayInv, RowAsAsked
  <2> QED
    BY <1>1, <2>1, <2>2, <2>3 DEF RowAsAsked, Takes, GatewayInv
<1> QED
  BY <1>2, <1>3

\* A step of request r leaves the others as they are.
LEMMA RequestStep ==
    ASSUME GatewayInv, NEW r \in Requests, NEW s \in Stages, Moves(r, s), stage[r] # "none",
           UNCHANGED <<ask, revoked, revokedBefore>>,
           Takes(r) \/ NoEffect, inAuditLog' \in {inAuditLog, inAuditLog \cup {r}},
           RequestOK(r)'
    PROVE  GatewayInv'
<1>3. /\ destination' \subseteq [env : GatewayEnvs, active : BOOLEAN]
      /\ \A d, e \in destination' : d = e
  <2>1. ask[r].env \in GatewayEnvs
    BY DEF GatewayInv, Ask
  <2>2. \/ Upserted(ask[r].env, TRUE) \/ Upserted(ask[r].env, FALSE) \/ Disabled(ask[r].env)
        \/ UNCHANGED destination
    BY DEF Takes, NoEffect
  <2>3. CASE UNCHANGED destination
    BY <2>3 DEF GatewayInv
  <2> QED
    BY <2>1, <2>2, <2>3, RowStaysOne
<1>4. acted' \in {acted, acted \cup {r}} /\ overtaken' \subseteq acted' /\ RowAsAsked'
  <2>1. CASE NoEffect
    BY <2>1 DEF NoEffect, GatewayInv, RowAsAsked, AsAsked
  <2>2. CASE Takes(r)
    BY <2>2, TakesKeepsRow DEF Takes
  <2> QED
    BY <2>1, <2>2
<1>1. stage' \in [Requests -> Stages] /\ \A q \in Requests \ {r} : stage'[q] = stage[q]
  BY DEF Moves, GatewayInv
<1>2. \A q \in Requests \ {r} : RequestOK(q)'
  <2> SUFFICES ASSUME NEW q \in Requests \ {r} PROVE RequestOK(q)'
    OBVIOUS
  <2>1. /\ stage'[q] = stage[q] /\ ask'[q] = ask[q] /\ revokedBefore'[q] = revokedBefore[q]
        /\ (q \in acted' <=> q \in acted) /\ (q \in inAuditLog' <=> q \in inAuditLog)
    BY <1>1, <1>4
  <2> QED
    BY <2>1 DEF GatewayInv, RequestOK, Identified, Entitled
<1> QED
  BY <1>1, <1>2, <1>3, <1>4 DEF GatewayInv

LEMMA ArriveKeeps ==
    ASSUME GatewayInv, NEW r \in Requests, NEW a \in Ask, Arrive(r, a) PROVE GatewayInv'
<1>1. /\ \A q \in Requests \ {r} : /\ stage'[q] = stage[q] /\ ask'[q] = ask[q]
                                   /\ revokedBefore'[q] = revokedBefore[q]
      /\ stage'[r] = "arrived" /\ ask'[r] = a /\ revokedBefore'[r] = revoked
      /\ r \notin acted /\ r \notin inAuditLog
      /\ UNCHANGED <<revoked, destination, acted, overtaken, inAuditLog>>
  BY DEF Arrive, Is, Moves, NoEffect, GatewayInv, RequestOK
<1>2. /\ stage' \in [Requests -> Stages] /\ DOMAIN ask' = Requests
      /\ revokedBefore' \in [Requests -> SUBSET Keys]
  BY DEF Arrive, Moves, GatewayInv, Stages
<1>3. \A q \in Requests : RequestOK(q)'
  BY <1>1 DEF GatewayInv, RequestOK, Identified, Entitled
<1>4. RowAsAsked'
  BY <1>1 DEF GatewayInv, RowAsAsked, AsAsked
<1> QED
  BY <1>1, <1>2, <1>3, <1>4 DEF GatewayInv

\* From arrival to the effect nothing is done.
LEMMA BeforeEffectKeeps ==
    ASSUME GatewayInv, NEW r \in Requests, Limited(r) \/ Resolve(r) \/ Load(r) \/ ReadBody(r)
    PROVE  GatewayInv'
<1> USE DEF Is, NoEffect, Unmoved
<1>1. /\ UNCHANGED <<ask, revoked, revokedBefore, destination, acted, overtaken, inAuditLog>>
      /\ stage[r] \in {"arrived", "loading", "reading"}
  BY DEF Limited, Resolve, Load, ReadBody
<1>2. PICK s \in Stages : /\ Moves(r, s) /\ s \in {"loading", "reading", "acting", "refused", "failed"}
                          /\ s = "loading" => Known(r)
                          /\ s \in {"reading", "acting"} =>
                                \/ stage[r] = "arrived" /\ Known(r) /\ Permits(r)
                                \/ stage[r] = "loading" /\ Permits(r)
                                \/ stage[r] = "reading"
  <2>1. CASE Limited(r) \/ ReadBody(r)
    BY <2>1 DEF Limited, ReadBody, Stages
  <2>2. CASE Resolve(r)
    BY <2>2 DEF Resolve, Checked, Stages
  <2>3. CASE Load(r)
    BY <2>3 DEF Load, Checked, Stages
  <2> QED
    BY <2>1, <2>2, <2>3
<1>3. stage'[r] = s
  BY <1>2 DEF Moves, GatewayInv
<1>4. ask[r] \in Ask /\ ask[r].route.who \subseteq {"key", "admin"}
  <2>1. ask[r] \in Ask
    BY <1>1 DEF GatewayInv
  <2> QED
    BY <2>1, RoutesAskWho DEF Ask
<1>5. Known(r) => Identified(r)
  BY <1>4 DEF Known, Identified, GatewayInv
<1>6. Permits(r) => Entitled(r)
  BY DEF Permits, Entitled
<1>7. RequestOK(r)
  BY DEF GatewayInv
<1>8. RequestOK(r)'
  <2>1. (Identified(r) <=> Identified(r)') /\ (Entitled(r) <=> Entitled(r)')
    BY <1>1 DEF Identified, Entitled
  <2>2. /\ s \in {"loading", "reading", "acting"} => Identified(r)
        /\ s \in {"reading", "acting"} => Entitled(r)
    BY <1>2, <1>5, <1>6, <1>7 DEF RequestOK
  <2>3. r \notin acted /\ r \notin inAuditLog
    BY <1>1, <1>7 DEF RequestOK
  <2> QED
    BY <1>1, <1>2, <1>3, <2>1, <2>2, <2>3 DEF RequestOK
<1> QED
  BY <1>1, <1>2, <1>8, RequestStep

LEMMA ActKeeps ==
    ASSUME GatewayInv, NEW r \in Requests, Act(r) PROVE GatewayInv'
<1> USE DEF Is, NoEffect, Unmoved
<1>1. /\ UNCHANGED <<ask, revoked, revokedBefore, inAuditLog>> /\ stage[r] = "acting"
      /\ acted' \in {acted, acted \cup {r}} /\ (Takes(r) \/ NoEffect)
  BY DEF Act, Takes
<1>2. RequestOK(r) /\ ask[r] \in Ask
  BY <1>1 DEF GatewayInv
<1>3. PICK s \in Stages : /\ Moves(r, s) /\ s \in {"auditing", "answered", "failed"}
                          /\ s # "failed" => acted' = acted \cup {r}
                          /\ s = "answered" => ~ask[r].route.audited
  BY DEF Act, Takes, AfterEffect, Stages
<1>4. stage'[r] = s
  BY <1>3 DEF Moves, GatewayInv
<1>5. RequestOK(r)'
  <2>1. (Identified(r) <=> Identified(r)') /\ (Entitled(r) <=> Entitled(r)')
    BY <1>1 DEF Identified, Entitled
  <2>2. Identified(r) /\ Entitled(r) /\ r \notin inAuditLog
    BY <1>1, <1>2 DEF RequestOK
  <2> QED
    BY <1>1, <1>3, <1>4, <2>1, <2>2 DEF RequestOK
<1> QED
  BY <1>1, <1>3, <1>5, RequestStep

LEMMA AfterEffectKeeps ==
    ASSUME GatewayInv, NEW r \in Requests, Audit(r) \/ Save(r) PROVE GatewayInv'
<1> USE DEF Is, NoEffect, Unmoved
<1>1. /\ UNCHANGED <<ask, revoked, revokedBefore, destination, acted, overtaken>>
      /\ stage[r] \in {"auditing", "saving"}
      /\ inAuditLog' \in {inAuditLog, inAuditLog \cup {r}}
  BY DEF Audit, Save
<1>2. RequestOK(r)
  BY DEF GatewayInv
<1>3. PICK s \in Stages : /\ Moves(r, s) /\ s \in {"saving", "answered", "failed"}
                          /\ s = "saving" => inAuditLog' = inAuditLog \cup {r}
                          /\ s = "answered" => stage[r] = "saving" /\ inAuditLog' = inAuditLog
  BY DEF Audit, Save, Stages
<1>4. stage'[r] = s
  BY <1>3 DEF Moves, GatewayInv
<1>5. RequestOK(r)'
  <2>1. (Identified(r) <=> Identified(r)') /\ (Entitled(r) <=> Entitled(r)')
    BY <1>1 DEF Identified, Entitled
  <2>2. Identified(r) /\ Entitled(r) /\ r \in acted
    BY <1>1, <1>2 DEF RequestOK
  <2> QED
    BY <1>1, <1>2, <1>3, <1>4, <2>1, <2>2 DEF RequestOK
<1> QED
  BY <1>1, <1>3, <1>5, RequestStep

LEMMA MeanwhileKeeps ==
    ASSUME GatewayInv,
           \/ \E k \in Keys : Revoke(k)
           \/ OthersWrite \/ GatewayEnds \/ UNCHANGED gatewayVars
    PROVE  GatewayInv'
<1> USE DEF NoEffect, Unmoved
<1>1. ASSUME NEW k \in Keys, Revoke(k) PROVE GatewayInv'
  <2>1. UNCHANGED <<stage, ask, destination, acted, overtaken, inAuditLog, revokedBefore>>
    BY <1>1 DEF Revoke
  <2>2. RowAsAsked'
    BY <2>1 DEF GatewayInv, RowAsAsked, AsAsked
  <2>3. revoked \subseteq revoked' /\ revoked' \subseteq Keys
    BY <1>1 DEF Revoke, GatewayInv
  <2> QED
    BY <2>1, <2>2, <2>3 DEF GatewayInv, RequestOK, Identified, Entitled
<1>2. CASE OthersWrite
  <2>1. /\ destination' \subseteq [env : GatewayEnvs, active : BOOLEAN]
        /\ \A d, e \in destination' : d = e
    BY <1>2, RowStaysOne DEF OthersWrite
  <2>2. UNCHANGED <<stage, ask, revoked, acted, inAuditLog, revokedBefore>>
    BY <1>2 DEF OthersWrite
  <2>3. overtaken' = acted /\ RowAsAsked'
    BY <1>2 DEF OthersWrite, GatewayInv, RowAsAsked
  <2> QED
    BY <2>1, <2>2, <2>3 DEF GatewayInv, RequestOK, Identified, Entitled
<1>3. CASE GatewayEnds
  <2>1. /\ UNCHANGED <<ask, revoked, revokedBefore, destination, acted, overtaken, inAuditLog>>
        /\ stage' = [r \in Requests |-> IF stage[r] \in Open THEN "failed" ELSE stage[r]]
    BY <1>3 DEF GatewayEnds
  <2>2. stage' \in [Requests -> Stages]
    BY <2>1 DEF GatewayInv, Stages, Open
  <2>3. ASSUME NEW r \in Requests PROVE RequestOK(r)' /\ (stage'[r] # "none" => stage[r] # "none")
    <3>1. \/ stage'[r] = "failed" /\ stage[r] # "none"
          \/ stage'[r] = stage[r]
      BY <2>1 DEF Open
    <3> QED
      BY <2>1, <3>1 DEF GatewayInv, RequestOK, Identified, Entitled
  <2>4. RowAsAsked'
    BY <2>1 DEF GatewayInv, RowAsAsked, AsAsked
  <2> QED
    BY <2>1, <2>2, <2>3, <2>4 DEF GatewayInv
<1>4. CASE UNCHANGED gatewayVars
  BY <1>4 DEF gatewayVars, GatewayInv, RequestOK, Identified, Entitled, RowAsAsked, AsAsked
<1> QED
  BY <1>1, <1>2, <1>3, <1>4

\* An answer of success is of a request that was carried out and, where its
\* route audits, audited; the row of its destination is as it asked until
\* somebody else writes it, a refusal changed nothing, and nothing is done for
\* a caller who has no hold on the environment the request names or whose key
\* was revoked before it came.
THEOREM GatewayAnswersAreTrue == GatewaySpec => []AnswersAreTrue
<1>1. GatewayInit => GatewayInv
  BY DEF GatewayInit, GatewayInv, RequestOK, Stages, RowAsAsked
<1>2. GatewayInv /\ [GatewayNext]_gatewayVars => GatewayInv'
  BY ArriveKeeps, BeforeEffectKeeps, ActKeeps, AfterEffectKeeps, MeanwhileKeeps DEF GatewayNext
<1>3. GatewayInv => AnswersAreTrue
  <2> SUFFICES ASSUME GatewayInv PROVE AnswersAreTrue
    OBVIOUS
  <2>1. GatewayTypeOK
    BY AtMostOne DEF GatewayInv, GatewayTypeOK
  <2>2. inAuditLog \subseteq acted
    BY DEF GatewayInv, RequestOK
  <2> QED
    BY <2>1, <2>2 DEF GatewayInv, RequestOK, Identified, Entitled, RowAsAsked, AnswersAreTrue
<1> QED
  BY <1>1, <1>2, <1>3, PTL DEF GatewaySpec

-----------------------------------------------------------------------------
(* RTC nodes: who gets a token.                                             *)

LEMMA LeastNumber ==
    ASSUME NEW S \in SUBSET Nat, S # {}
    PROVE  \E x \in S : \A y \in S : x <= y
<1> DEFINE R == {ss \in Nat \X Nat : ss[1] < ss[2]}
<1>1. IsWellFoundedOn(R, Nat)
  BY NatLessThanWellFounded DEF OpToRel
<1>2. PICK x \in S : \A y \in S : ~ (<<y, x>> \in R)
  <2> HIDE DEF R
  <2> QED
    BY <1>1, WFMin
<1>3. \A y \in S : x <= y
  <2> SUFFICES ASSUME NEW y \in S PROVE x <= y
    OBVIOUS
  <2>1. <<y, x>> \in Nat \X Nat /\ <<y, x>>[1] = y /\ <<y, x>>[2] = x
    OBVIOUS
  <2>2. <<y, x>> \notin R
    BY <1>2
  <2> QED
    BY <2>1, <2>2
<1> QED
  BY <1>3

Rank(n) == Cardinality({m \in BestNodes : m < n})

\* The best nodes are numbered by their ranks.
LEMMA RanksNumber ==
    /\ IsFiniteSet(BestNodes) /\ Cardinality(BestNodes) \in Nat \ {0}
    /\ \A n \in BestNodes : Rank(n) \in 0 .. Cardinality(BestNodes) - 1
    /\ \A m, n \in BestNodes : Rank(m) = Rank(n) => m = n
    /\ \A i \in 0 .. Cardinality(BestNodes) - 1 :
            BestNode(i) \in BestNodes /\ Rank(BestNode(i)) = i
<1> DEFINE K == Cardinality(BestNodes)
<1>1. /\ IsFiniteSet(BestNodes) /\ K \in Nat /\ K # 0 /\ BestNodes \subseteq Nat
  <2>1. IsFiniteSet(1 .. NumNodes) /\ BestNodes \in SUBSET (1 .. NumNodes) /\ BestNodes # {}
    BY FS_Interval, AdmissionAssumption
  <2>2. IsFiniteSet(BestNodes)
    BY <2>1, FS_Subset
  <2>3. K \in Nat /\ K # 0
    BY <2>1, <2>2, FS_EmptySet, FS_CardinalityType
  <2> QED
    BY <2>1, <2>2, <2>3
<1>2. \A n \in BestNodes : IsFiniteSet({m \in BestNodes : m < n}) /\ Rank(n) \in Nat
  BY <1>1, FS_Subset, FS_CardinalityType DEF Rank
<1>3. ASSUME NEW m \in BestNodes, NEW n \in BestNodes, m < n
      PROVE  Rank(m) < Rank(n)
  <2> DEFINE A == {q \in BestNodes : q < m}
             B == {q \in BestNodes : q < n}
  <2>1. m \notin A /\ A \cup {m} \in SUBSET B
    <3>1. m \in Nat /\ n \in Nat /\ \A q \in BestNodes : q \in Nat
      BY <1>1
    <3>2. \A q \in BestNodes : (q < m => q < n) /\ ~(m < m)
      BY <1>3, <3>1
    <3> QED
      BY <1>3, <3>2
  <2>2. IsFiniteSet(A) /\ IsFiniteSet(B)
    BY <1>2
  <2> HIDE DEF A, B
  <2>3. Cardinality(A \cup {m}) = Cardinality(A) + 1 /\ Cardinality(A \cup {m}) <= Cardinality(B)
    BY <2>1, <2>2, FS_AddElement, FS_Subset
  <2>4. Cardinality(A) \in Nat /\ Cardinality(B) \in Nat
    BY <2>2, FS_CardinalityType
  <2>5. Cardinality(A) < Cardinality(B)
    BY <2>3, <2>4
  <2> QED
    BY <2>5 DEF Rank, A, B
<1>4. \A m, n \in BestNodes : Rank(m) = Rank(n) => m = n
  <2> SUFFICES ASSUME NEW m \in BestNodes, NEW n \in BestNodes, m # n PROVE Rank(m) # Rank(n)
    OBVIOUS
  <2>1. m < n \/ n < m
    <3>1. m \in Nat /\ n \in Nat
      BY <1>1
    <3> QED
      BY <3>1
  <2>2. Rank(m) < Rank(n) \/ Rank(n) < Rank(m)
    BY <1>3, <2>1
  <2>3. Rank(m) \in Nat /\ Rank(n) \in Nat
    BY <1>2
  <2> QED
    BY <2>2, <2>3
<1>5. ASSUME NEW n \in BestNodes PROVE Rank(n) \in 0 .. K - 1
  <2> DEFINE A == {q \in BestNodes : q < n}
  <2>1. A \in SUBSET (BestNodes \ {n})
    BY <1>1
  <2>2. IsFiniteSet(BestNodes \ {n}) /\ Cardinality(BestNodes \ {n}) = K - 1
    BY <1>1, FS_RemoveElement
  <2> HIDE DEF A
  <2>3. Cardinality(A) <= K - 1
    BY <2>1, <2>2, FS_Subset
  <2>4. Rank(n) <= K - 1
    BY <2>3 DEF Rank, A
  <2>5. Rank(n) \in Nat /\ K \in Nat
    BY <1>1, <1>2
  <2> HIDE DEF K
  <2> QED
    BY <2>4, <2>5
<1>6. ASSUME NEW i \in 0 .. K - 1 PROVE \E n \in BestNodes : Rank(n) = i
  <2> DEFINE f == [n \in BestNodes |-> Rank(n)]
  <2>1. f \in Injection(BestNodes, 0 .. K - 1)
    BY <1>4, <1>5 DEF Injection, IsInjective
  <2>2. IsFiniteSet(0 .. K - 1) /\ Cardinality(0 .. K - 1) = K
    BY <1>1, FS_Interval
  <2> HIDE DEF f
  <2>3. f \in Surjection(BestNodes, 0 .. K - 1)
    BY <2>1, <2>2, FS_Injection
  <2>4. \E n \in BestNodes : f[n] = i
    BY <1>6, <2>3 DEF Surjection
  <2> QED
    BY <2>4 DEF f
<1>7. \A i \in 0 .. K - 1 : BestNode(i) \in BestNodes /\ Rank(BestNode(i)) = i
  BY <1>6 DEF BestNode, Rank
<1> QED
  BY <1>1, <1>4, <1>5, <1>7

\* What a decision says of the nodes as the controller knows them.
DecisionOK ==
    /\ decision.kind \in {"none", "preferred", "fallback", "refused", "unknown"}
    /\ decision.node \in 0 .. NumNodes
    /\ decision.kind \in {"preferred", "fallback"} =>
            decision.node \in RtcNodes /\ Admitted(decision.node)
    /\ decision.kind = "refused" => \A n \in RtcNodes : ~Admitted(n)

\* The controller has heard of all nodes or of none, and knows what was
\* reported and ordered last; a best node is ahead by the pick it had since
\* the cursor began its round.
AdmissionInv ==
    /\ states \in [RtcNodes -> [seen : BOOLEAN, rooms : Figures, load : Figures, draining : BOOLEAN]]
    /\ \A m, n \in RtcNodes : states[m].seen = states[n].seen
    /\ drainOrdered \subseteq RtcNodes
    /\ \A n \in RtcNodes : n \in drainOrdered <=> states[n].draining
    /\ reports \in [RtcNodes -> [rooms : Figures, load : Figures]]
    /\ \A n \in RtcNodes : reports[n].rooms = states[n].rooms /\ reports[n].load = states[n].load
    /\ routerCursor \in 0 .. Cardinality(BestNodes) - 1
    /\ lead = [n \in BestNodes |-> IF Rank(n) < routerCursor THEN 1 ELSE 0]
    /\ DecisionOK

LEMMA AdmissionInvInit == AdmissionInit => AdmissionInv
<1> SUFFICES ASSUME AdmissionInit PROVE AdmissionInv
  OBVIOUS
<1>1. 0 \in Figures /\ NumNodes \in Nat
  BY AdmissionAssumption
<1>2. Unseen \in [seen : BOOLEAN, rooms : Figures, load : Figures, draining : BOOLEAN]
  BY <1>1 DEF Unseen
<1>3. /\ states \in [RtcNodes -> [seen : BOOLEAN, rooms : Figures, load : Figures, draining : BOOLEAN]]
      /\ \A n \in RtcNodes : states[n] = Unseen
  BY <1>2 DEF AdmissionInit
<1>4. /\ \A m, n \in RtcNodes : states[m].seen = states[n].seen
      /\ drainOrdered \subseteq RtcNodes
      /\ \A n \in RtcNodes : n \in drainOrdered <=> states[n].draining
      /\ reports \in [RtcNodes -> [rooms : Figures, load : Figures]]
      /\ \A n \in RtcNodes : reports[n].rooms = states[n].rooms /\ reports[n].load = states[n].load
  BY <1>1, <1>3 DEF AdmissionInit, Unseen
<1>5. routerCursor \in 0 .. Cardinality(BestNodes) - 1
  BY RanksNumber DEF AdmissionInit
<1>6. lead = [n \in BestNodes |-> IF Rank(n) < routerCursor THEN 1 ELSE 0]
  <2>1. \A n \in BestNodes : ~(Rank(n) < 0)
    BY RanksNumber
  <2> QED
    BY <2>1 DEF AdmissionInit
<1>7. DecisionOK
  BY <1>1 DEF AdmissionInit, DecisionOK, NoDecision
<1> QED
  BY <1>3, <1>4, <1>5, <1>6, <1>7 DEF AdmissionInv

\* A probe, a report and an order forget the decision.
LEMMA ControllerKeeps ==
    ASSUME AdmissionInv,
           \/ Observe \/ NotReady
           \/ \E n \in RtcNodes : UpdateUsage(n) \/ \E draining \in BOOLEAN : SetDraining(n, draining)
    PROVE  AdmissionInv'
<1>1. decision' = NoDecision /\ UNCHANGED <<routerCursor, lead>>
  BY DEF Observe, NotReady, UpdateUsage, SetDraining
<1>2. DecisionOK'
  BY <1>1, AdmissionAssumption DEF DecisionOK, NoDecision
<1>3. CASE Observe
  <2>1. PICK figures \in [RtcNodes -> Figures] :
            /\ states' = [n \in RtcNodes |-> Observed(n, figures[n])]
            /\ reports' = [n \in RtcNodes |-> [reports[n] EXCEPT !.rooms = figures[n]]]
    BY <1>3 DEF Observe
  <2>2. ASSUME NEW n \in RtcNodes
        PROVE  /\ states'[n] \in [seen : BOOLEAN, rooms : Figures, load : Figures, draining : BOOLEAN]
               /\ states'[n].seen = TRUE /\ states'[n].draining = states[n].draining
               /\ reports'[n] \in [rooms : Figures, load : Figures]
               /\ reports'[n].rooms = states'[n].rooms /\ reports'[n].load = states'[n].load
    <3>1. /\ states[n] \in [seen : BOOLEAN, rooms : Figures, load : Figures, draining : BOOLEAN]
          /\ reports[n] \in [rooms : Figures, load : Figures] /\ reports[n].load = states[n].load
      BY DEF AdmissionInv
    <3>2. states'[n] = Observed(n, figures[n]) /\ reports'[n] = [reports[n] EXCEPT !.rooms = figures[n]]
      BY <2>1
    <3> QED
      BY <3>1, <3>2 DEF Observed
  <2>3. drainOrdered' = drainOrdered
    BY <1>3 DEF Observe
  <2>4. /\ states' \in [RtcNodes -> [seen : BOOLEAN, rooms : Figures, load : Figures, draining : BOOLEAN]]
        /\ reports' \in [RtcNodes -> [rooms : Figures, load : Figures]]
    BY <2>1, <2>2
  <2> QED
    BY <1>1, <1>2, <2>2, <2>3, <2>4 DEF AdmissionInv
<1>4. CASE NotReady
  BY <1>1, <1>2, <1>4 DEF NotReady, AdmissionInv
<1>5. ASSUME NEW n \in RtcNodes, UpdateUsage(n) PROVE AdmissionInv'
  <2>1. PICK rooms \in Figures : \E load \in Figures :
            /\ states' = [states EXCEPT ![n].rooms = rooms, ![n].load = load]
            /\ reports' = [reports EXCEPT ![n] = [rooms |-> rooms, load |-> load]]
    BY <1>5 DEF UpdateUsage
  <2>2. PICK load \in Figures :
            /\ states' = [states EXCEPT ![n].rooms = rooms, ![n].load = load]
            /\ reports' = [reports EXCEPT ![n] = [rooms |-> rooms, load |-> load]]
    BY <2>1
  <2>3. drainOrdered' = drainOrdered
    BY <1>5 DEF UpdateUsage
  <2>4. /\ states' \in [RtcNodes -> [seen : BOOLEAN, rooms : Figures, load : Figures, draining : BOOLEAN]]
        /\ reports' \in [RtcNodes -> [rooms : Figures, load : Figures]]
        /\ states'[n].rooms = rooms /\ states'[n].load = load /\ reports'[n] = [rooms |-> rooms, load |-> load]
        /\ \A m \in RtcNodes : states'[m].seen = states[m].seen /\ states'[m].draining = states[m].draining
        /\ \A m \in RtcNodes \ {n} : states'[m] = states[m] /\ reports'[m] = reports[m]
    BY <2>2 DEF AdmissionInv
  <2>5. \A m \in RtcNodes :
            reports'[m].rooms = states'[m].rooms /\ reports'[m].load = states'[m].load
    <3> SUFFICES ASSUME NEW m \in RtcNodes
                 PROVE  reports'[m].rooms = states'[m].rooms /\ reports'[m].load = states'[m].load
      OBVIOUS
    <3>1. CASE m = n
      <4>1. /\ states'[m].rooms = rooms /\ states'[m].load = load
            /\ reports'[m] = [rooms |-> rooms, load |-> load]
        BY <2>4, <3>1
      <4> QED
        BY <4>1
    <3>2. CASE m # n
      <4>1. states'[m] = states[m] /\ reports'[m] = reports[m]
        BY <2>4, <3>2
      <4>2. reports[m].rooms = states[m].rooms /\ reports[m].load = states[m].load
        BY DEF AdmissionInv
      <4> QED
        BY <4>1, <4>2
    <3> QED
      BY <3>1, <3>2
  <2> QED
    BY <1>1, <1>2, <2>3, <2>4, <2>5 DEF AdmissionInv
<1>6. ASSUME NEW n \in RtcNodes, NEW draining \in BOOLEAN, SetDraining(n, draining) PROVE AdmissionInv'
  <2>1. /\ states' = [states EXCEPT ![n].draining = draining]
        /\ drainOrdered' = IF draining THEN drainOrdered \cup {n} ELSE drainOrdered \ {n}
        /\ reports' = reports
    BY <1>6 DEF SetDraining
  <2>2. /\ states' \in [RtcNodes -> [seen : BOOLEAN, rooms : Figures, load : Figures, draining : BOOLEAN]]
        /\ states'[n].draining = draining
        /\ \A m \in RtcNodes : states'[m].seen = states[m].seen
        /\ \A m \in RtcNodes : states'[m].rooms = states[m].rooms /\ states'[m].load = states[m].load
        /\ \A m \in RtcNodes \ {n} : states'[m].draining = states[m].draining
    BY <2>1 DEF AdmissionInv
  <2>3. \A m \in RtcNodes : m \in drainOrdered' <=> states'[m].draining
    BY <2>1, <2>2 DEF AdmissionInv
  <2>4. drainOrdered' \subseteq RtcNodes
    BY <2>1 DEF AdmissionInv
  <2> QED
    BY <1>1, <1>2, <2>1, <2>2, <2>3, <2>4 DEF AdmissionInv
<1> QED
  BY <1>3, <1>4, <1>5, <1>6

\* When a node admits, the least utilized of those that do is a fallback.
LEMMA FallbackFound ==
    ASSUME AdmissionInv, NEW n \in RtcNodes, states[n].seen, Admitted(n)
    PROVE  Fallbacks # {}
<1> DEFINE admitting == {q \in RtcNodes : states[q].seen /\ Admitted(q)}
           utilizations == {Utilization(states[q]) : q \in admitting}
<1>1. \A q \in RtcNodes : Utilization(states[q]) \in Nat
  <2> SUFFICES ASSUME NEW q \in RtcNodes PROVE Utilization(states[q]) \in Nat
    OBVIOUS
  <2>1. states[q].rooms \in Nat /\ states[q].load \in Nat
    BY AdmissionAssumption DEF AdmissionInv
  <2> QED
    BY <2>1 DEF Utilization
<1>2. utilizations \in SUBSET Nat /\ utilizations # {}
  BY <1>1
<1>3. PICK x \in utilizations : \A y \in utilizations : x <= y
  <2> HIDE DEF utilizations
  <2> QED
    BY <1>2, LeastNumber
<1>4. PICK q \in admitting : Utilization(states[q]) = x
  OBVIOUS
<1>5. q \in Fallbacks
  BY <1>3, <1>4 DEF Fallbacks
<1> QED
  BY <1>5

\* After a round everybody is even again; within a round the picked are ahead.
LEMMA TurnsAreTaken ==
    ASSUME AdmissionInv,
           routerCursor' = (routerCursor + 1) % Cardinality(BestNodes),
           lead' = LeadAfter(BestNode(routerCursor))
    PROVE  /\ routerCursor' \in 0 .. Cardinality(BestNodes) - 1
           /\ lead' = [n \in BestNodes |-> IF Rank(n) < routerCursor' THEN 1 ELSE 0]
<1> DEFINE K == Cardinality(BestNodes)
           c == routerCursor
           b == BestNode(c)
           picked == [lead EXCEPT ![b] = @ + 1]
           least == CHOOSE x \in {picked[m] : m \in BestNodes} : \A m \in BestNodes : x <= picked[m]
<1>1. K \in Nat \ {0} /\ c \in 0 .. K - 1 /\ c \in Nat
  BY RanksNumber DEF AdmissionInv
<1>2. b \in BestNodes /\ Rank(b) = c
  BY <1>1, RanksNumber
<1>3. \A n \in BestNodes : Rank(n) \in 0 .. K - 1 /\ (Rank(n) = c => n = b)
  BY <1>2, RanksNumber
<1>4. lead = [n \in BestNodes |-> IF Rank(n) < c THEN 1 ELSE 0]
  BY DEF AdmissionInv
<1>5. lead' = [m \in BestNodes |-> picked[m] - least]
  BY DEF LeadAfter
<1> HIDE DEF K, c, b, least
<1>6. \A n \in BestNodes : picked[n] = IF Rank(n) < c + 1 THEN 1 ELSE 0
  <2> SUFFICES ASSUME NEW n \in BestNodes PROVE picked[n] = IF Rank(n) < c + 1 THEN 1 ELSE 0
    OBVIOUS
  <2>1. CASE n = b
    BY <1>1, <1>2, <1>4, <2>1
  <2>2. CASE n # b
    <3>1. picked[n] = lead[n] /\ Rank(n) # c /\ Rank(n) \in Nat
      BY <1>1, <1>3, <1>4, <2>2
    <3> QED
      BY <1>1, <1>4, <3>1
  <2> QED
    BY <2>1, <2>2
<1> HIDE DEF picked
<1>7. CASE c + 1 < K
  <2>1. routerCursor' = c + 1
    BY <1>1, <1>7 DEF K, c
  <2>2. PICK z \in BestNodes : Rank(z) = K - 1
    <3>1. K - 1 \in 0 .. K - 1
      BY <1>1
    <3> QED
      BY <3>1, RanksNumber DEF K
  <2>3. picked[z] = 0
    BY <1>1, <1>6, <1>7, <2>2
  <2>4. \A m \in BestNodes : 0 <= picked[m]
    BY <1>6
  <2>5. least = 0
    <3>1. \E x \in {picked[m] : m \in BestNodes} : \A m \in BestNodes : x <= picked[m]
      BY <2>3, <2>4
    <3>2. least \in {picked[m] : m \in BestNodes} /\ \A m \in BestNodes : least <= picked[m]
      BY <3>1 DEF least
    <3>3. least \in {0, 1} /\ least <= 0
      BY <1>6, <2>3, <3>2
    <3> QED
      BY <3>3
  <2>6. \A n \in BestNodes : picked[n] - least = IF Rank(n) < routerCursor' THEN 1 ELSE 0
    BY <1>6, <2>1, <2>5
  <2> QED
    BY <1>1, <1>5, <1>7, <2>1, <2>6 DEF K
<1>8. CASE ~(c + 1 < K)
  <2>1. c + 1 = K
    BY <1>1, <1>8
  <2>2. routerCursor' = 0
    <3>1. K % K = 0
      BY <1>1
    <3> QED
      BY <2>1, <3>1 DEF K, c
  <2>3. \A n \in BestNodes : picked[n] = 1
    BY <1>1, <1>3, <1>6, <2>1
  <2>4. least = 1
    <3>1. \E x \in {picked[m] : m \in BestNodes} : \A m \in BestNodes : x <= picked[m]
      BY <1>2, <2>3
    <3>2. least \in {picked[m] : m \in BestNodes}
      BY <3>1 DEF least
    <3> QED
      BY <2>3, <3>2
  <2>5. \A n \in BestNodes : picked[n] - least = IF Rank(n) < routerCursor' THEN 1 ELSE 0
    BY <1>1, <1>3, <2>2, <2>3, <2>4
  <2> QED
    BY <1>1, <1>5, <2>2, <2>5 DEF K
<1> QED
  BY <1>7, <1>8

LEMMA RouteTokenKeeps ==
    ASSUME AdmissionInv, RouteToken PROVE AdmissionInv'
<1> DEFINE n == BestNode(routerCursor)
<1>1. /\ UNCHANGED <<states, drainOrdered, reports>>
      /\ routerCursor' = (routerCursor + 1) % Cardinality(BestNodes)
      /\ lead' = LeadAfter(n)
  BY DEF RouteToken
<1>2. /\ routerCursor' \in 0 .. Cardinality(BestNodes) - 1
      /\ lead' = [m \in BestNodes |-> IF Rank(m) < routerCursor' THEN 1 ELSE 0]
  BY <1>1, TurnsAreTaken
<1>3. n \in RtcNodes
  BY RanksNumber, AdmissionAssumption DEF AdmissionInv, RtcNodes
<1>4. PICK k \in {"preferred", "fallback", "refused", "unknown"} : \E m \in RtcNodes :
          /\ decision' = [kind |-> k, node |-> m]
          /\ k \in {"preferred", "fallback"} => Admitted(m)
          /\ k = "refused" => states[n].seen /\ Fallbacks = {}
  BY <1>3 DEF RouteToken, Fallbacks
<1>5. k = "refused" => \A m \in RtcNodes : ~Admitted(m)
  <2> SUFFICES ASSUME k = "refused", NEW m \in RtcNodes PROVE ~Admitted(m)
    OBVIOUS
  <2>1. states[m].seen
    BY <1>3, <1>4 DEF AdmissionInv
  <2> QED
    BY <1>4, <2>1, FallbackFound
<1>6. \A m \in RtcNodes : Admitted(m)' <=> Admitted(m)
  BY <1>1 DEF Admitted
<1>7. RtcNodes \subseteq 0 .. NumNodes
  BY AdmissionAssumption DEF RtcNodes
<1>8. DecisionOK'
  BY <1>4, <1>5, <1>6, <1>7 DEF DecisionOK
<1> QED
  BY <1>1, <1>2, <1>8 DEF AdmissionInv

\* A token is only for a node that is open as its last figures and orders are;
\* a request is refused only when no node is; and equals take turns.
THEOREM TokensAreForOpenNodes == AdmissionSpec => []TokensGoToOpenNodes
<1>1. AdmissionInv /\ [AdmissionNext]_rtcVars => AdmissionInv'
  <2>1. AdmissionInv /\ UNCHANGED rtcVars => AdmissionInv'
    BY DEF AdmissionInv, rtcVars, DecisionOK, Admitted
  <2> QED
    BY <2>1, ControllerKeeps, RouteTokenKeeps DEF AdmissionNext
<1>2. AdmissionInv => TokensGoToOpenNodes
  <2> SUFFICES ASSUME AdmissionInv PROVE TokensGoToOpenNodes
    OBVIOUS
  <2>1. \A n \in BestNodes : lead[n] \in {0, 1}
    BY DEF AdmissionInv
  <2>2. lead \in [BestNodes -> Nat]
    BY DEF AdmissionInv
  <2>3. AdmissionTypeOK
    BY <2>2 DEF AdmissionInv, DecisionOK, AdmissionTypeOK
  <2>4. \A n \in RtcNodes : Admitted(n) <=> n \notin drainOrdered /\ ~Overloaded(n)
    <3> SUFFICES ASSUME NEW n \in RtcNodes
                 PROVE  Admitted(n) <=> n \notin drainOrdered /\ ~Overloaded(n)
      OBVIOUS
    <3>1. /\ states[n].rooms \in Nat /\ states[n].load \in Nat /\ Limit \in Nat
          /\ reports[n].rooms = states[n].rooms /\ reports[n].load = states[n].load
          /\ n \in drainOrdered <=> states[n].draining
      BY AdmissionAssumption DEF AdmissionInv
    <3>2. Utilization(states[n]) <= Limit <=> ~(states[n].rooms > Limit \/ states[n].load > Limit)
      BY <3>1 DEF Utilization
    <3> QED
      BY <3>1, <3>2 DEF Admitted, Overloaded
  <2> QED
    BY <2>1, <2>3, <2>4 DEF AdmissionInv, DecisionOK, TokensGoToOpenNodes
<1> QED
  BY <1>1, <1>2, AdmissionInvInit, PTL DEF AdmissionSpec

-----------------------------------------------------------------------------
(* Billing: usage is billed once.                                           *)

\* What is stored was recorded, each under one id; what a key recorded is one.
UsageKept ==
    /\ records \in [UsageIds -> SUBSET UsageRecord]
    /\ \A u \in UsageIds : \A r, s \in records[u] : r = s
    /\ \A u, v \in UsageIds : \A r \in records[u] : r \in records[v] => u = v
    /\ \A u \in UsageIds : records[u] \subseteq usage
    /\ usage \subseteq UsageRecord
    /\ \A r, s \in usage : r.key = s.key => r = s
    /\ recordedKeys = {r.key : r \in usage}
    /\ excused \subseteq recordedKeys

\* Until an account has its invoice, what it used is stored or was replaced.
StillStored ==
    \A r \in usage : InvoicesOf(r.account) = {} /\ r.key \notin excused =>
        \E u \in UsageIds : r \in records[u]

InvoicesMade ==
    /\ \E S : invoices \in Seq(S)
    /\ \A n \in 1 .. Len(invoices) :
        invoices[n].account \in Accounts /\ invoices[n].status \in InvoiceStatuses
    /\ \A m, n \in 1 .. Len(invoices) : invoices[m].account = invoices[n].account => m = n

LinesTrue ==
    \A n \in 1 .. Len(invoices) : \A line \in invoices[n].lines :
        /\ \E r \in usage : r.key = line.key /\ r.account = invoices[n].account
        /\ \A other \in invoices[n].lines : other.key = line.key => other = line

\* A usage has a line in the invoice of its account unless it is excused.
AllBilled ==
    \A n \in 1 .. Len(invoices) : \A r \in usage : r.account = invoices[n].account =>
        (r.key \in excused \/ \E line \in invoices[n].lines : line.key = r.key)

Corrected(a) ==
    LET difference == a.correctsTo - invoices[a.invoice].total
    IN  a.amount = IF a.kind = "debit" THEN difference ELSE 0 - difference

Corrections ==
    /\ \A a, b \in adjustments : a.key = b.key => a = b
    /\ \A a \in adjustments : a.invoice \in 1 .. Len(invoices) /\ Corrected(a)

BillingInv ==
    /\ UsageKept /\ StillStored /\ InvoicesMade /\ LinesTrue /\ AllBilled /\ Corrections

LEMMA BillingInvInit == BillingInit => BillingInv
<1> SUFFICES ASSUME BillingInit PROVE BillingInv
  OBVIOUS
<1>1. Len(invoices) = 0 /\ invoices \in Seq({})
  BY DEF BillingInit
<1>2. 1 .. Len(invoices) = {}
  BY <1>1
<1>3. UsageKept
  BY DEF BillingInit, UsageKept, Missing
<1>4. StillStored /\ AllBilled
  BY DEF BillingInit, StillStored, AllBilled
<1>5. InvoicesMade /\ LinesTrue
  BY <1>1, <1>2 DEF InvoicesMade, LinesTrue
<1>6. Corrections
  BY DEF BillingInit, Corrections
<1> QED
  BY <1>3, <1>4, <1>5, <1>6 DEF BillingInv

\* A key that was not seen makes a usage that was not known.
LEMMA RecordUsageKeeps ==
    ASSUME BillingInv, NEW id \in UsageIds, NEW r \in UsageRecord, RecordUsage(id, r)
    PROVE  BillingInv'
<1>1. /\ r.key \notin recordedKeys
      /\ records' = [records EXCEPT ![id] = {r}]
      /\ recordedKeys' = recordedKeys \cup {r.key}
      /\ usage' = usage \cup {r}
      /\ excused' = (excused
            \cup {old.key : old \in {o \in records[id] : InvoicesOf(o.account) = {}}})
            \cup {k \in {r.key} : InvoicesOf(r.account) # {}}
      /\ UNCHANGED <<invoices, adjustments>>
  BY DEF RecordUsage, FirstOfKey
<1>2. /\ records \in [UsageIds -> SUBSET UsageRecord] /\ usage \subseteq UsageRecord
      /\ \A u \in UsageIds : \A s, t \in records[u] : s = t
      /\ \A u, v \in UsageIds : \A s \in records[u] : s \in records[v] => u = v
      /\ \A u \in UsageIds : records[u] \subseteq usage
      /\ \A s, t \in usage : s.key = t.key => s = t
      /\ recordedKeys = {s.key : s \in usage} /\ excused \subseteq recordedKeys
  BY DEF BillingInv, UsageKept
<1>3. \A s \in usage : s.key # r.key /\ s # r
  BY <1>1, <1>2
<1>4. /\ records'[id] = {r}
      /\ \A u \in UsageIds : u # id => records'[u] = records[u]
      /\ records' \in [UsageIds -> SUBSET UsageRecord]
  BY <1>1, <1>2
<1>5. UsageKept'
  <2>1. /\ \A u \in UsageIds : \A s, t \in records'[u] : s = t
        /\ \A u \in UsageIds : records'[u] \subseteq usage'
    <3> SUFFICES ASSUME NEW u \in UsageIds
                 PROVE  (\A s, t \in records'[u] : s = t) /\ records'[u] \subseteq usage'
      OBVIOUS
    <3>1. CASE u = id
      BY <1>1, <1>4, <3>1
    <3>2. CASE u # id
      BY <1>1, <1>2, <1>4, <3>2
    <3> QED
      BY <3>1, <3>2
  <2>2. ASSUME NEW u \in UsageIds, NEW v \in UsageIds, NEW s \in records'[u], s \in records'[v]
        PROVE  u = v
    <3>1. CASE s = r
      <4>1. r \notin records[u] /\ r \notin records[v]
        BY <1>2, <1>3
      <4> QED
        BY <1>4, <2>2, <3>1, <4>1
    <3>2. CASE s # r
      <4>1. u # id /\ v # id
        BY <1>4, <2>2, <3>2
      <4> QED
        BY <1>2, <1>4, <2>2, <4>1
    <3> QED
      BY <3>1, <3>2
  <2>3. \A s, t \in usage' : s.key = t.key => s = t
    BY <1>1, <1>2, <1>3
  <2>4. recordedKeys' = {s.key : s \in usage'}
    BY <1>1, <1>2
  <2>5. excused' \subseteq recordedKeys'
    <3>1. {old.key : old \in {o \in records[id] : InvoicesOf(o.account) = {}}} \subseteq recordedKeys
      BY <1>2
    <3> QED
      BY <1>1, <1>2, <3>1
  <2>6. usage' \subseteq UsageRecord
    BY <1>1, <1>2
  <2> QED
    BY <1>4, <2>1, <2>2, <2>3, <2>4, <2>5, <2>6 DEF UsageKept
<1>6. \A s \in usage :
        s.key \in excused' <=> s.key \in excused \/ (s \in records[id] /\ InvoicesOf(s.account) = {})
  <2> SUFFICES ASSUME NEW s \in usage
               PROVE s.key \in excused' <=>
                        s.key \in excused \/ (s \in records[id] /\ InvoicesOf(s.account) = {})
    OBVIOUS
  <2>1. s.key # r.key
    BY <1>3
  <2>2. \A old \in records[id] : old.key = s.key => old = s
    BY <1>2
  <2> QED
    BY <1>1, <2>1, <2>2
<1>7. r.key \in excused' <=> InvoicesOf(r.account) # {}
  <2>1. r.key \notin excused
    BY <1>1, <1>2
  <2>2. \A old \in records[id] : old.key # r.key
    BY <1>2, <1>3
  <2> QED
    BY <1>1, <2>1, <2>2
<1>8. \A account : InvoicesOf(account)' = InvoicesOf(account)
  BY <1>1 DEF InvoicesOf
<1>9. StillStored'
  <2> SUFFICES ASSUME NEW s \in usage', InvoicesOf(s.account) = {}, s.key \notin excused'
               PROVE  \E u \in UsageIds : s \in records'[u]
    BY <1>1 DEF StillStored, InvoicesOf
  <2>1. CASE s = r
    BY <1>4, <2>1
  <2>2. CASE s # r
    <3>1. s \in usage /\ s.key \notin excused /\ s \notin records[id]
      BY <1>1, <1>6, <2>2
    <3>2. PICK u \in UsageIds : s \in records[u]
      BY <3>1 DEF BillingInv, StillStored
    <3> QED
      BY <1>4, <3>1, <3>2
  <2> QED
    BY <2>1, <2>2
<1>10. InvoicesMade' /\ Corrections'
  BY <1>1 DEF BillingInv, InvoicesMade, Corrections, Corrected
<1>11. LinesTrue'
  BY <1>1 DEF BillingInv, LinesTrue
<1>12. AllBilled'
  <2> SUFFICES ASSUME NEW n \in 1 .. Len(invoices), NEW s \in usage', s.account = invoices[n].account
               PROVE  s.key \in excused' \/ \E line \in invoices[n].lines : line.key = s.key
    BY <1>1 DEF AllBilled
  <2>1. n \in InvoicesOf(s.account)
    BY DEF InvoicesOf
  <2>2. CASE s = r
    BY <1>7, <2>1, <2>2
  <2>3. CASE s # r
    <3>1. s \in usage
      BY <1>1, <2>3
    <3> QED
      BY <1>6, <3>1 DEF BillingInv, AllBilled
  <2> QED
    BY <2>2, <2>3
<1> QED
  BY <1>5, <1>9, <1>10, <1>11, <1>12 DEF BillingInv

\* The invoice of an account is made from all that is stored for it.
LEMMA IssueInvoiceKeeps ==
    ASSUME BillingInv, NEW account \in Accounts, NEW p \in Plans, IssueInvoice(account, p)
    PROVE  BillingInv'
<1>1. PICK plan \in plans[p] :
        LET lines == Lines(account, plan.price)
        IN  invoices' = Append(invoices, [account |-> account, status |-> "draft",
                                          lines |-> lines, total |-> Total(lines)])
  BY DEF IssueInvoice
<1> DEFINE made == [account |-> account, status |-> "draft",
                    lines |-> Lines(account, plan.price), total |-> Total(Lines(account, plan.price))]
           L == Len(invoices)
<1>2. InvoicesOf(account) = {} /\ UNCHANGED <<records, recordedKeys, adjustments, usage, excused>>
  BY DEF IssueInvoice
<1>3. PICK S : invoices \in Seq(S)
  BY DEF BillingInv, InvoicesMade
<1>4. /\ made.account = account /\ made.status = "draft" /\ made.lines = Lines(account, plan.price)
  OBVIOUS
<1>5. invoices' = Append(invoices, made)
  BY <1>1
<1> HIDE DEF made
<1>6. /\ L \in Nat /\ Len(invoices') = L + 1 /\ invoices'[L + 1] = made
      /\ \A n \in 1 .. L : invoices'[n] = invoices[n]
  <2>1. invoices \in Seq(S \cup {made}) /\ made \in S \cup {made}
    BY <1>3
  <2> QED
    BY <1>5, <2>1, AppendProperties
<1>7. 1 .. Len(invoices') = 1 .. L \cup {L + 1}
  BY <1>6
<1>8. \A n \in 1 .. L : invoices[n].account # account
  BY <1>2 DEF InvoicesOf
<1>9. UsageKept'
  BY <1>2 DEF BillingInv, UsageKept
<1>10. InvoicesMade'
  <2>1. invoices' \in Seq(S \cup {made})
    <3>1. invoices \in Seq(S \cup {made}) /\ made \in S \cup {made}
      BY <1>3
    <3> QED
      BY <1>5, <3>1, AppendProperties
  <2>2. \A n \in 1 .. Len(invoices') :
            invoices'[n].account \in Accounts /\ invoices'[n].status \in InvoiceStatuses
    BY <1>4, <1>6, <1>7 DEF BillingInv, InvoicesMade, InvoiceStatuses
  <2>3. \A m, n \in 1 .. Len(invoices') : invoices'[m].account = invoices'[n].account => m = n
    BY <1>4, <1>6, <1>7, <1>8 DEF BillingInv, InvoicesMade
  <2> QED
    BY <2>1, <2>2, <2>3 DEF InvoicesMade
<1>11. StillStored'
  <2> SUFFICES ASSUME NEW s \in usage, InvoicesOf(s.account)' = {}, s.key \notin excused
               PROVE  \E u \in UsageIds : s \in records[u]
    BY <1>2 DEF StillStored
  <2>1. InvoicesOf(s.account) = {}
    BY <1>6, <1>7 DEF InvoicesOf
  <2> QED
    BY <2>1 DEF BillingInv, StillStored
<1>12. /\ \A s \in usage, u \in UsageIds : s \in records[u] /\ s.account = account =>
            \E line \in made.lines : line.key = s.key
       /\ \A line \in made.lines : \E r \in usage : r.key = line.key /\ r.account = account
       /\ \A line, other \in made.lines : other.key = line.key => other = line
  <2>1. /\ \A r, s \in usage : r.key = s.key => r = s
        /\ \A u \in UsageIds : records[u] \subseteq usage
        /\ \A u, v \in UsageIds : \A r \in records[u] : r \in records[v] => u = v
    BY DEF BillingInv, UsageKept
  <2> DEFINE lineOf(u, r) == Line(u, r, plan.price)
  <2>2. \A u, r : lineOf(u, r).key = r.key
    BY DEF Line
  <2>3. \A line : line \in made.lines <=>
            \E u \in UsageIds : \E r \in records[u] : r.account = account /\ line = lineOf(u, r)
    BY <1>4 DEF Lines
  <2> HIDE DEF lineOf
  <2>4. \A line \in made.lines : \E r \in usage : r.key = line.key /\ r.account = account
    BY <2>1, <2>2, <2>3
  <2>5. ASSUME NEW line \in made.lines, NEW other \in made.lines, other.key = line.key
        PROVE  other = line
    <3>1. PICK u \in UsageIds : \E r \in records[u] : line = lineOf(u, r)
      BY <2>3
    <3>2. PICK r \in records[u] : line = lineOf(u, r)
      BY <3>1
    <3>3. PICK v \in UsageIds : \E s \in records[v] : other = lineOf(v, s)
      BY <2>3
    <3>4. PICK s \in records[v] : other = lineOf(v, s)
      BY <3>3
    <3>5. r = s
      BY <2>1, <2>2, <2>5, <3>2, <3>4
    <3>6. u = v
      BY <2>1, <3>5
    <3> QED
      BY <3>2, <3>4, <3>5, <3>6
  <2>6. ASSUME NEW s \in usage, NEW u \in UsageIds, s \in records[u], s.account = account
        PROVE  \E line \in made.lines : line.key = s.key
    BY <2>2, <2>3, <2>6
  <2> QED
    BY <2>4, <2>5, <2>6
<1>13. LinesTrue'
  <2> SUFFICES ASSUME NEW n \in 1 .. Len(invoices'), NEW line \in invoices'[n].lines
               PROVE  /\ \E r \in usage : r.key = line.key /\ r.account = invoices'[n].account
                      /\ \A other \in invoices'[n].lines : other.key = line.key => other = line
    BY <1>2 DEF LinesTrue
  <2>1. CASE n \in 1 .. L
    BY <1>6, <2>1 DEF BillingInv, LinesTrue
  <2>2. CASE n = L + 1
    BY <1>4, <1>6, <1>12, <2>2
  <2> QED
    BY <1>7, <2>1, <2>2
<1>14. AllBilled'
  <2> SUFFICES ASSUME NEW n \in 1 .. Len(invoices'), NEW s \in usage, s.account = invoices'[n].account,
                      s.key \notin excused
               PROVE  \E line \in invoices'[n].lines : line.key = s.key
    BY <1>2 DEF AllBilled
  <2>1. CASE n \in 1 .. L
    BY <1>6, <2>1 DEF BillingInv, AllBilled
  <2>2. CASE n = L + 1
    <3>1. s.account = account
      BY <1>4, <1>6, <2>2
    <3>2. PICK u \in UsageIds : s \in records[u]
      BY <1>2, <3>1 DEF BillingInv, StillStored
    <3> QED
      BY <1>6, <1>12, <2>2, <3>1, <3>2
  <2> QED
    BY <1>7, <2>1, <2>2
<1>15. Corrections'
  BY <1>2, <1>6, <1>7 DEF BillingInv, Corrections, Corrected
<1> QED
  BY <1>9, <1>10, <1>11, <1>13, <1>14, <1>15 DEF BillingInv

\* A status says nothing of what is billed.
LEMMA TransitionKeeps ==
    ASSUME BillingInv, NEW n \in 1 .. Len(invoices), Issue(n) \/ MarkPaid(n) \/ Void(n)
    PROVE  BillingInv'
<1>1. PICK to \in InvoiceStatuses : invoices' = [invoices EXCEPT ![n].status = to]
  BY DEF Issue, MarkPaid, Void, TransitionInvoice, InvoiceStatuses
<1>2. UNCHANGED <<records, recordedKeys, adjustments, usage, excused>>
  BY DEF Issue, MarkPaid, Void, TransitionInvoice
<1>3. PICK S : invoices \in Seq(S)
  BY DEF BillingInv, InvoicesMade
<1> DEFINE changed == [invoices[n] EXCEPT !.status = to]
<1>4. Len(invoices) \in Nat /\ DOMAIN invoices = 1 .. Len(invoices)
  BY <1>3
<1>5. invoices' \in Seq(S \cup {changed}) /\ Len(invoices') = Len(invoices)
  <2>1. invoices \in Seq(S \cup {changed})
    BY <1>3
  <2>2. invoices' = [invoices EXCEPT ![n] = changed]
    BY <1>1
  <2> HIDE DEF changed
  <2> QED
    BY <2>1, <2>2, ExceptSeq
<1>6. \A m \in 1 .. Len(invoices) :
        /\ invoices'[m].status \in {to, invoices[m].status}
        /\ invoices'[m].account = invoices[m].account
        /\ invoices'[m].lines = invoices[m].lines /\ invoices'[m].total = invoices[m].total
  BY <1>1, <1>4
<1>7. InvoicesMade'
  BY <1>5, <1>6 DEF BillingInv, InvoicesMade
<1>8. \A account : InvoicesOf(account)' = InvoicesOf(account)
  BY <1>5, <1>6 DEF InvoicesOf
<1>9. UsageKept'
  BY <1>2 DEF BillingInv, UsageKept
<1>10. StillStored'
  BY <1>2, <1>8 DEF BillingInv, StillStored
<1>11. LinesTrue'
  BY <1>2, <1>5, <1>6 DEF BillingInv, LinesTrue
<1>12. AllBilled'
  BY <1>2, <1>5, <1>6 DEF BillingInv, AllBilled
<1>13. Corrections'
  BY <1>2, <1>5, <1>6 DEF BillingInv, Corrections, Corrected
<1> QED
  BY <1>7, <1>9, <1>10, <1>11, <1>12, <1>13 DEF BillingInv

LEMMA CreateAdjustmentKeeps ==
    ASSUME BillingInv, NEW n \in 1 .. Len(invoices), NEW total \in ProviderTotals,
           NEW key \in CorrectionKeys, CreateAdjustment(n, total, key)
    PROVE  BillingInv'
<1> DEFINE delta == total - invoices[n].total
           made == [key |-> key, invoice |-> n, kind |-> IF delta > 0 THEN "debit" ELSE "credit",
                    amount |-> IF delta > 0 THEN delta ELSE 0 - delta, correctsTo |-> total]
<1>1. /\ \A a \in adjustments : a.key # key
      /\ adjustments' = adjustments \cup {made}
      /\ UNCHANGED <<records, recordedKeys, invoices, usage, excused>>
  BY DEF CreateAdjustment
<1>2. made.key = key /\ made.invoice = n /\ Corrected(made)
  <2>1. /\ made.key = key /\ made.invoice = n /\ made.correctsTo = total
        /\ made.kind = IF delta > 0 THEN "debit" ELSE "credit"
        /\ made.amount = IF delta > 0 THEN delta ELSE 0 - delta
    OBVIOUS
  <2> HIDE DEF made
  <2> QED
    BY <2>1 DEF Corrected
<1> HIDE DEF made
<1>3. Corrections'
  <2>1. \A a, b \in adjustments' : a.key = b.key => a = b
    BY <1>1, <1>2 DEF BillingInv, Corrections
  <2>2. \A a \in adjustments' : a.invoice \in 1 .. Len(invoices) /\ Corrected(a)
    BY <1>1, <1>2 DEF BillingInv, Corrections
  <2> QED
    BY <1>1, <2>1, <2>2 DEF Corrections, Corrected
<1> QED
  BY <1>1, <1>3 DEF BillingInv, UsageKept, StillStored, InvoicesMade, LinesTrue, AllBilled, InvoicesOf

\* BilledOnce (Billing): however often usage is sent, under whichever ids and
\* however late, it is charged at most once, to its account; and an invoice that
\* stands charges all its account's usage but what came after it or was replaced.
THEOREM UsageIsBilledOnce == BillingSpec => []BilledOnce
<1>1. BillingInit => BillingInv
  BY BillingInvInit
<1>2. BillingInv /\ [BillingNext]_billingVars => BillingInv'
  <2> SUFFICES ASSUME BillingInv, [BillingNext]_billingVars PROVE BillingInv'
    OBVIOUS
  <2>1. ASSUME NEW p \in Plans, NEW month \in Months, NEW price \in Prices, AddPlan(p, month, price)
        PROVE  BillingInv'
    <3>1. UNCHANGED <<records, recordedKeys, invoices, adjustments, usage, excused>>
      BY <2>1 DEF AddPlan
    <3> QED
      BY <3>1 DEF BillingInv, UsageKept, StillStored, InvoicesMade, LinesTrue, AllBilled,
                  Corrections, Corrected, InvoicesOf
  <2>2. ASSUME UNCHANGED billingVars PROVE BillingInv'
    BY <2>2 DEF billingVars, BillingInv, UsageKept, StillStored, InvoicesMade, LinesTrue, AllBilled,
                Corrections, Corrected, InvoicesOf
  <2> QED
    BY <2>1, <2>2, RecordUsageKeeps, IssueInvoiceKeeps, TransitionKeeps, CreateAdjustmentKeeps
       DEF BillingNext
<1>3. BillingInv => BilledOnce
  <2> SUFFICES ASSUME BillingInv PROVE BilledOnce
    OBVIOUS
  <2>1. \A u \in UsageIds : records[u] \subseteq UsageRecord /\ Cardinality(records[u]) <= 1
    BY AtMostOne DEF BillingInv, UsageKept
  <2>2. recordedKeys \subseteq UsageKeys
    BY DEF BillingInv, UsageKept, UsageRecord
  <2>3. BillingTypeOK
    BY <2>1, <2>2 DEF BillingInv, UsageKept, InvoicesMade, BillingTypeOK
  <2>4. \A account \in Accounts : Cardinality(InvoicesOf(account) \cap Standing) <= 1
    BY AtMostOne DEF BillingInv, InvoicesMade, InvoicesOf, Standing
  <2>5. ASSUME NEW r \in usage
        PROVE  /\ Cardinality(ChargedBy(r)) <= 1
               /\ r.key \notin excused =>
                    \A n \in InvoicesOf(r.account) \cap Standing :
                        \E charge \in ChargedBy(r) : charge[1] = n
    <3>1. \A charge : charge \in ChargedBy(r) <=>
            \E n \in Standing : \E line \in invoices[n].lines : line.key = r.key /\ charge = <<n, line>>
      BY DEF ChargedBy
    <3>2. ASSUME NEW m \in Standing, NEW n \in Standing, NEW line \in invoices[m].lines,
                 NEW other \in invoices[n].lines, line.key = r.key, other.key = r.key
          PROVE  m = n /\ line = other
      <4>1. m \in 1 .. Len(invoices) /\ n \in 1 .. Len(invoices)
        BY DEF Standing
      <4>2. invoices[m].account = r.account /\ invoices[n].account = r.account
        BY <3>2, <4>1 DEF BillingInv, LinesTrue, UsageKept
      <4>3. m = n
        BY <4>1, <4>2 DEF BillingInv, InvoicesMade
      <4> QED
        BY <3>2, <4>1, <4>3 DEF BillingInv, LinesTrue
    <3>3. \A charge, other \in ChargedBy(r) : charge = other
      BY <3>1, <3>2
    <3>4. ASSUME r.key \notin excused, NEW n \in InvoicesOf(r.account) \cap Standing
          PROVE  \E charge \in ChargedBy(r) : charge[1] = n
      <4>1. PICK line \in invoices[n].lines : line.key = r.key
        BY <3>4 DEF BillingInv, AllBilled, InvoicesOf
      <4>2. <<n, line>> \in ChargedBy(r)
        BY <3>1, <4>1
      <4> QED
        BY <4>2
    <3> QED
      BY <3>3, <3>4, AtMostOne
  <2>6. \A a \in adjustments : LET difference == a.correctsTo - invoices[a.invoice].total
                               IN  a.amount = IF a.kind = "debit" THEN difference ELSE 0 - difference
    BY DEF BillingInv, Corrections, Corrected
  <2> QED
    BY <2>3, <2>4, <2>5, <2>6 DEF BillingInv, LinesTrue, Corrections, BilledOnce
<1> QED
  BY <1>1, <1>2, <1>3, PTL DEF BillingSpec
=============================================================================
