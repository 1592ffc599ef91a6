--------------------------- MODULE MediaOpsProofs ---------------------------
(***************************************************************************)
(* For any number of handlers, keys and jobs, and any limits: what the     *)
(* media-ops server promises about jobs, tasks and answers holds when      *)
(* requests overlap, calls fail, writes are lost and the process restarts. *)
(***************************************************************************)
EXTENDS MediaOps, SequenceTheorems, FiniteSetTheorems, TLAPS

-----------------------------------------------------------------------------
(* Statuses. *)

\* The ranks are numbers that grow with every transition; an end is final, and
\* what no longer counts never counts again.
LEMMA RankFacts ==
    /\ Rank["none"] = 0
    /\ \A s \in Status : Rank[s] \in 1 .. 5
    /\ \A s \in Status : s \in Counted <=> Rank[s] < 4
    /\ \A s \in Status : Rank[s] = 1 => s = "requested"
    /\ Rank["requested"] = 1
BY DEF Rank, Status, Counted, Terminal

\* Being after is a preorder in which a job begins as "requested".
LEMMA AfterFacts ==
    /\ \A s, t, u \in Status \cup {"none"} : After(s, t) /\ After(t, u) => After(s, u)
    /\ \A s \in Status : After("requested", s) /\ After(s, s)
    /\ \A s, t \in Status : After(s, t) /\ t \in Counted => s \in Counted
    /\ \A s, t \in Status : After(s, t) /\ t = "requested" => s = "requested"
    /\ \A t \in Status : After("completed", t) => t = "completed"
    /\ \A t : After("none", t) => t = "none" \/ Rank[t] > 0
<1>1. \A s \in Status \cup {"none"} : Rank[s] \in Nat
  BY RankFacts
<1>2. \A s, t, u \in Status \cup {"none"} : After(s, t) /\ After(t, u) => After(s, u)
  BY <1>1 DEF After
<1>3. \A s, t \in Status : After(s, t) /\ t \in Counted => s \in Counted
  BY RankFacts DEF After
<1>4. \A s \in Status : After("requested", s) /\ After(s, s)
  BY RankFacts DEF After
<1>5. \A s, t \in Status : After(s, t) /\ t = "requested" => s = "requested"
  BY RankFacts DEF After
<1>6. \A t : After("none", t) => t = "none" \/ Rank[t] > 0
  BY RankFacts DEF After
<1>7. \A t \in Status : After("completed", t) => t = "completed"
  BY DEF After, Rank, Status, Counted, Terminal
<1>. QED
  BY <1>2, <1>3, <1>4, <1>5, <1>6, <1>7

\* A transition leads to a later status; a call or a recording that drains or is
\* completed was active before.
LEMMA TransitionFacts ==
    ASSUME NEW s \in Status, NEW t \in STATUS_TRANSITIONS[s]
    PROVE  /\ t \in Status /\ t # "requested" /\ After(s, t)
           /\ t \in {"draining", "completed"} => s \in {"active", "draining"}
<1>. USE DEF STATUS_TRANSITIONS, Status, Counted, Terminal, After, Rank
<1>1. CASE s = "requested"
  BY <1>1
<1>2. CASE s = "starting"
  BY <1>2
<1>3. CASE s = "active"
  BY <1>3
<1>4. CASE s = "draining"
  BY <1>4
<1>5. CASE s \in Terminal
  BY <1>5
<1>. QED
  BY <1>1, <1>2, <1>3, <1>4, <1>5

-----------------------------------------------------------------------------
(* The state of the process, and the copies of it that are saved. *)

Slots == Kinds \X Keys

ActiveIn(js, k) == {r \in DOMAIN js : js[r].kind = k /\ js[r].status \in Counted}

\* Good states are well formed, within their limits, and know the task of
\* every job that has been activated.
WithinLimits(js) == \A k \in Kinds \ {"call"} : Cardinality(ActiveIn(js, k)) <= Limit[k]

Provided(js) == \A r \in DOMAIN js :
    js[r].status \in {"starting", "active", "draining", "completed"} => js[r].provider

\* A call whose hang-up has a result is completed.
HangupsEnded(rs, js) == \A t \in rs : t[1] = "hangup" => js[t[2]].status = "completed"

SlotsOK(st) ==
    /\ \A s \in Slots : st.idem[s] <= Len(st.jobs)
    /\ \A s \in Slots : st.idem[s] # 0 => st.jobs[st.idem[s]].kind = s[1]
    /\ st.results \subseteq Operations \X (DOMAIN st.jobs) \X Keys
    /\ HangupsEnded(st.results, st.jobs)

States == [jobs : Seq(Job), idem : [Slots -> Nat], asked : [Slots -> Bodies \cup {NoBody}],
           results : SUBSET (Operations \X Nat \X Keys)]

Snapshots == {st \in States :
    Len(st.jobs) <= MaxJobs /\ WithinLimits(st.jobs) /\ Provided(st.jobs) /\ SlotsOK(st)}

\* One list of jobs has come from another: jobs were added and moved forward.
Grows(js, ks) ==
    /\ Len(js) <= Len(ks)
    /\ \A r \in 1 .. Len(js) : After(js[r].status, ks[r].status)

\* What is in a list of jobs is a job.
LEMMA JobTyped ==
    ASSUME NEW js \in Seq(Job), NEW r \in 1 .. Len(js)
    PROVE  js[r] \in Job /\ js[r].status \in Status /\ js[r].kind \in Kinds
<1>1. js[r] \in Job
  BY ElementOfSeq
<1>. QED
  BY <1>1 DEF Job

\* The lists of jobs in good states are preordered by growth.
LEMMA GrowsFacts ==
    /\ \A js \in Seq(Job) : Grows(js, js)
    /\ \A js, ks, ls \in Seq(Job) : Grows(js, ks) /\ Grows(ks, ls) => Grows(js, ls)
<1>1. \A js \in Seq(Job) : \A r \in 1 .. Len(js) : js[r].status \in Status
  BY JobTyped
<1>2. \A js \in Seq(Job) : Grows(js, js)
  BY <1>1, AfterFacts DEF Grows
<1>3. ASSUME NEW js \in Seq(Job), NEW ks \in Seq(Job), NEW ls \in Seq(Job), Grows(js, ks), Grows(ks, ls)
      PROVE  Grows(js, ls)
  <2>1. Len(js) \in Nat /\ Len(ks) \in Nat /\ Len(ls) \in Nat
    OBVIOUS
  <2>2. ASSUME NEW r \in 1 .. Len(js)
        PROVE  After(js[r].status, ls[r].status)
    <3>1. r \in 1 .. Len(ks) /\ r \in 1 .. Len(ls)
      BY <1>3, <2>1 DEF Grows
    <3>2. After(js[r].status, ks[r].status) /\ After(ks[r].status, ls[r].status)
      BY <1>3, <3>1 DEF Grows
    <3>. QED
      BY <1>1, <3>1, <3>2, AfterFacts
  <2>. QED
    BY <1>3, <2>1, <2>2 DEF Grows
<1>. QED
  BY <1>2, <1>3

-----------------------------------------------------------------------------
(* The operations of MediaOpsControl keep states good and let them grow. *)

\* A list that only has moved forward has no more active jobs than before.
LEMMA LimitsKept ==
    ASSUME NEW js \in Seq(Job), NEW ks \in Seq(Job), Grows(js, ks), Len(js) = Len(ks),
           \A r \in DOMAIN js : js[r].kind = ks[r].kind,
           WithinLimits(js)
    PROVE  WithinLimits(ks)
<1>. SUFFICES ASSUME NEW k \in Kinds \ {"call"}
              PROVE  Cardinality(ActiveIn(ks, k)) <= Limit[k]
  BY DEF WithinLimits
<1>1. DOMAIN js = 1 .. Len(js) /\ DOMAIN ks = 1 .. Len(js) /\ Len(js) \in Nat
  OBVIOUS
<1>2. \A r \in 1 .. Len(js) : js[r].status \in Status /\ ks[r].status \in Status
  BY JobTyped
<1>3. ActiveIn(ks, k) \subseteq ActiveIn(js, k)
  BY <1>1, <1>2, AfterFacts DEF ActiveIn, Grows
<1>4. IsFiniteSet(ActiveIn(js, k))
  <2>1. IsFiniteSet(1 .. Len(js))
    BY <1>1, FS_Interval
  <2>2. ActiveIn(js, k) \in SUBSET (1 .. Len(js))
    BY <1>1 DEF ActiveIn
  <2>. QED
    BY <2>1, <2>2, FS_Subset
<1>5. Cardinality(ActiveIn(ks, k)) <= Cardinality(ActiveIn(js, k))
  BY <1>3, <1>4, FS_Subset
<1>6. Cardinality(ActiveIn(ks, k)) \in Nat /\ Cardinality(ActiveIn(js, k)) \in Nat /\ Limit[k] \in Nat
  BY <1>3, <1>4, FS_Subset, FS_CardinalityType, MediaAssumption
<1>. QED
  BY <1>5, <1>6 DEF WithinLimits

\* An operation that moves one job forward, and may record a result.
LEMMA JobMoves ==
    ASSUME State \in Snapshots, NEW r \in JobIds, NEW j \in Job,
           j.kind = jobs[r].kind, After(jobs[r].status, j.status),
           j.status \in {"starting", "active", "draining", "completed"} => j.provider,
           jobs' = [jobs EXCEPT ![r] = j], UNCHANGED <<idem, asked>>,
           \/ UNCHANGED results
           \/ \E o \in Operations, key \in Keys :
                /\ results' = results \cup {<<o, r, key>>}
                /\ o = "hangup" => j.status = "completed"
    PROVE  NextState \in Snapshots /\ Grows(jobs, jobs') /\ Len(jobs') = Len(jobs)
<1>1. /\ jobs \in Seq(Job) /\ idem \in [Slots -> Nat] /\ asked \in [Slots -> Bodies \cup {NoBody}]
      /\ results \subseteq Operations \X Nat \X Keys
      /\ Len(jobs) <= MaxJobs /\ WithinLimits(jobs) /\ Provided(jobs) /\ SlotsOK(State)
  BY DEF State, Snapshots, States
<1>2. /\ jobs' \in Seq(Job) /\ Len(jobs') = Len(jobs) /\ DOMAIN jobs' = DOMAIN jobs
      /\ DOMAIN jobs = 1 .. Len(jobs) /\ r \in 1 .. Len(jobs) /\ Len(jobs) \in Nat
      /\ \A i \in DOMAIN jobs : jobs'[i] = IF i = r THEN j ELSE jobs[i]
  BY <1>1 DEF JobIds
<1>3. \A i \in 1 .. Len(jobs) : jobs[i].status \in Status
  BY <1>1, JobTyped
<1>4. Grows(jobs, jobs')
  BY <1>2, <1>3, AfterFacts DEF Grows
<1>5. WithinLimits(jobs')
  BY <1>1, <1>2, <1>4, LimitsKept
<1>6. Provided(jobs')
  BY <1>1, <1>2 DEF Provided
<1>7. /\ results' \subseteq Operations \X Nat \X Keys
      /\ results' \subseteq Operations \X (DOMAIN jobs') \X Keys
  <2>1. results \subseteq Operations \X (DOMAIN jobs) \X Keys
    BY <1>1 DEF SlotsOK, State
  <2>. QED
    BY <1>1, <1>2, <2>1
<1>8. SlotsOK(NextState)
  <2>1. \A s \in Slots : idem[s] <= Len(jobs) /\ idem[s] \in Nat /\ (idem[s] # 0 => jobs[idem[s]].kind = s[1])
    BY <1>1 DEF SlotsOK, State
  <2>2. \A s \in Slots : idem[s] # 0 => jobs'[idem[s]].kind = s[1]
    BY <1>2, <2>1
  <2>3. HangupsEnded(results', jobs')
    <3>. SUFFICES ASSUME NEW t \in results', t[1] = "hangup"
                  PROVE  jobs'[t[2]].status = "completed"
      BY DEF HangupsEnded
    <3>1. CASE t \in results
      <4>1. jobs[t[2]].status = "completed" /\ t[2] \in 1 .. Len(jobs)
        BY <1>1, <1>2, <3>1 DEF SlotsOK, State, HangupsEnded
      <4>2. After("completed", jobs'[t[2]].status) /\ jobs'[t[2]].status \in Status
        <5>1. After(jobs[t[2]].status, jobs'[t[2]].status)
          BY <1>4, <4>1 DEF Grows
        <5>. QED
          BY <1>2, <4>1, <5>1, JobTyped
      <4>. QED
        BY <4>2, AfterFacts
    <3>2. CASE t \notin results
      BY <1>2, <3>2
    <3>. QED
      BY <3>1, <3>2
  <2>. QED
    BY <1>2, <1>7, <2>1, <2>2, <2>3 DEF SlotsOK, NextState
<1>9. NextState \in States
  BY <1>1, <1>2, <1>7 DEF States, NextState
<1>. QED
  BY <1>1, <1>2, <1>4, <1>5, <1>6, <1>8, <1>9 DEF Snapshots, NextState

\* What a good state of the process has.
LEMMA StateFacts ==
    ASSUME State \in Snapshots
    PROVE  /\ jobs \in Seq(Job) /\ idem \in [Slots -> Nat] /\ asked \in [Slots -> Bodies \cup {NoBody}]
           /\ results \subseteq Operations \X Nat \X Keys
           /\ results \subseteq Operations \X (1 .. Len(jobs)) \X Keys
           /\ Len(jobs) \in Nat /\ Len(jobs) <= MaxJobs /\ JobIds = 1 .. Len(jobs)
           /\ WithinLimits(jobs) /\ Provided(jobs)
           /\ \A s \in Slots : idem[s] \in 0 .. Len(jobs)
           /\ \A s \in Slots : idem[s] # 0 => jobs[idem[s]].kind = s[1]
           /\ HangupsEnded(results, jobs)
<1>1. /\ jobs \in Seq(Job) /\ idem \in [Slots -> Nat] /\ asked \in [Slots -> Bodies \cup {NoBody}]
      /\ results \subseteq Operations \X Nat \X Keys
      /\ Len(jobs) <= MaxJobs /\ WithinLimits(jobs) /\ Provided(jobs) /\ SlotsOK(State)
  BY DEF State, Snapshots, States
<1>2. Len(jobs) \in Nat /\ JobIds = 1 .. Len(jobs) /\ DOMAIN jobs = 1 .. Len(jobs)
  BY <1>1 DEF JobIds
<1>. QED
  BY <1>1, <1>2 DEF SlotsOK, State

\* A new job is one more than before, within the limit.
LEMMA CreateGood ==
    ASSUME State \in Snapshots, NEW k \in Kinds, NEW key \in Keys, NEW body \in Bodies,
           NEW identity \in BOOLEAN, CreateJob(k, key, body, identity)
    PROVE  /\ NextState \in Snapshots /\ Grows(jobs, jobs') /\ Len(jobs') = Len(jobs) + 1
           /\ jobs'[Len(jobs) + 1].status = "requested"
           /\ Len(jobs) + 1 \in 1 .. MaxJobs
           /\ \A i \in 1 .. Len(jobs) : jobs'[i] = jobs[i]
           /\ <<k, key>> \in Slots /\ idem[<<k, key>>] = 0
           /\ idem' = [idem EXCEPT ![<<k, key>>] = Len(jobs) + 1]
<1>. DEFINE new == [kind |-> k, status |-> "requested", provider |-> FALSE,
                    identity |-> identity, object |-> FALSE, deleted |-> FALSE]
            n == Len(jobs)
            s0 == <<k, key>>
<1>1. new \in Job /\ new.kind = k /\ new.status = "requested"
  BY DEF Job, Status, Counted
<1>2. /\ idem[s0] = 0 /\ WithinLimit(k) /\ n < MaxJobs
      /\ jobs' = Append(jobs, new)
      /\ idem' = [idem EXCEPT ![s0] = n + 1]
      /\ asked' = [asked EXCEPT ![s0] = body]
      /\ results' = results
  BY DEF CreateJob
<1>. HIDE DEF new
<1>3. /\ jobs' \in Seq(Job) /\ Len(jobs') = n + 1 /\ jobs'[n + 1] = new
      /\ \A i \in 1 .. n : jobs'[i] = jobs[i]
      /\ n \in Nat
  BY <1>1, <1>2, StateFacts, AppendProperties
<1>4. s0 \in Slots
  BY DEF Slots
<1>5. Grows(jobs, jobs')
  BY <1>3, StateFacts, JobTyped, AfterFacts DEF Grows
<1>6. WithinLimits(jobs')
  <2>. SUFFICES ASSUME NEW x \in Kinds \ {"call"}
                PROVE  Cardinality(ActiveIn(jobs', x)) <= Limit[x]
    BY DEF WithinLimits
  <2>1. DOMAIN jobs' = 1 .. n + 1 /\ DOMAIN jobs = 1 .. n
    BY <1>3, StateFacts
  <2>2. ActiveIn(jobs', x) = IF x = k THEN ActiveIn(jobs, x) \cup {n + 1} ELSE ActiveIn(jobs, x)
    BY <1>1, <1>3, <2>1 DEF ActiveIn, Counted
  <2>3. n + 1 \notin ActiveIn(jobs, x) /\ ActiveIn(jobs, x) \subseteq 1 .. n
    <3>1. ActiveIn(jobs, x) \subseteq 1 .. n
      BY <2>1 DEF ActiveIn
    <3>2. n + 1 \notin 1 .. n
      BY <1>3
    <3>. QED
      BY <3>1, <3>2
  <2>4. IsFiniteSet(ActiveIn(jobs, x))
    <3>0. n \in Int
      BY <1>3
    <3>1. IsFiniteSet(1 .. n)
      BY <3>0, FS_Interval
    <3>. QED
      BY <2>3, <3>1, FS_Subset
  <2>5. Cardinality(ActiveIn(jobs, x)) \in Nat /\ Limit[x] \in Nat
    BY <2>4, FS_CardinalityType, MediaAssumption
  <2>6. Cardinality(ActiveIn(jobs, x)) <= Limit[x]
    BY StateFacts DEF WithinLimits
  <2>7. CASE x = k
    <3>1. Cardinality(ActiveIn(jobs, k)) < Limit[k]
      BY <1>2, <2>7 DEF WithinLimit, Active, ActiveIn, JobIds
    <3>2. Cardinality(ActiveIn(jobs, x) \cup {n + 1}) = Cardinality(ActiveIn(jobs, x)) + 1
      BY <2>3, <2>4, FS_AddElement
    <3>. QED
      BY <2>2, <2>5, <2>7, <3>1, <3>2
  <2>8. CASE x # k
    BY <2>2, <2>6, <2>8
  <2>. QED
    BY <2>7, <2>8
<1>7. Provided(jobs')
  <2>1. DOMAIN jobs' = 1 .. n + 1 /\ DOMAIN jobs = 1 .. n
    BY <1>3, StateFacts
  <2>2. Provided(jobs)
    BY StateFacts
  <2>. QED
    BY <1>1, <1>3, <2>1, <2>2 DEF Provided
<1>8. /\ idem' \in [Slots -> Nat] /\ asked' \in [Slots -> Bodies \cup {NoBody}]
      /\ \A s \in Slots : idem'[s] = IF s = s0 THEN n + 1 ELSE idem[s]
  BY <1>2, <1>3, <1>4, StateFacts
<1>9. SlotsOK(NextState)
  <2>1. \A s \in Slots : idem'[s] \in 0 .. n + 1
    BY <1>3, <1>8, StateFacts
  <2>2. \A s \in Slots : idem'[s] # 0 => jobs'[idem'[s]].kind = s[1]
    BY <1>1, <1>3, <1>8, StateFacts
  <2>3. results' \subseteq Operations \X (DOMAIN jobs') \X Keys
    <3>1. DOMAIN jobs' = 1 .. n + 1 /\ 1 .. n \subseteq 1 .. n + 1
      BY <1>3
    <3>2. results \subseteq Operations \X (1 .. n) \X Keys
      BY StateFacts
    <3>. QED
      BY <1>2, <3>1, <3>2
  <2>4. HangupsEnded(results', jobs')
    <3>1. \A t \in results : t[2] \in 1 .. n
      BY StateFacts
    <3>. QED
      BY <1>2, <1>3, <3>1, StateFacts DEF HangupsEnded
  <2>. QED
    BY <1>3, <2>1, <2>2, <2>3, <2>4 DEF SlotsOK, NextState
<1>10. NextState \in States
  BY <1>2, <1>3, <1>8, StateFacts DEF States, NextState
<1>11. n + 1 \in 1 .. MaxJobs /\ n + 1 <= MaxJobs
  BY <1>2, <1>3, MediaAssumption
<1>. QED
  BY <1>1, <1>2, <1>3, <1>4, <1>5, <1>6, <1>7, <1>9, <1>10, <1>11 DEF Snapshots, NextState

\* A job that is activated was "requested" until then.
LEMMA ActivateGood ==
    ASSUME State \in Snapshots, NEW r \in JobIds, NEW object \in BOOLEAN, NEW identity \in BOOLEAN,
           Activate(r, object, identity)
    PROVE  /\ NextState \in Snapshots /\ Grows(jobs, jobs') /\ Len(jobs') = Len(jobs)
           /\ jobs'[r].status = "active"
<1>. DEFINE j == [jobs[r] EXCEPT !.status = "active", !.provider = TRUE, !.object = object,
                                 !.identity = @ \/ identity]
<1>1. jobs[r] \in Job /\ r \in 1 .. Len(jobs) /\ jobs \in Seq(Job)
  BY StateFacts, JobTyped
<1>2. j \in Job /\ j.kind = jobs[r].kind /\ j.status = "active" /\ j.provider
  BY <1>1 DEF Job, Status, Counted
<1>3. jobs' = [jobs EXCEPT ![r] = j] /\ jobs[r].status = "requested"
  BY <1>1 DEF Activate
<1>. HIDE DEF j
<1>4. After(jobs[r].status, j.status)
  BY <1>2, <1>3, AfterFacts DEF Status, Counted
<1>5. UNCHANGED <<idem, asked, results>>
  BY DEF Activate
<1>6. jobs'[r].status = "active"
  BY <1>1, <1>2, <1>3
<1>. QED
  BY <1>2, <1>3, <1>4, <1>5, <1>6, JobMoves

\* A job that cannot be made has failed, or had ended before.
LEMMA FailGood ==
    ASSUME State \in Snapshots, NEW r \in JobIds, NEW identity \in BOOLEAN, Fail(r, identity)
    PROVE  /\ NextState \in Snapshots /\ Grows(jobs, jobs') /\ Len(jobs') = Len(jobs)
           /\ jobs'[r].status # "requested"
<1>. DEFINE status == IF CanMove(r, "failed") THEN "failed" ELSE jobs[r].status
            j == [jobs[r] EXCEPT !.status = status, !.identity = @ \/ identity]
<1>1. jobs[r] \in Job /\ r \in 1 .. Len(jobs) /\ jobs \in Seq(Job) /\ jobs[r].status \in Status
  BY StateFacts, JobTyped
<1>2. status \in Status /\ After(jobs[r].status, status) /\ status # "requested"
      /\ (status = jobs[r].status \/ status = "failed")
  <2>1. CASE CanMove(r, "failed")
    BY <1>1, <2>1, TransitionFacts DEF CanMove
  <2>2. CASE ~CanMove(r, "failed")
    <3>1. jobs[r].status # "requested"
      BY <2>2 DEF CanMove, STATUS_TRANSITIONS, Status, Counted, Terminal
    <3>. QED
      BY <1>1, <2>2, <3>1, AfterFacts
  <2>. QED
    BY <2>1, <2>2
<1>3. jobs' = [jobs EXCEPT ![r] = j]
  BY <1>1 DEF Fail
<1>. HIDE DEF status
<1>4. j \in Job /\ j.kind = jobs[r].kind /\ j.status = status /\ j.provider = jobs[r].provider
  BY <1>1, <1>2 DEF Job
<1>5. j.status \in {"starting", "active", "draining", "completed"} => j.provider
  BY <1>1, <1>2, <1>4, StateFacts DEF Provided, JobIds
<1>. HIDE DEF j
<1>6. UNCHANGED <<idem, asked, results>>
  BY DEF Fail
<1>7. jobs'[r].status # "requested"
  BY <1>1, <1>2, <1>3, <1>4
<1>. QED
  BY <1>2, <1>3, <1>4, <1>5, <1>6, <1>7, JobMoves

\* A callback names a status that may follow; it may bring the id.
LEMMA ApplyGood ==
    ASSUME State \in Snapshots, NEW r \in JobIds, NEW status \in Status, NEW withId \in BOOLEAN,
           NEW withObject \in BOOLEAN, ApplyProviderStatus(r, status, withId, withObject)
    PROVE  /\ NextState \in Snapshots /\ Grows(jobs, jobs') /\ Len(jobs') = Len(jobs)
           /\ jobs'[r].status = status
<1>. DEFINE j == [jobs[r] EXCEPT !.status = status, !.provider = @ \/ withId,
                                 !.object = @ \/ (withObject /\ jobs[r].kind = "egress")]
<1>1. jobs[r] \in Job /\ r \in 1 .. Len(jobs) /\ jobs \in Seq(Job) /\ jobs[r].status \in Status
  BY StateFacts, JobTyped
<1>2. /\ After(jobs[r].status, status)
      /\ status \in {"draining", "completed"} => jobs[r].status \in {"active", "draining", "completed"}
      /\ status \in {"starting", "active"} => withId \/ jobs[r].provider
  BY <1>1, AfterFacts, TransitionFacts DEF ApplyProviderStatus, CanMove
<1>3. jobs' = [jobs EXCEPT ![r] = j]
  BY <1>1 DEF ApplyProviderStatus
<1>4. /\ j \in Job /\ j.kind = jobs[r].kind /\ j.status = status
      /\ j.provider = (jobs[r].provider \/ withId)
  BY <1>1 DEF Job
<1>5. j.status \in {"starting", "active", "draining", "completed"} => j.provider
  BY <1>1, <1>2, <1>4, StateFacts DEF Provided, JobIds
<1>. HIDE DEF j
<1>6. UNCHANGED <<idem, asked, results>>
  BY DEF ApplyProviderStatus
<1>7. jobs'[r].status = status
  BY <1>1, <1>3, <1>4
<1>. QED
  BY <1>2, <1>3, <1>4, <1>5, <1>6, <1>7, JobMoves

\* A transfer leaves the jobs alone; a hang-up completes one.
LEMMA OperationGood ==
    ASSUME State \in Snapshots, NEW r \in JobIds, NEW key \in Keys,
           SaveTransfer(r, key) \/ SaveHangup(r, key)
    PROVE  NextState \in Snapshots /\ Grows(jobs, jobs') /\ Len(jobs') = Len(jobs)
<1>1. jobs[r] \in Job /\ r \in 1 .. Len(jobs) /\ jobs \in Seq(Job) /\ jobs[r].status \in Status
  BY StateFacts, JobTyped
<1>2. CASE SaveTransfer(r, key)
  <2>1. jobs' = [jobs EXCEPT ![r] = jobs[r]] /\ After(jobs[r].status, jobs[r].status)
    BY <1>1, <1>2, AfterFacts DEF SaveTransfer
  <2>2. jobs[r].status \in {"starting", "active", "draining", "completed"} => jobs[r].provider
    BY StateFacts DEF Provided, JobIds
  <2>3. UNCHANGED <<idem, asked>> /\ results' = results \cup {<<"transfer", r, key>>}
        /\ "transfer" \in Operations
    BY <1>2 DEF SaveTransfer, Operations
  <2>. QED
    BY <1>1, <2>1, <2>2, <2>3, JobMoves
<1>3. CASE SaveHangup(r, key)
  <2>. DEFINE j == [jobs[r] EXCEPT !.status = "completed"]
  <2>1. jobs' = [jobs EXCEPT ![r] = j]
    BY <1>1, <1>3 DEF SaveHangup
  <2>2. j \in Job /\ j.kind = jobs[r].kind /\ j.status = "completed" /\ j.provider = jobs[r].provider
    BY <1>1 DEF Job, Status, Terminal
  <2>3. After(jobs[r].status, "completed") /\ jobs[r].status \in {"active", "draining", "completed"}
    BY <1>1, <1>3, AfterFacts, TransitionFacts DEF SaveHangup, CanMove
  <2>4. j.provider
    BY <2>2, <2>3, StateFacts DEF Provided, JobIds
  <2>. HIDE DEF j
  <2>5. UNCHANGED <<idem, asked>> /\ results' = results \cup {<<"hangup", r, key>>}
        /\ "hangup" \in Operations
    BY <1>3 DEF SaveHangup, Operations
  <2>. QED
    BY <2>1, <2>2, <2>3, <2>4, <2>5, JobMoves
<1>. QED
  BY <1>2, <1>3

-----------------------------------------------------------------------------
(* The invariant. *)

\* Whoever awaits the provider has a job.
HandlersOK ==
    /\ pc \in [Handlers -> {"idle", "creating", "acting", "saving"}]
    /\ call \in [Handlers -> Calls]
    /\ made \subseteq Handlers
    /\ \A h \in Handlers :
        /\ pc[h] \in {"creating", "acting"} => call[h].job \in 1 .. Len(jobs)
        /\ pc[h] = "acting" => call[h].ok

Writes == [by : Handlers, state : Snapshots]

\* The copies in the queue grow towards its end, and the process has grown from
\* the last; each handler awaits one copy at most, and that covers its answer.
QueueOK ==
    /\ tail \in Seq(Writes)
    /\ \A i \in 1 .. Len(tail) : pc[tail[i].by] = "saving"
    /\ \A i, j \in 1 .. Len(tail) : tail[i].by = tail[j].by => i = j
    /\ \A i, j \in 1 .. Len(tail) : i <= j => Grows(tail[i].state.jobs, tail[j].state.jobs)
    /\ \A i \in 1 .. Len(tail) : Grows(tail[i].state.jobs, jobs)
    /\ \A i \in 1 .. Len(tail) : call[tail[i].by].ok =>
        /\ call[tail[i].by].job \in 1 .. Len(tail[i].state.jobs)
        /\ After(call[tail[i].by].shown, tail[i].state.jobs[call[tail[i].by].job].status)

\* The snapshot covers every answer, and while the process knows its version,
\* every copy and the process have grown from it.
SnapshotOK ==
    /\ durable \in Snapshots
    /\ synced \in BOOLEAN
    /\ acked \in [1 .. MaxJobs -> Status \cup {"none"}]
    /\ \A i \in 1 .. MaxJobs : acked[i] # "none" =>
        i \in 1 .. Len(durable.jobs) /\ After(acked[i], durable.jobs[i].status)
    /\ synced =>
        /\ Grows(durable.jobs, jobs)
        /\ \A i \in 1 .. Len(tail) : Grows(durable.jobs, tail[i].state.jobs)

\* While the process lives, every key has a job of its own, a task exists only
\* for such a job, and not before its only create request had it made.
TasksOK ==
    /\ tasks \in [Slots -> Nat]
    /\ restarts = 0 =>
        /\ \A s, t \in Slots : idem[s] = idem[t] /\ idem[s] # 0 => s = t
        /\ \A s \in Slots : tasks[s] <= 1 /\ (idem[s] = 0 => tasks[s] = 0)
        /\ \A g, h \in Handlers :
            At(g, "creating") /\ At(h, "creating") /\ call[g].job = call[h].job => g = h
        /\ \A s \in Slots, h \in Handlers :
            At(h, "creating") /\ h \notin made /\ idem[s] = call[h].job => tasks[s] = 0

MediaInv ==
    /\ State \in Snapshots
    /\ HandlersOK /\ QueueOK /\ SnapshotOK /\ TasksOK /\ RequestedIsAwaited
    /\ restarts \in 0 .. MaxRestarts

-----------------------------------------------------------------------------
(* What happens to the queue of writes. *)

\* Good copies have lists of jobs.
LEMMA CopyFacts ==
    ASSUME NEW st \in Snapshots
    PROVE  st.jobs \in Seq(Job) /\ Len(st.jobs) \in Nat /\ Len(st.jobs) <= MaxJobs
BY DEF Snapshots, States

\* What is queued is a copy, and is somebody's.
LEMMA WriteFacts ==
    ASSUME tail \in Seq(Writes), NEW i \in 1 .. Len(tail)
    PROVE  /\ tail[i].by \in Handlers /\ tail[i].state \in Snapshots
           /\ tail[i].state.jobs \in Seq(Job)
<1>1. tail[i] \in Writes
  BY ElementOfSeq
<1>2. tail[i].by \in Handlers /\ tail[i].state \in Snapshots
  BY <1>1 DEF Writes
<1>. QED
  BY <1>2, CopyFacts

\* A handler that queues a copy of what the process has come to.
LEMMA SaveAsKeeps ==
    ASSUME MediaInv, NextState \in Snapshots, Grows(jobs, jobs'), NEW h \in Handlers,
           ~At(h, "saving"), NEW c \in Calls, SaveAs(h, c),
           c.ok => c.job \in 1 .. Len(jobs') /\ After(c.shown, jobs'[c.job].status),
           UNCHANGED <<durable, synced, acked>>
    PROVE  QueueOK' /\ SnapshotOK'
<1>. DEFINE new == [by |-> h, state |-> NextState]
            n == Len(tail)
<1>1. /\ tail \in Seq(Writes) /\ new \in Writes /\ n \in Nat
      /\ pc \in [Handlers -> {"idle", "creating", "acting", "saving"}]
      /\ call \in [Handlers -> Calls]
  BY DEF MediaInv, QueueOK, Writes, HandlersOK
<1>2. new.by = h /\ new.state = NextState /\ NextState.jobs = jobs'
  BY DEF NextState
<1>3. tail' = Append(tail, new)
  BY DEF SaveAs
<1>. HIDE DEF new
<1>4. /\ tail' \in Seq(Writes) /\ Len(tail') = n + 1 /\ tail'[n + 1] = new
      /\ \A i \in 1 .. n : tail'[i] = tail[i]
  BY <1>1, <1>3, AppendProperties
<1>5. \A i \in 1 .. n : /\ tail[i].by \in Handlers /\ tail[i].state \in Snapshots
                        /\ tail[i].state.jobs \in Seq(Job)
  BY <1>1, WriteFacts
<1>6. /\ \A g \in Handlers : pc'[g] = IF g = h THEN "saving" ELSE pc[g]
      /\ \A g \in Handlers : call'[g] = IF g = h THEN c ELSE call[g]
  BY <1>1 DEF SaveAs
<1>7. \A i \in 1 .. n : tail[i].by # h
  BY DEF MediaInv, QueueOK, At
<1>8. jobs \in Seq(Job) /\ jobs' \in Seq(Job) /\ Grows(jobs', jobs')
  <2>1. jobs' \in Seq(Job)
    BY <1>2, CopyFacts
  <2>. QED
    BY <2>1, StateFacts, GrowsFacts DEF MediaInv
<1>9. \A i \in 1 .. n : Grows(tail[i].state.jobs, jobs')
  BY <1>5, <1>8, GrowsFacts DEF MediaInv, QueueOK
<1>10. QueueOK'
  <2>1. \A i \in 1 .. n + 1 : pc'[tail'[i].by] = "saving"
    BY <1>1, <1>2, <1>4, <1>5, <1>6 DEF MediaInv, QueueOK
  <2>2. \A i, j \in 1 .. n + 1 : tail'[i].by = tail'[j].by => i = j
    BY <1>1, <1>2, <1>4, <1>7 DEF MediaInv, QueueOK
  <2>3. \A i, j \in 1 .. n + 1 : i <= j => Grows(tail'[i].state.jobs, tail'[j].state.jobs)
    BY <1>1, <1>2, <1>4, <1>8, <1>9 DEF MediaInv, QueueOK
  <2>4. \A i \in 1 .. n + 1 : Grows(tail'[i].state.jobs, jobs')
    BY <1>1, <1>2, <1>4, <1>8, <1>9
  <2>5. ASSUME NEW i \in 1 .. n + 1, call'[tail'[i].by].ok
        PROVE  /\ call'[tail'[i].by].job \in 1 .. Len(tail'[i].state.jobs)
               /\ After(call'[tail'[i].by].shown, tail'[i].state.jobs[call'[tail'[i].by].job].status)
    <3>1. CASE i = n + 1
      <4>1. tail'[i].by = h /\ tail'[i].state.jobs = jobs' /\ call'[h] = c
        BY <1>2, <1>4, <1>6, <3>1
      <4>. QED
        BY <2>5, <4>1
    <3>2. CASE i # n + 1
      <4>1. i \in 1 .. n
        BY <1>1, <3>2
      <4>2. tail'[i] = tail[i] /\ call'[tail[i].by] = call[tail[i].by]
        BY <1>4, <1>5, <1>6, <1>7, <4>1
      <4>. QED
        BY <2>5, <4>1, <4>2 DEF MediaInv, QueueOK
    <3>. QED
      BY <3>1, <3>2
  <2>. QED
    BY <1>4, <2>1, <2>2, <2>3, <2>4, <2>5 DEF QueueOK
<1>11. SnapshotOK'
  <2>1. durable.jobs \in Seq(Job)
    BY CopyFacts DEF MediaInv, SnapshotOK
  <2>2. synced => Grows(durable.jobs, jobs')
    BY <1>8, <2>1, GrowsFacts DEF MediaInv, SnapshotOK
  <2>3. synced => \A i \in 1 .. n + 1 : Grows(durable.jobs, tail'[i].state.jobs)
    BY <1>1, <1>2, <1>4, <2>2 DEF MediaInv, SnapshotOK
  <2>. QED
    BY <1>4, <2>2, <2>3 DEF MediaInv, SnapshotOK
<1>. QED
  BY <1>10, <1>11

\* A handler that queues nothing, while the process goes on.
LEMMA QueueKept ==
    ASSUME MediaInv, NextState \in Snapshots, Grows(jobs, jobs'), NEW h \in Handlers,
           ~At(h, "saving"), NEW c \in Calls, NEW point \in {"idle", "creating", "acting"},
           pc' = [pc EXCEPT ![h] = point], call' = [call EXCEPT ![h] = c],
           UNCHANGED <<tail, durable, synced, acked>>
    PROVE  QueueOK' /\ SnapshotOK'
<1>1. /\ tail \in Seq(Writes) /\ Len(tail) \in Nat
      /\ pc \in [Handlers -> {"idle", "creating", "acting", "saving"}]
      /\ call \in [Handlers -> Calls]
  BY DEF MediaInv, QueueOK, HandlersOK
<1>2. \A i \in 1 .. Len(tail) : /\ tail[i].by \in Handlers /\ tail[i].state \in Snapshots
                                /\ tail[i].state.jobs \in Seq(Job)
  BY <1>1, WriteFacts
<1>3. \A i \in 1 .. Len(tail) :
        /\ pc'[tail[i].by] = "saving"
        /\ call'[tail[i].by] = call[tail[i].by]
  BY <1>1, <1>2 DEF MediaInv, QueueOK, At
<1>4. jobs \in Seq(Job) /\ jobs' \in Seq(Job) /\ durable.jobs \in Seq(Job)
  <2>1. NextState.jobs = jobs'
    BY DEF NextState
  <2>. QED
    BY <2>1, StateFacts, CopyFacts DEF MediaInv, SnapshotOK
<1>5. \A i \in 1 .. Len(tail) : Grows(tail[i].state.jobs, jobs')
  BY <1>2, <1>4, GrowsFacts DEF MediaInv, QueueOK
<1>6. synced => Grows(durable.jobs, jobs')
  BY <1>4, GrowsFacts DEF MediaInv, SnapshotOK
<1>7. QueueOK'
  BY <1>1, <1>3, <1>5 DEF MediaInv, QueueOK
<1>8. SnapshotOK'
  BY <1>6 DEF MediaInv, SnapshotOK
<1>. QED
  BY <1>7, <1>8

-----------------------------------------------------------------------------
(* The steps of a handler. *)

\* Nobody's entry is an entry.
LEMMA IdleFacts == Idle \in Calls /\ ~Idle.ok
<1>1. 0 \in 0 .. MaxJobs
  BY MediaAssumption
<1>2. "requested" \in Status
  BY DEF Status, Counted
<1>. QED
  BY <1>1, <1>2 DEF Idle, Calls

\* The handler's own entries change, the others' stay.
LEMMA HandlersKept ==
    ASSUME MediaInv, NextState \in Snapshots, Len(jobs) <= Len(jobs'), NEW h \in Handlers,
           NEW c \in Calls, NEW point \in {"idle", "creating", "acting", "saving"},
           pc' = [pc EXCEPT ![h] = point], call' = [call EXCEPT ![h] = c],
           made' \subseteq Handlers,
           point \in {"creating", "acting"} => c.job \in 1 .. Len(jobs'),
           point = "acting" => c.ok
    PROVE  HandlersOK'
<1>1. /\ pc \in [Handlers -> {"idle", "creating", "acting", "saving"}]
      /\ call \in [Handlers -> Calls]
  BY DEF MediaInv, HandlersOK
<1>2. /\ \A g \in Handlers : pc'[g] = IF g = h THEN point ELSE pc[g]
      /\ \A g \in Handlers : call'[g] = IF g = h THEN c ELSE call[g]
      /\ pc' \in [Handlers -> {"idle", "creating", "acting", "saving"}]
      /\ call' \in [Handlers -> Calls]
  BY <1>1
<1>3. Len(jobs) \in Nat /\ Len(jobs') \in Nat
  <2>1. NextState.jobs = jobs'
    BY DEF NextState
  <2>. QED
    BY <2>1, CopyFacts, StateFacts DEF MediaInv
<1>4. \A x \in 1 .. Len(jobs) : x \in 1 .. Len(jobs')
  BY <1>3
<1>5. ASSUME NEW g \in Handlers
      PROVE  /\ pc'[g] \in {"creating", "acting"} => call'[g].job \in 1 .. Len(jobs')
             /\ pc'[g] = "acting" => call'[g].ok
  <2>1. CASE g = h
    BY <1>2, <2>1
  <2>2. CASE g # h
    <3>1. pc'[g] = pc[g] /\ call'[g] = call[g]
      BY <1>2, <2>2
    <3>. QED
      BY <1>4, <3>1 DEF MediaInv, HandlersOK
  <2>. QED
    BY <2>1, <2>2
<1>. QED
  BY <1>2, <1>5 DEF HandlersOK

\* A step that adds no job, after which its handler does not await the creation
\* of one, keeps the invariant.
LEMMA StepKeeps ==
    ASSUME MediaInv, NextState \in Snapshots, Grows(jobs, jobs'), Len(jobs') = Len(jobs),
           NEW h \in Handlers, ~At(h, "saving"), NEW c \in Calls,
           \/ SaveAs(h, c) /\ (c.ok => c.job \in 1 .. Len(jobs') /\ After(c.shown, jobs'[c.job].status))
           \/ Answer(h)
           \/ /\ Await(h, "acting", c)
              /\ c.job \in 1 .. Len(jobs') /\ c.ok,
           At(h, "creating") => jobs'[call[h].job].status # "requested",
           made' \in {made, made \ {h}},
           UNCHANGED <<idem, tasks, durable, synced, acked, restarts>>
    PROVE  MediaInv'
<1>0. Idle \in Calls /\ ~Idle.ok
  BY IdleFacts
<1>1. PICK d \in Calls, point \in {"idle", "acting", "saving"} :
        /\ pc' = [pc EXCEPT ![h] = point] /\ call' = [call EXCEPT ![h] = d]
        /\ point = "acting" => d.job \in 1 .. Len(jobs') /\ d.ok
        /\ QueueOK' /\ SnapshotOK'
  <2>1. CASE SaveAs(h, c) /\ (c.ok => c.job \in 1 .. Len(jobs') /\ After(c.shown, jobs'[c.job].status))
    <3>1. QueueOK' /\ SnapshotOK'
      BY <2>1, SaveAsKeeps
    <3>. QED
      BY <2>1, <3>1, Zenon DEF SaveAs
  <2>2. CASE Answer(h)
    <3>1. pc' = [pc EXCEPT ![h] = "idle"] /\ call' = [call EXCEPT ![h] = Idle] /\ UNCHANGED tail
      BY <2>2 DEF Answer
    <3>2. QueueOK' /\ SnapshotOK'
      BY <1>0, <3>1, QueueKept
    <3>. QED
      BY <1>0, <3>1, <3>2, Zenon
  <2>3. CASE Await(h, "acting", c) /\ c.job \in 1 .. Len(jobs') /\ c.ok
    <3>1. pc' = [pc EXCEPT ![h] = "acting"] /\ call' = [call EXCEPT ![h] = c] /\ UNCHANGED tail
      BY <2>3 DEF Await
    <3>2. QueueOK' /\ SnapshotOK'
      BY <3>1, QueueKept
    <3>. QED
      BY <2>3, <3>1, <3>2, Zenon
  <2>. QED
    BY <2>1, <2>2, <2>3
<1>2. made' \subseteq Handlers /\ made \ {h} \subseteq made' /\ made' \subseteq made
  BY DEF MediaInv, HandlersOK
<1>3. Len(jobs) \in Nat /\ JobIds = 1 .. Len(jobs) /\ JobIds' = 1 .. Len(jobs)
  <2>1. NextState.jobs = jobs'
    BY DEF NextState
  <2>2. jobs' \in Seq(Job)
    BY <2>1, CopyFacts
  <2>. QED
    BY <2>2, StateFacts DEF MediaInv, JobIds
<1>4. /\ HandlersOK'
      /\ \A g \in Handlers : pc'[g] = IF g = h THEN point ELSE pc[g]
      /\ \A g \in Handlers : call'[g] = IF g = h THEN d ELSE call[g]
  <2>1. point \in {"idle", "creating", "acting", "saving"} /\ Len(jobs) <= Len(jobs')
        /\ (point \in {"creating", "acting"} => d.job \in 1 .. Len(jobs'))
        /\ (point = "acting" => d.ok)
    BY <1>1, <1>3
  <2>2. pc' = [pc EXCEPT ![h] = point] /\ call' = [call EXCEPT ![h] = d] /\ made' \subseteq Handlers
    BY <1>1, <1>2
  <2>3. HandlersOK'
    BY <2>1, <2>2, HandlersKept, Zenon
  <2>. QED
    BY <2>2, <2>3 DEF MediaInv, HandlersOK
<1>5. \A g \in Handlers : At(g, "creating")' => At(g, "creating") /\ g # h /\ call'[g] = call[g]
  BY <1>1, <1>4 DEF At
<1>6. TasksOK'
  BY <1>2, <1>5 DEF MediaInv, TasksOK
<1>7. RequestedIsAwaited'
  <2>. SUFFICES ASSUME restarts = 0, HasProvider, NEW r \in 1 .. Len(jobs), jobs'[r].status = "requested"
                PROVE  \E g \in Handlers : At(g, "creating")' /\ call'[g].job = r
    BY <1>3 DEF RequestedIsAwaited
  <2>1. jobs[r].status = "requested"
    <3>1. After(jobs[r].status, jobs'[r].status)
      BY DEF Grows
    <3>2. jobs[r].status \in Status
      BY StateFacts, JobTyped DEF MediaInv
    <3>. QED
      BY <3>1, <3>2, AfterFacts DEF Status, Counted
  <2>2. PICK g \in Handlers : At(g, "creating") /\ call[g].job = r
    BY <1>3, <2>1 DEF MediaInv, RequestedIsAwaited
  <2>3. g # h
    BY <2>2
  <2>. QED
    BY <1>4, <2>2, <2>3 DEF At
<1>8. State' \in Snapshots
  BY DEF State, NextState
<1>. QED
  BY <1>1, <1>4, <1>6, <1>7, <1>8 DEF MediaInv

\* What a handler works on and answers is an entry.
LEMMA MutationFacts ==
    ASSUME NEW r \in 1 .. MaxJobs, NEW shown \in Status, NEW ok \in BOOLEAN,
           NEW op \in SUBSET (Operations \X Keys)
    PROVE  /\ Mutation(op, r, shown, ok) \in Calls
           /\ Mutation(op, r, shown, ok).op = op
           /\ Mutation(op, r, shown, ok).job = r
           /\ Mutation(op, r, shown, ok).shown = shown
           /\ Mutation(op, r, shown, ok).ok = ok
<1>1. r \in 0 .. MaxJobs
  BY MediaAssumption
<1>2. Mutation(op, r, shown, ok) \in Calls
  BY <1>1 DEF Mutation, Calls
<1>. QED
  BY <1>2 DEF Mutation

\* What the invariant says of the jobs and of who works on them.
LEMMA InvFacts ==
    ASSUME MediaInv
    PROVE  /\ JobIds = 1 .. Len(jobs) /\ Len(jobs) \in Nat
           /\ \A r \in JobIds : r \in 1 .. MaxJobs /\ jobs[r].status \in Status
           /\ \A h \in Handlers : At(h, "creating") \/ At(h, "acting") => call[h].job \in JobIds
           /\ \A h \in Handlers : At(h, "acting") => call[h].ok
<1>1. JobIds = 1 .. Len(jobs) /\ Len(jobs) \in Nat /\ Len(jobs) <= MaxJobs /\ jobs \in Seq(Job)
  BY StateFacts DEF MediaInv
<1>2. \A r \in JobIds : r \in 1 .. MaxJobs /\ jobs[r].status \in Status
  BY <1>1, JobTyped, MediaAssumption
<1>. QED
  BY <1>1, <1>2 DEF MediaInv, HandlersOK, At

\* A step that leaves the jobs alone leaves them good.
LEMMA JobsStay ==
    ASSUME MediaInv, UNCHANGED mediaVars
    PROVE  NextState \in Snapshots /\ Grows(jobs, jobs') /\ Len(jobs') = Len(jobs)
<1>1. NextState = State /\ jobs' = jobs
  BY DEF NextState, State, mediaVars
<1>2. Grows(jobs, jobs)
  BY StateFacts, GrowsFacts DEF MediaInv
<1>. QED
  BY <1>1, <1>2 DEF MediaInv

\* A repeated create request answers with the job of the key.
LEMMA RepeatKeeps ==
    ASSUME MediaInv, NEW h \in Handlers, NEW k \in Kinds, NEW key \in Keys, NEW body \in Bodies,
           Repeat(h, k, key, body)
    PROVE  MediaInv' /\ Grows(jobs, jobs')
<1>. DEFINE r == idem[<<k, key>>]
            c == Mutation({}, r, "requested", TRUE)
<1>1. /\ At(h, "idle") /\ IsRepeat(k, key, body) /\ SaveAs(h, c)
      /\ UNCHANGED mediaVars
      /\ UNCHANGED <<made, tasks, durable, synced, acked, restarts>>
  BY DEF Repeat, Elsewhere
<1>2. NextState \in Snapshots /\ Grows(jobs, jobs') /\ Len(jobs') = Len(jobs) /\ jobs' = jobs
  BY <1>1, JobsStay DEF mediaVars
<1>3. r \in JobIds
  <2>1. <<k, key>> \in Slots
    BY DEF Slots
  <2>2. r \in 0 .. Len(jobs) /\ r # 0
    BY <1>1, <2>1, StateFacts DEF MediaInv, IsRepeat
  <2>. QED
    BY <2>2, InvFacts
<1>4. "requested" \in Status
  BY DEF Status, Counted
<1>. HIDE DEF r
<1>5. c \in Calls /\ c.job = r /\ c.shown = "requested"
  <2>1. r \in 1 .. MaxJobs
    BY <1>3, InvFacts
  <2>2. c \in Calls
    BY <1>4, <2>1, MutationFacts
  <2>. QED
    BY <2>2 DEF Mutation
<1>. HIDE DEF c
<1>6. c.job \in 1 .. Len(jobs') /\ After(c.shown, jobs'[c.job].status)
  BY <1>2, <1>3, <1>5, InvFacts, AfterFacts
<1>7. ~At(h, "saving") /\ ~At(h, "creating") /\ made' \in {made, made \ {h}}
      /\ UNCHANGED <<idem, tasks, durable, synced, acked, restarts>>
  BY <1>1 DEF At, mediaVars
<1>8. MediaInv'
  BY <1>1, <1>2, <1>5, <1>6, <1>7, StepKeeps
<1>. QED
  BY <1>2, <1>8

\* A callback moves a job to a status that may follow.
LEMMA CallbackKeeps ==
    ASSUME MediaInv, NEW h \in Handlers, NEW r \in JobIds, NEW status \in Status,
           NEW withId \in BOOLEAN, NEW withObject \in BOOLEAN,
           Callback(h, r, status, withId, withObject)
    PROVE  MediaInv' /\ Grows(jobs, jobs')
<1>. DEFINE c == Mutation({}, r, status, TRUE)
<1>1. /\ At(h, "idle") /\ SaveAs(h, c)
      /\ ApplyProviderStatus(r, status, withId, withObject)
      /\ UNCHANGED <<made, tasks, durable, synced, acked, restarts>>
  BY DEF Callback, Elsewhere
<1>2. NextState \in Snapshots /\ Grows(jobs, jobs') /\ Len(jobs') = Len(jobs)
      /\ jobs'[r].status = status
  BY <1>1, ApplyGood DEF MediaInv
<1>3. c \in Calls /\ c.job = r /\ c.shown = status
  <2>1. r \in 1 .. MaxJobs
    BY InvFacts
  <2>2. c \in Calls
    BY <2>1, MutationFacts
  <2>. QED
    BY <2>2 DEF Mutation
<1>4. c.job \in 1 .. Len(jobs') /\ After(c.shown, jobs'[c.job].status)
  BY <1>2, <1>3, InvFacts, AfterFacts
<1>. HIDE DEF c
<1>5. ~At(h, "saving") /\ ~At(h, "creating") /\ made' \in {made, made \ {h}}
      /\ UNCHANGED <<idem, tasks, durable, synced, acked, restarts>>
  BY <1>1 DEF At, ApplyProviderStatus
<1>6. MediaInv'
  BY <1>1, <1>2, <1>3, <1>4, <1>5, StepKeeps
<1>. QED
  BY <1>2, <1>6

\* The answer of the provider activates the job that waits for it.
LEMMA AnsweredKeeps ==
    ASSUME MediaInv, NEW h \in Handlers, NEW object \in BOOLEAN, NEW identity \in BOOLEAN,
           CreateAnswered(h, object, identity)
    PROVE  MediaInv' /\ Grows(jobs, jobs')
<1>. DEFINE r == call[h].job
            c == Mutation({}, r, "active", TRUE)
<1>1. /\ At(h, "creating") /\ Activate(r, object, identity) /\ SaveAs(h, c)
      /\ made' = made \ {h}
      /\ UNCHANGED <<tasks, durable, synced, acked, restarts>>
  BY DEF CreateAnswered, Elsewhere
<1>2. r \in JobIds
  BY <1>1, InvFacts
<1>3. NextState \in Snapshots /\ Grows(jobs, jobs') /\ Len(jobs') = Len(jobs)
      /\ jobs'[r].status = "active"
  BY <1>1, <1>2, ActivateGood DEF MediaInv
<1>4. "active" \in Status
  BY DEF Status, Counted
<1>5. c \in Calls /\ c.job = r /\ c.shown = "active"
  <2>1. r \in 1 .. MaxJobs
    BY <1>2, InvFacts
  <2>2. c \in Calls
    BY <1>4, <2>1, MutationFacts
  <2>. QED
    BY <2>2 DEF Mutation
<1>6. c.job \in 1 .. Len(jobs') /\ After(c.shown, jobs'[c.job].status)
  BY <1>2, <1>3, <1>4, <1>5, InvFacts, AfterFacts
<1>. HIDE DEF c
<1>7. ~At(h, "saving") /\ jobs'[call[h].job].status # "requested" /\ made' \in {made, made \ {h}}
      /\ UNCHANGED <<idem, tasks, durable, synced, acked, restarts>>
  BY <1>1, <1>3 DEF At, Activate
<1>8. MediaInv'
  BY <1>1, <1>3, <1>5, <1>6, <1>7, StepKeeps
<1>. QED
  BY <1>3, <1>8

\* The catch fails the job, unless it has ended.
LEMMA RefusedKeeps ==
    ASSUME MediaInv, NEW h \in Handlers, NEW identity \in BOOLEAN, CreateRefused(h, identity)
    PROVE  MediaInv' /\ Grows(jobs, jobs')
<1>. DEFINE r == call[h].job
            c == Mutation({}, r, "failed", FALSE)
<1>1. /\ At(h, "creating") /\ Fail(r, identity) /\ made' = made \ {h}
      /\ SaveAs(h, c) \/ Answer(h)
      /\ UNCHANGED <<tasks, durable, synced, acked, restarts>>
  BY DEF CreateRefused, Elsewhere
<1>2. r \in JobIds
  BY <1>1, InvFacts
<1>3. NextState \in Snapshots /\ Grows(jobs, jobs') /\ Len(jobs') = Len(jobs)
      /\ jobs'[r].status # "requested"
  BY <1>1, <1>2, FailGood DEF MediaInv
<1>4. "failed" \in Status
  BY DEF Status, Terminal
<1>5. c \in Calls /\ ~c.ok
  BY <1>2, <1>4, InvFacts, MutationFacts
<1>. HIDE DEF c
<1>6. ~At(h, "saving") /\ jobs'[call[h].job].status # "requested" /\ made' \in {made, made \ {h}}
      /\ UNCHANGED <<idem, tasks, durable, synced, acked, restarts>>
  BY <1>1, <1>3 DEF At, Fail
<1>7. MediaInv'
  BY <1>1, <1>3, <1>5, <1>6, StepKeeps
<1>. QED
  BY <1>3, <1>7

\* An operation on a call begins to await the provider.
LEMMA StartKeeps ==
    ASSUME MediaInv, NEW h \in Handlers, NEW r \in JobIds, NEW op \in Operations, NEW key \in Keys,
           StartOperation(h, r, op, key)
    PROVE  MediaInv' /\ Grows(jobs, jobs')
<1>. DEFINE c == Mutation({<<op, key>>}, r, jobs[r].status, TRUE)
<1>1. /\ At(h, "idle") /\ Await(h, "acting", c)
      /\ UNCHANGED mediaVars
      /\ UNCHANGED <<made, tasks, durable, synced, acked, restarts>>
  BY DEF StartOperation, Elsewhere
<1>2. NextState \in Snapshots /\ Grows(jobs, jobs') /\ Len(jobs') = Len(jobs)
  BY <1>1, JobsStay
<1>3. c \in Calls /\ c.job = r /\ c.ok
  <2>1. r \in 1 .. MaxJobs /\ jobs[r].status \in Status
    BY InvFacts
  <2>2. {<<op, key>>} \in SUBSET (Operations \X Keys)
    OBVIOUS
  <2>3. c \in Calls
    BY <2>1, <2>2, MutationFacts
  <2>. QED
    BY <2>3 DEF Mutation
<1>4. c.job \in 1 .. Len(jobs')
  BY <1>2, <1>3, InvFacts
<1>. HIDE DEF c
<1>5. ~At(h, "saving") /\ ~At(h, "creating") /\ made' \in {made, made \ {h}}
      /\ UNCHANGED <<idem, tasks, durable, synced, acked, restarts>>
  BY <1>1 DEF At, mediaVars
<1>6. MediaInv'
  BY <1>1, <1>2, <1>3, <1>4, <1>5, StepKeeps
<1>. QED
  BY <1>2, <1>6

\* A repeated operation is answered and changes nothing.
LEMMA RepeatOperationKeeps ==
    ASSUME MediaInv, NEW h \in Handlers, NEW r \in JobIds, NEW op \in Operations, NEW key \in Keys,
           RepeatOperation(h, r, op, key)
    PROVE  MediaInv' /\ Grows(jobs, jobs')
<1>1. UNCHANGED <<mediaVars, serverVars, durable, synced, tasks, acked, restarts>>
      /\ UNCHANGED mediaVars
  BY DEF RepeatOperation
<1>2. Grows(jobs, jobs')
  BY <1>1, JobsStay
<1>. QED
  BY <1>1, <1>2 DEF mediaVars, serverVars, MediaInv, HandlersOK, QueueOK, SnapshotOK, TasksOK,
                    RequestedIsAwaited, State, At, JobIds

\* The provider has carried the operation out.
LEMMA DoneKeeps ==
    ASSUME MediaInv, NEW h \in Handlers, OperationDone(h)
    PROVE  MediaInv' /\ Grows(jobs, jobs')
<1>. DEFINE r == call[h].job
            c == [call[h] EXCEPT !.shown = jobs'[r].status]
<1>1. PICK key \in Keys : SaveTransfer(r, key) \/ SaveHangup(r, key)
  BY DEF OperationDone
<1>2. /\ At(h, "acting") /\ SaveAs(h, c)
      /\ UNCHANGED <<made, tasks, durable, synced, acked, restarts>>
  BY DEF OperationDone, Elsewhere
<1>3. r \in JobIds /\ call[h].ok /\ call[h] \in Calls
  BY <1>2, InvFacts DEF MediaInv, HandlersOK
<1>4. NextState \in Snapshots /\ Grows(jobs, jobs') /\ Len(jobs') = Len(jobs)
  BY <1>1, <1>3, OperationGood DEF MediaInv
<1>5. r \in 1 .. Len(jobs') /\ jobs'[r].status \in Status
  <2>1. NextState.jobs = jobs'
    BY DEF NextState
  <2>2. jobs' \in Seq(Job)
    BY <1>4, <2>1, CopyFacts
  <2>3. r \in 1 .. Len(jobs')
    BY <1>3, <1>4, InvFacts
  <2>. QED
    BY <2>2, <2>3, JobTyped
<1>6. c \in Calls /\ c.job = r /\ c.shown = jobs'[r].status /\ c.ok
  BY <1>3, <1>5 DEF Calls
<1>7. c.job \in 1 .. Len(jobs') /\ After(c.shown, jobs'[c.job].status)
  BY <1>5, <1>6, AfterFacts
<1>. HIDE DEF c
<1>8. ~At(h, "saving") /\ ~At(h, "creating") /\ made' \in {made, made \ {h}}
      /\ UNCHANGED <<idem, tasks, durable, synced, acked, restarts>>
  BY <1>1, <1>2 DEF At, SaveTransfer, SaveHangup
<1>9. MediaInv'
  BY <1>2, <1>4, <1>6, <1>7, <1>8, StepKeeps
<1>. QED
  BY <1>4, <1>9

\* The operation did not take place, or the call has ended otherwise.
LEMMA OperationRefusedKeeps ==
    ASSUME MediaInv, NEW h \in Handlers, OperationRefused(h)
    PROVE  MediaInv' /\ Grows(jobs, jobs')
<1>1. /\ At(h, "acting") /\ Answer(h)
      /\ UNCHANGED mediaVars
      /\ UNCHANGED <<made, tasks, durable, synced, acked, restarts>>
  BY DEF OperationRefused, Elsewhere
<1>2. NextState \in Snapshots /\ Grows(jobs, jobs') /\ Len(jobs') = Len(jobs)
  BY <1>1, JobsStay
<1>3. ~At(h, "saving") /\ ~At(h, "creating") /\ made' \in {made, made \ {h}}
      /\ UNCHANGED <<idem, tasks, durable, synced, acked, restarts>>
  BY <1>1 DEF At, mediaVars
<1>4. MediaInv'
  BY <1>1, <1>2, <1>3, IdleFacts, StepKeeps
<1>. QED
  BY <1>2, <1>4

\* The provider has made the task of a job; nobody else awaits the same.
LEMMA ProviderKeeps ==
    ASSUME MediaInv, NEW h \in Handlers, ProviderCreates(h)
    PROVE  MediaInv' /\ Grows(jobs, jobs')
<1>1. /\ At(h, "creating") /\ h \notin made /\ made' = made \cup {h}
      /\ tasks' = [s \in Slots |-> IF idem[s] = call[h].job THEN tasks[s] + 1 ELSE tasks[s]]
      /\ UNCHANGED mediaVars
      /\ UNCHANGED <<pc, call, tail, durable, synced, acked, restarts>>
  BY DEF ProviderCreates, Elsewhere, Slots
<1>2. NextState \in Snapshots /\ Grows(jobs, jobs')
  BY <1>1, JobsStay
<1>3. call[h].job \in JobIds /\ call[h].job # 0
  BY <1>1, InvFacts
<1>4. TasksOK'
  <2>1. tasks \in [Slots -> Nat] /\ tasks' \in [Slots -> Nat]
    BY <1>1 DEF MediaInv, TasksOK
  <2>. SUFFICES ASSUME restarts = 0
                PROVE  /\ \A s \in Slots : tasks'[s] <= 1 /\ (idem[s] = 0 => tasks'[s] = 0)
                       /\ \A s \in Slots, g \in Handlers :
                            At(g, "creating") /\ g \notin made' /\ idem[s] = call[g].job => tasks'[s] = 0
    BY <1>1, <2>1 DEF MediaInv, TasksOK, mediaVars, At
  <2>2. \A s \in Slots : idem[s] = call[h].job => tasks[s] = 0
    BY <1>1 DEF MediaInv, TasksOK
  <2>3. \A s \in Slots : tasks'[s] <= 1 /\ (idem[s] = 0 => tasks'[s] = 0)
    BY <1>1, <1>3, <2>2 DEF MediaInv, TasksOK
  <2>4. ASSUME NEW s \in Slots, NEW g \in Handlers, At(g, "creating"), g \notin made', idem[s] = call[g].job
        PROVE  tasks'[s] = 0
    <3>1. g # h /\ g \notin made
      BY <1>1, <2>4
    <3>2. call[g].job # call[h].job
      BY <1>1, <2>4, <3>1 DEF MediaInv, TasksOK
    <3>3. tasks[s] = 0
      BY <2>4, <3>1 DEF MediaInv, TasksOK
    <3>. QED
      BY <1>1, <2>4, <3>2, <3>3
  <2>. QED
    BY <2>3, <2>4
<1>5. HandlersOK'
  BY <1>1 DEF MediaInv, HandlersOK, mediaVars
<1>6. QueueOK' /\ SnapshotOK'
  BY <1>1 DEF MediaInv, QueueOK, SnapshotOK, mediaVars
<1>7. RequestedIsAwaited'
  BY <1>1 DEF MediaInv, RequestedIsAwaited, mediaVars, At, JobIds
<1>8. State' \in Snapshots
  BY <1>2 DEF State, NextState
<1>. QED
  BY <1>1, <1>2, <1>4, <1>5, <1>6, <1>7, <1>8 DEF MediaInv

\* A new job has its own number, and its request is the one to await it.
LEMMA CreateKeeps ==
    ASSUME MediaInv, NEW h \in Handlers, NEW k \in Kinds, NEW key \in Keys, NEW body \in Bodies,
           NEW identity \in BOOLEAN, Create(h, k, key, body, identity)
    PROVE  MediaInv' /\ Grows(jobs, jobs')
<1>. DEFINE n == Len(jobs)
            s0 == <<k, key>>
            c == Mutation({}, n + 1, "requested", TRUE)
<1>1. /\ At(h, "idle") /\ CreateJob(k, key, body, identity)
      /\ IF HasProvider THEN Await(h, "creating", c) ELSE SaveAs(h, c)
      /\ UNCHANGED <<made, tasks, durable, synced, acked, restarts>>
  BY DEF Create, Elsewhere
<1>2. /\ NextState \in Snapshots /\ Grows(jobs, jobs') /\ Len(jobs') = n + 1
      /\ jobs'[n + 1].status = "requested"
      /\ n + 1 \in 1 .. MaxJobs
      /\ \A i \in 1 .. n : jobs'[i] = jobs[i]
      /\ s0 \in Slots /\ idem[s0] = 0
      /\ idem' = [idem EXCEPT ![s0] = n + 1]
  BY <1>1, CreateGood DEF MediaInv
<1>3. n \in Nat /\ JobIds = 1 .. n /\ JobIds' = 1 .. n + 1 /\ n <= Len(jobs')
  <2>1. NextState.jobs = jobs'
    BY DEF NextState
  <2>2. jobs' \in Seq(Job)
    BY <1>2, <2>1, CopyFacts
  <2>. QED
    BY <1>2, <2>2, InvFacts DEF JobIds
<1>4. "requested" \in Status
  BY DEF Status, Counted
<1>5. c \in Calls
  BY <1>2, <1>4, MutationFacts
<1>6. c.job = n + 1 /\ c.shown = "requested"
  BY DEF Mutation
<1>7. c.job \in 1 .. Len(jobs') /\ After(c.shown, jobs'[c.job].status)
  <2>1. n + 1 \in 1 .. Len(jobs')
    BY <1>2, <1>3
  <2>2. After("requested", "requested")
    BY <1>4, AfterFacts
  <2>. HIDE DEF c
  <2>. QED
    BY <1>2, <1>6, <2>1, <2>2
<1>. HIDE DEF c
<1>8. PICK point \in {"creating", "saving"} :
        /\ pc' = [pc EXCEPT ![h] = point] /\ call' = [call EXCEPT ![h] = c]
        /\ HasProvider => point = "creating"
        /\ QueueOK' /\ SnapshotOK'
  <2>0. ~At(h, "saving")
    BY <1>1 DEF At
  <2>1. CASE HasProvider
    <3>1. pc' = [pc EXCEPT ![h] = "creating"] /\ call' = [call EXCEPT ![h] = c] /\ UNCHANGED tail
      BY <1>1, <2>1 DEF Await
    <3>2. QueueOK' /\ SnapshotOK'
      BY <1>1, <1>2, <1>5, <2>0, <3>1, QueueKept
    <3>. QED
      BY <3>1, <3>2, Zenon
  <2>2. CASE ~HasProvider
    <3>1. SaveAs(h, c)
      BY <1>1, <2>2
    <3>2. QueueOK' /\ SnapshotOK'
      BY <1>1, <1>2, <1>5, <1>7, <2>0, <3>1, SaveAsKeeps
    <3>. QED
      BY <2>2, <3>1, <3>2, Zenon DEF SaveAs
  <2>. QED
    BY <2>1, <2>2
<1>9. HandlersOK'
  <2>1. point \in {"idle", "creating", "acting", "saving"} /\ point # "acting" /\ made' \subseteq Handlers
    BY <1>1 DEF MediaInv, HandlersOK
  <2>2. NextState \in Snapshots /\ Len(jobs) <= Len(jobs')
    BY <1>2, <1>3
  <2>. QED
    BY <1>5, <1>7, <1>8, <2>1, <2>2, HandlersKept, Zenon
<1>10. /\ \A g \in Handlers : pc'[g] = IF g = h THEN point ELSE pc[g]
       /\ \A g \in Handlers : call'[g] = IF g = h THEN c ELSE call[g]
  BY <1>8 DEF MediaInv, HandlersOK
<1>11. TasksOK'
  <2>1. tasks \in [Slots -> Nat] /\ tasks' \in [Slots -> Nat]
    BY <1>1 DEF MediaInv, TasksOK
  <2>2. /\ \A s \in Slots : idem[s] \in 0 .. n
        /\ \A s \in Slots : idem'[s] = IF s = s0 THEN n + 1 ELSE idem[s]
    BY <1>2, StateFacts DEF MediaInv
  <2>3. \A g \in Handlers : At(g, "creating") => call[g].job \in 1 .. n
    BY <1>3, InvFacts
  <2>4. \A g \in Handlers : At(g, "creating")' =>
            \/ g = h /\ call'[g].job = n + 1
            \/ g # h /\ At(g, "creating") /\ call'[g].job = call[g].job
    BY <1>6, <1>10 DEF At
  <2>. SUFFICES ASSUME restarts = 0
                PROVE  /\ \A s, t \in Slots : idem'[s] = idem'[t] /\ idem'[s] # 0 => s = t
                       /\ \A s \in Slots : tasks[s] <= 1 /\ (idem'[s] = 0 => tasks[s] = 0)
                       /\ \A g, f \in Handlers : At(g, "creating")' /\ At(f, "creating")'
                                                 /\ call'[g].job = call'[f].job => g = f
                       /\ \A s \in Slots, g \in Handlers :
                            At(g, "creating")' /\ g \notin made /\ idem'[s] = call'[g].job => tasks[s] = 0
    BY <1>1, <2>1 DEF TasksOK
  <2>5. \A s, t \in Slots : idem'[s] = idem'[t] /\ idem'[s] # 0 => s = t
    BY <1>3, <2>2 DEF MediaInv, TasksOK
  <2>6. \A s \in Slots : tasks[s] <= 1 /\ (idem'[s] = 0 => tasks[s] = 0)
    BY <1>3, <2>2 DEF MediaInv, TasksOK
  <2>7. ASSUME NEW g \in Handlers, NEW f \in Handlers, At(g, "creating")', At(f, "creating")',
               call'[g].job = call'[f].job
        PROVE  g = f
    BY <1>3, <2>3, <2>4, <2>7 DEF MediaInv, TasksOK
  <2>8. ASSUME NEW s \in Slots, NEW g \in Handlers, At(g, "creating")', g \notin made,
               idem'[s] = call'[g].job
        PROVE  tasks[s] = 0
    <3>1. CASE g = h
      <4>1. s = s0
        BY <1>3, <2>2, <2>4, <2>8, <3>1
      <4>. QED
        BY <1>2, <4>1 DEF MediaInv, TasksOK
    <3>2. CASE g # h
      <4>1. At(g, "creating") /\ idem'[s] = call[g].job /\ call[g].job \in 1 .. n
        BY <2>3, <2>4, <2>8, <3>2
      <4>2. idem[s] = call[g].job
        BY <1>3, <2>2, <4>1
      <4>. QED
        BY <2>8, <4>1, <4>2 DEF MediaInv, TasksOK
    <3>. QED
      BY <3>1, <3>2
  <2>. QED
    BY <2>5, <2>6, <2>7, <2>8
<1>12. RequestedIsAwaited'
  <2>. SUFFICES ASSUME restarts = 0, HasProvider, NEW r \in 1 .. n + 1, jobs'[r].status = "requested"
                PROVE  \E g \in Handlers : At(g, "creating")' /\ call'[g].job = r
    BY <1>1, <1>3 DEF RequestedIsAwaited
  <2>1. CASE r = n + 1
    BY <1>6, <1>8, <1>10, <2>1 DEF At
  <2>2. CASE r # n + 1
    <3>1. r \in JobIds /\ jobs[r].status = "requested"
      BY <1>2, <1>3, <2>2
    <3>2. PICK g \in Handlers : At(g, "creating") /\ call[g].job = r
      BY <3>1 DEF MediaInv, RequestedIsAwaited
    <3>3. g # h
      BY <1>1, <3>2 DEF At
    <3>. QED
      BY <1>10, <3>2, <3>3 DEF At
  <2>. QED
    BY <2>1, <2>2
<1>13. State' \in Snapshots
  BY <1>2 DEF State, NextState
<1>. QED
  BY <1>1, <1>2, <1>8, <1>9, <1>11, <1>12, <1>13 DEF MediaInv

-----------------------------------------------------------------------------
(* The steps of the queue of writes, and the restart. *)

\* Without its head, a queue has what followed it.
LEMMA TailFacts ==
    ASSUME MediaInv, tail # << >>, tail' = Tail(tail)
    PROVE  /\ tail' \in Seq(Writes) /\ Len(tail) \in Nat \ {0} /\ Len(tail') = Len(tail) - 1
           /\ \A i \in 1 .. Len(tail') : i + 1 \in 1 .. Len(tail) /\ tail'[i] = tail[i + 1]
           /\ tail[1].by \in Handlers /\ tail[1].state \in Snapshots /\ 1 \in 1 .. Len(tail)
           /\ \A i \in 1 .. Len(tail') : tail'[i].by \in Handlers /\ tail'[i].by # tail[1].by
           /\ \A i \in 1 .. Len(tail') : tail'[i].state.jobs \in Seq(Job)
<1>1. tail \in Seq(Writes)
  BY DEF MediaInv, QueueOK
<1>2. Len(tail) \in Nat \ {0}
  BY <1>1, EmptySeq
<1>3. /\ tail' \in Seq(Writes) /\ Len(tail') = Len(tail) - 1
      /\ \A i \in 1 .. Len(tail') : tail'[i] = tail[i + 1]
  BY <1>1, HeadTailProperties
<1>4. /\ 1 \in 1 .. Len(tail)
      /\ \A i \in 1 .. Len(tail') : i + 1 \in 1 .. Len(tail) /\ i + 1 # 1
  BY <1>2, <1>3
<1>5. \A i \in 1 .. Len(tail) : tail[i].by \in Handlers /\ tail[i].state \in Snapshots
                                /\ tail[i].state.jobs \in Seq(Job)
  BY <1>1, WriteFacts
<1>6. \A i \in 1 .. Len(tail') : tail'[i].by \in Handlers /\ tail'[i].by # tail[1].by
                                 /\ tail'[i].state.jobs \in Seq(Job)
  BY <1>3, <1>4, <1>5 DEF MediaInv, QueueOK
<1>. QED
  BY <1>2, <1>3, <1>4, <1>5, <1>6

\* When a write has ended, its handler is idle, and the others wait as before.
LEMMA EndWriteKeeps ==
    ASSUME MediaInv, tail # << >>, EndWrite
    PROVE  /\ State' \in Snapshots /\ Grows(jobs, jobs') /\ HandlersOK' /\ QueueOK' /\ TasksOK'
           /\ RequestedIsAwaited' /\ restarts' \in 0 .. MaxRestarts
<1>. DEFINE h == tail[1].by
<1>1. /\ tail' = Tail(tail)
      /\ pc' = [pc EXCEPT ![h] = "idle"] /\ call' = [call EXCEPT ![h] = Idle]
      /\ UNCHANGED mediaVars /\ UNCHANGED <<made, tasks, restarts>>
  BY DEF EndWrite
<1>2. /\ tail' \in Seq(Writes) /\ Len(tail) \in Nat \ {0} /\ Len(tail') = Len(tail) - 1
      /\ \A i \in 1 .. Len(tail') : i + 1 \in 1 .. Len(tail) /\ tail'[i] = tail[i + 1]
      /\ h \in Handlers /\ 1 \in 1 .. Len(tail)
      /\ \A i \in 1 .. Len(tail') : tail'[i].by \in Handlers /\ tail'[i].by # h
  BY <1>1, TailFacts
<1>3. pc[h] = "saving"
  BY <1>2 DEF MediaInv, QueueOK
<1>. HIDE DEF h
<1>4. NextState \in Snapshots /\ Grows(jobs, jobs') /\ Len(jobs') = Len(jobs)
  BY <1>1, JobsStay
<1>5. HandlersOK'
  <2>1. made' \subseteq Handlers /\ Len(jobs) <= Len(jobs')
    BY <1>1, <1>4, InvFacts DEF MediaInv, HandlersOK
  <2>2. "idle" \in {"idle", "creating", "acting", "saving"} /\ Idle \in Calls
    BY IdleFacts
  <2>. QED
    BY <1>1, <1>2, <1>4, <2>1, <2>2, HandlersKept
<1>6. /\ \A g \in Handlers : pc'[g] = IF g = h THEN "idle" ELSE pc[g]
      /\ \A g \in Handlers : call'[g] = IF g = h THEN Idle ELSE call[g]
  BY <1>1 DEF MediaInv, HandlersOK
<1>7. QueueOK'
  <2>1. \A i \in 1 .. Len(tail') : pc'[tail'[i].by] = pc[tail[i + 1].by]
                                   /\ call'[tail'[i].by] = call[tail[i + 1].by]
    BY <1>2, <1>6
  <2>2. \A i, j \in 1 .. Len(tail') : i <= j => i + 1 <= j + 1
    OBVIOUS
  <2>3. \A i, j \in 1 .. Len(tail') : i + 1 = j + 1 => i = j
    OBVIOUS
  <2>4. /\ \A i \in 1 .. Len(tail') : pc'[tail'[i].by] = "saving"
        /\ \A i \in 1 .. Len(tail') : Grows(tail'[i].state.jobs, jobs')
    BY <1>1, <1>2, <2>1 DEF MediaInv, QueueOK, mediaVars
  <2>5. \A i, j \in 1 .. Len(tail') : tail'[i].by = tail'[j].by => i = j
    BY <1>2, <2>3 DEF MediaInv, QueueOK
  <2>6. ASSUME NEW i \in 1 .. Len(tail'), NEW j \in 1 .. Len(tail'), i <= j
        PROVE  Grows(tail'[i].state.jobs, tail'[j].state.jobs)
    <3>1. Grows(tail[i + 1].state.jobs, tail[j + 1].state.jobs)
      BY <1>2, <2>2, <2>6 DEF MediaInv, QueueOK
    <3>. QED
      BY <1>2, <3>1
  <2>7. \A i \in 1 .. Len(tail') : call'[tail'[i].by].ok =>
            /\ call'[tail'[i].by].job \in 1 .. Len(tail'[i].state.jobs)
            /\ After(call'[tail'[i].by].shown, tail'[i].state.jobs[call'[tail'[i].by].job].status)
    BY <1>2, <2>1 DEF MediaInv, QueueOK
  <2>. QED
    BY <1>2, <2>4, <2>5, <2>6, <2>7 DEF QueueOK
<1>8. \A g \in Handlers : /\ At(g, "creating")' <=> At(g, "creating")
                          /\ At(g, "creating") => call'[g] = call[g]
  BY <1>3, <1>6 DEF At
<1>9. TasksOK'
  BY <1>1, <1>8 DEF MediaInv, TasksOK, mediaVars
<1>10. RequestedIsAwaited'
  BY <1>1, <1>8 DEF MediaInv, RequestedIsAwaited, mediaVars, JobIds
<1>11. State' \in Snapshots
  BY <1>4 DEF State, NextState
<1>. QED
  BY <1>1, <1>4, <1>5, <1>7, <1>9, <1>10, <1>11 DEF MediaInv

\* A write that did not take effect leaves the snapshot as it was.
LEMMA FailedWriteKeeps ==
    ASSUME MediaInv, SaveFails
    PROVE  MediaInv' /\ Grows(jobs, jobs')
<1>1. tail # << >> /\ EndWrite /\ UNCHANGED <<durable, synced, acked>> /\ jobs' = jobs
  BY DEF SaveFails, EndWrite, mediaVars
<1>2. /\ State' \in Snapshots /\ Grows(jobs, jobs') /\ HandlersOK' /\ QueueOK' /\ TasksOK'
      /\ RequestedIsAwaited' /\ restarts' \in 0 .. MaxRestarts
  BY <1>1, EndWriteKeeps
<1>3. \A i \in 1 .. Len(tail') : i + 1 \in 1 .. Len(tail) /\ tail'[i] = tail[i + 1]
  BY <1>1, TailFacts DEF EndWrite
<1>4. SnapshotOK'
  BY <1>1, <1>3 DEF MediaInv, SnapshotOK
<1>. QED
  BY <1>2, <1>4 DEF MediaInv

\* A write that took effect covers what the snapshot covered and the answer.
LEMMA WriteKeeps ==
    ASSUME MediaInv, SaveSucceeds \/ SaveUncertain
    PROVE  MediaInv' /\ Grows(jobs, jobs')
<1>. DEFINE c == call[tail[1].by]
            st == tail[1].state
<1>1. /\ tail # << >> /\ synced /\ EndWrite /\ jobs' = jobs /\ durable' = st
      /\ synced' \in BOOLEAN
      /\ Acknowledge(c) \/ acked' = acked
  BY DEF SaveSucceeds, SaveUncertain, EndWrite, mediaVars, MediaInv, SnapshotOK
<1>2. /\ State' \in Snapshots /\ Grows(jobs, jobs') /\ HandlersOK' /\ QueueOK' /\ TasksOK'
      /\ RequestedIsAwaited' /\ restarts' \in 0 .. MaxRestarts
  BY <1>1, EndWriteKeeps
<1>3. /\ \A i \in 1 .. Len(tail') : i + 1 \in 1 .. Len(tail) /\ tail'[i] = tail[i + 1]
      /\ tail[1].by \in Handlers /\ st \in Snapshots /\ 1 \in 1 .. Len(tail)
      /\ Len(tail) \in Nat
  BY <1>1, TailFacts DEF EndWrite
<1>4. /\ st.jobs \in Seq(Job) /\ Len(st.jobs) \in Nat /\ Len(st.jobs) <= MaxJobs
      /\ durable.jobs \in Seq(Job) /\ Len(durable.jobs) \in Nat
  BY <1>3, CopyFacts DEF MediaInv, SnapshotOK
<1>5. /\ Grows(durable.jobs, st.jobs) /\ Grows(st.jobs, jobs)
      /\ \A i \in 1 .. Len(tail') : Grows(st.jobs, tail'[i].state.jobs)
  <2>1. \A i \in 1 .. Len(tail') : 1 <= i + 1
    BY <1>3
  <2>. QED
    BY <1>1, <1>3, <2>1 DEF MediaInv, QueueOK, SnapshotOK
<1>6. c.ok => c.job \in 1 .. Len(st.jobs) /\ After(c.shown, st.jobs[c.job].status)
  BY <1>3 DEF MediaInv, QueueOK
<1>7. c \in Calls /\ c.shown \in Status
  BY <1>3 DEF MediaInv, HandlersOK, Calls
<1>8. \A i \in 1 .. MaxJobs : acked[i] # "none" => i \in 1 .. Len(st.jobs) /\ After(acked[i], st.jobs[i].status)
  <2>. SUFFICES ASSUME NEW i \in 1 .. MaxJobs, acked[i] # "none"
                PROVE  i \in 1 .. Len(st.jobs) /\ After(acked[i], st.jobs[i].status)
    OBVIOUS
  <2>1. acked[i] \in Status \cup {"none"} /\ i \in 1 .. Len(durable.jobs)
        /\ After(acked[i], durable.jobs[i].status)
    BY DEF MediaInv, SnapshotOK
  <2>2. After(durable.jobs[i].status, st.jobs[i].status) /\ i \in 1 .. Len(st.jobs)
    BY <1>4, <1>5, <2>1 DEF Grows
  <2>3. durable.jobs[i].status \in Status /\ st.jobs[i].status \in Status
    BY <1>4, <2>1, <2>2, JobTyped
  <2>. QED
    BY <2>1, <2>2, <2>3, AfterFacts
<1>9. acked' \in [1 .. MaxJobs -> Status \cup {"none"}]
      /\ \A i \in 1 .. MaxJobs : acked'[i] = acked[i] \/ (c.ok /\ i = c.job /\ acked'[i] = c.shown)
  <2>1. acked \in [1 .. MaxJobs -> Status \cup {"none"}]
    BY DEF MediaInv, SnapshotOK
  <2>2. CASE acked' = acked
    BY <2>1, <2>2
  <2>3. CASE c.ok /\ acked' = [acked EXCEPT ![c.job] = c.shown]
    BY <1>7, <2>1, <2>3
  <2>4. acked' = acked \/ (c.ok /\ acked' = [acked EXCEPT ![c.job] = c.shown])
    BY <1>1 DEF Acknowledge
  <2>. QED
    BY <2>2, <2>3, <2>4
<1>. HIDE DEF c, st
<1>10. \A i \in 1 .. MaxJobs : acked'[i] # "none" =>
            i \in 1 .. Len(st.jobs) /\ After(acked'[i], st.jobs[i].status)
  BY <1>6, <1>8, <1>9
<1>11. SnapshotOK'
  BY <1>1, <1>3, <1>5, <1>9, <1>10 DEF SnapshotOK
<1>. QED
  BY <1>2, <1>11 DEF MediaInv

\* A restart forgets everything but the snapshot.
LEMMA RestartKeeps ==
    ASSUME MediaInv, Restart
    PROVE  MediaInv' /\ restarts' # restarts
<1>1. /\ restarts < MaxRestarts /\ restarts' = restarts + 1
      /\ jobs' = durable.jobs /\ idem' = durable.idem
      /\ asked' = durable.asked /\ results' = durable.results
      /\ pc' = [h \in Handlers |-> "idle"] /\ call' = [h \in Handlers |-> Idle]
      /\ made' = {} /\ tail' = << >> /\ synced' = TRUE
      /\ UNCHANGED <<durable, tasks, acked>>
  BY DEF Restart
<1>2. restarts \in Nat /\ restarts' \in 0 .. MaxRestarts /\ restarts' # 0 /\ restarts' # restarts
  BY <1>1, OpsAssumption DEF MediaInv
<1>3. State' = durable /\ State' \in Snapshots
  <2>1. durable \in Snapshots
    BY DEF MediaInv, SnapshotOK
  <2>2. durable = [jobs |-> durable.jobs, idem |-> durable.idem, asked |-> durable.asked,
                   results |-> durable.results]
    BY <2>1 DEF Snapshots, States
  <2>. QED
    BY <1>1, <2>1, <2>2, Zenon DEF State
<1>4. HandlersOK'
  BY <1>1, IdleFacts DEF HandlersOK
<1>5. QueueOK'
  BY <1>1, EmptySeq DEF QueueOK
<1>6. SnapshotOK'
  <2>1. Grows(durable.jobs, durable.jobs) /\ Len(tail') = 0
    BY <1>1, CopyFacts, GrowsFacts DEF MediaInv, SnapshotOK
  <2>. QED
    BY <1>1, <2>1 DEF MediaInv, SnapshotOK
<1>7. TasksOK' /\ RequestedIsAwaited'
  BY <1>1, <1>2 DEF MediaInv, TasksOK, RequestedIsAwaited
<1>. QED
  BY <1>2, <1>3, <1>4, <1>5, <1>6, <1>7 DEF MediaInv

-----------------------------------------------------------------------------
(* The theorems. *)

\* Without jobs everything holds.
LEMMA MediaInitInv == Init => MediaInv
<1>. SUFFICES ASSUME Init PROVE MediaInv
  OBVIOUS
<1>1. /\ jobs = << >> /\ idem = [s \in Slots |-> 0] /\ asked = [s \in Slots |-> NoBody]
      /\ results = {}
      /\ pc = [h \in Handlers |-> "idle"] /\ call = [h \in Handlers |-> Idle]
      /\ made = {} /\ tail = << >> /\ durable = State /\ synced = TRUE
      /\ tasks = [s \in Slots |-> 0] /\ acked = [i \in 1 .. MaxJobs |-> "none"]
      /\ restarts = 0
  BY DEF Init, MediaInit, Slots
<1>2. jobs \in Seq(Job) /\ Len(jobs) = 0 /\ DOMAIN jobs = {}
  BY <1>1, EmptySeq
<1>3. WithinLimits(jobs)
  <2>1. \A k \in Kinds : ActiveIn(jobs, k) = {}
    BY <1>2 DEF ActiveIn
  <2>. QED
    BY <2>1, FS_EmptySet, MediaAssumption DEF WithinLimits
<1>4. State \in Snapshots
  <2>1. Provided(jobs)
    BY <1>2 DEF Provided
  <2>2. SlotsOK(State)
    BY <1>1, <1>2 DEF SlotsOK, State, HangupsEnded
  <2>3. State \in States
    BY <1>1, <1>2 DEF States, State
  <2>. QED
    BY <1>2, <1>3, <2>1, <2>2, <2>3, MediaAssumption DEF Snapshots, State
<1>5. HandlersOK
  BY <1>1, IdleFacts DEF HandlersOK
<1>6. QueueOK
  BY <1>1, EmptySeq DEF QueueOK
<1>7. SnapshotOK
  <2>1. durable.jobs = jobs /\ Len(tail) = 0
    BY <1>1 DEF State
  <2>2. Grows(jobs, jobs)
    BY <1>2, GrowsFacts
  <2>. QED
    BY <1>1, <1>4, <2>1, <2>2 DEF SnapshotOK
<1>8. TasksOK
  <2>1. \A h \in Handlers : ~At(h, "creating")
    BY <1>1 DEF At
  <2>2. tasks \in [Slots -> Nat] /\ \A s \in Slots : tasks[s] = 0 /\ idem[s] = 0
    BY <1>1
  <2>. QED
    BY <2>1, <2>2 DEF TasksOK
<1>9. RequestedIsAwaited
  BY <1>2 DEF RequestedIsAwaited, JobIds
<1>. QED
  BY <1>1, <1>4, <1>5, <1>6, <1>7, <1>8, <1>9, OpsAssumption DEF MediaInv

\* Every step keeps the invariant; every step but a restart moves jobs forward.
LEMMA MediaStep ==
    ASSUME MediaInv, [Next]_vars
    PROVE  MediaInv' /\ (Grows(jobs, jobs') \/ restarts' # restarts)
<1>1. CASE Save
  BY <1>1, WriteKeeps, FailedWriteKeeps DEF Save
<1>2. CASE Restart
  BY <1>2, RestartKeeps
<1>3. ASSUME NEW h \in Handlers, Request(h)
      PROVE  MediaInv' /\ Grows(jobs, jobs')
  <2>1. CASE \E k \in Kinds, key \in Keys, body \in Bodies, identity \in BOOLEAN :
                Create(h, k, key, body, identity /\ k = "call")
    <3>1. PICK k \in Kinds, key \in Keys, body \in Bodies, identity \in BOOLEAN :
                Create(h, k, key, body, identity /\ k = "call")
      BY <2>1, Zenon
    <3>2. (identity /\ k = "call") \in BOOLEAN
      OBVIOUS
    <3>. QED
      BY <3>1, <3>2, CreateKeeps, Zenon
  <2>2. CASE \E k \in Kinds, key \in Keys, body \in Bodies : Repeat(h, k, key, body)
    BY <2>2, RepeatKeeps
  <2>3. CASE \E r \in JobIds, op \in Operations, key \in Keys :
                StartOperation(h, r, op, key) \/ RepeatOperation(h, r, op, key)
    BY <2>3, StartKeeps, RepeatOperationKeeps
  <2>4. CASE \E r \in JobIds, status \in Callbacks, withId, withObject \in BOOLEAN :
                Callback(h, r, status, withId, withObject /\ jobs[r].kind = "egress")
    <3>1. PICK r \in JobIds, status \in Callbacks, withId \in BOOLEAN, withObject \in BOOLEAN :
                Callback(h, r, status, withId, withObject /\ jobs[r].kind = "egress")
      BY <2>4, Zenon
    <3>2. (withObject /\ jobs[r].kind = "egress") \in BOOLEAN /\ status \in Status
      BY OpsAssumption
    <3>. QED
      BY <3>1, <3>2, CallbackKeeps, Zenon
  <2>. QED
    BY <1>3, <2>1, <2>2, <2>3, <2>4, Zenon DEF Request
<1>4. ASSUME NEW h \in Handlers, Continue(h)
      PROVE  MediaInv' /\ Grows(jobs, jobs')
  <2>1. CASE \E object \in BOOLEAN, identity \in BOOLEAN :
                CreateAnswered(h, object /\ WorksOn(h, "egress"), identity /\ WorksOn(h, "call"))
    <3>1. PICK object \in BOOLEAN, identity \in BOOLEAN :
                CreateAnswered(h, object /\ WorksOn(h, "egress"), identity /\ WorksOn(h, "call"))
      BY <2>1, Zenon
    <3>2. (object /\ WorksOn(h, "egress")) \in BOOLEAN /\ (identity /\ WorksOn(h, "call")) \in BOOLEAN
      OBVIOUS
    <3>. QED
      BY <3>1, <3>2, AnsweredKeeps, Zenon
  <2>2. CASE \E identity \in BOOLEAN : CreateRefused(h, identity /\ WorksOn(h, "call"))
    <3>1. PICK identity \in BOOLEAN : CreateRefused(h, identity /\ WorksOn(h, "call"))
      BY <2>2, Zenon
    <3>2. (identity /\ WorksOn(h, "call")) \in BOOLEAN
      OBVIOUS
    <3>. QED
      BY <3>1, <3>2, RefusedKeeps, Zenon
  <2>. QED
    BY <1>4, <2>1, <2>2, ProviderKeeps, DoneKeeps, OperationRefusedKeeps, Zenon DEF Continue
<1>5. CASE UNCHANGED vars
  <2>1. UNCHANGED <<mediaVars, serverVars, durable, synced, tasks, acked, restarts>>
        /\ UNCHANGED mediaVars
    BY <1>5 DEF vars
  <2>2. Grows(jobs, jobs')
    BY <2>1, JobsStay
  <2>3. MediaInv'
    BY <2>1 DEF mediaVars, serverVars, MediaInv, HandlersOK, QueueOK, SnapshotOK, TasksOK,
                RequestedIsAwaited, State, At, JobIds
  <2>. QED
    BY <2>2, <2>3
<1>. QED
  BY <1>1, <1>2, <1>3, <1>4, <1>5, Zenon DEF Next

-----------------------------------------------------------------------------
(* The results of operations. *)

\* As the jobs, the results of the copies grow towards the end of the queue, and
\* those of the process from there; a copy has the result that its handler will
\* answer; what was told is in the snapshot, or was told from memory.
ResultsOK ==
    /\ \A h \in Handlers : At(h, "acting") => \E o \in Operations \X Keys : call[h].op = {o}
    /\ \A i, j \in 1 .. Len(tail) : i <= j => tail[i].state.results \subseteq tail[j].state.results
    /\ \A i \in 1 .. Len(tail) : tail[i].state.results \subseteq results
    /\ \A i \in 1 .. Len(tail) : call[tail[i].by].ok =>
            ResultOf(call[tail[i].by]) \subseteq tail[i].state.results
    /\ synced =>
        /\ durable.results \subseteq results
        /\ \A i \in 1 .. Len(tail) : durable.results \subseteq tail[i].state.results
    /\ told \subseteq durable.results \cup early

\* What a request that is no operation answers is no result.
LEMMA NoResult == \A r, shown, ok : ResultOf(Mutation({}, r, shown, ok)) = {}
BY DEF ResultOf, Mutation

\* A handler that queues a copy with the result it will answer.
LEMMA SaveKeepsResults ==
    ASSUME MediaInv, ResultsOK, NEW h \in Handlers, ~At(h, "saving"), NEW c, SaveAs(h, c),
           results \subseteq results', c.ok => ResultOf(c) \subseteq results',
           UNCHANGED <<durable, synced, told, early>>
    PROVE  ResultsOK'
<1>. DEFINE new == [by |-> h, state |-> NextState]
            n == Len(tail)
<1>1. /\ tail \in Seq(Writes) /\ n \in Nat
      /\ pc \in [Handlers -> {"idle", "creating", "acting", "saving"}]
      /\ call \in [Handlers -> Calls]
  BY DEF MediaInv, QueueOK, HandlersOK
<1>2. new.by = h /\ new.state.results = results'
  BY DEF NextState
<1>3. tail' = Append(tail, new)
  BY DEF SaveAs
<1>. HIDE DEF new
<1>4. /\ Len(tail') = n + 1 /\ tail'[n + 1] = new
      /\ \A i \in 1 .. n : tail'[i] = tail[i]
  BY <1>1, <1>3
<1>5. \A i \in 1 .. n : tail[i].by \in Handlers /\ tail[i].by # h
  BY <1>1, WriteFacts DEF MediaInv, QueueOK, At
<1>6. /\ \A g \in Handlers : pc'[g] = IF g = h THEN "saving" ELSE pc[g]
      /\ \A g \in Handlers : call'[g] = IF g = h THEN c ELSE call[g]
  BY <1>1 DEF SaveAs
<1>7. \A g \in Handlers : At(g, "acting")' => \E o \in Operations \X Keys : call'[g].op = {o}
  BY <1>6 DEF ResultsOK, At
<1>8. \A i \in 1 .. n + 1 : i \in 1 .. n \/ i = n + 1
  BY <1>1
<1>9. \A i \in 1 .. n + 1 : tail'[i].state.results \subseteq results'
  BY <1>2, <1>4, <1>8 DEF ResultsOK
<1>10. ASSUME NEW i \in 1 .. n + 1, NEW j \in 1 .. n + 1, i <= j
       PROVE  tail'[i].state.results \subseteq tail'[j].state.results
  <2>1. CASE j = n + 1
    BY <1>2, <1>4, <1>9, <2>1
  <2>2. CASE j # n + 1
    <3>1. i \in 1 .. n /\ j \in 1 .. n
      BY <1>1, <1>10, <2>2
    <3>. QED
      BY <1>4, <1>10, <3>1 DEF ResultsOK
  <2>. QED
    BY <2>1, <2>2
<1>11. ASSUME NEW i \in 1 .. n + 1, call'[tail'[i].by].ok
       PROVE  ResultOf(call'[tail'[i].by]) \subseteq tail'[i].state.results
  <2>1. CASE i = n + 1
    <3>1. tail'[i].by = h /\ call'[h] = c /\ tail'[i].state.results = results'
      BY <1>2, <1>4, <1>6, <2>1
    <3>. QED
      BY <1>11, <3>1
  <2>2. CASE i \in 1 .. n
    <3>1. tail'[i] = tail[i] /\ call'[tail[i].by] = call[tail[i].by]
      BY <1>4, <1>5, <1>6, <2>2
    <3>. QED
      BY <1>11, <2>2, <3>1 DEF ResultsOK
  <2>. QED
    BY <1>8, <2>1, <2>2
<1>12. synced => /\ durable.results \subseteq results'
                 /\ \A i \in 1 .. n + 1 : durable.results \subseteq tail'[i].state.results
  BY <1>2, <1>4, <1>8 DEF ResultsOK
<1>. QED
  BY <1>4, <1>7, <1>9, <1>10, <1>11, <1>12 DEF ResultsOK

\* A handler that queues nothing.
LEMMA NoSaveKeepsResults ==
    ASSUME MediaInv, ResultsOK, NEW h \in Handlers, ~At(h, "saving"),
           \A g \in Handlers \ {h} : pc'[g] = pc[g] /\ call'[g] = call[g],
           At(h, "acting")' => \E o \in Operations \X Keys : call'[h].op = {o},
           results \subseteq results', UNCHANGED <<tail, durable, synced>>,
           told' \subseteq durable.results \cup early'
    PROVE  ResultsOK'
<1>1. tail \in Seq(Writes)
  BY DEF MediaInv, QueueOK
<1>2. \A i \in 1 .. Len(tail) : tail[i].by \in Handlers \ {h}
  BY <1>1, WriteFacts DEF MediaInv, QueueOK, At
<1>3. \A i \in 1 .. Len(tail) : call'[tail[i].by] = call[tail[i].by]
  BY <1>2
<1>4. \A g \in Handlers : At(g, "acting")' => \E o \in Operations \X Keys : call'[g].op = {o}
  BY DEF ResultsOK, At
<1>. QED
  BY <1>3, <1>4 DEF ResultsOK

\* The write at the head of the queue, whatever became of it.
LEMMA WriteKeepsResults ==
    ASSUME MediaInv, ResultsOK, Save
    PROVE  ResultsOK'
<1>. DEFINE h == tail[1].by
            st == tail[1].state
<1>1. tail # << >> /\ EndWrite
  BY DEF Save, SaveSucceeds, SaveFails, SaveUncertain
<1>2. /\ tail' = Tail(tail) /\ results' = results
      /\ pc' = [pc EXCEPT ![h] = "idle"] /\ call' = [call EXCEPT ![h] = Idle]
  BY <1>1 DEF EndWrite, mediaVars
<1>3. /\ Len(tail') \in Nat /\ h \in Handlers /\ 1 \in 1 .. Len(tail)
      /\ \A i \in 1 .. Len(tail') : i + 1 \in 1 .. Len(tail) /\ tail'[i] = tail[i + 1]
      /\ \A i \in 1 .. Len(tail') : tail'[i].by \in Handlers /\ tail'[i].by # h
      /\ \A i \in 1 .. Len(tail') : 1 <= i + 1
  BY <1>1, <1>2, TailFacts
<1>4. /\ \A g \in Handlers : pc'[g] = IF g = h THEN "idle" ELSE pc[g]
      /\ \A g \in Handlers : call'[g] = IF g = h THEN Idle ELSE call[g]
  BY <1>2 DEF MediaInv, HandlersOK
<1>. HIDE DEF h, st
<1>5. \A g \in Handlers : At(g, "acting")' => \E o \in Operations \X Keys : call'[g].op = {o}
  BY <1>4 DEF ResultsOK, At
<1>6. ASSUME NEW i \in 1 .. Len(tail'), NEW j \in 1 .. Len(tail'), i <= j
      PROVE  tail'[i].state.results \subseteq tail'[j].state.results
  <2>1. i + 1 <= j + 1
    BY <1>6
  <2>. QED
    BY <1>3, <2>1 DEF ResultsOK
<1>7. /\ \A i \in 1 .. Len(tail') : tail'[i].state.results \subseteq results'
      /\ \A i \in 1 .. Len(tail') : call'[tail'[i].by].ok =>
            ResultOf(call'[tail'[i].by]) \subseteq tail'[i].state.results
  BY <1>2, <1>3, <1>4 DEF ResultsOK
<1>8. CASE SaveFails
  <2>1. UNCHANGED <<durable, synced, told, early>>
    BY <1>8 DEF SaveFails
  <2>2. synced => /\ durable.results \subseteq results'
                  /\ \A i \in 1 .. Len(tail') : durable.results \subseteq tail'[i].state.results
    BY <1>2, <1>3 DEF ResultsOK
  <2>. QED
    BY <1>5, <1>6, <1>7, <2>1, <2>2 DEF ResultsOK
<1>9. CASE SaveSucceeds \/ SaveUncertain
  <2>1. /\ synced /\ durable' = st /\ early' = early \ durable'.results
        /\ told' = told \/ (call[h].ok /\ told' = told \cup ResultOf(call[h]))
    BY <1>9 DEF SaveSucceeds, SaveUncertain, Acknowledge, h, st
  <2>2. durable.results \subseteq st.results /\ st.results \subseteq results'
        /\ (call[h].ok => ResultOf(call[h]) \subseteq st.results)
    BY <1>2, <1>3, <2>1 DEF ResultsOK, h, st
  <2>3. \A i \in 1 .. Len(tail') : st.results \subseteq tail'[i].state.results
    BY <1>3 DEF ResultsOK, st
  <2>4. told' \subseteq durable'.results \cup early'
    <3>1. told' \subseteq st.results \cup early
      BY <2>1, <2>2 DEF ResultsOK
    <3>. QED
      BY <2>1, <3>1
  <2>. QED
    BY <1>5, <1>6, <1>7, <2>1, <2>2, <2>3, <2>4 DEF ResultsOK
<1>. QED
  BY <1>8, <1>9 DEF Save

\* A restart has the results of the snapshot.
LEMMA RestartKeepsResults ==
    ASSUME MediaInv, ResultsOK, Restart
    PROVE  ResultsOK'
<1>1. /\ results' = durable.results /\ tail' = << >>
      /\ \A h \in Handlers : pc'[h] = "idle"
      /\ UNCHANGED <<durable, told, early>>
  BY DEF Restart
<1>2. Len(tail') = 0
  BY <1>1
<1>. QED
  BY <1>1, <1>2 DEF ResultsOK, At

\* The steps of a handler keep what is said of the results.
LEMMA HandlerKeepsResults ==
    ASSUME MediaInv, ResultsOK, NEW h \in Handlers, Request(h) \/ Continue(h)
    PROVE  ResultsOK'
<1>. DEFINE Others == \A g \in Handlers \ {h} : pc'[g] = pc[g] /\ call'[g] = call[g]
<1>0. /\ \A point, c : Await(h, point, c) => Others /\ tail' = tail /\ pc'[h] = point /\ call'[h] = c
      /\ Answer(h) => Others /\ tail' = tail /\ pc'[h] = "idle"
  BY DEF Await, Answer, MediaInv, HandlersOK
<1>. HIDE DEF Others
<1>1. ASSUME NEW k \in Kinds, NEW key \in Keys, NEW body \in Bodies, NEW identity \in BOOLEAN,
             Create(h, k, key, body, identity)
      PROVE  ResultsOK'
  <2>. DEFINE c == Mutation({}, Len(jobs) + 1, "requested", TRUE)
  <2>1. /\ ~At(h, "saving") /\ results' = results /\ UNCHANGED <<durable, synced, told, early>>
        /\ Await(h, "creating", c) \/ SaveAs(h, c)
    BY <1>1 DEF Create, CreateJob, Elsewhere, At
  <2>2. ResultOf(c) = {}
    BY NoResult
  <2>. HIDE DEF c
  <2>3. CASE SaveAs(h, c)
    BY <2>1, <2>2, <2>3, SaveKeepsResults
  <2>4. CASE Await(h, "creating", c)
    <3>1. Others /\ tail' = tail /\ pc'[h] = "creating"
      BY <1>0, <2>4
    <3>. QED
      BY <2>1, <3>1, NoSaveKeepsResults DEF At, ResultsOK, Others
  <2>. QED
    BY <2>1, <2>3, <2>4
<1>2. ASSUME NEW k \in Kinds, NEW key \in Keys, NEW body \in Bodies, Repeat(h, k, key, body)
      PROVE  ResultsOK'
  <2>1. /\ ~At(h, "saving") /\ results' = results /\ UNCHANGED <<durable, synced, told, early>>
        /\ SaveAs(h, Mutation({}, idem[<<k, key>>], "requested", TRUE))
    BY <1>2 DEF Repeat, Elsewhere, At, mediaVars
  <2>. QED
    BY <2>1, NoResult, SaveKeepsResults
<1>3. ASSUME NEW r \in JobIds, NEW op \in Operations, NEW key \in Keys, StartOperation(h, r, op, key)
      PROVE  ResultsOK'
  <2>1. /\ ~At(h, "saving") /\ results' = results /\ UNCHANGED <<durable, synced, told, early>>
        /\ Await(h, "acting", Mutation({<<op, key>>}, r, jobs[r].status, TRUE))
    BY <1>3 DEF StartOperation, Elsewhere, At, mediaVars
  <2>2. Others /\ tail' = tail /\ call'[h] = Mutation({<<op, key>>}, r, jobs[r].status, TRUE)
    BY <1>0, <2>1
  <2>3. call'[h].op = {<<op, key>>} /\ <<op, key>> \in Operations \X Keys
    BY <2>2 DEF Mutation
  <2>. QED
    BY <2>1, <2>2, <2>3, NoSaveKeepsResults DEF ResultsOK, Others
<1>4. ASSUME NEW r \in JobIds, NEW op \in Operations, NEW key \in Keys, RepeatOperation(h, r, op, key)
      PROVE  ResultsOK'
  <2>1. /\ ~At(h, "saving") /\ At(h, "idle") /\ pc' = pc /\ call' = call /\ tail' = tail
        /\ results' = results /\ UNCHANGED <<durable, synced>>
        /\ told' = told \cup {<<op, r, key>>}
        /\ early' = early \cup ({<<op, r, key>>} \ durable.results)
    BY <1>4 DEF RepeatOperation, At, mediaVars, serverVars
  <2>2. told' \subseteq durable.results \cup early'
    BY <2>1 DEF ResultsOK
  <2>3. ~At(h, "acting")'
    BY <2>1 DEF At
  <2>. QED
    BY <2>1, <2>2, <2>3, NoSaveKeepsResults
<1>5. ASSUME NEW r \in JobIds, NEW status, NEW withId, NEW withObject,
             Callback(h, r, status, withId, withObject)
      PROVE  ResultsOK'
  <2>1. /\ ~At(h, "saving") /\ results' = results /\ UNCHANGED <<durable, synced, told, early>>
        /\ SaveAs(h, Mutation({}, r, status, TRUE))
    BY <1>5 DEF Callback, ApplyProviderStatus, Elsewhere, At
  <2>. QED
    BY <2>1, NoResult, SaveKeepsResults
<1>6. CASE ProviderCreates(h)
  <2>1. /\ At(h, "creating") /\ pc' = pc /\ call' = call /\ tail' = tail
        /\ results' = results /\ UNCHANGED <<durable, synced, told, early>>
    BY <1>6 DEF ProviderCreates, Elsewhere, mediaVars
  <2>2. ~At(h, "saving") /\ ~At(h, "acting")'
    BY <2>1 DEF At
  <2>. QED
    BY <2>1, <2>2, NoSaveKeepsResults DEF ResultsOK
<1>7. ASSUME NEW object, NEW identity, CreateAnswered(h, object, identity)
      PROVE  ResultsOK'
  <2>1. /\ ~At(h, "saving") /\ results' = results /\ UNCHANGED <<durable, synced, told, early>>
        /\ SaveAs(h, Mutation({}, call[h].job, "active", TRUE))
    BY <1>7 DEF CreateAnswered, Activate, Elsewhere, At
  <2>. QED
    BY <2>1, NoResult, SaveKeepsResults
<1>8. ASSUME NEW identity, CreateRefused(h, identity)
      PROVE  ResultsOK'
  <2>1. /\ ~At(h, "saving") /\ results' = results /\ UNCHANGED <<durable, synced, told, early>>
        /\ SaveAs(h, Mutation({}, call[h].job, "failed", FALSE)) \/ Answer(h)
    BY <1>8 DEF CreateRefused, Fail, Elsewhere, At
  <2>2. CASE SaveAs(h, Mutation({}, call[h].job, "failed", FALSE))
    BY <2>1, <2>2, NoResult, SaveKeepsResults
  <2>3. CASE Answer(h)
    <3>1. Others /\ tail' = tail /\ pc'[h] = "idle"
      BY <1>0, <2>3
    <3>. QED
      BY <2>1, <3>1, NoSaveKeepsResults DEF At, ResultsOK, Others
  <2>. QED
    BY <2>1, <2>2, <2>3
<1>9. CASE OperationDone(h)
  <2>. DEFINE c == [call[h] EXCEPT !.shown = jobs'[call[h].job].status]
  <2>1. PICK key \in Keys :
            \/ <<"transfer", key>> \in call[h].op /\ results' = results \cup {<<"transfer", call[h].job, key>>}
            \/ <<"hangup", key>> \in call[h].op /\ results' = results \cup {<<"hangup", call[h].job, key>>}
    BY <1>9 DEF OperationDone, SaveTransfer, SaveHangup
  <2>2. /\ At(h, "acting") /\ ~At(h, "saving") /\ UNCHANGED <<durable, synced, told, early>>
        /\ SaveAs(h, c)
    BY <1>9 DEF OperationDone, Elsewhere, At
  <2>3. PICK o \in Operations \X Keys : call[h].op = {o}
    BY <2>2 DEF ResultsOK
  <2>4. c.op = {o} /\ c.job = call[h].job
    BY <2>3 DEF MediaInv, HandlersOK, Calls
  <2>. HIDE DEF c
  <2>5. ResultOf(c) = {<<o[1], call[h].job, o[2]>>}
    BY <2>4 DEF ResultOf
  <2>6. ResultOf(c) \subseteq results' /\ results \subseteq results'
    BY <2>1, <2>3, <2>5
  <2>. QED
    BY <2>2, <2>6, SaveKeepsResults
<1>10. CASE OperationRefused(h)
  <2>1. /\ ~At(h, "saving") /\ results' = results /\ UNCHANGED <<durable, synced, told, early>>
        /\ Answer(h)
    BY <1>10 DEF OperationRefused, Elsewhere, At, mediaVars
  <2>2. Others /\ tail' = tail /\ pc'[h] = "idle"
    BY <1>0, <2>1
  <2>. QED
    BY <2>1, <2>2, NoSaveKeepsResults DEF At, ResultsOK, Others
<1>. QED
  BY <1>1, <1>2, <1>3, <1>4, <1>5, <1>6, <1>7, <1>8, <1>9, <1>10, Zenon DEF Request, Continue

\* Every step keeps what is said of the results.
LEMMA ResultsStep ==
    ASSUME MediaInv, ResultsOK, [Next]_vars
    PROVE  ResultsOK'
<1>1. CASE UNCHANGED vars
  BY <1>1 DEF vars, mediaVars, serverVars, ResultsOK, At
<1>. QED
  BY <1>1, HandlerKeepsResults, WriteKeepsResults, RestartKeepsResults, Zenon DEF Next

\* The invariant holds in every behaviour of the server.
LEMMA MediaInvariant == Spec => []MediaInv
<1>1. MediaInv /\ [Next]_vars => MediaInv'
  BY MediaStep
<1>. QED
  BY <1>1, MediaInitInv, PTL DEF Spec

\* What the statuses say is true of requests and tasks: jobs are well formed, an
\* activated job knows its task, a requested one is awaited (control.ts:281-369).
THEOREM JobsHold == Spec => []JobsOK
<1>1. MediaInv => JobsOK
  <2>. SUFFICES ASSUME MediaInv PROVE JobsOK
    OBVIOUS
  <2>1. MediaTypeOK
    <3>1. /\ jobs \in Seq(Job) /\ idem \in [Slots -> Nat] /\ asked \in [Slots -> Bodies \cup {NoBody}]
          /\ results \subseteq Operations \X JobIds \X Keys
          /\ \A s \in Slots : idem[s] \in 0 .. Len(jobs)
          /\ \A s \in Slots : idem[s] # 0 => jobs[idem[s]].kind = s[1]
          /\ JobIds = 1 .. Len(jobs) /\ Len(jobs) \in Nat
      BY StateFacts DEF MediaInv
    <3>2. \A s \in Slots : idem[s] \in {0} \cup JobIds
      BY <3>1
    <3>3. idem \in [Slots -> {0} \cup JobIds]
      BY <3>1, <3>2
    <3>4. ASSUME NEW k \in Kinds, NEW key \in Keys, idem[<<k, key>>] # 0
          PROVE  jobs[idem[<<k, key>>]].kind = k
      <4>1. <<k, key>> \in Slots /\ <<k, key>>[1] = k
        BY DEF Slots
      <4>. QED
        BY <3>1, <3>4, <4>1
    <3>. QED
      BY <3>1, <3>3, <3>4 DEF MediaTypeOK, Slots
  <2>2. \A i \in DOMAIN tail : pc[tail[i].by] = "saving"
    <3>1. DOMAIN tail = 1 .. Len(tail)
      BY DEF MediaInv, QueueOK
    <3>. QED
      BY <3>1 DEF MediaInv, QueueOK
  <2>3. TypeOK
    BY <2>1, <2>2 DEF TypeOK, MediaInv, HandlersOK, SnapshotOK, TasksOK, Slots
  <2>4. ActiveHasProvider
    BY StateFacts DEF MediaInv, ActiveHasProvider, Provided, JobIds
  <2>. QED
    BY <2>3, <2>4 DEF JobsOK, MediaInv
<1>. QED
  BY <1>1, MediaInvariant, PTL

\* No order of creates, failures and callbacks exceeds the limits, in the process
\* and after a restart (control.ts:407-411).
THEOREM LimitNeverExceeded == Spec => []LimitHolds
<1>1. MediaInv => LimitHolds
  BY StateFacts DEF MediaInv, LimitHolds, WithinLimits, Active, ActiveIn, JobIds
<1>. QED
  BY <1>1, MediaInvariant, PTL

\* While the process lives, a key creates one task at the provider
\* (server.ts:180-183).
THEOREM OneTaskPerKey == Spec => []OnceWhileUp
<1>1. MediaInv => OnceWhileUp
  BY DEF MediaInv, TasksOK, OnceWhileUp, Slots
<1>. QED
  BY <1>1, MediaInvariant, PTL

\* What was answered with success is in the snapshot, results of operations
\* told from memory before they were saved excepted (server.ts:76-83, :135-139).
THEOREM AnswersSurvive == Spec => []AnsweredIsDurable
<1>1. Init => ResultsOK
  <2>. SUFFICES ASSUME Init PROVE ResultsOK
    OBVIOUS
  <2>1. Len(tail) = 0 /\ told = {} /\ durable.results = results /\ \A h \in Handlers : ~At(h, "acting")
    BY DEF Init, State, At
  <2>. QED
    BY <2>1 DEF ResultsOK
<1>2. MediaInv /\ ResultsOK /\ [Next]_vars => ResultsOK'
  BY ResultsStep
<1>3. MediaInv /\ ResultsOK => AnsweredIsDurable
  <2>. SUFFICES ASSUME MediaInv, ResultsOK PROVE AnsweredIsDurable
    OBVIOUS
  <2>1. DOMAIN durable.jobs = 1 .. Len(durable.jobs)
    BY CopyFacts DEF MediaInv, SnapshotOK
  <2>2. HangupsEnded(durable.results, durable.jobs)
    BY DEF MediaInv, SnapshotOK, Snapshots, SlotsOK
  <2>3. told \subseteq durable.results \cup early
    BY DEF ResultsOK
  <2>4. \A t \in told \ early : t[1] = "hangup" => durable.jobs[t[2]].status = "completed"
    BY <2>2, <2>3 DEF HangupsEnded
  <2>. QED
    BY <2>1, <2>3, <2>4 DEF MediaInv, SnapshotOK, AnsweredIsDurable
<1>. QED
  BY <1>1, <1>2, <1>3, MediaInvariant, PTL DEF Spec

\* While the process lives, no job is set back and no end is changed
\* (control.ts:233-243, :352).
THEOREM JobsOnlyMoveForward == Spec => JobsMoveForward
<1>1. ASSUME MediaInv, [Next]_vars
      PROVE  [restarts' = restarts =>
                \A r \in JobIds : After(jobs[r].status, jobs'[r].status)]_vars
  <2>1. Grows(jobs, jobs') \/ restarts' # restarts
    BY <1>1, MediaStep
  <2>2. JobIds = 1 .. Len(jobs)
    BY <1>1, InvFacts
  <2>. QED
    BY <2>1, <2>2 DEF Grows
<1>. QED
  BY <1>1, MediaInvariant, PTL DEF Spec, JobsMoveForward
=============================================================================
