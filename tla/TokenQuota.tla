----------------------------- MODULE TokenQuota -----------------------------
(***************************************************************************)
(* Room tokens: the route that issues them (services/platform-api          *)
(* server.ts) and the distributed quota it asks first                      *)
(* (redis-token-quota.ts), for one environment.  Redis runs each script at *)
(* once; the replicas interleave between the calls.                        *)
(*                                                                         *)
(* Redis keeps a counter for the requests of each minute and one for the   *)
(* requests that are being worked on.  All expire.  Time passes in ticks;  *)
(* all replicas read one clock, and read it before they call Redis: a      *)
(* script that runs late counts on the key of a minute that is over.       *)
(***************************************************************************)
EXTENDS Integers, FiniteSets

CONSTANTS
    Replicas,
    Handlers,        \* token requests that a replica works on at a time
    MaxRequests,     \* maxTokenRequestsPerMinute
    MaxConcurrent,   \* maxConcurrentTokenRequests
    MinuteTicks,     \* ticks in a minute, the expiry of a minute's counter
    ConcurrentTtl,   \* expiry of the other counter, in ticks
    MaxLate          \* bound: a script runs at most so many minutes late

ASSUME QuotaAssumption ==
    /\ IsFiniteSet(Replicas) /\ IsFiniteSet(Handlers)
    /\ MaxRequests \in Nat \ {0} /\ MaxConcurrent \in Nat \ {0}
    /\ MinuteTicks \in Nat \ {0} /\ ConcurrentTtl \in Nat \ {0}
    /\ MaxLate \in Nat

VARIABLES
    work,            \* what each handler of each replica is doing
    requests,        \* counter of a minute's requests, for each minute ago
    concurrent,      \* counter of the requests that are being worked on
    phase,           \* how much of the minute has passed
    admitted,        \* history: requests a minute's counter admitted, until
                     \* it expired
    lapsed,          \* history: the minutes whose counter has expired
    undercut         \* history: since the second counter last expired, a
                     \* reservation it did not count was taken off it

vars == <<work, requests, concurrent, phase, admitted, lapsed, undercut>>

Slots == Replicas \X Handlers

\* How long ago a minute was: 0 for the one that runs.
Ago == 0 .. MaxLate

\* mine: the reservation is counted by the counter that is there now.  ago: the
\* minute whose key the script will name.
Idle == [pc |-> "idle", mine |-> FALSE, ago |-> 0]

\* The requests whose reservation was not released.
Holders == {s \in Slots : work[s].pc \in {"issuing", "releasing", "failing"}}

Holding == [pc |-> "issuing", mine |-> TRUE, ago |-> 0]

Absent == [count |-> 0, ttl |-> 0]

minutes == <<requests, admitted, lapsed>>

Init ==
    /\ work = [s \in Slots |-> Idle]
    /\ requests = [a \in Ago |-> Absent]
    /\ concurrent = Absent
    /\ phase = 0
    /\ admitted = [a \in Ago |-> 0]
    /\ lapsed = {}
    /\ undercut = FALSE

-----------------------------------------------------------------------------
(* The scripts. *)

\* INCR; the expiry is set when the counter becomes 1.
Incr(key, ttl) ==
    [count |-> key.count + 1, ttl |-> IF key.count = 0 THEN ttl ELSE key.ttl]

\* Mutation: the counter is compared before it is incremented.
AdmitsOneMore(a) == requests[a].count <= MaxRequests /\ concurrent.count < MaxConcurrent

Admits(a) == requests[a].count < MaxRequests /\ concurrent.count < MaxConcurrent

\* Mutation: every request that asks for a slot renews the slots' expiry.
RunReserveRenews(a) ==
    /\ requests' = [requests EXCEPT ![a] =
                        IF @.count > MaxRequests THEN @ ELSE Incr(@, MinuteTicks)]
    /\ concurrent' = IF requests[a].count >= MaxRequests THEN concurrent
                     ELSE [count |-> concurrent.count + IF Admits(a) THEN 1 ELSE 0,
                           ttl |-> ConcurrentTtl]
    /\ admitted' = [admitted EXCEPT ![a] = IF Admits(a) /\ a \notin lapsed THEN @ + 1 ELSE @]

\* RESERVE_SCRIPT with the key of a minute.  A refused request is counted too;
\* beyond the limit the count makes no difference and stays.
RunReserve(a) ==
    /\ requests' = [requests EXCEPT ![a] =
                        IF @.count > MaxRequests THEN @ ELSE Incr(@, MinuteTicks)]
    /\ concurrent' = IF Admits(a) THEN Incr(concurrent, ConcurrentTtl) ELSE concurrent
    /\ admitted' = [admitted EXCEPT ![a] = IF Admits(a) /\ a \notin lapsed THEN @ + 1 ELSE @]

\* RELEASE_SCRIPT.
RunRelease(s) ==
    IF concurrent.count <= 0 THEN UNCHANGED <<concurrent, undercut>>
    ELSE /\ concurrent' = [concurrent EXCEPT !.count = @ - 1]
         /\ undercut' = (undercut \/ ~work[s].mine)

-----------------------------------------------------------------------------
(* The route. *)

To(s, pc) == work' = [work EXCEPT ![s].pc = pc]
End(s) == work' = [work EXCEPT ![s] = Idle]

\* reserve() reads the clock.
ReadClock(s) ==
    /\ work[s] = Idle
    /\ To(s, "asking")
    /\ UNCHANGED <<minutes, concurrent, phase, undercut>>

\* The script runs; a request it refuses ends.
Reserve(s) ==
    /\ work[s].pc = "asking"
    /\ RunReserve(work[s].ago)
    /\ work' = [work EXCEPT ![s] = IF Admits(@.ago) THEN Holding ELSE Idle]
    /\ UNCHANGED <<phase, lapsed, undercut>>

\* The call or its reply is lost: status 500, and nothing to release.
ReserveFails(s) ==
    /\ work[s].pc = "asking"
    /\ RunReserve(work[s].ago) \/ UNCHANGED <<requests, concurrent, admitted>>
    /\ End(s)
    /\ UNCHANGED <<phase, lapsed, undercut>>

\* A node is found, the token made, usage and audit committed.
Record(s) ==
    /\ work[s].pc = "issuing"
    /\ To(s, "releasing")
    /\ UNCHANGED <<minutes, concurrent, phase, undercut>>

\* No node is admitted, or the issuer or the transaction fails.
IssueFails(s) ==
    /\ work[s].pc = "issuing"
    /\ To(s, "failing")
    /\ UNCHANGED <<minutes, concurrent, phase, undercut>>

Release(s) ==
    /\ work[s].pc = "releasing"
    /\ RunRelease(s)
    /\ To(s, "saving")
    /\ UNCHANGED <<minutes, phase>>

\* Mutation: the release is tried again in the finally clause.
ReleaseTriedAgain(s) ==
    /\ work[s].pc = "releasing"
    /\ RunRelease(s) \/ UNCHANGED <<concurrent, undercut>>
    /\ To(s, "failing")
    /\ UNCHANGED <<minutes, phase>>

\* Redis fails before or after it has run the script.  The release counts as
\* done: the finally clause does not try again.
ReleaseFails(s) ==
    /\ work[s].pc = "releasing"
    /\ RunRelease(s) \/ UNCHANGED <<concurrent, undercut>>
    /\ End(s)
    /\ UNCHANGED <<minutes, phase>>

\* The finally clause releases what a failed request holds.
ReleaseAfterError(s) ==
    /\ work[s].pc = "failing"
    /\ RunRelease(s)
    /\ End(s)
    /\ UNCHANGED <<minutes, phase>>

\* The replica ends, with all it was working on.
Ended(r) == work' = [s \in Slots |-> IF s[1] = r THEN Idle ELSE work[s]]

\* Nobody catches what the finally clause throws, which ends the process.
ReleaseRejects(s) ==
    /\ work[s].pc = "failing"
    /\ RunRelease(s) \/ UNCHANGED <<concurrent, undercut>>
    /\ Ended(s[1])
    /\ UNCHANGED <<minutes, phase>>

\* The snapshot is saved or not: status 201 or 500.
Answer(s) ==
    /\ work[s].pc = "saving"
    /\ End(s)
    /\ UNCHANGED <<minutes, concurrent, phase, undercut>>

Crash(r) ==
    /\ Ended(r)
    /\ UNCHANGED <<minutes, concurrent, phase, undercut>>

\* A counter one tick later.
Aged(key) == IF key.ttl <= 1 THEN Absent ELSE [key EXCEPT !.ttl = @ - 1]

\* The minutes whose counter expires in a tick.
Expiring == {a \in Ago : requests[a].count > 0 /\ Aged(requests[a]) = Absent}

\* A tick within a minute.
SameMinute ==
    /\ requests' = [a \in Ago |-> Aged(requests[a])]
    /\ lapsed' = lapsed \cup Expiring
    /\ admitted' = admitted

\* A tick that begins a minute, which has a counter of its own.
NewMinute ==
    /\ requests' = [a \in Ago |-> IF a = 0 THEN Absent ELSE Aged(requests[a - 1])]
    /\ lapsed' = {a \in Ago \ {0} : a - 1 \in lapsed \cup Expiring}
    /\ admitted' = [a \in Ago |-> IF a = 0 THEN 0 ELSE admitted[a - 1]]

\* A request as the tick finds it.  A script called more than MaxLate minutes
\* ago does not run any more.
Waited(w) ==
    IF w.pc # "asking" \/ phase' # 0 THEN w
    ELSE IF w.ago = MaxLate THEN Idle ELSE [w EXCEPT !.ago = @ + 1]

Tick ==
    /\ phase' = (phase + 1) % MinuteTicks
    /\ IF phase' = 0 THEN NewMinute ELSE SameMinute
    /\ concurrent' = Aged(concurrent)
    /\ work' = [s \in Slots |->
                    [Waited(work[s]) EXCEPT !.mine = @ /\ concurrent' # Absent]]
    /\ undercut' = (undercut /\ concurrent' # Absent)

Next ==
    \/ \E s \in Slots :
          \/ ReadClock(s) \/ Reserve(s) \/ ReserveFails(s) \/ Record(s) \/ IssueFails(s)
          \/ Release(s) \/ ReleaseFails(s) \/ ReleaseAfterError(s)
          \/ ReleaseRejects(s) \/ Answer(s)
    \/ \E r \in Replicas : Crash(r)
    \/ Tick

\* Time passes, whatever the replicas do.
Spec == Init /\ [][Next]_vars /\ WF_vars(Tick)

-----------------------------------------------------------------------------
(* Properties. *)

\* Type correctness; a counter never falls below zero.
TypeOK ==
    /\ work \in [Slots -> [pc : {"idle", "asking", "issuing", "releasing", "failing", "saving"},
                           mine : BOOLEAN, ago : Ago]]
    /\ requests \in [Ago -> [count : 0 .. MaxRequests + 1, ttl : 0 .. MinuteTicks]]
    /\ concurrent \in [count : 0 .. MaxConcurrent, ttl : 0 .. ConcurrentTtl]
    /\ phase \in 0 .. MinuteTicks - 1
    /\ admitted \in [Ago -> Nat]
    /\ lapsed \subseteq Ago
    /\ undercut \in BOOLEAN

\* A minute's counter never expires while the minute runs, and until it does no
\* more of the requests that read the clock in that minute are admitted, by all
\* replicas together, than the policy says, however late their scripts run
\* (redis-token-quota.ts:6-9, :38-41).
MinuteLimit ==
    /\ 0 \notin lapsed
    /\ \A a \in Ago \ lapsed : admitted[a] <= MaxRequests

\* As long as the counter has not expired over a reservation that was held, no
\* more requests are being worked on than the policy says, whatever failed,
\* got lost or crashed (redis-token-quota.ts:10-13, 43-48, server.ts:1766).
ConcurrentLimit ==
    (~undercut /\ \A s \in Holders : work[s].mine)
        => Cardinality(Holders) <= MaxConcurrent

\* The reservations that the counter counts.
Counted == {s \in Holders : work[s].mine}

\* What it counts beyond them was left by a lost reply, a failed release or a
\* crash.
Leaked == concurrent.count > Cardinality(Counted)

\* Such a slot comes back, however busy the environment is: the expiry is not
\* renewed while the counter counts anything (redis-token-quota.ts:11).
SlotsComeBack == Leaked ~> ~Leaked
=============================================================================
