---------------------------- MODULE Coordination ----------------------------
(***************************************************************************)
(* What replicas of services/platform-api coordinate through Redis: the    *)
(* lease of redis-coordination.ts on one key, and the rate limit of        *)
(* redis-rate-limit.ts for one caller, with its stand-in for a single      *)
(* process, rate-limit.ts.  Redis runs each script at once; a call or its  *)
(* reply may be lost, and a process may end.  Time passes in ticks.        *)
(*                                                                         *)
(* A lease has a token of its own.  When nobody is left who knows the      *)
(* token that the key has, it is Nobody's.                                 *)
(***************************************************************************)
EXTENDS Integers, FiniteSets

CONSTANTS
    Leases,          \* leases that are asked for or held at a time
    Nobody,
    LeaseTtl,        \* in ticks
    RateLimit,       \* requests per window
    RateWindow       \* in ticks

ASSUME CoordinationAssumption ==
    /\ Nobody \notin Leases
    /\ LeaseTtl \in Nat \ {0}
    /\ RateLimit \in Nat \ {0}
    /\ RateWindow \in Nat \ {0}

VARIABLES
    lease,           \* where each lease is
    validFor,        \* ticks until its expiresAt
    keyToken,        \* the token the key has, Nobody's if keyTtl is 0
    keyTtl,          \* ticks until the key expires, 0 when it does not exist
    counter,         \* the Redis counter, 0 when it does not exist
    counterTtl,
    passed,          \* history: requests let through since the counter began
    windowCount,     \* the local window
    windowAge,
    windowPassed     \* history: requests let through since the window began

leaseVars == <<lease, validFor, keyToken, keyTtl>>
rateVars == <<counter, counterTtl, passed, windowCount, windowAge, windowPassed>>
coordinationVars == <<leaseVars, rateVars>>

LeasePoints == {"free", "asked", "granted", "denied", "held", "releasing"}

CoordinationTypeOK ==
    /\ lease \in [Leases -> LeasePoints]
    /\ validFor \in [Leases -> 0 .. LeaseTtl]
    /\ keyToken \in Leases \cup {Nobody}
    /\ keyTtl \in 0 .. LeaseTtl
    /\ counter \in 0 .. RateLimit + 1
    /\ counterTtl \in 0 .. RateWindow
    /\ passed \in Nat
    /\ windowCount \in 0 .. RateLimit + 1
    /\ windowAge \in 0 .. RateWindow
    /\ windowPassed \in Nat

CoordinationInit ==
    /\ lease = [l \in Leases |-> "free"]
    /\ validFor = [l \in Leases |-> 0]
    /\ keyToken = Nobody /\ keyTtl = 0
    /\ counter = 0 /\ counterTtl = 0 /\ passed = 0
    /\ windowCount = 0 /\ windowAge = RateWindow /\ windowPassed = 0

-----------------------------------------------------------------------------
(* Leases. *)

LeaseTo(l, point) == lease' = [lease EXCEPT ![l] = point]

\* Nobody knows the token of l any more.
Forgotten(l) == keyToken' = IF keyToken = l THEN Nobody ELSE keyToken

\* acquire: the clock is read, the token made, the script sent.
Acquire(l) ==
    /\ lease[l] = "free"
    /\ LeaseTo(l, "asked")
    /\ validFor' = [validFor EXCEPT ![l] = LeaseTtl]
    /\ UNCHANGED <<keyToken, keyTtl, rateVars>>

\* ACQUIRE_SCRIPT: SET NX PX.
AcquireRuns(l) ==
    /\ lease[l] = "asked"
    /\ IF keyTtl = 0
       THEN LeaseTo(l, "granted") /\ keyToken' = l /\ keyTtl' = LeaseTtl
       ELSE LeaseTo(l, "denied") /\ UNCHANGED <<keyToken, keyTtl>>
    /\ UNCHANGED <<validFor, rateVars>>

\* Mutation: the validity counts from the reply.
AnsweredValidNow(l) ==
    /\ lease[l] \in {"granted", "denied"}
    /\ LeaseTo(l, IF lease[l] = "granted" THEN "held" ELSE "free")
    /\ validFor' = [validFor EXCEPT ![l] = IF lease[l] = "granted" THEN LeaseTtl ELSE 0]
    /\ UNCHANGED <<keyToken, keyTtl, rateVars>>

AcquireAnswered(l) ==
    /\ lease[l] \in {"granted", "denied"}
    /\ LeaseTo(l, IF lease[l] = "granted" THEN "held" ELSE "free")
    /\ UNCHANGED <<validFor, keyToken, keyTtl, rateVars>>

\* release: only its first call gets here.
ReleaseLease(l) ==
    /\ lease[l] = "held"
    /\ LeaseTo(l, "releasing")
    /\ UNCHANGED <<validFor, keyToken, keyTtl, rateVars>>

\* RELEASE_SCRIPT: DEL if the key has this token.
ReleaseRuns(l) ==
    /\ lease[l] = "releasing"
    /\ LeaseTo(l, "free")
    /\ IF keyToken = l THEN keyToken' = Nobody /\ keyTtl' = 0
       ELSE UNCHANGED <<keyToken, keyTtl>>
    /\ UNCHANGED <<validFor, rateVars>>

\* A call or its reply is lost, or the process ends.
LeaseLost(l) ==
    /\ lease[l] # "free"
    /\ LeaseTo(l, "free")
    /\ Forgotten(l)
    /\ UNCHANGED <<validFor, keyTtl, rateVars>>

-----------------------------------------------------------------------------
(* Rate limits.  Beyond the limit a count makes no difference and stays. *)

CountedUp(count) == IF count > RateLimit THEN count ELSE count + 1

\* COUNTER_SCRIPT, and what check makes of its result; also when it is lost.
CountRequest ==
    /\ counter' = CountedUp(counter)
    /\ counterTtl' = IF counter = 0 THEN RateWindow ELSE counterTtl
    /\ passed' = IF counter' <= RateLimit THEN passed + 1 ELSE passed
    /\ UNCHANGED <<leaseVars, windowCount, windowAge, windowPassed>>

\* PlatformRateLimiter.check: a window that is over is replaced by a new one.
CheckLocally ==
    LET over == windowAge = RateWindow
        before == IF over THEN 0 ELSE windowCount
    IN  /\ windowCount' = CountedUp(before)
        /\ windowAge' = IF over THEN 0 ELSE windowAge
        /\ windowPassed' = (IF over THEN 0 ELSE windowPassed)
                            + (IF windowCount' <= RateLimit THEN 1 ELSE 0)
        /\ UNCHANGED <<leaseVars, counter, counterTtl, passed>>

-----------------------------------------------------------------------------
CoordinationTick ==
    /\ validFor' = [l \in Leases |-> IF validFor[l] = 0 THEN 0 ELSE validFor[l] - 1]
    /\ keyTtl' = IF keyTtl = 0 THEN 0 ELSE keyTtl - 1
    /\ keyToken' = IF keyTtl <= 1 THEN Nobody ELSE keyToken
    /\ counterTtl' = IF counterTtl = 0 THEN 0 ELSE counterTtl - 1
    /\ counter' = IF counterTtl <= 1 THEN 0 ELSE counter
    /\ passed' = IF counterTtl <= 1 THEN 0 ELSE passed
    /\ windowAge' = IF windowAge = RateWindow THEN windowAge ELSE windowAge + 1
    /\ UNCHANGED <<lease, windowCount, windowPassed>>

CoordinationNext ==
    \/ \E l \in Leases :
        \/ Acquire(l) \/ AcquireRuns(l) \/ AcquireAnswered(l)
        \/ ReleaseLease(l) \/ ReleaseRuns(l) \/ LeaseLost(l)
    \/ CountRequest \/ CheckLocally
    \/ CoordinationTick

CoordinationSpec == CoordinationInit /\ [][CoordinationNext]_coordinationVars

-----------------------------------------------------------------------------
(* Properties. *)

Trusted(l) == lease[l] = "held" /\ validFor[l] > 0

\* As long as a holder has not released its lease and the time it was given is
\* not over, the key has its token, so nobody else holds one: not after late
\* replies, lost calls, crashes or a release that arrives after the expiry
\* (redis-coordination.ts:41-61).
LeaseIsExclusive ==
    /\ \A l \in Leases : Trusted(l) => keyToken = l /\ keyTtl >= validFor[l]
    /\ \A l, k \in Leases : Trusted(l) /\ Trusted(k) => l = k

\* No window lets more requests through than the limit says, and none turns a
\* request away before it has (redis-rate-limit.ts:26-38, rate-limit.ts:23-37).
WindowsHold ==
    /\ passed = IF counter > RateLimit THEN RateLimit ELSE counter
    /\ windowPassed = IF windowCount > RateLimit THEN RateLimit ELSE windowCount

CoordinationHolds == CoordinationTypeOK /\ LeaseIsExclusive /\ WindowsHold
=============================================================================
