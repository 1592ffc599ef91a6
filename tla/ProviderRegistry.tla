-------------------------- MODULE ProviderRegistry --------------------------
(***************************************************************************)
(* Calls to external model providers with failover: ProviderRegistry.invoke*)
(* and ProviderCircuitBreaker of services/provider-runtime/src/index.ts,   *)
(* and invokeWithProviderFailover of http-json-provider.ts, which takes    *)
(* the same course without circuit breakers.                               *)
(*                                                                         *)
(* Providers are numbered in the order of the registry; all of them serve  *)
(* the capability and region that is asked for.  openFor is what is left   *)
(* of openUntil - now, in ticks.  An invocation awaits one provider at a   *)
(* time; everything else it does happens between two awaits.               *)
(***************************************************************************)
EXTENDS Naturals, Sequences, SequencesExt

CONSTANTS
    Invocations,
    NumProviders,
    FailureThreshold,
    Cooldown         \* ticks

ASSUME ProviderAssumption ==
    /\ NumProviders \in Nat \ {0}
    /\ FailureThreshold \in Nat \ {0}
    /\ Cooldown \in Nat \ {0}

VARIABLES
    failures,        \* consecutive failures that a breaker has counted
    openFor,         \* ticks until a breaker lets requests through again
    invocation       \* what each invocation is doing

providerVars == <<failures, openFor, invocation>>

Providers == 1 .. NumProviders

\* An invocation that returned or threw something else is idle again.
\* rest: candidates not yet tried, the smallest is being asked.  signalled: the
\* AbortSignal has fired.  tried, seenOpen: history, which providers it has
\* asked, and which were open at some moment since it began.
Resting == [pc |-> "idle", guarded |-> TRUE, rest |-> {}, signalled |-> FALSE,
            tried |-> <<>>, seenOpen |-> {}]

ProviderTypeOK ==
    /\ failures \in [Providers -> 0 .. FailureThreshold]
    /\ openFor \in [Providers -> 0 .. Cooldown]
    /\ \A c \in Invocations :
        /\ invocation[c].pc \in {"idle", "asking", "exhausted"}
        /\ invocation[c].rest \subseteq Providers
        /\ invocation[c].pc = "asking" => invocation[c].rest # {}

ProviderInit ==
    /\ failures = [i \in Providers |-> 0]
    /\ openFor = [i \in Providers |-> 0]
    /\ invocation = [c \in Invocations |-> Resting]

-----------------------------------------------------------------------------
(* The breaker. *)

\* Mutation: an open circuit does not keep anybody away.
AlwaysRequests(i) == TRUE

CanRequest(i) == openFor[i] = 0

\* Failures above the threshold make no difference to those at it.
CountFailure(i) ==
    LET counted == IF failures[i] < FailureThreshold THEN failures[i] + 1 ELSE failures[i]
    IN  /\ failures' = [failures EXCEPT ![i] = counted]
        /\ openFor' = IF counted = FailureThreshold
                      THEN [openFor EXCEPT ![i] = Cooldown] ELSE openFor

\* Whenever the circuit was opened, a success closes it at once.
CountSuccess(i) ==
    /\ failures' = [failures EXCEPT ![i] = 0]
    /\ openFor' = [openFor EXCEPT ![i] = 0]

-----------------------------------------------------------------------------
(* An invocation. *)

\* Mutation: a circuit that is found open ends the loop.
AdmissibleFirst(v, rest) ==
    IF v.guarded /\ rest # {} /\ ~CanRequest(Min(rest)) THEN {} ELSE rest

\* breaker.execute rejects without asking while the circuit is open, and the
\* loop goes on.
Admissible(v, rest) ==
    IF v.guarded THEN {i \in rest : CanRequest(i)} ELSE rest

\* The loop awaits the next candidate that may be asked, or has none left.
Ask(v, rest) ==
    LET willing == Admissible(v, rest) IN
    IF willing = {} THEN [v EXCEPT !.pc = "exhausted", !.rest = {}]
    ELSE [v EXCEPT !.pc = "asking", !.tried = Append(@, Min(willing)),
                   \* what is behind it is looked at when its turn comes
                   !.rest = {i \in rest : i >= Min(willing)}]

\* Every invocation under way notices which circuits are open.
Noticing(calls, open) ==
    [c \in Invocations |->
        IF calls[c].pc = "asking"
        THEN [calls[c] EXCEPT !.seenOpen = @ \cup {i \in Providers : open[i] > 0}]
        ELSE calls[c]]

Become(c, v) == invocation' = Noticing([invocation EXCEPT ![c] = v], openFor')

\* invoke: the candidates are those whose circuit is closed at the start.
Invoke(c, guarded) ==
    /\ invocation[c].pc = "idle"
    /\ UNCHANGED <<failures, openFor>>
    /\ LET v == [Resting EXCEPT !.guarded = guarded,
                                !.seenOpen = {i \in Providers : openFor[i] > 0}]
       IN  Become(c, Ask(v, Admissible(v, Providers)))

Asked(c) == Min(invocation[c].rest)

ProviderAnswers(c) ==
    /\ invocation[c].pc = "asking"
    /\ IF invocation[c].guarded THEN CountSuccess(Asked(c)) ELSE UNCHANGED <<failures, openFor>>
    /\ Become(c, Resting)

\* A failure that may be retried, of the network, a timeout or the provider.
\* The invocation stops when it has been aborted and asks the next one otherwise.
ProviderFails(c) ==
    /\ invocation[c].pc = "asking"
    /\ IF invocation[c].guarded THEN CountFailure(Asked(c)) ELSE UNCHANGED <<failures, openFor>>
    /\ LET v == invocation[c] IN
       IF v.signalled THEN Become(c, Resting)
       ELSE invocation' =
                LET w == [v EXCEPT !.seenOpen = @ \cup {i \in Providers : openFor'[i] > 0}]
                IN  Noticing([invocation EXCEPT ![c] = Ask(w, v.rest \ {Asked(c)})], openFor')

\* A ProviderHttpError that is not retryable is not counted and ends the call.
ProviderRefuses(c) ==
    /\ invocation[c].pc = "asking"
    /\ UNCHANGED <<failures, openFor>>
    /\ Become(c, Resting)

\* withProviderDeadline, or the caller's own signal.
SignalFires(c) ==
    /\ invocation[c].pc = "asking" /\ ~invocation[c].signalled
    /\ UNCHANGED <<failures, openFor>>
    /\ Become(c, [invocation[c] EXCEPT !.signalled = TRUE])

\* The caller has its ProviderFailoverError, and may invoke again.
Settles(c) ==
    /\ invocation[c].pc = "exhausted"
    /\ UNCHANGED <<failures, openFor>>
    /\ Become(c, Resting)

ProviderTick ==
    /\ \E i \in Providers : openFor[i] > 0
    /\ openFor' = [i \in Providers |-> IF openFor[i] = 0 THEN 0 ELSE openFor[i] - 1]
    /\ UNCHANGED <<failures, invocation>>

ProviderNext ==
    \/ \E c \in Invocations :
        \/ \E guarded \in BOOLEAN : Invoke(c, guarded)
        \/ ProviderAnswers(c) \/ ProviderFails(c) \/ ProviderRefuses(c)
        \/ SignalFires(c) \/ Settles(c)
    \/ ProviderTick

\* Time passes.  Nothing is assumed about providers or callers.
ProviderFairness == WF_providerVars(ProviderTick)

ProviderSpec == ProviderInit /\ [][ProviderNext]_providerVars /\ ProviderFairness

-----------------------------------------------------------------------------
(* Properties. *)

\* "all provider adapters failed" (http-json-provider.ts:81) is the truth: a
\* registry that gives up has asked every provider, in order and once each,
\* except those whose circuit was open at some moment of the call; without
\* breakers it has asked them all.
FailoverIsExhaustive ==
    /\ ProviderTypeOK
    /\ \A c \in Invocations :
        LET v == invocation[c] IN
        /\ \A m, n \in DOMAIN v.tried : m < n => v.tried[m] < v.tried[n]
        /\ v.pc = "exhausted" =>
            Providers = ToSet(v.tried) \cup IF v.guarded THEN v.seenOpen ELSE {}

\* A circuit does not stay open for ever, although calls that began before it
\* opened may fail afterwards and open it again (index.ts:71-77).
OpenCircuitCloses == \A i \in Providers : openFor[i] > 0 ~> openFor[i] = 0
=============================================================================
