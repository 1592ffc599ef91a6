-------------------------- MODULE AgentRuntimeProofs --------------------------
(***************************************************************************)
(* Proofs about the parts of an agent's runtime: the room connector, the   *)
(* provider registry and the tool policy engine.                           *)
(***************************************************************************)
EXTENDS RoomConnector, ProviderRegistry, ToolPolicy, SequenceTheorems, FiniteSetTheorems,
        WellFoundedInduction, TLAPS

-----------------------------------------------------------------------------
(* Room sessions. *)

\* Joins whose outcome somebody awaits.
Joining(j) == RoomIs(j, "connecting") /\ j \notin unawaited

\* Only rooms that are up are being closed.
ClosingAreUp == \A j \in closing : RoomIs(j, "up")

\* A stored session is open.  The Node connector still listens to its room;
\* the Python one does not, and may keep a room that the network took down.
SessionOpen ==
    session # 0 =>
        \/ Open(session) /\ (IsNode => session \in attended)
        \/ IsPython /\ session \in fell

\* The Node connector listens to a room before it connects.
JoinsListen ==
    \A j \in Joins : IsNode /\ RoomIs(j, "connecting") /\ j \notin signalled => j \in attended

\* Whatever else is open was overwritten, or had nobody to wait for it.
OthersExplained == \A j \in Joins : Open(j) /\ session # j => j \in superseded \cup unawaited

\* Joins that overlap are known to: two that are under way, and one that is
\* under way with the one that has been stored since it began.
OverlapNoted ==
    /\ \A i, j \in Joins : i # j /\ Joining(i) /\ Joining(j) => i \in overlapped
    /\ session # 0 => \A j \in Joins : Joining(j) => session \in overlapped
    /\ superseded \subseteq overlapped

RoomInv ==
    /\ RoomTypeOK
    /\ ClosingAreUp
    /\ SessionOpen
    /\ OthersExplained
    /\ OverlapNoted
    /\ JoinsListen

LEMMA RoomInvInit == RoomInit => RoomInv
BY RoomAssumption DEF RoomInit, RoomInv, RoomTypeOK, ClosingAreUp, SessionOpen, OthersExplained,
    OverlapNoted, JoinsListen, Joining, Open, RoomIs, Joins

\* The beginning and the end of a join.
LEMMA JoinKeeps ==
    ASSUME RoomInv, NEW j \in Joins,
           \/ Join(j) \/ Connected(j) \/ ConnectedTooLate(j) \/ ConnectedUnawaited(j)
           \/ ConnectFails(j) \/ JoinCancelled(j) \/ JoinTaskCancelled(j)
    PROVE  RoomInv'
<1> USE DEF RoomInv, RoomIs, RoomTo
<1>1. /\ \A i \in Joins \ {j} : room'[i] = room[i]
      /\ j \notin closing /\ connector' = connector
      /\ superseded \subseteq superseded' /\ unawaited \subseteq unawaited'
      /\ overlapped \subseteq overlapped' /\ fell' = fell
  BY DEF RoomTypeOK, ClosingAreUp, Join, Connected, ConnectedTooLate, ConnectedUnawaited,
     ConnectFails, JoinCancelled, JoinTaskCancelled
<1>2. RoomTypeOK'
  <2>1. CASE Join(j)
    BY <2>1 DEF Join, RoomTypeOK
  <2>2. CASE Connected(j)
    BY <2>2, RoomAssumption DEF Connected, RoomTypeOK, Joins
  <2>3. CASE \/ ConnectedTooLate(j) \/ ConnectedUnawaited(j) \/ ConnectFails(j) \/ JoinCancelled(j)
             \/ JoinTaskCancelled(j)
    BY <2>3 DEF RoomTypeOK, ConnectedTooLate, ConnectedUnawaited, ConnectFails, JoinCancelled,
                JoinTaskCancelled
  <2> QED
    BY <2>1, <2>2, <2>3
<1>3. ClosingAreUp'
  BY <1>1 DEF RoomTypeOK, ClosingAreUp, Join, Connected, ConnectedTooLate, ConnectedUnawaited,
     ConnectFails, JoinCancelled, JoinTaskCancelled
<1>4. SessionOpen'
  <2>1. CASE Connected(j)
    <3>1. session' = j /\ room'[j] = "up" /\ closing' = closing /\ attended' = attended
      BY <2>1 DEF Connected, RoomTypeOK
    <3>2. IsNode => j \in attended
      BY <2>1 DEF Connected, JoinsListen
    <3> QED
      BY <1>1, <3>1, <3>2 DEF SessionOpen, Open, IsNode
  <2>2. CASE ~Connected(j)
    <3>1. /\ session' = session /\ closing' \subseteq closing \cup {j}
          /\ attended \ {j} \subseteq attended'
      BY <2>2 DEF Join, ConnectedTooLate, ConnectedUnawaited, ConnectFails, JoinCancelled,
                  JoinTaskCancelled
    <3>2. session # 0 => session # j \/ (IsPython /\ session \in fell)
      BY <2>2 DEF SessionOpen, Open, Join, ConnectedTooLate, ConnectedUnawaited, ConnectFails,
                  JoinCancelled, JoinTaskCancelled
    <3>3. session # 0 => session \in Joins
      BY DEF RoomTypeOK, Joins
    <3> QED
      BY <1>1, <3>1, <3>2, <3>3 DEF SessionOpen, Open, IsNode, IsPython
  <2> QED
    BY <2>1, <2>2
<1>5. OthersExplained'
  <2> SUFFICES ASSUME NEW i \in Joins, Open(i)', session' # i PROVE i \in superseded' \cup unawaited'
    BY DEF OthersExplained
  <2>1. CASE i = j
    BY <2>1 DEF RoomTypeOK, Open, Join, Connected, ConnectedTooLate, ConnectedUnawaited,
                ConnectFails, JoinCancelled, JoinTaskCancelled
  <2>2. CASE i # j
    <3>1. room'[i] = room[i] /\ (i \in closing => i \in closing')
      BY <1>1, <2>2 DEF Join, Connected, ConnectedTooLate, ConnectedUnawaited,
                ConnectFails, JoinCancelled, JoinTaskCancelled
    <3>2. Open(i)
      BY <3>1 DEF Open
    <3>3. session' = session \/ superseded' = superseded \cup ({session} \ {0})
      BY DEF Join, Connected, ConnectedTooLate, ConnectedUnawaited, ConnectFails, JoinCancelled,
             JoinTaskCancelled
    <3>4. i # 0
      BY DEF Joins
    <3> QED
      BY <1>1, <3>2, <3>3, <3>4 DEF OthersExplained
  <2> QED
    BY <2>1, <2>2
<1>6. OverlapNoted'
  <2> USE DEF RoomTypeOK, OverlapNoted, Joining
  <2>1. CASE Join(j)
    BY <2>1 DEF Join
  <2>2. CASE Connected(j)
    BY <2>2 DEF Connected
  <2>3. CASE \/ ConnectedTooLate(j) \/ ConnectedUnawaited(j) \/ ConnectFails(j) \/ JoinCancelled(j)
             \/ JoinTaskCancelled(j)
    BY <2>3 DEF ConnectedTooLate, ConnectedUnawaited, ConnectFails, JoinCancelled, JoinTaskCancelled
  <2> QED
    BY <2>1, <2>2, <2>3
<1>7. JoinsListen'
  BY <1>1 DEF JoinsListen, RoomTypeOK, IsNode, Join, Connected, ConnectedTooLate,
     ConnectedUnawaited, ConnectFails, JoinCancelled, JoinTaskCancelled
<1> QED
  BY <1>2, <1>3, <1>4, <1>5, <1>6, <1>7

\* The end of a session.
LEMMA LeaveKeeps ==
    ASSUME RoomInv,
           PythonLeaves \/ \E j \in Joins : NodeCloses(j) \/ NodeAborts(j) \/ Disconnected(j) \/ ConnectionLost(j)
    PROVE  RoomInv'
<1> USE DEF RoomInv, RoomIs, RoomTo
<1>1. CASE PythonLeaves
  BY <1>1, RoomAssumption DEF PythonLeaves, RoomTypeOK, ClosingAreUp, SessionOpen, OthersExplained,
     OverlapNoted, JoinsListen, Joining, Open, Joins, IsPython, IsNode
<1>2. ASSUME NEW j \in Joins, NodeCloses(j) \/ NodeAborts(j) PROVE RoomInv'
  <2>1. /\ UNCHANGED <<connector, room, overlapped, superseded, unawaited, fell>>
        /\ Close(j) /\ Returned(j)
        /\ signalled \subseteq signalled' /\ signalled' \subseteq signalled \cup {j}
    BY <1>2 DEF NodeCloses, NodeAborts
  <2>2. RoomTypeOK' /\ ClosingAreUp'
    BY <2>1, RoomAssumption DEF Close, Returned, RoomTypeOK, ClosingAreUp
  <2>3. SessionOpen' /\ OthersExplained' /\ OverlapNoted' /\ JoinsListen'
    BY <2>1 DEF Close, Returned, SessionOpen, OthersExplained, OverlapNoted, JoinsListen, Joining,
                Open, IsNode, IsPython
  <2> QED
    BY <2>2, <2>3
<1>3. ASSUME NEW j \in Joins, Disconnected(j) PROVE RoomInv'
  <2>1. RoomTypeOK' /\ ClosingAreUp'
    BY <1>3 DEF Disconnected, RoomTypeOK, ClosingAreUp
  <2>2. SessionOpen' /\ OthersExplained'
    BY <1>3 DEF Disconnected, RoomTypeOK, SessionOpen, OthersExplained, Open, IsNode, IsPython, Joins
  <2>3. OverlapNoted' /\ JoinsListen'
    BY <1>3 DEF Disconnected, RoomTypeOK, OverlapNoted, Joining, JoinsListen, IsNode
  <2> QED
    BY <2>1, <2>2, <2>3
<1>4. ASSUME NEW j \in Joins, ConnectionLost(j) PROVE RoomInv'
  <2>1. RoomTypeOK' /\ ClosingAreUp'
    BY <1>4, RoomAssumption DEF ConnectionLost, RoomTypeOK, ClosingAreUp
  <2>2. SessionOpen' /\ OthersExplained'
    BY <1>4 DEF ConnectionLost, RoomTypeOK, SessionOpen, OthersExplained, Open, IsNode, IsPython, Joins
  <2>3. OverlapNoted' /\ JoinsListen'
    BY <1>4 DEF ConnectionLost, RoomTypeOK, OverlapNoted, Joining, JoinsListen, IsNode, Joins
  <2> QED
    BY <2>1, <2>2, <2>3
<1> QED
  BY <1>1, <1>2, <1>3, <1>4

\* The session that is stored is an open room, but for one that a Python
\* worker has not noticed is gone; and any other open room was overwritten by
\* a join that overlapped with its own, or left behind by a cancelled task.
THEOREM RoomsAreAccounted == RoomSpec => []RoomsAccounted
<1>1. RoomInv /\ [RoomNext]_roomVars => RoomInv'
  <2> SUFFICES ASSUME RoomInv, [RoomNext]_roomVars PROVE RoomInv'
    OBVIOUS
  <2>1. CASE RoomNext
    BY <2>1, JoinKeeps, LeaveKeeps DEF RoomNext
  <2>2. CASE UNCHANGED roomVars
    BY <2>2 DEF roomVars, RoomInv, RoomTypeOK, ClosingAreUp, SessionOpen, OthersExplained,
                OverlapNoted, JoinsListen, Joining, Open, RoomIs, IsNode, IsPython
  <2> QED
    BY <2>1, <2>2
<1>2. RoomInv => RoomsAccounted
  BY DEF RoomInv, SessionOpen, OthersExplained, OverlapNoted, RoomsAccounted
<1> QED
  BY <1>1, <1>2, RoomInvInit, PTL DEF RoomSpec

-----------------------------------------------------------------------------
(* Provider failover. *)

\* A set of numbers that is not empty has a least element.
LEMMA MinProperties ==
    ASSUME NEW S \in SUBSET Nat, S # {}
    PROVE  Min(S) \in S /\ \A y \in S : Min(S) <= y
<1> DEFINE R == {ss \in Nat \X Nat : ss[1] < ss[2]}
<1>1. IsWellFoundedOn(R, Nat)
  BY NatLessThanWellFounded DEF OpToRel
<1>2. PICK x \in S : \A y \in S : ~ (<<y, x>> \in R)
  <2> HIDE DEF R
  <2> QED
    BY <1>1, WFMin
<1>3. \A y \in S : x <= y
  <2> SUFFICES ASSUME NEW y \in S PROVE x <= y
    OBVIOUS
  <2>1. <<y, x>> \in Nat \X Nat /\ <<y, x>>[1] = y /\ <<y, x>>[2] = x
    OBVIOUS
  <2>2. <<y, x>> \notin R
    BY <1>2
  <2> QED
    BY <2>1, <2>2
<1> QED
  BY <1>3 DEF Min

Invocation ==
    [pc : {"idle", "asking", "exhausted"}, guarded : BOOLEAN, rest : SUBSET Providers,
     signalled : BOOLEAN, tried : Seq(Providers), seenOpen : SUBSET Providers]

Increasing(s) == \A m, n \in DOMAIN s : m < n => s[m] < s[n]

\* A provider need not be asked: it has been, or was seen open.
DoneWith(v, i) == (\E m \in DOMAIN v.tried : v.tried[m] = i) \/ (v.guarded /\ i \in v.seenOpen)

\* What is under way: the last one it asked is the first of the rest, and
\* whatever is not in the rest is done with.
InvocationOK(v) ==
    /\ v \in Invocation
    /\ Increasing(v.tried)
    /\ v.pc = "asking" =>
        /\ v.tried # << >> /\ v.rest # {}
        /\ v.tried[Len(v.tried)] = Min(v.rest)
        /\ \A i \in Providers \ v.rest : DoneWith(v, i)
    /\ v.pc = "exhausted" => \A i \in Providers : DoneWith(v, i)

ProviderInv ==
    /\ failures \in [Providers -> 0 .. FailureThreshold]
    /\ openFor \in [Providers -> 0 .. Cooldown]
    /\ invocation \in [Invocations -> Invocation]
    /\ \A c \in Invocations : InvocationOK(invocation[c])

OpenIn(open) == {i \in Providers : open[i] > 0}

LEMMA RestingOK == Resting \in Invocation /\ InvocationOK(Resting)
<1>1. << >> \in Seq(Providers) /\ DOMAIN << >> = {}
  BY EmptySeq
<1> QED
  BY <1>1 DEF Resting, InvocationOK, Invocation, Increasing

\* To notice an open circuit does an invocation no harm.
LEMMA NoticingKeeps ==
    ASSUME NEW calls \in [Invocations -> Invocation], NEW open,
           \A c \in Invocations : InvocationOK(calls[c])
    PROVE  /\ Noticing(calls, open) \in [Invocations -> Invocation]
           /\ \A c \in Invocations : InvocationOK(Noticing(calls, open)[c])
<1> SUFFICES ASSUME NEW c \in Invocations
             PROVE  Noticing(calls, open)[c] \in Invocation /\ InvocationOK(Noticing(calls, open)[c])
  BY DEF Noticing
<1> DEFINE v == calls[c]
           w == [v EXCEPT !.seenOpen = @ \cup {i \in Providers : open[i] > 0}]
<1>1. Noticing(calls, open)[c] = IF v.pc = "asking" THEN w ELSE v
  BY DEF Noticing
<1>2. v \in Invocation /\ InvocationOK(v)
  OBVIOUS
<1> HIDE DEF v
<1>3. /\ w \in Invocation /\ w.tried = v.tried /\ w.pc = v.pc /\ w.rest = v.rest
      /\ \A i \in Providers : DoneWith(v, i) => DoneWith(w, i)
  BY <1>2 DEF Invocation, DoneWith
<1>4. InvocationOK(w)
  <2> HIDE DEF w
  <2> QED
    BY <1>2, <1>3 DEF InvocationOK
<1> QED
  BY <1>1, <1>2, <1>3, <1>4

\* The loop of an invocation that is done with everything but rest, which is
\* behind what it has tried.
LEMMA AskKeeps ==
    ASSUME NEW v \in Invocation, NEW rest \in SUBSET Providers,
           Increasing(v.tried),
           \A m \in DOMAIN v.tried : \A i \in rest : v.tried[m] < i,
           \A i \in Providers \ rest : DoneWith(v, i),
           v.guarded => \A i \in rest : CanRequest(i) \/ i \in v.seenOpen
    PROVE  Ask(v, rest) \in Invocation /\ InvocationOK(Ask(v, rest))
<1> DEFINE willing == Admissible(v, rest)
           next == Min(willing)
<1>1. willing \subseteq rest /\ \A i \in rest \ willing : DoneWith(v, i)
  BY DEF Admissible, DoneWith
<1>2. CASE willing = {}
  <2> DEFINE w == [v EXCEPT !.pc = "exhausted", !.rest = {}]
  <2>1. Ask(v, rest) = w
    BY <1>2 DEF Ask
  <2>2. /\ w \in Invocation /\ w.tried = v.tried /\ w.guarded = v.guarded /\ w.seenOpen = v.seenOpen
        /\ w.pc = "exhausted"
    BY DEF Invocation
  <2> HIDE DEF w
  <2> QED
    BY <1>1, <1>2, <2>1, <2>2 DEF InvocationOK, DoneWith
<1>3. CASE willing # {}
  <2>1. Providers \subseteq Nat
    BY DEF Providers
  <2>2. next \in willing /\ \A i \in willing : next <= i
    BY <1>1, <1>3, <2>1, MinProperties
  <2> DEFINE w == [v EXCEPT !.pc = "asking", !.tried = Append(@, next),
                            !.rest = {i \in rest : i >= next}]
  <2>3. Ask(v, rest) = w
    BY <1>3 DEF Ask
  <2>4. v.tried \in Seq(Providers) /\ next \in Providers
    BY <1>1, <2>2 DEF Invocation
  <2> DEFINE t == Append(v.tried, next)
  <2>5. /\ t \in Seq(Providers) /\ t # << >> /\ Len(t) = Len(v.tried) + 1
        /\ \A m \in 1 .. Len(v.tried) : t[m] = v.tried[m]
        /\ t[Len(v.tried) + 1] = next
    BY <2>4, AppendProperties
  <2>6. /\ DOMAIN t = 1 .. Len(v.tried) + 1 /\ DOMAIN v.tried = 1 .. Len(v.tried)
        /\ Len(v.tried) \in Nat
    BY <2>4, <2>5, LenProperties
  <2>7. /\ w \in Invocation /\ w.tried = t /\ w.guarded = v.guarded /\ w.seenOpen = v.seenOpen
        /\ w.pc = "asking" /\ w.rest = {i \in rest : i >= next}
    BY <2>4, <2>5 DEF Invocation
  <2> HIDE DEF t, w, next, willing
  <2>8. Increasing(t)
    <3> SUFFICES ASSUME NEW m \in DOMAIN t, NEW n \in DOMAIN t, m < n PROVE t[m] < t[n]
      BY DEF Increasing
    <3>1. m \in DOMAIN v.tried /\ t[m] = v.tried[m]
      BY <2>5, <2>6
    <3>2. CASE n \in DOMAIN v.tried
      BY <2>5, <2>6, <3>1, <3>2 DEF Increasing
    <3>3. CASE n = Len(v.tried) + 1
      BY <1>1, <2>2, <2>5, <3>1, <3>3
    <3> QED
      BY <2>6, <3>2, <3>3
  <2>9. Min(w.rest) = next
    <3>1. next \in w.rest /\ w.rest \in SUBSET Nat
      BY <1>1, <2>1, <2>2, <2>7
    <3>2. Min(w.rest) \in w.rest /\ Min(w.rest) <= next
      BY <3>1, MinProperties
    <3> QED
      BY <2>1, <2>4, <2>7, <3>1, <3>2
  <2>10. \A i \in Providers : DoneWith(v, i) => DoneWith(w, i)
    BY <2>5, <2>6, <2>7 DEF DoneWith
  <2>11. \A i \in Providers \ w.rest : DoneWith(w, i)
    <3> SUFFICES ASSUME NEW i \in Providers, i \notin w.rest PROVE DoneWith(w, i)
      OBVIOUS
    <3>1. CASE i \in rest
      <4>1. i \notin willing
        BY <2>1, <2>2, <2>4, <2>7, <3>1
      <4> QED
        BY <1>1, <2>10, <3>1, <4>1
    <3>2. CASE i \notin rest
      BY <2>10, <3>2
    <3> QED
      BY <3>1, <3>2
  <2> QED
    BY <1>1, <2>2, <2>3, <2>5, <2>7, <2>8, <2>9, <2>11 DEF InvocationOK
<1> QED
  BY <1>2, <1>3

\* An invocation under way is done with what it is asking and tries the rest.
LEMMA AskedIsFirst ==
    ASSUME ProviderInv, NEW c \in Invocations, invocation[c].pc = "asking"
    PROVE  LET v == invocation[c]
               rest == v.rest \ {Asked(c)}
           IN  /\ Asked(c) \in Providers
               /\ \A m \in DOMAIN v.tried : \A i \in rest : v.tried[m] < i
               /\ \A i \in Providers \ rest : DoneWith(v, i)
<1> DEFINE v == invocation[c]
           rest == v.rest \ {Asked(c)}
<1>1. v \in Invocation /\ InvocationOK(v) /\ v.pc = "asking"
  BY DEF ProviderInv
<1>2. v.rest \in SUBSET Nat /\ v.rest # {} /\ v.rest \subseteq Providers
  BY <1>1 DEF InvocationOK, Invocation, Providers
<1>3. Asked(c) \in v.rest /\ \A i \in v.rest : Asked(c) <= i
  BY <1>2, MinProperties DEF Asked
<1>4. /\ Len(v.tried) \in Nat /\ DOMAIN v.tried = 1 .. Len(v.tried)
      /\ \A m \in DOMAIN v.tried : v.tried[m] \in Providers
      /\ v.tried # << >>
  BY <1>1, LenProperties, ElementOfSeq DEF Invocation, InvocationOK
<1>5. Len(v.tried) \in DOMAIN v.tried
  BY <1>1, <1>4, EmptySeq DEF Invocation
<1>6. v.tried[Len(v.tried)] = Asked(c)
  BY <1>1 DEF InvocationOK, Asked
<1> HIDE DEF v
<1>7. \A m \in DOMAIN v.tried : v.tried[m] <= Asked(c)
  <2> SUFFICES ASSUME NEW m \in DOMAIN v.tried PROVE v.tried[m] <= Asked(c)
    OBVIOUS
  <2>1. m = Len(v.tried) \/ m < Len(v.tried)
    BY <1>4
  <2> QED
    BY <1>1, <1>2, <1>3, <1>4, <1>5, <1>6, <2>1 DEF InvocationOK, Increasing, Providers
<1>8. \A m \in DOMAIN v.tried : \A i \in rest : v.tried[m] < i
  BY <1>2, <1>3, <1>4, <1>7 DEF Providers
<1>9. \A i \in Providers \ rest : DoneWith(v, i)
  BY <1>1, <1>5, <1>6 DEF InvocationOK, DoneWith
<1> QED
  BY <1>2, <1>3, <1>8, <1>9 DEF v

\* An invocation changes, the others notice what is open.
LEMMA BecomeKeeps ==
    ASSUME ProviderInv, NEW c \in Invocations, NEW v \in Invocation, InvocationOK(v),
           invocation' = Noticing([invocation EXCEPT ![c] = v], openFor')
    PROVE  /\ invocation' \in [Invocations -> Invocation]
           /\ \A d \in Invocations : InvocationOK(invocation'[d])
<1> DEFINE calls == [invocation EXCEPT ![c] = v] open == openFor'
<1>1. /\ calls \in [Invocations -> Invocation]
      /\ \A d \in Invocations : InvocationOK(calls[d])
  BY DEF ProviderInv
<1>2. invocation' = Noticing(calls, open)
  OBVIOUS
<1> HIDE DEF calls, open
<1> QED
  BY <1>1, <1>2, NoticingKeeps

\* The breakers keep their types, and move only for the provider asked.
LEMMA BreakersTyped ==
    ASSUME ProviderInv, NEW i \in Providers,
           CountFailure(i) \/ CountSuccess(i) \/ UNCHANGED <<failures, openFor>>
    PROVE  /\ failures' \in [Providers -> 0 .. FailureThreshold]
           /\ openFor' \in [Providers -> 0 .. Cooldown]
           /\ \A j \in Providers \ {i} : openFor'[j] = openFor[j]
<1>1. CASE CountFailure(i)
  <2> DEFINE counted == IF failures[i] < FailureThreshold THEN failures[i] + 1 ELSE failures[i]
  <2>1. counted \in 0 .. FailureThreshold /\ Cooldown \in 0 .. Cooldown
    BY ProviderAssumption DEF ProviderInv
  <2>2. /\ failures' = [failures EXCEPT ![i] = counted]
        /\ openFor' = openFor \/ openFor' = [openFor EXCEPT ![i] = Cooldown]
    BY <1>1 DEF CountFailure
  <2> HIDE DEF counted
  <2> QED
    BY <2>1, <2>2 DEF ProviderInv
<1>2. CASE CountSuccess(i)
  BY <1>2, ProviderAssumption DEF CountSuccess, ProviderInv
<1>3. CASE UNCHANGED <<failures, openFor>>
  BY <1>3 DEF ProviderInv
<1> QED
  BY <1>1, <1>2, <1>3

LEMMA InvokeKeeps ==
    ASSUME ProviderInv, NEW c \in Invocations, NEW guarded \in BOOLEAN, Invoke(c, guarded)
    PROVE  ProviderInv'
<1> DEFINE v == [Resting EXCEPT !.guarded = guarded,
                                !.seenOpen = {i \in Providers : openFor[i] > 0}]
           rest == Admissible(v, Providers)
<1>1. << >> \in Seq(Providers) /\ DOMAIN << >> = {}
  BY EmptySeq
<1>2. /\ v \in Invocation /\ v.tried = << >> /\ v.guarded = guarded
      /\ v.seenOpen = {i \in Providers : openFor[i] > 0}
  BY <1>1 DEF Resting, Invocation
<1>3. UNCHANGED <<failures, openFor>> /\ Become(c, Ask(v, rest))
  BY DEF Invoke
<1> HIDE DEF v
<1>4. rest \in SUBSET Providers
  BY DEF Admissible
<1>5. \A i \in Providers : CanRequest(i) \/ i \in v.seenOpen
  BY <1>2, ProviderAssumption DEF CanRequest, ProviderInv
<1>6. \A i \in Providers \ rest : DoneWith(v, i)
  BY <1>5 DEF Admissible, DoneWith
<1>7. Increasing(v.tried) /\ \A m \in DOMAIN v.tried : \A i \in rest : v.tried[m] < i
  BY <1>1, <1>2 DEF Increasing
<1> HIDE DEF rest
<1>8. Ask(v, rest) \in Invocation /\ InvocationOK(Ask(v, rest))
  BY <1>2, <1>4, <1>5, <1>6, <1>7, AskKeeps
<1> QED
  BY <1>3, <1>8, BecomeKeeps DEF Become, ProviderInv

LEMMA OutcomeKeeps ==
    ASSUME ProviderInv, NEW c \in Invocations,
           ProviderAnswers(c) \/ ProviderFails(c) \/ ProviderRefuses(c)
    PROVE  ProviderInv'
<1> DEFINE v == invocation[c]
           rest == v.rest \ {Asked(c)}
           w == [v EXCEPT !.seenOpen = @ \cup {i \in Providers : openFor'[i] > 0}]
<1>1. v \in Invocation /\ InvocationOK(v) /\ v.pc = "asking"
  BY DEF ProviderInv, ProviderAnswers, ProviderFails, ProviderRefuses
<1>2. /\ Asked(c) \in Providers
      /\ \A m \in DOMAIN v.tried : \A i \in rest : v.tried[m] < i
      /\ \A i \in Providers \ rest : DoneWith(v, i)
  BY <1>1, AskedIsFirst
<1>3. CountFailure(Asked(c)) \/ CountSuccess(Asked(c)) \/ UNCHANGED <<failures, openFor>>
  BY DEF ProviderAnswers, ProviderFails, ProviderRefuses
<1>4. /\ failures' \in [Providers -> 0 .. FailureThreshold]
      /\ openFor' \in [Providers -> 0 .. Cooldown]
      /\ \A j \in Providers \ {Asked(c)} : openFor'[j] = openFor[j]
  BY <1>2, <1>3, BreakersTyped
<1>5. CASE Become(c, Resting)
  BY <1>4, <1>5, RestingOK, BecomeKeeps DEF Become, ProviderInv
<1>6. CASE invocation' = Noticing([invocation EXCEPT ![c] = Ask(w, rest)], openFor')
  <2>1. /\ w \in Invocation /\ w.tried = v.tried /\ w.guarded = v.guarded
        /\ w.seenOpen = v.seenOpen \cup {i \in Providers : openFor'[i] > 0}
    BY <1>1 DEF Invocation
  <2>2. rest \in SUBSET Providers /\ Increasing(v.tried)
    BY <1>1 DEF Invocation, InvocationOK
  <2> HIDE DEF w, v
  <2>3. \A i \in Providers \ rest : DoneWith(w, i)
    BY <1>2, <2>1 DEF DoneWith
  <2>4. \A i \in rest : CanRequest(i) \/ i \in w.seenOpen
    BY <1>4, <2>1, <2>2, ProviderAssumption DEF CanRequest
  <2> HIDE DEF rest
  <2>5. Ask(w, rest) \in Invocation /\ InvocationOK(Ask(w, rest))
    BY <1>2, <2>1, <2>2, <2>3, <2>4, AskKeeps
  <2> QED
    BY <1>4, <1>6, <2>5, BecomeKeeps DEF ProviderInv
<1> QED
  BY <1>5, <1>6 DEF ProviderAnswers, ProviderFails, ProviderRefuses

LEMMA OtherProviderStepsKeep ==
    ASSUME ProviderInv,
           ProviderTick \/ \E c \in Invocations : SignalFires(c) \/ Settles(c)
    PROVE  ProviderInv'
<1>1. CASE ProviderTick
  BY <1>1, ProviderAssumption DEF ProviderTick, ProviderInv
<1>2. ASSUME NEW c \in Invocations, Settles(c) PROVE ProviderInv'
  BY <1>2, RestingOK, BecomeKeeps DEF Settles, Become, ProviderInv
<1>3. ASSUME NEW c \in Invocations, SignalFires(c) PROVE ProviderInv'
  <2> DEFINE v == invocation[c] w == [v EXCEPT !.signalled = TRUE]
  <2>1. v \in Invocation /\ InvocationOK(v)
    BY DEF ProviderInv
  <2>2. /\ w \in Invocation /\ w.tried = v.tried /\ w.guarded = v.guarded
        /\ w.seenOpen = v.seenOpen /\ w.pc = v.pc /\ w.rest = v.rest
    BY <2>1 DEF Invocation
  <2>3. UNCHANGED <<failures, openFor>> /\ Become(c, w)
    BY <1>3 DEF SignalFires
  <2> HIDE DEF v, w
  <2>4. InvocationOK(w)
    BY <2>1, <2>2 DEF InvocationOK, DoneWith
  <2> QED
    BY <2>2, <2>3, <2>4, BecomeKeeps DEF Become, ProviderInv
<1> QED
  BY <1>1, <1>2, <1>3

\* A registry that gives up has asked every provider, in order and once each,
\* but for those it saw open; without breakers it has asked all of them.
THEOREM FailoverExhausts == ProviderSpec => []FailoverIsExhaustive
<1>1. ProviderInit => ProviderInv
  BY RestingOK, ProviderAssumption DEF ProviderInit, ProviderInv
<1>2. ProviderInv /\ [ProviderNext]_providerVars => ProviderInv'
  <2> SUFFICES ASSUME ProviderInv, [ProviderNext]_providerVars PROVE ProviderInv'
    OBVIOUS
  <2>1. CASE ProviderNext
    BY <2>1, InvokeKeeps, OutcomeKeeps, OtherProviderStepsKeep DEF ProviderNext
  <2>2. CASE UNCHANGED providerVars
    BY <2>2 DEF providerVars, ProviderInv, InvocationOK, DoneWith
  <2> QED
    BY <2>1, <2>2
<1>3. ProviderInv => FailoverIsExhaustive
  <2> SUFFICES ASSUME ProviderInv PROVE FailoverIsExhaustive
    OBVIOUS
  <2>1. ASSUME NEW c \in Invocations
        PROVE  LET v == invocation[c] IN
               /\ v.pc \in {"idle", "asking", "exhausted"} /\ v.rest \subseteq Providers
               /\ v.pc = "asking" => v.rest # {}
               /\ \A m, n \in DOMAIN v.tried : m < n => v.tried[m] < v.tried[n]
               /\ v.pc = "exhausted" =>
                    Providers = ToSet(v.tried) \cup IF v.guarded THEN v.seenOpen ELSE {}
    <3> DEFINE v == invocation[c]
    <3>1. v \in Invocation /\ InvocationOK(v)
      BY DEF ProviderInv
    <3> HIDE DEF v
    <3>2. ToSet(v.tried) \subseteq Providers
      <4>1. \A m \in 1 .. Len(v.tried) : v.tried[m] \in Providers
        BY <3>1, ElementOfSeq DEF Invocation
      <4> QED
        BY <3>1, <4>1, LenProperties DEF ToSet, Invocation
    <3>3. v.pc = "exhausted" =>
            Providers = ToSet(v.tried) \cup IF v.guarded THEN v.seenOpen ELSE {}
      BY <3>1, <3>2 DEF InvocationOK, Invocation, DoneWith, ToSet
    <3>4. /\ v.pc \in {"idle", "asking", "exhausted"} /\ v.rest \subseteq Providers
          /\ v.pc = "asking" => v.rest # {}
          /\ \A m, n \in DOMAIN v.tried : m < n => v.tried[m] < v.tried[n]
      BY <3>1 DEF InvocationOK, Invocation, Increasing
    <3> QED
      BY <3>3, <3>4 DEF v
  <2>2. ProviderTypeOK
    BY <2>1 DEF ProviderTypeOK, ProviderInv
  <2> QED
    BY <2>1, <2>2 DEF FailoverIsExhaustive
<1> QED
  BY <1>1, <1>2, <1>3, PTL DEF ProviderSpec

-----------------------------------------------------------------------------
(* The tool policy engine. *)

\* What a process knows of a key: a run that looks for a result, or makes one,
\* has none remembered, later ones have it in hand; only that one is returned.
Remembers(p, k) ==
    /\ ranHere[p][k] <= 1
    /\ ranHere[p][k] > 0 => completed[p][k] # 0
    /\ RunAt(p, k, {"fetching", "executing"}) => completed[p][k] = 0
    /\ RunAt(p, k, {"replaying", "storing", "recording"}) =>
        completed[p][k] # 0 /\ runHeld[p][k] = completed[p][k]
    /\ returned[p][k] \subseteq {completed[p][k]}
    /\ completed[p][k] = 0 => returned[p][k] = {}
    /\ returned[p][k] \subseteq audited[k]

\* Unless it is excused, a key has one committed run at most; a tool that is
\* running has no result yet; a result is in the store or on its way there.
OneRun(k) == k \notin excused =>
    /\ \A p, q \in ToolProcesses : Committed(p, k) /\ Committed(q, k) => p = q
    /\ \A p \in ToolProcesses : RunAt(p, k, {"executing"}) => executions[k] = 0
    /\ executions[k] <= 1
    /\ executions[k] = 1 =>
        storedResult[k] # 0 \/ \E p \in ToolProcesses : RunAt(p, k, {"storing"})

ToolInv ==
    /\ ToolTypeOK
    /\ \A p \in ToolProcesses, k \in ToolKeys : Remembers(p, k)
    /\ \A k \in ToolKeys : OneRun(k)

-----------------------------------------------------------------------------
\* No process remembers anything when it starts.
LEMMA ToolInvInit == ToolInit => ToolInv
BY ToolAssumption
DEF ToolInit, ToolInv, ToolTypeOK, Results, RunPoints, Remembers, OneRun, RunAt, Committed

\* Where a run goes and what it has in hand then keeps its type.
LEMMA EntryTyped ==
    ASSUME NEW S, NEW f \in [ToolProcesses -> [ToolKeys -> S]], NEW p \in ToolProcesses,
           NEW k \in ToolKeys, NEW x \in S
    PROVE  [f EXCEPT ![p][k] = x] \in [ToolProcesses -> [ToolKeys -> S]]
OBVIOUS

\* A new run replays what is remembered, or looks for it in the store.
LEMMA AuthorizeCases ==
    ASSUME NEW p \in ToolProcesses, NEW k \in ToolKeys, Authorize(p, k)
    PROVE  /\ runPc[p][k] = "idle"
           /\ UNCHANGED <<completed, storedResult, executions, ranHere, audited, returned, excused>>
           /\ \/ /\ completed[p][k] # 0
                 /\ runPc' = [runPc EXCEPT ![p][k] = "replaying"]
                 /\ runHeld' = [runHeld EXCEPT ![p][k] = completed[p][k]]
              \/ /\ completed[p][k] = 0
                 /\ runPc' = [runPc EXCEPT ![p][k] = "fetching"]
                 /\ runHeld' = runHeld
BY Zenon DEF Authorize, RunAt, RunTo, InHand

\* A tool is called a second time only for an excused key.
LEMMA NotFoundOneRun ==
    ASSUME ToolInv, NEW p \in ToolProcesses, NEW k \in ToolKeys, NEW j \in ToolKeys, NotFound(p, k)
    PROVE  OneRun(j)'
<1>1. OneRun(j) /\ OneRun(k) /\ executions[k] \in Nat
  BY ToolAssumption DEF ToolInv, ToolTypeOK, Results
<1>2. \A q \in ToolProcesses, i \in ToolKeys :
        runPc'[q][i] = IF q = p /\ i = k THEN "executing" ELSE runPc[q][i]
  BY DEF ToolInv, ToolTypeOK, NotFound, RunTo
<1>3. /\ UNCHANGED <<executions, storedResult>>
      /\ storedResult[k] = 0 /\ runPc[p][k] = "fetching"
      /\ k \notin excused' => k \notin excused /\ \A q \in ToolProcesses \ {p} : ~Committed(q, k)
      /\ j # k => (j \in excused' <=> j \in excused)
  BY DEF NotFound, RunAt
<1>4. CASE j # k
  BY <1>1, <1>2, <1>3, <1>4 DEF OneRun, RunAt, Committed
<1>5. CASE j = k
  <2>. SUFFICES ASSUME k \notin excused'
                PROVE  OneRun(k)'
    BY <1>5 DEF OneRun
  <2>1. \A q \in ToolProcesses : ~RunAt(q, k, {"storing"})
    BY <1>3 DEF RunAt, Committed
  <2>2. executions[k] <= 1 /\ executions[k] # 1
    BY <1>1, <1>3, <2>1 DEF OneRun
  <2>3. executions[k] = 0
    BY <1>1, <2>2
  <2>. QED
    BY <1>2, <1>3, <2>3 DEF OneRun, RunAt, Committed
<1>. QED
  BY <1>4, <1>5

\* A run of one key in one process goes on.
LEMMA RunStep ==
    ASSUME ToolInv, NEW p \in ToolProcesses, NEW k \in ToolKeys,
           \/ Authorize(p, k) \/ Found(p, k) \/ NotFound(p, k) \/ Executed(p, k)
           \/ PutSucceeds(p, k) \/ PutFails(p, k) \/ RunFails(p, k) \/ Returns(p, k)
    PROVE  ToolInv'
<1>. USE ToolAssumption DEF ToolTypeOK, RunTo, InHand, RunRejects
<1>0. ToolTypeOK /\ Remembers(p, k) /\ OneRun(k)
  BY DEF ToolInv
<1>1. ToolTypeOK'
  <2>1. CASE Authorize(p, k)
    <3>1. CASE completed[p][k] # 0
      <4>1. /\ runPc' = [runPc EXCEPT ![p][k] = "replaying"]
            /\ runHeld' = [runHeld EXCEPT ![p][k] = completed[p][k]]
        BY <2>1, <3>1, AuthorizeCases, Zenon
      <4>2. UNCHANGED <<completed, storedResult, executions, ranHere, audited, returned, excused>>
        BY <2>1, AuthorizeCases
      <4>3. runHeld' \in [ToolProcesses -> [ToolKeys -> Results]]
        BY <1>0, <4>1
      <4>4. runPc' \in [ToolProcesses -> [ToolKeys -> RunPoints]]
        BY <1>0, <4>1 DEF RunPoints
      <4>. QED
        BY <1>0, <4>2, <4>3, <4>4
    <3>2. CASE completed[p][k] = 0
      <4>1. runPc' = [runPc EXCEPT ![p][k] = "fetching"] /\ runHeld' = runHeld
        BY <2>1, <3>2, AuthorizeCases, Zenon
      <4>. QED
        BY <1>0, <2>1, <4>1, AuthorizeCases DEF RunPoints
    <3>. QED
      BY <3>1, <3>2
  <2>2. CASE Found(p, k)
    BY <1>0, <2>2 DEF Found, RunPoints
  <2>3. CASE NotFound(p, k)
    BY <1>0, <2>3 DEF NotFound, RunPoints
  <2>4. CASE Executed(p, k)
    <3>1. executions[k] + 1 \in Results /\ ranHere[p][k] + 1 \in Results
      BY <1>0, <2>4 DEF Executed, Remembers, Results, RunAt
    <3>. QED
      BY <1>0, <2>4, <3>1 DEF Executed, RunPoints
  <2>5. CASE PutSucceeds(p, k)
    BY <1>0, <2>5 DEF PutSucceeds, RunPoints
  <2>6. CASE RunRejects(p, k)
    <3>1. 0 \in Results /\ runHeld[p][k] \in Results
      BY <1>0 DEF Results
    <3>2. runPc' \in [ToolProcesses -> [ToolKeys -> RunPoints]]
      BY <1>0, <2>6, EntryTyped DEF RunPoints
    <3>3. runHeld' \in [ToolProcesses -> [ToolKeys -> Results]]
      BY <1>0, <2>6, <3>1, EntryTyped
    <3>4. CASE PutFails(p, k)
      BY <1>0, <3>1, <3>2, <3>3, <3>4 DEF PutFails
    <3>5. CASE RunFails(p, k)
      <4>1. audited' \in [ToolKeys -> SUBSET Results]
        <5>1. \/ audited' = audited
              \/ audited' = [audited EXCEPT ![k] = @ \cup {runHeld[p][k]}]
          BY <3>5 DEF RunFails
        <5>2. CASE audited' = audited
          BY <1>0, <5>2
        <5>3. CASE audited' = [audited EXCEPT ![k] = @ \cup {runHeld[p][k]}]
          BY <1>0, <3>1, <5>3
        <5>. QED
          BY <5>1, <5>2, <5>3
      <4>. QED
        BY <1>0, <3>2, <3>3, <3>5, <4>1 DEF RunFails
    <3>6. CASE Returns(p, k)
      <4>1. audited' \in [ToolKeys -> SUBSET Results]
        BY <1>0, <3>1, <3>6 DEF Returns
      <4>2. returned[p][k] \cup {runHeld[p][k]} \in SUBSET Results
        BY <1>0, <3>1
      <4>3. returned' \in [ToolProcesses -> [ToolKeys -> SUBSET Results]]
        BY <1>0, <3>6, <4>2, EntryTyped DEF Returns
      <4>. QED
        BY <1>0, <3>2, <3>3, <3>6, <4>1, <4>3 DEF Returns
    <3>. QED
      BY <2>1, <2>2, <2>3, <2>4, <2>5, <3>4, <3>5, <3>6
  <2>. QED
    BY <2>1, <2>2, <2>3, <2>4, <2>5, <2>6 DEF PutFails, RunFails, Returns
<1>2. ASSUME NEW q \in ToolProcesses, NEW j \in ToolKeys
      PROVE  Remembers(q, j)'
  <2>0. Remembers(q, j)
    BY DEF ToolInv
  <2>. USE <1>0, <2>0 DEF Remembers, RunAt
  <2>1. CASE Authorize(p, k)
    <3>. UNCHANGED <<completed, ranHere, audited, returned>> /\ runPc[p][k] = "idle"
      BY <2>1, AuthorizeCases
    <3>1. CASE completed[p][k] # 0
      <4>1. /\ runPc' = [runPc EXCEPT ![p][k] = "replaying"]
            /\ runHeld' = [runHeld EXCEPT ![p][k] = completed[p][k]]
        BY <2>1, <3>1, AuthorizeCases, Zenon
      <4>. QED
        BY <3>1, <4>1
    <3>2. CASE completed[p][k] = 0
      <4>1. runPc' = [runPc EXCEPT ![p][k] = "fetching"] /\ runHeld' = runHeld
        BY <2>1, <3>2, AuthorizeCases, Zenon
      <4>. QED
        BY <3>2, <4>1
    <3>. QED
      BY <3>1, <3>2
  <2>2. CASE Found(p, k)
    BY <2>2 DEF Found
  <2>3. CASE NotFound(p, k)
    BY <2>3 DEF NotFound
  <2>4. CASE Executed(p, k)
    BY <2>4 DEF Executed, Results
  <2>5. CASE PutSucceeds(p, k)
    BY <2>5 DEF PutSucceeds
  <2>6. CASE PutFails(p, k)
    BY <2>6 DEF PutFails
  <2>7. CASE RunFails(p, k)
    BY <2>7 DEF RunFails
  <2>8. CASE Returns(p, k)
    BY <2>8 DEF Returns
  <2>. QED
    BY <2>1, <2>2, <2>3, <2>4, <2>5, <2>6, <2>7, <2>8
<1>3. ASSUME NEW j \in ToolKeys
      PROVE  OneRun(j)'
  <2>0. OneRun(j)
    BY DEF ToolInv
  <2>. USE <1>0, <2>0 DEF OneRun, RunAt, Committed
  <2>1. CASE Authorize(p, k)
    <3>1. UNCHANGED <<executions, storedResult, excused>>
      BY <2>1 DEF Authorize
    <3>2. \A q \in ToolProcesses, i \in ToolKeys : runPc'[q][i] =
            IF q = p /\ i = k THEN (IF completed[p][k] # 0 THEN "replaying" ELSE "fetching")
            ELSE runPc[q][i]
      <4>1. CASE completed[p][k] # 0
        <5>1. runPc' = [runPc EXCEPT ![p][k] = "replaying"]
          BY <2>1, <4>1, AuthorizeCases, Zenon
        <5>. QED
          BY <4>1, <5>1
      <4>2. CASE completed[p][k] = 0
        <5>1. runPc' = [runPc EXCEPT ![p][k] = "fetching"]
          BY <2>1, <4>2, AuthorizeCases, Zenon
        <5>. QED
          BY <4>2, <5>1
      <4>. QED
        BY <4>1, <4>2
    <3>3. \A q \in ToolProcesses, i \in ToolKeys :
            /\ runPc'[q][i] \in {"executing", "storing"} => runPc'[q][i] = runPc[q][i]
            /\ runPc[q][i] = "storing" => runPc'[q][i] = "storing"
      BY <2>1, <3>2 DEF Authorize
    <3>. QED
      BY <3>1, <3>3
  <2>2. CASE Found(p, k)
    BY <2>2 DEF Found
  <2>3. CASE NotFound(p, k)
    BY <2>3, NotFoundOneRun, Zenon
  <2>4. CASE Executed(p, k)
    BY <2>4 DEF Executed, Results
  <2>5. CASE PutSucceeds(p, k)
    BY <2>5 DEF PutSucceeds, Remembers
  <2>6. CASE PutFails(p, k)
    BY <2>6 DEF PutFails, Remembers
  <2>7. CASE RunFails(p, k)
    BY <2>7 DEF RunFails
  <2>8. CASE Returns(p, k)
    BY <2>8 DEF Returns
  <2>. QED
    BY <2>1, <2>2, <2>3, <2>4, <2>5, <2>6, <2>7, <2>8
<1>. QED
  BY <1>1, <1>2, <1>3 DEF ToolInv

\* A process that ends forgets; a result it had not stored is lost and excused.
LEMMA CrashStep ==
    ASSUME ToolInv, NEW p \in ToolProcesses, ToolCrash(p)
    PROVE  ToolInv'
<1>. USE ToolAssumption DEF ToolTypeOK
<1>1. ToolTypeOK'
  BY DEF ToolInv, ToolCrash, RunPoints, Results
<1>2. ASSUME NEW q \in ToolProcesses, NEW j \in ToolKeys
      PROVE  Remembers(q, j)'
  BY DEF ToolInv, Remembers, RunAt, ToolCrash
<1>3. ASSUME NEW j \in ToolKeys
      PROVE  OneRun(j)'
  BY DEF ToolInv, OneRun, RunAt, Committed, ToolCrash
<1>. QED
  BY <1>1, <1>2, <1>3 DEF ToolInv

\* The invariant is inductive.
LEMMA ToolInvariant == ToolSpec => []ToolInv
<1>1. ToolInv /\ [ToolNext]_toolVars => ToolInv'
  <2>. SUFFICES ASSUME ToolInv, [ToolNext]_toolVars
                PROVE  ToolInv'
    OBVIOUS
  <2>1. CASE ToolNext
    BY <2>1, RunStep, CrashStep DEF ToolNext
  <2>2. CASE UNCHANGED toolVars
    BY <2>2 DEF toolVars, ToolInv, ToolTypeOK, Remembers, OneRun, RunAt, Committed
  <2>. QED
    BY <2>1, <2>2
<1>. QED
  BY <1>1, ToolInvInit, PTL DEF ToolSpec

-----------------------------------------------------------------------------
\* A tool runs once per idempotency key and its callers agree, except for a
\* result that was lost and for runs that overlap (tool-policy.ts:49-70).
THEOREM ToolsRunOnce == ToolSpec => []ToolRunsOnce
<1>1. ToolInv => ToolRunsOnce
  <2>. SUFFICES ASSUME ToolInv
                PROVE  ToolRunsOnce
    OBVIOUS
  <2>1. ASSUME NEW p \in ToolProcesses, NEW k \in ToolKeys
        PROVE  /\ ranHere[p][k] <= 1
               /\ Cardinality(returned[p][k]) <= 1
               /\ returned[p][k] \subseteq audited[k]
    <3>1. Remembers(p, k)
      BY DEF ToolInv
    <3>2. returned[p][k] = {} \/ returned[p][k] = {completed[p][k]}
      BY <3>1, Zenon DEF Remembers
    <3>3. Cardinality({}) = 0 /\ Cardinality({completed[p][k]}) = 1
      BY FS_EmptySet, FS_Singleton
    <3>4. Cardinality(returned[p][k]) <= 1
      BY <3>2, <3>3
    <3>. QED
      BY <3>1, <3>4 DEF Remembers
  <2>2. RerunsAreExcused
    BY DEF ToolInv, ToolTypeOK, Results, OneRun, RerunsAreExcused
  <2>. QED
    BY <2>1, <2>2 DEF ToolRunsOnce, ToolInv, OneResultPerProcess
<1>. QED
  BY <1>1, ToolInvariant, PTL
=============================================================================
