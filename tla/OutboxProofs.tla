---------------------------- MODULE OutboxProofs ----------------------------
(***************************************************************************)
(* Proofs about OutboxDelivery, for every set of publishers, every number  *)
(* of events and destinations and every bound.                             *)
(***************************************************************************)
EXTENDS OutboxDelivery, WellFoundedInduction, TLAPS

-----------------------------------------------------------------------------
(* The order of a batch. *)

\* A set of numbers that is not empty has a least element.
LEMMA LeastElement ==
    ASSUME NEW S \in SUBSET Nat, S # {}
    PROVE  Least(S) \in S
<1> DEFINE R == {ss \in Nat \X Nat : ss[1] < ss[2]}
<1>1. IsWellFoundedOn(R, Nat)
  BY NatLessThanWellFounded DEF OpToRel
<1>2. PICK x \in S : \A y \in S : ~ (<<y, x>> \in R)
  <2> HIDE DEF R
  <2> QED
    BY <1>1, WFMin
<1>3. ASSUME NEW y \in S
      PROVE  x <= y
  <2>1. <<y, x>> \in Nat \X Nat /\ <<y, x>>[1] = y /\ <<y, x>>[2] = x
    OBVIOUS
  <2>2. <<y, x>> \notin R
    BY <1>2
  <2>3. ~ (y < x)
    BY <2>1, <2>2
  <2> QED
    BY <2>3
<1> QED
  BY <1>3 DEF Least

\* The event a publisher works on is one of its batch.
LEMMA CurrentInBatch ==
    ASSUME TypeOK, NEW p \in Publishers, at[p] # "idle"
    PROVE  Current(p) \in DOMAIN batch[p] /\ Current(p) \in Events
<1>1. DOMAIN batch[p] \in SUBSET Nat /\ DOMAIN batch[p] # {}
  BY DEF TypeOK, Events
<1>2. Least(DOMAIN batch[p]) \in DOMAIN batch[p]
  BY <1>1, LeastElement
<1> QED
  BY <1>2 DEF Current, TypeOK

\* The destination it sends to is one of those left.
LEMMA TargetInTodo ==
    ASSUME TypeOK, NEW p \in Publishers, at[p] = "sending"
    PROVE  Target(p) \in todo[p] /\ Target(p) \in Destinations
<1>1. todo[p] \in SUBSET Destinations /\ todo[p] # {}
  BY DEF TypeOK
<1>2. todo[p] \in SUBSET Nat
  BY <1>1 DEF Destinations
<1>3. Least(todo[p]) \in todo[p]
  BY <1>1, <1>2, LeastElement
<1> QED
  BY <1>1, <1>3 DEF Target

-----------------------------------------------------------------------------
(* Type correctness. *)

\* The part of TypeOK that is about one publisher.
PublisherOK(p) ==
    /\ DOMAIN batch[p] \subseteq Events
    /\ batch[p] \in [DOMAIN batch[p] -> 0 .. MaxAttempts]
    /\ at[p] = "idle" <=> DOMAIN batch[p] = {}
    /\ at[p] = "sending" <=> todo[p] # {}

\* Nothing but one publisher's own variables changes in the publishers' state.
OnlyAt(p) ==
    /\ DOMAIN at' = DOMAIN at /\ DOMAIN batch' = DOMAIN batch
    /\ \A q \in Publishers \ {p} :
        at'[q] = at[q] /\ batch'[q] = batch[q] /\ todo'[q] = todo[q]

LEMMA NextEventOK ==
    ASSUME TypeOK, NEW p \in Publishers, at[p] \notin {"idle", "sending"},
           NextEvent(p), UNCHANGED <<todo, tries>>
    PROVE  /\ at' \in [Publishers -> Points] /\ DOMAIN batch' = Publishers
           /\ PublisherOK(p)'
           /\ OnlyAt(p)
<1> DEFINE left == DOMAIN batch[p] \ {Current(p)}
<1>1. /\ batch' = [batch EXCEPT ![p] = [e \in left |-> batch[p][e]]]
      /\ at' = [at EXCEPT ![p] = IF left = {} THEN "idle" ELSE "resolving"]
  BY DEF NextEvent, To
<1>2. left \subseteq DOMAIN batch[p]
  OBVIOUS
<1> HIDE DEF left
<1>3. batch'[p] = [e \in left |-> batch[p][e]] /\ DOMAIN batch'[p] = left
  BY <1>1 DEF TypeOK
<1>4. at'[p] = IF left = {} THEN "idle" ELSE "resolving"
  BY <1>1 DEF TypeOK
<1>5. todo'[p] = {}
  BY DEF TypeOK
<1>6. PublisherOK(p)'
  BY <1>2, <1>3, <1>4, <1>5 DEF PublisherOK, TypeOK
<1> QED
  BY <1>1, <1>6 DEF OnlyAt, TypeOK, Points

LEMMA InitTypeOK == Init => TypeOK
<1> SUFFICES ASSUME Init PROVE TypeOK
  OBVIOUS
<1>1. row \in [Events -> Row]
  BY OutboxAssumption DEF Init, Row
<1>2. ASSUME NEW p \in Publishers PROVE PublisherOK(p)
  BY DEF Init, NoBatch, PublisherOK
<1> QED
  BY <1>1, <1>2, OutboxAssumption DEF Init, TypeOK, Points, PublisherOK

\* Rows keep their type whatever their flags and their count become.
LEMMA CountClaimOK ==
    ASSUME TypeOK, NEW p \in Publishers, CountClaim(p)
    PROVE  row' \in [Events -> Row]
<1>1. ASSUME NEW n \in 0 .. MaxAttempts PROVE OneMore(n) \in 0 .. MaxAttempts
  BY OutboxAssumption DEF OneMore
<1> QED
  BY <1>1 DEF CountClaim, TypeOK, Row

LEMMA RecordFailedOK ==
    ASSUME TypeOK, NEW p \in Publishers, RecordFailed(p)
    PROVE  /\ row' \in [Events -> Row]
           /\ \/ row' = row
              \/ ~Terminal(p) /\ row' = [row EXCEPT ![Current(p)].waiting = TRUE,
                                                    ![Current(p)].dead = FALSE]
              \/ Terminal(p) /\ row' = [row EXCEPT ![Current(p)].waiting = FALSE,
                                                   ![Current(p)].dead = TRUE]
<1> DEFINE Buried(e) == [row EXCEPT ![e].waiting = FALSE, ![e].dead = TRUE]
           Kept(e) == [row EXCEPT ![e].waiting = TRUE, ![e].dead = FALSE]
<1>1. CASE row[Current(p)].published
  BY <1>1 DEF RecordFailed, TypeOK
<1>2. CASE ~row[Current(p)].published /\ Terminal(p)
  <2>1. row' = Buried(Current(p))
    BY <1>2 DEF RecordFailed
  <2>2. Buried(Current(p)) \in [Events -> Row]
    BY DEF TypeOK, Row
  <2> QED
    BY <1>2, <2>1, <2>2
<1>3. CASE ~row[Current(p)].published /\ ~Terminal(p)
  <2>0. Terminal(p) = FALSE /\ (~Terminal(p)) = TRUE
    BY <1>3 DEF Terminal
  <2>1. row' = Kept(Current(p))
    <3>1. row' = [row EXCEPT ![Current(p)].waiting = ~Terminal(p),
                             ![Current(p)].dead = Terminal(p)]
      BY <1>3 DEF RecordFailed
    <3> HIDE DEF Terminal
    <3> QED
      BY <2>0, <3>1, Zenon
  <2>2. Kept(Current(p)) \in [Events -> Row]
    BY DEF TypeOK, Row
  <2> QED
    BY <1>3, <2>1, <2>2
<1> QED
  BY <1>1, <1>2, <1>3

\* What a step of a publisher leaves alone: it touches its own variables only.
LEMMA TypeOKFromParts ==
    ASSUME TypeOK, NEW p \in Publishers, OnlyAt(p), PublisherOK(p)',
           row' \in [Events -> Row], received' \in [Events -> SUBSET Destinations],
           at' \in [Publishers -> Points], DOMAIN batch' = Publishers,
           todo' \in [Publishers -> SUBSET Destinations],
           tries' \in [Publishers -> 0 .. (MaxAttempts - 1)],
           crashes' \in 0 .. MaxCrashes, replays' \in 0 .. MaxReplays
    PROVE  TypeOK'
<1>1. ASSUME NEW q \in Publishers PROVE PublisherOK(q)'
  <2>1. CASE q = p
    BY <2>1
  <2>2. CASE q # p
    BY <2>2 DEF OnlyAt, TypeOK, PublisherOK
  <2> QED
    BY <2>1, <2>2
<1> QED
  BY <1>1 DEF TypeOK, PublisherOK

LEMMA SelectTypeOK ==
    ASSUME TypeOK, NEW p \in Publishers, Select(p)
    PROVE  TypeOK'
<1> DEFINE first == FirstDue
<1>1. first \subseteq Events /\ first # {}
  BY DEF Select, FirstDue
<1>2. /\ batch' = [batch EXCEPT ![p] = [e \in first |-> row[e].claims]]
      /\ at' = [at EXCEPT ![p] = "claiming"]
      /\ UNCHANGED <<row, received, todo, tries, crashes, replays>>
      /\ at[p] = "idle"
  BY DEF Select
<1> HIDE DEF first
<1>3. batch'[p] = [e \in first |-> row[e].claims] /\ DOMAIN batch'[p] = first
  BY <1>2 DEF TypeOK
<1>4. \A e \in first : row[e].claims \in 0 .. MaxAttempts
  BY <1>1 DEF TypeOK, Row
<1>5. PublisherOK(p)'
  BY <1>1, <1>2, <1>3, <1>4 DEF PublisherOK, TypeOK
<1>6. OnlyAt(p) /\ at' \in [Publishers -> Points] /\ DOMAIN batch' = Publishers
  BY <1>2 DEF OnlyAt, TypeOK, Points
<1> QED
  BY <1>2, <1>5, <1>6, TypeOKFromParts DEF TypeOK

LEMMA ClaimTypeOK ==
    ASSUME TypeOK, NEW p \in Publishers, CommitClaim(p) \/ ClaimFails(p)
    PROVE  TypeOK'
<1>1. row' \in [Events -> Row]
  BY CountClaimOK DEF CommitClaim, ClaimFails, TypeOK
<1>2. CASE CommitClaim(p)
  <2>1. PublisherOK(p)' /\ OnlyAt(p) /\ at' \in [Publishers -> Points]
    BY <1>2 DEF CommitClaim, PublisherOK, OnlyAt, TypeOK, Points
  <2> QED
    BY <1>1, <1>2, <2>1, TypeOKFromParts DEF CommitClaim, TypeOK
<1>3. CASE ClaimFails(p)
  <2>1. /\ at' = [at EXCEPT ![p] = "idle"]
        /\ batch' = [batch EXCEPT ![p] = NoBatch]
        /\ UNCHANGED <<received, todo, tries, crashes, replays>>
        /\ at[p] = "claiming"
    BY <1>3 DEF ClaimFails
  <2>2. PublisherOK(p)' /\ OnlyAt(p) /\ at' \in [Publishers -> Points]
    BY <2>1 DEF PublisherOK, OnlyAt, TypeOK, Points, NoBatch
  <2> QED
    BY <1>1, <2>1, <2>2, TypeOKFromParts DEF TypeOK
<1> QED
  BY <1>2, <1>3

LEMMA ResolveTypeOK ==
    ASSUME TypeOK, NEW p \in Publishers, Resolve(p) \/ ResolveFails(p)
    PROVE  TypeOK'
<1>1. at[p] = "resolving" /\ Current(p) \in Events
  BY CurrentInBatch DEF Resolve, ResolveFails
<1>2. CASE Resolve(p)
  <2>1. Subscribed[Current(p)] \subseteq Destinations
    BY <1>1, OutboxAssumption
  <2>2. PublisherOK(p)' /\ OnlyAt(p) /\ at' \in [Publishers -> Points]
    BY <1>1, <1>2, <2>1 DEF Resolve, To, PublisherOK, OnlyAt, TypeOK, Points
  <2> QED
    BY <1>2, <2>1, <2>2, TypeOKFromParts DEF Resolve, TypeOK
<1>3. CASE ResolveFails(p)
  <2>1. PublisherOK(p)' /\ OnlyAt(p) /\ at' \in [Publishers -> Points]
    BY <1>1, <1>3 DEF ResolveFails, To, PublisherOK, OnlyAt, TypeOK, Points
  <2> QED
    BY <1>3, <2>1, TypeOKFromParts DEF ResolveFails, TypeOK
<1> QED
  BY <1>2, <1>3

LEMMA SendTypeOK ==
    ASSUME TypeOK, NEW p \in Publishers, Delivered(p) \/ DeliveryFails(p)
    PROVE  TypeOK'
<1>1. /\ at[p] = "sending" /\ Current(p) \in Events
      /\ Target(p) \in todo[p] /\ Target(p) \in Destinations
  BY CurrentInBatch, TargetInTodo DEF Delivered, DeliveryFails
<1>2. received' \in [Events -> SUBSET Destinations]
  BY <1>1 DEF Delivered, DeliveryFails, Arrives, TypeOK
<1>3. CASE Delivered(p)
  <2>1. todo' \in [Publishers -> SUBSET Destinations]
    BY <1>3 DEF Delivered, TypeOK
  <2>2. tries' \in [Publishers -> 0 .. (MaxAttempts - 1)]
    BY <1>3, OutboxAssumption DEF Delivered, TypeOK
  <2>3. PublisherOK(p)' /\ OnlyAt(p) /\ at' \in [Publishers -> Points]
    BY <1>1, <1>3 DEF Delivered, To, PublisherOK, OnlyAt, TypeOK, Points
  <2> QED
    BY <1>2, <1>3, <2>1, <2>2, <2>3, TypeOKFromParts DEF Delivered, TypeOK
<1>4. CASE DeliveryFails(p)
  <2>1. todo' \in [Publishers -> SUBSET Destinations]
    BY <1>4 DEF DeliveryFails, TypeOK
  <2>2. tries' \in [Publishers -> 0 .. (MaxAttempts - 1)]
    BY <1>4, OutboxAssumption DEF DeliveryFails, TypeOK
  <2>3. PublisherOK(p)' /\ OnlyAt(p) /\ at' \in [Publishers -> Points]
    BY <1>1, <1>4 DEF DeliveryFails, To, PublisherOK, OnlyAt, TypeOK, Points
  <2> QED
    BY <1>2, <1>4, <2>1, <2>2, <2>3, TypeOKFromParts DEF DeliveryFails, TypeOK
<1> QED
  BY <1>3, <1>4

LEMMA OutcomeTypeOK ==
    ASSUME TypeOK, NEW p \in Publishers,
           \/ MarkPublished(p) \/ MarkPublishedFails(p)
           \/ MarkFailed(p) \/ MarkFailedFails(p)
    PROVE  TypeOK'
<1>1. at[p] \in {"publishing", "failing"} /\ Current(p) \in Events
  BY CurrentInBatch DEF MarkPublished, MarkPublishedFails, MarkFailed, MarkFailedFails
<1>2. RecordPublished(Current(p)) => row' \in [Events -> Row]
  <2>1. [row EXCEPT ![Current(p)].published = TRUE] \in [Events -> Row]
    BY DEF TypeOK, Row
  <2> QED
    BY <2>1 DEF RecordPublished
<1>3. row' \in [Events -> Row]
  BY <1>2, RecordFailedOK
     DEF MarkPublished, MarkPublishedFails, MarkFailed, MarkFailedFails, TypeOK
<1>4. UNCHANGED <<received, todo, tries, crashes, replays>>
  BY DEF MarkPublished, MarkPublishedFails, MarkFailed, MarkFailedFails
<1>5. CASE NextEvent(p)
  BY <1>1, <1>3, <1>4, <1>5, NextEventOK, TypeOKFromParts DEF TypeOK
<1>6. CASE MarkPublishedFails(p)
  <2>1. PublisherOK(p)' /\ OnlyAt(p) /\ at' \in [Publishers -> Points]
    BY <1>6 DEF MarkPublishedFails, To, PublisherOK, OnlyAt, TypeOK, Points
  <2> QED
    BY <1>3, <1>6, <2>1, TypeOKFromParts DEF MarkPublishedFails, TypeOK
<1> QED
  BY <1>5, <1>6 DEF MarkPublished, MarkFailed, MarkFailedFails

LEMMA CrashTypeOK ==
    ASSUME TypeOK, NEW p \in Publishers, Crash(p)
    PROVE  TypeOK'
<1>1. /\ at' = [at EXCEPT ![p] = "idle"]
      /\ batch' = [batch EXCEPT ![p] = NoBatch]
      /\ todo' = [todo EXCEPT ![p] = {}]
      /\ tries' = [tries EXCEPT ![p] = 0]
      /\ UNCHANGED <<row, received, replays>>
      /\ crashes < MaxCrashes /\ crashes' = crashes + 1
  BY DEF Crash, To
<1>2. crashes' \in 0 .. MaxCrashes
  BY <1>1, OutboxAssumption DEF TypeOK
<1>3. tries' \in [Publishers -> 0 .. (MaxAttempts - 1)]
  BY <1>1, OutboxAssumption DEF TypeOK
<1>4. PublisherOK(p)' /\ OnlyAt(p) /\ at' \in [Publishers -> Points]
  BY <1>1 DEF PublisherOK, OnlyAt, TypeOK, Points, NoBatch
<1> QED
  BY <1>1, <1>2, <1>3, <1>4, TypeOKFromParts DEF TypeOK

LEMMA RowStepTypeOK ==
    ASSUME TypeOK, NEW e \in Events, RowStep(e)
    PROVE  TypeOK'
<1>1. row' \in [Events -> Row]
  <2>1. /\ [row EXCEPT ![e].stored = TRUE] \in [Events -> Row]
        /\ [row EXCEPT ![e].waiting = FALSE] \in [Events -> Row]
        /\ [row EXCEPT ![e].dead = FALSE, ![e].waiting = FALSE] \in [Events -> Row]
    BY DEF TypeOK, Row
  <2> QED
    BY <2>1 DEF RowStep, Emit, BackoffEnds, Replay
<1>2. replays' \in 0 .. MaxReplays
  BY OutboxAssumption DEF RowStep, Emit, BackoffEnds, Replay, TypeOK
<1> QED
  BY <1>1, <1>2 DEF RowStep, Emit, BackoffEnds, Replay, TypeOK, pubVars

LEMMA StepTypeOK == TypeOK /\ [Next]_vars => TypeOK'
<1> SUFFICES ASSUME TypeOK, [Next]_vars PROVE TypeOK'
  OBVIOUS
<1>1. CASE UNCHANGED vars
  BY <1>1 DEF TypeOK, vars, pubVars
<1>2. ASSUME NEW e \in Events, RowStep(e) PROVE TypeOK'
  BY <1>2, RowStepTypeOK
<1>3. ASSUME NEW p \in Publishers, PublisherStep(p) PROVE TypeOK'
  BY <1>3, SelectTypeOK, ClaimTypeOK, ResolveTypeOK, SendTypeOK, OutcomeTypeOK,
     CrashTypeOK DEF PublisherStep, Settle
<1> QED
  BY <1>1, <1>2, <1>3 DEF Next

\* All variables keep their types, and a publisher that sends has a destination
\* left, for every number of replicas, events, destinations and attempts.
THEOREM OutboxTypeCorrect == Spec => []TypeOK
BY InitTypeOK, StepTypeOK, PTL DEF Spec

-----------------------------------------------------------------------------
(* What publishers know about the events they hold. *)

\* Rows: only events in the table have an outcome, and a buried one used all
\* its claims.
RowsOK ==
    \A e \in Events :
        /\ row[e].published \/ row[e].dead => row[e].stored
        /\ row[e].dead => row[e].claims = MaxAttempts

\* The count a publisher read is behind the row's once its claim is counted.
CopiesOK(p) ==
    \A e \in DOMAIN batch[p] :
        /\ row[e].stored
        /\ batch[p][e] <= row[e].claims
        /\ at[p] # "claiming" => batch[p][e] < row[e].claims \/ row[e].claims = MaxAttempts

\* What is not to do any more has been received.
ProgressOK(p) ==
    /\ at[p] = "sending" =>
         /\ todo[p] \subseteq Subscribed[Current(p)]
         /\ Subscribed[Current(p)] \ todo[p] \subseteq received[Current(p)]
    /\ at[p] = "publishing" => Subscribed[Current(p)] \subseteq received[Current(p)]

DeliveryInv == TypeOK /\ RowsOK /\ \A p \in Publishers : CopiesOK(p) /\ ProgressOK(p)

\* Rows and receipts only grow in what the publishers rely on.
Grows ==
    \A e \in Events :
        /\ received[e] \subseteq received'[e]
        /\ row[e].stored => row'[e].stored
        /\ row[e].claims <= row'[e].claims
        /\ row[e].claims = MaxAttempts => row'[e].claims = MaxAttempts

LEMMA CountClaimGrows ==
    ASSUME TypeOK, NEW p \in Publishers, CountClaim(p)
    PROVE  \A e \in Events :
             /\ row'[e].stored = row[e].stored
             /\ row'[e].published = row[e].published
             /\ row'[e].dead = row[e].dead
             /\ row'[e].claims = IF e \in DOMAIN batch[p] THEN OneMore(row[e].claims)
                                 ELSE row[e].claims
             /\ row[e].claims <= row'[e].claims
             /\ row[e].claims = MaxAttempts => row'[e].claims = MaxAttempts
<1> SUFFICES ASSUME NEW e \in Events
             PROVE  /\ row'[e].stored = row[e].stored
                    /\ row'[e].published = row[e].published
                    /\ row'[e].dead = row[e].dead
                    /\ row'[e].claims = IF e \in DOMAIN batch[p] THEN OneMore(row[e].claims)
                                        ELSE row[e].claims
                    /\ row[e].claims <= row'[e].claims
                    /\ row[e].claims = MaxAttempts => row'[e].claims = MaxAttempts
  OBVIOUS
<1>1. row'[e] = IF e \in DOMAIN batch[p] THEN [row[e] EXCEPT !.claims = OneMore(@)]
                ELSE row[e]
  BY DEF CountClaim
<1>2. row[e].claims \in 0 .. MaxAttempts /\ row[e] \in Row
  BY DEF TypeOK, Row
<1>3. row[e].claims <= OneMore(row[e].claims)
  BY <1>2, OutboxAssumption DEF OneMore
<1>4. row[e].claims = MaxAttempts => OneMore(row[e].claims) = MaxAttempts
  BY OutboxAssumption DEF OneMore
<1> QED
  BY <1>1, <1>2, <1>3, <1>4, OutboxAssumption DEF Row

LEMMA PublisherGrows ==
    ASSUME TypeOK, NEW p \in Publishers, PublisherStep(p)
    PROVE  Grows
<1>1. CASE UNCHANGED <<row, received>>
  BY <1>1 DEF Grows, TypeOK, Row
<1>2. CASE CountClaim(p) /\ UNCHANGED received
  BY <1>2, CountClaimGrows DEF Grows
<1>3. CASE Arrives(p) /\ UNCHANGED row
  BY <1>3 DEF Arrives, Grows, TypeOK, Row
<1>4. CASE RecordPublished(Current(p)) /\ UNCHANGED received
  BY <1>4 DEF RecordPublished, Grows, TypeOK, Row
<1>5. CASE RecordFailed(p) /\ UNCHANGED received
  <2>1. CASE row' = row
    BY <1>5, <2>1 DEF Grows, TypeOK, Row
  <2>2. CASE row' = [row EXCEPT ![Current(p)].waiting = TRUE, ![Current(p)].dead = FALSE]
    BY <1>5, <2>2 DEF Grows, TypeOK, Row
  <2>3. CASE row' = [row EXCEPT ![Current(p)].waiting = FALSE, ![Current(p)].dead = TRUE]
    BY <1>5, <2>3 DEF Grows, TypeOK, Row
  <2> QED
    BY <1>5, <2>1, <2>2, <2>3, RecordFailedOK
<1> QED
  BY <1>1, <1>2, <1>3, <1>4, <1>5
     DEF PublisherStep, Select, CommitClaim, ClaimFails, Resolve, ResolveFails, Delivered,
         DeliveryFails, Settle, MarkPublished, MarkFailed, MarkPublishedFails,
         MarkFailedFails, Crash

LEMMA RowStepGrows ==
    ASSUME TypeOK, NEW e \in Events, RowStep(e)
    PROVE  Grows
<1>1. CASE Emit(e)
  BY <1>1 DEF Emit, Grows, TypeOK, Row
<1>2. CASE BackoffEnds(e)
  BY <1>2 DEF BackoffEnds, Grows, TypeOK, Row
<1>3. CASE Replay(e)
  BY <1>3 DEF Replay, Grows, TypeOK, Row
<1> QED
  BY <1>1, <1>2, <1>3 DEF RowStep

LEMMA PublishersApart ==
    ASSUME TypeOK, NEW p \in Publishers, PublisherStep(p)
    PROVE  OnlyAt(p)
BY DEF OnlyAt, TypeOK, PublisherStep, Select, CommitClaim, ClaimFails, Resolve, ResolveFails,
       Delivered, DeliveryFails, Settle, MarkPublished, MarkFailed, MarkPublishedFails,
       MarkFailedFails, Crash, To, NextEvent

\* Copies stay behind the rows, however rows grow, while a batch shrinks.
LEMMA CopiesKeep ==
    ASSUME DeliveryInv, TypeOK', NEW q \in Publishers, Grows,
           at[q] # "claiming" \/ at'[q] = "claiming",
           DOMAIN batch'[q] \subseteq DOMAIN batch[q],
           \A e \in DOMAIN batch'[q] : batch'[q][e] = batch[q][e]
    PROVE  CopiesOK(q)'
<1> SUFFICES ASSUME NEW e \in DOMAIN batch'[q]
             PROVE  /\ row'[e].stored
                    /\ batch'[q][e] <= row'[e].claims
                    /\ at'[q] # "claiming" =>
                         batch'[q][e] < row'[e].claims \/ row'[e].claims = MaxAttempts
  BY DEF CopiesOK
<1>1. /\ e \in DOMAIN batch[q] /\ e \in Events /\ batch'[q][e] = batch[q][e]
      /\ row[e] \in Row /\ row'[e] \in Row /\ batch[q][e] \in 0 .. MaxAttempts
  BY DEF DeliveryInv, TypeOK
<1>2. batch[q][e] \in Nat /\ row[e].claims \in Nat /\ row'[e].claims \in Nat
  BY <1>1, OutboxAssumption DEF Row
<1>3. /\ row[e].stored /\ batch[q][e] <= row[e].claims
      /\ at[q] # "claiming" =>
           batch[q][e] < row[e].claims \/ row[e].claims = MaxAttempts
  BY <1>1 DEF DeliveryInv, CopiesOK
<1>4. /\ row[e].stored => row'[e].stored
      /\ row[e].claims <= row'[e].claims
      /\ row[e].claims = MaxAttempts => row'[e].claims = MaxAttempts
  BY <1>1 DEF Grows
<1> QED
  BY <1>1, <1>2, <1>3, <1>4

\* A publisher whose variables stay keeps what it knows.
LEMMA OthersKeep ==
    ASSUME DeliveryInv, TypeOK', NEW q \in Publishers, Grows,
           at'[q] = at[q], batch'[q] = batch[q], todo'[q] = todo[q]
    PROVE  CopiesOK(q)' /\ ProgressOK(q)'
<1>1. CopiesOK(q)'
  BY CopiesKeep
<1>2. Current(q)' = Current(q)
  BY DEF Current
<1>3. at[q] # "idle" => received[Current(q)] \subseteq received'[Current(q)]
  BY CurrentInBatch DEF Grows, DeliveryInv
<1>4. ProgressOK(q)'
  <2>1. ProgressOK(q)
    BY DEF DeliveryInv
  <2> QED
    BY <1>2, <1>3, <2>1 DEF ProgressOK
<1> QED
  BY <1>1, <1>4

\* The publisher that moves, claim by claim ...
LEMMA ClaimKnows ==
    ASSUME DeliveryInv, TypeOK', NEW p \in Publishers,
           Select(p) \/ CommitClaim(p) \/ ClaimFails(p) \/ Crash(p)
    PROVE  CopiesOK(p)' /\ ProgressOK(p)'
<1> USE DEF DeliveryInv
<1>1. CASE Select(p)
  <2> DEFINE first == FirstDue
  <2>1. /\ batch' = [batch EXCEPT ![p] = [e \in first |-> row[e].claims]]
        /\ at' = [at EXCEPT ![p] = "claiming"] /\ row' = row
    BY <1>1 DEF Select
  <2>2. first \subseteq Events /\ \A e \in first : row[e].stored
    BY DEF FirstDue, Due
  <2> HIDE DEF first
  <2>3. /\ batch'[p] = [e \in first |-> row[e].claims] /\ DOMAIN batch'[p] = first
        /\ at'[p] = "claiming"
    BY <2>1 DEF TypeOK
  <2>4. \A e \in first : row[e].claims \in Nat
    BY <2>2, OutboxAssumption DEF TypeOK, Row
  <2> QED
    BY <2>1, <2>2, <2>3, <2>4 DEF CopiesOK, ProgressOK
<1>2. CASE CommitClaim(p)
  <2>1. at'[p] = "resolving" /\ batch' = batch /\ CountClaim(p)
    BY <1>2 DEF CommitClaim, TypeOK
  <2> SUFFICES ASSUME NEW e \in DOMAIN batch[p]
               PROVE  /\ row'[e].stored
                      /\ batch[p][e] <= row'[e].claims
                      /\ batch[p][e] < row'[e].claims \/ row'[e].claims = MaxAttempts
    BY <2>1 DEF CopiesOK, ProgressOK
  <2>2. /\ e \in Events /\ row[e].stored /\ batch[p][e] <= row[e].claims
        /\ batch[p][e] \in Nat /\ row[e].claims \in 0 .. MaxAttempts
    BY OutboxAssumption DEF TypeOK, CopiesOK, Row
  <2>3. row'[e].stored /\ row'[e].claims = OneMore(row[e].claims)
    BY <2>1, <2>2, CountClaimGrows
  <2> QED
    BY <2>2, <2>3, OutboxAssumption DEF OneMore
<1>3. CASE ClaimFails(p) \/ Crash(p)
  <2>1. at'[p] = "idle" /\ DOMAIN batch'[p] = {}
    BY <1>3 DEF ClaimFails, Crash, To, NoBatch, TypeOK
  <2> QED
    BY <2>1 DEF CopiesOK, ProgressOK
<1> QED
  BY <1>1, <1>2, <1>3

\* ... delivery by delivery ...
LEMMA SendKnows ==
    ASSUME DeliveryInv, TypeOK', NEW p \in Publishers, Grows,
           Resolve(p) \/ ResolveFails(p) \/ Delivered(p) \/ DeliveryFails(p)
    PROVE  CopiesOK(p)' /\ ProgressOK(p)'
<1>1. /\ at[p] \in {"resolving", "sending"} /\ batch' = batch
      /\ Current(p) \in Events /\ Current(p)' = Current(p)
  BY CurrentInBatch
     DEF DeliveryInv, Resolve, ResolveFails, Delivered, DeliveryFails, Current
<1>2. CopiesOK(p)'
  BY <1>1, CopiesKeep
<1>3. CASE Resolve(p)
  <2>1. todo'[p] = Subscribed[Current(p)]
    BY <1>3 DEF Resolve, DeliveryInv, TypeOK
  <2>2. at'[p] = IF Subscribed[Current(p)] = {} THEN "publishing" ELSE "sending"
    BY <1>3 DEF Resolve, To, DeliveryInv, TypeOK
  <2> QED
    BY <1>1, <1>2, <2>1, <2>2 DEF ProgressOK
<1>4. CASE ResolveFails(p)
  BY <1>2, <1>4 DEF ResolveFails, To, DeliveryInv, TypeOK, ProgressOK
<1>5. CASE Delivered(p)
  <2>1. /\ todo'[p] = todo[p] \ {Target(p)}
        /\ at'[p] = IF todo'[p] = {} THEN "publishing" ELSE "sending"
        /\ received'[Current(p)] = received[Current(p)] \cup {Target(p)}
        /\ at[p] = "sending"
    BY <1>1, <1>5 DEF Delivered, Arrives, To, DeliveryInv, TypeOK
  <2>2. /\ todo[p] \subseteq Subscribed[Current(p)]
        /\ Subscribed[Current(p)] \ todo[p] \subseteq received[Current(p)]
    BY <2>1 DEF DeliveryInv, ProgressOK
  <2> QED
    BY <1>1, <1>2, <2>1, <2>2 DEF ProgressOK
<1>6. CASE DeliveryFails(p)
  <2>1. received[Current(p)] \subseteq received'[Current(p)]
    BY <1>1 DEF Grows
  <2>2. at'[p] = "failing" \/ (at' = at /\ todo' = todo /\ at[p] = "sending")
    BY <1>6 DEF DeliveryFails, To, DeliveryInv, TypeOK
  <2>3. ProgressOK(p)
    BY DEF DeliveryInv
  <2> QED
    BY <1>1, <1>2, <2>1, <2>2, <2>3 DEF ProgressOK
<1> QED
  BY <1>3, <1>4, <1>5, <1>6

\* ... and outcome by outcome.
LEMMA OutcomeKnows ==
    ASSUME DeliveryInv, TypeOK', NEW p \in Publishers, Grows,
           \/ MarkPublished(p) \/ MarkPublishedFails(p)
           \/ MarkFailed(p) \/ MarkFailedFails(p)
    PROVE  CopiesOK(p)' /\ ProgressOK(p)'
<1> DEFINE left == DOMAIN batch[p] \ {Current(p)}
<1>1. at[p] \in {"publishing", "failing"}
  BY DEF MarkPublished, MarkPublishedFails, MarkFailed, MarkFailedFails
<1>2. CASE NextEvent(p)
  <2>1. /\ batch' = [batch EXCEPT ![p] = [e \in left |-> batch[p][e]]]
        /\ at' = [at EXCEPT ![p] = IF left = {} THEN "idle" ELSE "resolving"]
    BY <1>2 DEF NextEvent, To
  <2>2. left \subseteq DOMAIN batch[p]
    OBVIOUS
  <2> HIDE DEF left
  <2>3. batch'[p] = [e \in left |-> batch[p][e]] /\ at'[p] \in {"idle", "resolving"}
    BY <2>1 DEF DeliveryInv, TypeOK
  <2>4. CopiesOK(p)'
    BY <1>1, <2>2, <2>3, CopiesKeep
  <2> QED
    BY <2>3, <2>4 DEF ProgressOK
<1>3. CASE MarkPublishedFails(p)
  <2>1. batch' = batch /\ at'[p] = "failing"
    BY <1>3 DEF MarkPublishedFails, To, DeliveryInv, TypeOK
  <2>2. CopiesOK(p)'
    BY <1>1, <2>1, CopiesKeep
  <2> QED
    BY <2>1, <2>2 DEF ProgressOK
<1> QED
  BY <1>2, <1>3 DEF MarkPublished, MarkFailed, MarkFailedFails

\* Whoever fails for the last time has counted all the claims.
LEMMA RowsStep ==
    ASSUME DeliveryInv, NEW p \in Publishers, PublisherStep(p)
    PROVE  RowsOK'
<1> DEFINE c == Current(p)
<1>1. CASE row' = row
  BY <1>1 DEF DeliveryInv, RowsOK
<1>2. CASE CountClaim(p)
  <2> SUFFICES ASSUME NEW e \in Events
               PROVE  /\ row'[e].published \/ row'[e].dead => row'[e].stored
                      /\ row'[e].dead => row'[e].claims = MaxAttempts
    BY DEF RowsOK
  <2> QED
    BY <1>2, CountClaimGrows DEF DeliveryInv, RowsOK
<1>3. CASE at[p] \in {"publishing", "failing"}
  <2>1. /\ c \in DOMAIN batch[p] /\ c \in Events /\ row[c].stored
        /\ batch[p][c] \in Nat /\ row[c].claims \in 0 .. MaxAttempts
        /\ batch[p][c] < row[c].claims \/ row[c].claims = MaxAttempts
    BY <1>3, CurrentInBatch, OutboxAssumption DEF DeliveryInv, CopiesOK, TypeOK, Row
  <2>2. row \in [Events -> Row] /\ RowsOK
    BY DEF DeliveryInv, TypeOK
  <2>3. Terminal(p) => row[c].claims = MaxAttempts
    BY <2>1, OutboxAssumption DEF Terminal
  <2> HIDE DEF c
  <2>4. CASE row' = [row EXCEPT ![c].published = TRUE]
    BY <2>1, <2>2, <2>4 DEF RowsOK, Row
  <2>5. CASE row' = [row EXCEPT ![c].waiting = TRUE, ![c].dead = FALSE]
    BY <2>1, <2>2, <2>5 DEF RowsOK, Row
  <2>6. CASE Terminal(p) /\ row' = [row EXCEPT ![c].waiting = FALSE, ![c].dead = TRUE]
    BY <2>1, <2>2, <2>3, <2>6 DEF RowsOK, Row
  <2>7. CASE RecordPublished(c)
    BY <2>4, <2>7 DEF RecordPublished
  <2>8. CASE RecordFailed(p)
    BY <1>1, <2>5, <2>6, <2>8, RecordFailedOK DEF DeliveryInv, c
  <2> QED
    BY <1>1, <1>2, <2>7, <2>8
       DEF PublisherStep, Select, CommitClaim, ClaimFails, Resolve, ResolveFails, Delivered,
           DeliveryFails, Settle, MarkPublished, MarkFailed, MarkPublishedFails,
           MarkFailedFails, Crash, c
<1> QED
  BY <1>1, <1>2, <1>3
     DEF PublisherStep, Select, CommitClaim, ClaimFails, Resolve, ResolveFails, Delivered,
         DeliveryFails, Settle, MarkPublished, MarkFailed, MarkPublishedFails,
         MarkFailedFails, Crash

LEMMA RowStepRows ==
    ASSUME DeliveryInv, NEW e \in Events, RowStep(e)
    PROVE  RowsOK'
<1> USE DEF DeliveryInv, TypeOK, Row, RowsOK
<1>1. CASE Emit(e)
  BY <1>1 DEF Emit
<1>2. CASE BackoffEnds(e)
  BY <1>2 DEF BackoffEnds
<1>3. CASE Replay(e)
  BY <1>3 DEF Replay
<1> QED
  BY <1>1, <1>2, <1>3 DEF RowStep

LEMMA InitDeliveryInv == Init => DeliveryInv
<1> SUFFICES ASSUME Init PROVE DeliveryInv
  OBVIOUS
<1>1. RowsOK
  BY DEF Init, RowsOK
<1>2. ASSUME NEW p \in Publishers PROVE CopiesOK(p) /\ ProgressOK(p)
  BY DEF Init, NoBatch, CopiesOK, ProgressOK
<1> QED
  BY <1>1, <1>2, InitTypeOK DEF DeliveryInv

LEMMA StepDeliveryInv == DeliveryInv /\ [Next]_vars => DeliveryInv'
<1> SUFFICES ASSUME DeliveryInv, [Next]_vars PROVE DeliveryInv'
  OBVIOUS
<1>1. TypeOK /\ TypeOK'
  BY StepTypeOK DEF DeliveryInv
<1>2. CASE UNCHANGED vars
  <2>1. Grows
    BY <1>1, <1>2 DEF Grows, vars, TypeOK, Row
  <2>2. ASSUME NEW q \in Publishers PROVE CopiesOK(q)' /\ ProgressOK(q)'
    BY <1>1, <1>2, <2>1, OthersKeep DEF vars, pubVars
  <2> QED
    BY <1>1, <1>2, <2>2 DEF DeliveryInv, RowsOK, vars
<1>3. ASSUME NEW e \in Events, RowStep(e) PROVE DeliveryInv'
  <2>1. Grows /\ UNCHANGED pubVars
    BY <1>1, <1>3, RowStepGrows DEF RowStep, Emit, BackoffEnds, Replay
  <2>2. ASSUME NEW q \in Publishers PROVE CopiesOK(q)' /\ ProgressOK(q)'
    BY <1>1, <2>1, OthersKeep DEF pubVars
  <2> QED
    BY <1>1, <1>3, <2>2, RowStepRows DEF DeliveryInv
<1>4. ASSUME NEW p \in Publishers, PublisherStep(p) PROVE DeliveryInv'
  <2>1. Grows /\ OnlyAt(p)
    BY <1>1, <1>4, PublisherGrows, PublishersApart
  <2>2. CopiesOK(p)' /\ ProgressOK(p)'
    BY <1>1, <1>4, <2>1, ClaimKnows, SendKnows, OutcomeKnows DEF PublisherStep, Settle
  <2>3. ASSUME NEW q \in Publishers \ {p} PROVE CopiesOK(q)' /\ ProgressOK(q)'
    BY <1>1, <2>1, OthersKeep DEF OnlyAt
  <2> QED
    BY <1>1, <1>4, <2>2, <2>3, RowsStep DEF DeliveryInv
<1> QED
  BY <1>2, <1>3, <1>4 DEF Next

\* The inductive invariant.
THEOREM DeliveryInvariant == Spec => []DeliveryInv
BY InitDeliveryInv, StepDeliveryInv, PTL DEF Spec

\* No event is buried before the last of its claims, whatever the copies from
\* which publishers decide.
THEOREM DeadLettersWereTried == Spec => []DeadWasTried
<1>1. DeliveryInv => DeadWasTried
  BY DEF DeliveryInv, RowsOK, DeadWasTried
<1> QED
  BY <1>1, DeliveryInvariant, PTL

-----------------------------------------------------------------------------
(* Refinement. *)

\* Statuses change with the flags of rows only.
LEMMA SameStatus ==
    ASSUME \A e \in Events : /\ row'[e].stored = row[e].stored
                             /\ row'[e].published = row[e].published
                             /\ row'[e].dead = row[e].dead
    PROVE  \A e \in Events : Status(e)' = Status(e)
BY DEF Status

\* A step that moves the status of one event.
LEMMA MovedStatus ==
    ASSUME NEW c \in Events, NEW from, NEW to, Status(c) \in from, Status(c)' = to,
           \A e \in Events \ {c} : row'[e] = row[e],
           received' = received
    PROVE  Promise!Move(c, from, to)
<1>1. \A e \in Events \ {c} : Status(e)' = Status(e)
  BY DEF Status
<1> QED
  BY <1>1 DEF Promise!Move

LEMMA RowStepRefines ==
    ASSUME DeliveryInv, NEW c \in Events, RowStep(c)
    PROVE  [Promise!Next]_(Promise!vars)
<1>1. row \in [Events -> Row] /\ RowsOK
  BY DEF DeliveryInv, TypeOK
<1>2. CASE Emit(c)
  <2>1. Status(c) = "none" /\ Status(c)' = "pending"
    BY <1>1, <1>2 DEF Emit, Status, RowsOK, Row
  <2>2. \A e \in Events \ {c} : row'[e] = row[e]
    BY <1>1, <1>2 DEF Emit
  <2>3. Promise!Emit(c)
    BY <1>2, <2>1, <2>2, MovedStatus DEF Promise!Emit, Emit
  <2> QED
    BY <2>3 DEF Promise!Next
<1>3. CASE BackoffEnds(c)
  <2>1. \A e \in Events : /\ row'[e].stored = row[e].stored
                          /\ row'[e].published = row[e].published
                          /\ row'[e].dead = row[e].dead
    BY <1>1, <1>3 DEF BackoffEnds, Row
  <2> QED
    BY <1>3, <2>1, SameStatus DEF BackoffEnds, Promise!vars
<1>4. CASE Replay(c)
  <2>1. Status(c) = "dead" /\ Status(c)' = "pending"
    BY <1>1, <1>4 DEF Replay, Status, RowsOK, Row
  <2>2. \A e \in Events \ {c} : row'[e] = row[e]
    BY <1>1, <1>4 DEF Replay
  <2>3. Promise!Move(c, {"dead"}, "pending")
    <3>1. Status(c) \in {"dead"} /\ received' = received
      BY <1>4, <2>1 DEF Replay
    <3> QED
      BY <2>1, <2>2, <3>1, MovedStatus
  <2>4. Promise!Revive(c)
    BY <2>3 DEF Promise!Revive
  <2> QED
    BY <2>4 DEF Promise!Next
<1> QED
  BY <1>2, <1>3, <1>4 DEF RowStep

\* A delivery is a receipt, by a destination of an event in the table.
LEMMA ArrivalRefines ==
    ASSUME DeliveryInv, NEW p \in Publishers, at[p] = "sending", Arrives(p), UNCHANGED row
    PROVE  Promise!Next
<1> DEFINE c == Current(p)
           d == Target(p)
<1>1. c \in Events /\ c \in DOMAIN batch[p] /\ d \in Destinations /\ d \in Subscribed[c]
  BY CurrentInBatch, TargetInTodo DEF DeliveryInv, ProgressOK
<1>2. Status(c) # "none"
  BY <1>1 DEF DeliveryInv, CopiesOK, Status
<1>3. \A e \in Events : Status(e)' = Status(e)
  BY DEF Status
<1>4. received' = [received EXCEPT ![c] = @ \cup {d}]
  BY DEF Arrives
<1> HIDE DEF c, d
<1>5. Promise!Receive(c, d)
  BY <1>1, <1>2, <1>3, <1>4 DEF Promise!Receive
<1> QED
  BY <1>1, <1>5 DEF Promise!Next

\* A publication mark publishes an event that every destination has received.
LEMMA PublicationRefines ==
    ASSUME DeliveryInv, NEW p \in Publishers, at[p] = "publishing",
           RecordPublished(Current(p)), UNCHANGED received
    PROVE  [Promise!Next]_(Promise!vars)
<1> PICK c \in Events : c = Current(p)
  BY CurrentInBatch DEF DeliveryInv
<1>1. /\ c \in DOMAIN batch[p] /\ row[c].stored /\ Subscribed[c] \subseteq received[c]
      /\ row \in [Events -> Row]
  BY CurrentInBatch DEF DeliveryInv, CopiesOK, ProgressOK, TypeOK
<1>2. row' = [row EXCEPT ![c].published = TRUE]
  BY DEF RecordPublished
<1>3. CASE row[c].published
  <2>1. \A e \in Events : /\ row'[e].stored = row[e].stored
                          /\ row'[e].published = row[e].published
                          /\ row'[e].dead = row[e].dead
    BY <1>1, <1>2, <1>3 DEF Row
  <2> QED
    BY <2>1, SameStatus DEF Promise!vars
<1>4. CASE ~row[c].published
  <2>1. Status(c) \in {"pending", "dead"} /\ Status(c)' = "published"
    BY <1>1, <1>2, <1>4 DEF Status, Row
  <2>2. \A e \in Events \ {c} : row'[e] = row[e]
    BY <1>1, <1>2
  <2>3. Promise!Move(c, {"pending", "dead"}, "published")
    BY <1>1, <2>1, <2>2, MovedStatus
  <2>4. Promise!Publish(c)
    BY <1>1, <2>3 DEF Promise!Publish
  <2> QED
    BY <1>1, <2>4 DEF Promise!Next
<1> QED
  BY <1>3, <1>4

\* A failure mark buries a pending event, revives a dead one, or shows nothing.
LEMMA FailureRefines ==
    ASSUME DeliveryInv, NEW p \in Publishers, at[p] = "failing",
           RecordFailed(p), UNCHANGED received
    PROVE  [Promise!Next]_(Promise!vars)
<1> PICK c \in Events : c = Current(p)
  BY CurrentInBatch DEF DeliveryInv
<1>1. c \in DOMAIN batch[p] /\ row[c].stored /\ row \in [Events -> Row]
  BY CurrentInBatch DEF DeliveryInv, CopiesOK, TypeOK
<1>2. \/ row' = row
      \/ row' = [row EXCEPT ![c].waiting = TRUE, ![c].dead = FALSE]
      \/ row' = [row EXCEPT ![c].waiting = FALSE, ![c].dead = TRUE]
  BY RecordFailedOK DEF DeliveryInv
<1>3. row[c].published => row' = row
  BY DEF RecordFailed
<1>4. \A e \in Events \ {c} : row'[e] = row[e]
  BY <1>1, <1>2
<1>5. /\ row'[c].stored = row[c].stored
      /\ row'[c].published = row[c].published
      /\ row[c].published => row'[c].dead = row[c].dead
  <2>1. CASE row' = row
    BY <2>1
  <2>2. CASE row' = [row EXCEPT ![c].waiting = TRUE, ![c].dead = FALSE]
    BY <1>1, <1>3, <2>2 DEF Row
  <2>3. CASE row' = [row EXCEPT ![c].waiting = FALSE, ![c].dead = TRUE]
    BY <1>1, <1>3, <2>3 DEF Row
  <2> QED
    BY <1>2, <2>1, <2>2, <2>3
<1>6. CASE row'[c].dead = row[c].dead
  <2>1. \A e \in Events : /\ row'[e].stored = row[e].stored
                          /\ row'[e].published = row[e].published
                          /\ row'[e].dead = row[e].dead
    BY <1>4, <1>5, <1>6
  <2> QED
    BY <2>1, SameStatus DEF Promise!vars
<1>7. CASE row'[c].dead # row[c].dead
  <2>1. ~row[c].published /\ ~row'[c].published /\ row'[c].stored
    BY <1>1, <1>5, <1>7
  <2>2. row[c].dead \in BOOLEAN /\ row'[c].dead \in BOOLEAN
    BY <1>1, <1>2 DEF Row
  <2>3. CASE row[c].dead
    <3>1. Status(c) = "dead" /\ Status(c)' = "pending"
      BY <1>1, <1>7, <2>1, <2>2, <2>3 DEF Status
    <3>2. Promise!Move(c, {"dead"}, "pending")
      BY <1>4, <3>1, MovedStatus
    <3> QED
      BY <3>2 DEF Promise!Next, Promise!Revive
  <2>4. CASE ~row[c].dead
    <3>1. Status(c) = "pending" /\ Status(c)' = "dead"
      BY <1>1, <1>7, <2>1, <2>2, <2>4 DEF Status
    <3>2. Promise!Move(c, {"pending"}, "dead")
      BY <1>4, <3>1, MovedStatus
    <3> QED
      BY <3>2 DEF Promise!Next, Promise!Bury
  <2> QED
    BY <2>3, <2>4
<1> QED
  BY <1>6, <1>7

LEMMA PublisherRefines ==
    ASSUME DeliveryInv, NEW p \in Publishers, PublisherStep(p)
    PROVE  [Promise!Next]_(Promise!vars)
<1>1. CASE UNCHANGED <<row, received>>
  BY <1>1 DEF Promise!vars, Status
<1>2. CASE CountClaim(p) /\ UNCHANGED received
  BY <1>2, CountClaimGrows, SameStatus DEF Promise!vars, DeliveryInv
<1>3. CASE at[p] = "sending" /\ Arrives(p) /\ UNCHANGED row
  BY <1>3, ArrivalRefines
<1>4. CASE at[p] = "publishing" /\ RecordPublished(Current(p)) /\ UNCHANGED received
  BY <1>4, PublicationRefines
<1>5. CASE at[p] = "failing" /\ RecordFailed(p) /\ UNCHANGED received
  BY <1>5, FailureRefines
<1> QED
  BY <1>1, <1>2, <1>3, <1>4, <1>5
     DEF PublisherStep, Select, CommitClaim, ClaimFails, Resolve, ResolveFails, Delivered,
         DeliveryFails, Settle, MarkPublished, MarkFailed, MarkPublishedFails,
         MarkFailedFails, Crash

\* Claims, retries, lost replies, crashes and replays implement the abstract
\* outbox: an event is published only when every destination has received it,
\* and for ever.
THEOREM OutboxRefinement == Spec => Implements
<1>1. Init => Promise!Init
  BY DEF Init, Promise!Init, Status
<1>2. DeliveryInv /\ [Next]_vars => [Promise!Next]_(Promise!vars)
  <2> SUFFICES ASSUME DeliveryInv, [Next]_vars PROVE [Promise!Next]_(Promise!vars)
    OBVIOUS
  <2>1. CASE UNCHANGED vars
    BY <2>1 DEF vars, Promise!vars, Status
  <2> QED
    BY <2>1, RowStepRefines, PublisherRefines DEF Next
<1> QED
  BY <1>1, <1>2, DeliveryInvariant, PTL DEF Spec, Promise!Spec, Implements

\* Every destination of a published event has received it, whatever failed on
\* the way.
THEOREM PublishedWasDelivered == Spec => []Promise!AtLeastOnce
<1>1. Init => Promise!AtLeastOnce
  BY DEF Init, Promise!AtLeastOnce, Status
<1>2. DeliveryInv /\ Promise!AtLeastOnce /\ [Promise!Next]_(Promise!vars)
        => Promise!AtLeastOnce'
  <2> SUFFICES ASSUME DeliveryInv, Promise!AtLeastOnce, [Promise!Next]_(Promise!vars),
                      NEW c \in Events, Status(c)' = "published"
               PROVE  Subscribed[c] \subseteq received'[c]
    BY DEF Promise!AtLeastOnce
  <2> DEFINE st == [e \in Events |-> Status(e)]
  <2>1. DOMAIN received = Events /\ st[c] = Status(c) /\ st'[c] = "published"
    BY DEF DeliveryInv, TypeOK
  <2>2. st[c] = "published" => Subscribed[c] \subseteq received[c]
    BY <2>1 DEF Promise!AtLeastOnce
  <2>3. CASE UNCHANGED <<st, received>>
    BY <2>1, <2>2, <2>3
  <2>4. ASSUME NEW e \in Events, NEW d \in Destinations, Promise!Receive(e, d)
        PROVE  Subscribed[c] \subseteq received'[c]
    <3>1. st' = st /\ received' = [received EXCEPT ![e] = @ \cup {d}]
      BY <2>4 DEF Promise!Receive
    <3> QED
      BY <2>1, <2>2, <3>1
  <2>5. ASSUME NEW e \in Events, NEW from, NEW to, Promise!Move(e, from, to),
               to = "published" => Subscribed[e] \subseteq received[e]
        PROVE  Subscribed[c] \subseteq received'[c]
    <3>1. st' = [st EXCEPT ![e] = to] /\ received' = received
      BY <2>5 DEF Promise!Move
    <3>2. CASE e = c
      BY <2>1, <2>5, <3>1, <3>2
    <3>3. CASE e # c
      BY <2>1, <2>2, <3>1, <3>3
    <3> QED
      BY <3>2, <3>3
  <2> QED
    BY <2>3, <2>4, <2>5
       DEF Promise!Next, Promise!vars, Promise!Emit, Promise!Publish, Promise!Bury,
           Promise!Revive
<1> QED
  BY <1>1, <1>2, OutboxRefinement, DeliveryInvariant, PTL
     DEF Spec, Promise!Spec, Implements
=============================================================================
