--------------------------- MODULE OutboxDelivery ---------------------------
(***************************************************************************)
(* The webhook outbox: request handlers insert events                      *)
(* (postgres-persistence.ts, server.ts), and in every replica one          *)
(* publisher claims a batch of them, posts each to its destinations and    *)
(* records the outcome (outbox-publisher.ts).                              *)
(*                                                                         *)
(* A claim locks its rows from the SELECT ... FOR UPDATE SKIP LOCKED to    *)
(* the COMMIT and counts itself in them; the locks are gone before the     *)
(* first delivery, and the publisher keeps the rows as they were before    *)
(* the count.  Deliveries, the publication mark and the failure mark are   *)
(* separate awaits between which other publishers, replays and crashes     *)
(* come.  Any call to the store may fail before or after its effect, and a *)
(* destination may answer with an error after it has received the event.   *)
(*                                                                         *)
(* Event numbers follow occurred_at, destination numbers the order of the  *)
(* destination list.  Subscriptions are fixed.  The publisher's Map of     *)
(* dead letters is left out: nothing reads it.                             *)
(***************************************************************************)
EXTENDS Naturals, FiniteSets

CONSTANTS
    Publishers,
    MaxEvents,       \* events 1 .. MaxEvents
    MaxDestinations, \* destinations 1 .. MaxDestinations
    Subscribed,      \* Subscribed[e]: the destinations that receive event e
    MaxAttempts,     \* options.maxAttempts
    BatchSize,       \* options.batchSize
    LossyStore,      \* TRUE: calls to the database may fail
    LossyHooks,      \* TRUE: deliveries may fail
    MaxCrashes,      \* bound on crashes of publishers
    MaxReplays       \* bound on replays by operators

Events == 1 .. MaxEvents
Destinations == 1 .. MaxDestinations

ASSUME OutboxAssumption ==
    /\ MaxEvents \in Nat /\ MaxDestinations \in Nat
    /\ Subscribed \in [Events -> SUBSET Destinations]
    /\ MaxAttempts \in Nat \ {0}
    /\ BatchSize \in Nat \ {0}
    /\ LossyStore \in BOOLEAN /\ LossyHooks \in BOOLEAN
    /\ MaxCrashes \in Nat /\ MaxReplays \in Nat

VARIABLES
    row,             \* the row of each event
    received,        \* the destinations that have received each event
    at,              \* what each publisher awaits, "idle" between batches
    batch,           \* the rows it still has to deliver, with the count it read
    todo,            \* destinations its first event still has to reach
    tries,           \* failed deliveries to the first of them
    crashes, replays

pubVars == <<at, batch, todo, tries>>
vars == <<row, received, pubVars, crashes, replays>>

Points == {"idle", "claiming", "resolving", "sending", "publishing", "failing"}

\* claims: attempt_count, of which only >= MaxAttempts is told apart above it.
Row == [stored : BOOLEAN, published : BOOLEAN, dead : BOOLEAN, waiting : BOOLEAN,
        claims : 0 .. MaxAttempts]
NoBatch == [e \in {} |-> 0]

\* The types, and what each await implies for the publisher's variables: a
\* publisher that sends always has a destination left to send to.
TypeOK ==
    /\ row \in [Events -> Row]
    /\ received \in [Events -> SUBSET Destinations]
    /\ at \in [Publishers -> Points]
    /\ \A p \in Publishers :
        /\ DOMAIN batch[p] \subseteq Events
        /\ batch[p] \in [DOMAIN batch[p] -> 0 .. MaxAttempts]
        /\ at[p] = "idle" <=> DOMAIN batch[p] = {}
        /\ at[p] = "sending" <=> todo[p] # {}
    /\ DOMAIN batch = Publishers
    /\ todo \in [Publishers -> SUBSET Destinations]
    /\ tries \in [Publishers -> 0 .. (MaxAttempts - 1)]
    /\ crashes \in 0 .. MaxCrashes /\ replays \in 0 .. MaxReplays

Init ==
    /\ row = [e \in Events |-> [stored |-> FALSE, published |-> FALSE, dead |-> FALSE,
                                waiting |-> FALSE, claims |-> 0]]
    /\ received = [e \in Events |-> {}]
    /\ at = [p \in Publishers |-> "idle"]
    /\ batch = [p \in Publishers |-> NoBatch]
    /\ todo = [p \in Publishers |-> {}]
    /\ tries = [p \in Publishers |-> 0]
    /\ crashes = 0 /\ replays = 0

-----------------------------------------------------------------------------
(* Rows. *)

Locked(e) == \E p \in Publishers : at[p] = "claiming" /\ e \in DOMAIN batch[p]

Due(e) ==
    /\ row[e].stored /\ ~row[e].published /\ ~row[e].dead /\ ~row[e].waiting
    /\ ~Locked(e)

\* The oldest due rows, as many as a batch takes.
FirstDue == {e \in Events : Due(e) /\ Cardinality({c \in 1 .. e : Due(c)}) <= BatchSize}

\* A transaction with the audit row; it takes effect whole or not at all.
Emit(e) ==
    /\ ~row[e].stored
    /\ row' = [row EXCEPT ![e].stored = TRUE]
    /\ UNCHANGED <<received, pubVars, crashes, replays>>

\* next_attempt_at passes.
BackoffEnds(e) ==
    /\ row[e].waiting
    /\ row' = [row EXCEPT ![e].waiting = FALSE]
    /\ UNCHANGED <<received, pubVars, crashes, replays>>

\* An operator requeues a dead letter; other events are refused.
Replay(e) ==
    /\ replays < MaxReplays
    /\ row[e].dead /\ ~row[e].published /\ ~Locked(e)
    /\ row' = [row EXCEPT ![e].dead = FALSE, ![e].waiting = FALSE]
    /\ replays' = replays + 1
    /\ UNCHANGED <<received, pubVars, crashes>>

-----------------------------------------------------------------------------
(* Claims. *)

Select(p) ==
    /\ at[p] = "idle" /\ FirstDue # {}
    /\ batch' = [batch EXCEPT ![p] = [e \in FirstDue |-> row[e].claims]]
    /\ at' = [at EXCEPT ![p] = "claiming"]
    /\ UNCHANGED <<row, received, todo, tries, crashes, replays>>

OneMore(n) == IF n < MaxAttempts THEN n + 1 ELSE n

\* Mutation: the count is not written back.
CountForgotten(p) == UNCHANGED row

\* attempt_count = attempt_count + 1 for the rows of the claim.
CountClaim(p) ==
    row' = [e \in Events |->
              IF e \in DOMAIN batch[p] THEN [row[e] EXCEPT !.claims = OneMore(@)] ELSE row[e]]

CommitClaim(p) ==
    /\ at[p] = "claiming"
    /\ CountClaim(p)
    /\ at' = [at EXCEPT ![p] = "resolving"]
    /\ UNCHANGED <<received, batch, todo, tries, crashes, replays>>

\* claimOutbox throws: the rows are unlocked, counted if the COMMIT was served.
ClaimFails(p) ==
    /\ LossyStore /\ at[p] = "claiming"
    /\ UNCHANGED row \/ CountClaim(p)
    /\ at' = [at EXCEPT ![p] = "idle"]
    /\ batch' = [batch EXCEPT ![p] = NoBatch]
    /\ UNCHANGED <<received, todo, tries, crashes, replays>>

-----------------------------------------------------------------------------
(* Deliveries. *)

Least(S) == CHOOSE n \in S : \A k \in S : n <= k

\* The event a publisher works on, and the destination it sends to.
Current(p) == Least(DOMAIN batch[p])
Target(p) == Least(todo[p])

To(p, point) == at' = [at EXCEPT ![p] = point]

\* Mutation: destinations that cannot be read count as none.
ResolveFailsEmpty(p) ==
    /\ LossyStore /\ at[p] = "resolving"
    /\ To(p, "publishing")
    /\ UNCHANGED <<row, received, batch, todo, tries, crashes, replays>>

\* The destinations of the event are read, and those of its type kept.
Resolve(p) ==
    /\ at[p] = "resolving"
    /\ todo' = [todo EXCEPT ![p] = Subscribed[Current(p)]]
    /\ To(p, IF Subscribed[Current(p)] = {} THEN "publishing" ELSE "sending")
    /\ UNCHANGED <<row, received, batch, tries, crashes, replays>>

\* The destination list or a secret cannot be read, or is not valid.
ResolveFails(p) ==
    /\ LossyStore /\ at[p] = "resolving"
    /\ To(p, "failing")
    /\ UNCHANGED <<row, received, batch, todo, tries, crashes, replays>>

Arrives(p) == received' = [received EXCEPT ![Current(p)] = @ \cup {Target(p)}]

\* The destination answers with success; the next one follows.
Delivered(p) ==
    /\ at[p] = "sending"
    /\ Arrives(p)
    /\ todo' = [todo EXCEPT ![p] = @ \ {Target(p)}]
    /\ tries' = [tries EXCEPT ![p] = 0]
    /\ To(p, IF todo'[p] = {} THEN "publishing" ELSE "sending")
    /\ UNCHANGED <<row, batch, crashes, replays>>

\* An error or a timeout, with or without the event received: the same
\* destination again, until the attempts of this claim are used up.
DeliveryFails(p) ==
    /\ LossyHooks /\ at[p] = "sending"
    /\ UNCHANGED received \/ Arrives(p)
    /\ IF tries[p] + 1 < MaxAttempts
       THEN /\ tries' = [tries EXCEPT ![p] = @ + 1]
            /\ UNCHANGED <<at, todo>>
       ELSE /\ tries' = [tries EXCEPT ![p] = 0]
            /\ todo' = [todo EXCEPT ![p] = {}]
            /\ To(p, "failing")
    /\ UNCHANGED <<row, batch, crashes, replays>>

-----------------------------------------------------------------------------
(* Outcomes. *)

NextEvent(p) ==
    LET left == DOMAIN batch[p] \ {Current(p)}
    IN  /\ batch' = [batch EXCEPT ![p] = [e \in left |-> batch[p][e]]]
        /\ To(p, IF left = {} THEN "idle" ELSE "resolving")

\* Sets published_at unless it is set.
RecordPublished(e) == row' = [row EXCEPT ![e].published = TRUE]

MarkPublished(p) ==
    /\ at[p] = "publishing" /\ ~Locked(Current(p))
    /\ RecordPublished(Current(p))
    /\ NextEvent(p)
    /\ UNCHANGED <<received, todo, tries, crashes, replays>>

\* The mark throws, served or not, and the event counts as failed.
MarkPublishedFails(p) ==
    /\ LossyStore /\ at[p] = "publishing" /\ ~Locked(Current(p))
    /\ UNCHANGED row \/ RecordPublished(Current(p))
    /\ To(p, "failing")
    /\ UNCHANGED <<received, batch, todo, tries, crashes, replays>>

\* Mutation: one claim too few is enough for a dead letter.
TerminalEarly(p) == batch[p][Current(p)] + 2 >= MaxAttempts

\* The claim that fails is the last one, by the count read before it.
Terminal(p) == batch[p][Current(p)] + 1 >= MaxAttempts

\* Sets next_attempt_at or dead_lettered_at and clears the other, unless the
\* event is published.
RecordFailed(p) ==
    IF row[Current(p)].published
    THEN UNCHANGED row
    ELSE row' = [row EXCEPT ![Current(p)].waiting = ~Terminal(p),
                            ![Current(p)].dead = Terminal(p)]

MarkFailed(p) ==
    /\ at[p] = "failing" /\ ~Locked(Current(p))
    /\ RecordFailed(p)
    /\ NextEvent(p)
    /\ UNCHANGED <<received, todo, tries, crashes, replays>>

\* The mark throws, served or not; the publisher goes on to the next event.
MarkFailedFails(p) ==
    /\ LossyStore /\ at[p] = "failing" /\ ~Locked(Current(p))
    /\ UNCHANGED row \/ RecordFailed(p)
    /\ NextEvent(p)
    /\ UNCHANGED <<received, todo, tries, crashes, replays>>

\* The process ends and starts again; its transaction is rolled back.
Crash(p) ==
    /\ crashes < MaxCrashes /\ at[p] # "idle"
    /\ crashes' = crashes + 1
    /\ To(p, "idle")
    /\ batch' = [batch EXCEPT ![p] = NoBatch]
    /\ todo' = [todo EXCEPT ![p] = {}]
    /\ tries' = [tries EXCEPT ![p] = 0]
    /\ UNCHANGED <<row, received, replays>>

-----------------------------------------------------------------------------

RowStep(e) == Emit(e) \/ BackoffEnds(e) \/ Replay(e)

Settle(p) == MarkPublished(p) \/ MarkFailed(p)

PublisherStep(p) ==
    \/ Select(p) \/ CommitClaim(p) \/ ClaimFails(p)
    \/ Resolve(p) \/ ResolveFails(p) \/ Delivered(p) \/ DeliveryFails(p)
    \/ Settle(p) \/ MarkPublishedFails(p) \/ MarkFailedFails(p)
    \/ Crash(p)

Next == (\E e \in Events : RowStep(e)) \/ (\E p \in Publishers : PublisherStep(p))

Spec == Init /\ [][Next]_vars

-----------------------------------------------------------------------------
(* Properties. *)

\* An event is buried only after as many claims as the options allow:
\* whatever the interleaving, the count in the row is never behind the copies
\* from which publishers decide.
DeadWasTried == TypeOK /\ \A e \in Events : row[e].dead => row[e].claims = MaxAttempts

\* The status of an event to a reader of the table.
Status(e) ==
    IF ~row[e].stored THEN "none"
    ELSE IF row[e].published THEN "published"
    ELSE IF row[e].dead THEN "dead" ELSE "pending"

Promise == INSTANCE Outbox WITH status <- [e \in Events |-> Status(e)]

\* Claims, retries, lost replies, crashes and replays implement the outbox.
Implements == Promise!Spec

\* An event that is in the table is published or buried over and over: no
\* crash or lost mark strands it, and the count runs out.
EverySettles ==
    \A e \in Events :
        []<>(row[e].stored => row[e].published \/ row[e].dead)
=============================================================================
