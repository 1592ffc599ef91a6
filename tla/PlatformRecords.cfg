\* Two replicas, an event with two destinations and one with none, where everything may fail; two
\* routes and two processors on two requests of data subjects under one key.
SPECIFICATION RecordsSpec
CONSTANTS
    Publishers = {p1, p2}
    MaxEvents = 2
    MaxDestinations = 2
    Subscribed <- FirstToAll
    MaxAttempts = 2
    BatchSize = 2
    LossyStore = TRUE
    LossyHooks = TRUE
    MaxCrashes = 1
    MaxReplays = 1
    RouteCallers = {u1, u2}
    Processors = {q1, q2}
    SubmitKeys = {k1}
    Contents = {x, y}
    Unset = Unset
    MaxDataRequests = 2
INVARIANTS DeadWasTried RightsAreExact
PROPERTIES Implements EverySettles LifecycleIsKept
\* An outbox with every event published rests.
CHECK_DEADLOCK FALSE
