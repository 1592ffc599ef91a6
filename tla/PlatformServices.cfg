\* Two replicas with a handler each; three nodes; two leases; two usage records and two accounts;
\* one request that others interfere with.
CONSTANTS
    Replicas = {r1, r2}
    Handlers = {h1}
    MaxRequests = 2
    MaxConcurrent = 1
    MinuteTicks = 2
    ConcurrentTtl = 3
    MaxLate = 1
    NumNodes = 3
    BestNodes = {1, 3}
    Limit = 1
    Figures = {0, 1, 2}
    Leases = {l1, l2}
    Nobody = Nobody
    LeaseTtl = 2
    RateLimit = 2
    RateWindow = 2
    UsageIds = {i1, i2}
    UsageKeys = {d1, d2}
    Accounts = {a1, a2}
    Halves = {1}
    Prices = {1, 3}
    Plans = {p1}
    Months = {m1, m2}
    ProviderTotals = {2}
    CorrectionKeys = {c1}
    Requests = {g1}
    GatewayEnvs = {e1, e2, e3}
    OneTenant = {e1, e2}
    MaxRevoked = 1
SPECIFICATION ServicesSpec
INVARIANTS MinuteLimit ConcurrentLimit TokensGoToOpenNodes CoordinationHolds BilledOnce AnswersAreTrue
PROPERTIES SlotsComeBack
\* A ledger or a request that is done rests.
CHECK_DEADLOCK FALSE
