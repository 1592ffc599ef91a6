\* Two replicas with two handlers each; requests may name any policy.
SPECIFICATION Spec
CONSTANTS
    Keys = {k1, k2}
    Names = {n1}
    PolicyNames <- Named
    Grace = 1
    Replicas = {r1, r2}
    Handlers = {h1, h2}
    MaxNumber = 7
    Horizon = 1
    MaxRestarts = 1
SYMMETRY Symmetry
CONSTRAINT Focus
INVARIANT RowRestores
CHECK_DEADLOCK FALSE
