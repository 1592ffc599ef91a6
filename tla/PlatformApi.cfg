\* Two replicas with two handlers each; three changes after the seed.
SPECIFICATION Spec
CONSTANTS
    Keys = {k1, k2}
    Names = {n1}
    PolicyNames <- Named
    Grace = 1
    Replicas = {r1, r2}
    Handlers = {h1, h2}
    MaxNumber = 7
    Horizon = 1
    MaxRestarts = 1
SYMMETRY Symmetry
CONSTRAINT Focus
INVARIANTS AnsweredIsDurable OneContentPerVersion OneAnswerPerKey LapsedIsRefused
CHECK_DEADLOCK FALSE
