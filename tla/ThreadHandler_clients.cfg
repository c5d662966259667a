\* Two client threads dispatch work at the same time.
CONSTANTS
    Workers = {w1}
    Callers = {c1, c2}
    NoTask = NoTask
    Nobody = Nobody
SPECIFICATION Spec
INVARIANTS ReturnsAfterWork
CHECK_DEADLOCK FALSE
