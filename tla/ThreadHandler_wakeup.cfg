\* Two workers that the race on entered_threads can give one slot.
CONSTANTS
    Workers = {w1, w2}
    Callers = {c1}
    NoTask = NoTask
    Nobody = Nobody
SPECIFICATION FairSpec
PROPERTIES DoWorkReturns
\* What the property forbids is a wait that nothing ends.
CHECK_DEADLOCK FALSE
