\* Three workers whose registrations may overlap, one client thread.
CONSTANTS
    Workers = {w1, w2, w3}
    Callers = {c1}
    NoTask = NoTask
    Nobody = Nobody
SPECIFICATION FairSpec
INVARIANTS TypeOK IInv UnlockedWritesAreExclusive QuietBetweenOperations NothingRefused
PROPERTIES ImplementsForkJoin OperationEnds
\* Two workers that share a slot can leave thread_do_work waiting for ever.
CHECK_DEADLOCK FALSE
