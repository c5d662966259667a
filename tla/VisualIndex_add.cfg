\* Images without the first centre.
CONSTANTS
    NrCentres = 2
    AddMaxBatch = 2
    SearchMaxBatch = 2
    MaxAdds = 1
    MaxConnections = 1
    MaxWaiting = 1
    Abandons = FALSE
    None = None
SPECIFICATION Spec
INVARIANTS CountersOfPresent
\* The bounds are reached, or the storage has exited.
CHECK_DEADLOCK FALSE
