\* A repository cleared while its last add is on its way.
CONSTANTS
    NrCentres = 2
    AddMaxBatch = 1
    SearchMaxBatch = 2
    MaxAdds = 2
    MaxConnections = 2
    MaxWaiting = 1
    Abandons = FALSE
    None = None
SPECIFICATION Spec
INVARIANTS NothingOfClearedRepositories
\* The bounds are reached, or the storage has exited.
CHECK_DEADLOCK FALSE
