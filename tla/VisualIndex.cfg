\* Two centres, two images, two repositories, batches of two.
CONSTANTS
    NrCentres = 2
    AddMaxBatch = 2
    SearchMaxBatch = 2
    MaxAdds = 2
    MaxConnections = 2
    MaxWaiting = 1
    Abandons = TRUE
    None = None
SPECIFICATION Spec
INVARIANTS TypeOK IInv CountedAreSent SearchIsExact SearchesAreRecorded WeightsNotNegative AnswerIsComing
\* The bounds are reached, or the storage has exited.
CHECK_DEADLOCK FALSE
