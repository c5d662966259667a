CONSTANTS
    Clients = {1, 2}
    MaxRecord = 2
    RequestLength <- MCRequestLength
    AnswerLength <- MCAnswerLength
    NrCentres = 2
    MaxDescriptorsMem = 4
    MaxThreads = 2
    Settings <- MCSettings
    TestFiles = 1
    Leftovers = {0, 1}
SPECIFICATION Spec
INVARIANTS TypeOK IInv DriverInv RequestsArriveWhole CodebookIsSet CodebookIsTheFirstDescriptors CentresFollowBatches TrainingHasEnough DumpsFollowSearches ClosingIsHarmless
PROPERTIES CallsAreExecutedOnce SessionsEnd
CHECK_DEADLOCK FALSE
