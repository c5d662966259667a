\* Two centres, up to three threads, up to five descriptors.
CONSTANTS
    Centres = {a, b}
    MaxThreads = 3
    MaxDesc = 5
    Nothing = Nothing
SPECIFICATION Spec
INVARIANTS TypeOK IInv NeverOvercounts RaceKeepsCentres ExactWhenAlone
