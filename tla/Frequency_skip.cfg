\* Two centres, up to three threads, up to four descriptors.
CONSTANTS
    Centres = {a, b}
    MaxThreads = 3
    MaxDesc = 4
    Nothing = Nothing
SPECIFICATION Spec
INVARIANTS EveryDescriptorCounts
