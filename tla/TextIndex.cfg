CONSTANTS
    Forms <- MCForms
    Words <- MCWords
    Stem <- MCStem
    StopWords = {"the"}
    Files <- MCFiles
    Queries <- MCQueries
    Expressions <- MCExpressions
    Depth <- MCDepth
    MaxDepth = 3
    TagFiles <- MCTagFiles
    Images = {0, 7}
    MaxBatchUpdate = 1
    MaxBatchSearch = 2
    Threshold = 2
    MaxJoined = 20
    MaxDocs = 3
    MaxFrequency = 2
    MaxScore = 1
    Earlier <- MCEarlier
    None = None
SPECIFICATION MisenSpec
INVARIANTS MisenTypeOK IInv CountedArePosted EveryPostingOnce SearchMeansQuery BestAreReturned StorageStaysUp ArticlesKeepTheirWords ResponseIsWhole
CHECK_DEADLOCK FALSE
