SPECIFICATION FairSpec
CONSTANTS
    empty = empty
    short = short
    long = long
    Files <- MCFiles
    Size <- MCSize
    High = 1
    Low = 0
    OneByOne = TRUE
    MaxRequests = 2
    MaxEdits = 2
INVARIANTS TypeOK SavedIsTheFile DoneHasAll BufferBounded SeesWhatIsShared
PROPERTY DownloadsEnd
\* The channel may have closed, or everything was asked for.
CHECK_DEADLOCK FALSE
