SPECIFICATION Spec
CONSTANTS
    empty = empty
    short = short
    long = long
    Files <- MCFiles
    Size <- MCSize
    High = 1
    Low = 0
    OneByOne = FALSE
    MaxRequests = 2
    MaxEdits = 0
INVARIANT SingleFile
CHECK_DEADLOCK FALSE
