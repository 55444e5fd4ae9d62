SPECIFICATION FairSpec
CONSTANTS
    MaxCalls = 2
    MaxErrors = 1
INVARIANTS TypeOK OneSource  
PROPERTY StreamReturns
