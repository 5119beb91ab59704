SPECIFICATION FairSpec
CONSTANTS
    MaxBackups = 2
    MaxTransactions = 2
    MaxClosed = 2
    MaxAttempts = 2
    Bounds <- MCBounds
INVARIANTS
    TypeOK
    SuccessIsEarned
    ReplayIsComplete
    ErrorsLeaveNothing
PROPERTIES
    FilesOutliveUnit
    EverythingEnds
CHECK_DEADLOCK FALSE
