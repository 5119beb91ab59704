\* A run that a termination signal reaches, and nothing worse.
SPECIFICATION Spec
CONSTANTS
    LastSecond <- MCLastSecond
    MaxAttempts <- MCMaxAttempts
    MaySignal = TRUE
    MayCrash = FALSE
    RemovalMayFail = FALSE
INVARIANT
    StagingIsRemoved
