\* Three runs in two seconds, with every failure, signal and kill, and removals that fail.
SPECIFICATION Spec
CONSTANTS
    LastSecond <- MCLastSecond
    MaxAttempts <- MCMaxAttempts
    MaySignal = TRUE
    MayCrash = TRUE
    RemovalMayFail = TRUE
INVARIANTS
    TypeOK
    MarkersAreEarned
    StatusIsTrue
    ErrorsLeaveNoStaging
PROPERTIES
    ForeignStagingIsKept
    ImplementsCatalogue
