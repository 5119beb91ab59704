\* Two servers; sessions of every action, among failures and interventions.
SPECIFICATION Spec
CONSTANTS
    Nodes <- MCNodes
    InitialPrimary = 1
    MaxRuns = 4
    MaxFaults = 4
INVARIANTS
    TypeOK
    TopologyNeverForks
    ReportIsTrue
PROPERTIES
    CheckChangesNothing
    RejoinIsUnambiguous
CHECK_DEADLOCK FALSE
