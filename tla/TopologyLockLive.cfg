\* One playbook process: every behaviour under the time limits of the code.
SPECIFICATION FairSpec
CONSTANTS
    n1 = n1
    n2 = n2
    o1 = o1
    o2 = o2
    Nobody = Nobody
    Nodes <- MCNodes
    Operators <- SingleOperator
    Programs <- ServiceOnly
    Kinds <- BothKinds
    Serialized = TRUE
    BudgetHolds = TRUE
PROPERTIES
    LockIsReleased
    OperationEnds
