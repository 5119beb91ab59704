\* A restore playbook beside switchovers, one after another.
SPECIFICATION Spec
CONSTANTS
    n1 = n1
    n2 = n2
    o1 = o1
    o2 = o2
    Nobody = Nobody
    Nodes <- MCNodes
    Operators <- SingleOperator
    Programs <- RestoreOnly
    Kinds <- SwitchoverOnly
    Serialized = TRUE
    BudgetHolds = TRUE
INVARIANT
    RestoreOnSecondary
