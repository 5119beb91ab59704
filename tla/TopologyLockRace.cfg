\* Two topology playbooks at the same time.
SPECIFICATION Spec
CONSTANTS
    n1 = n1
    n2 = n2
    o1 = o1
    o2 = o2
    Nobody = Nobody
    Nodes <- MCNodes
    Operators <- TwoOperators
    Programs <- ServiceOnly
    Kinds <- BothKinds
    Serialized = FALSE
    BudgetHolds = TRUE
SYMMETRY OperatorSymmetry
INVARIANT
    NoOverlap
