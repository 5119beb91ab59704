\* People run one topology playbook at a time; killed playbooks leave their lock.
SPECIFICATION Spec
CONSTANTS
    n1 = n1
    n2 = n2
    o1 = o1
    o2 = o2
    Nobody = Nobody
    Nodes <- MCNodes
    Operators <- TwoOperators
    Programs <- AllPrograms
    Kinds <- BothKinds
    Serialized = TRUE
    BudgetHolds = TRUE
SYMMETRY OperatorSymmetry
INVARIANTS
    TypeOK
    LockInv
    NoOverlap
    BackupStaysOnSecondary
PROPERTY
    ImplementsNodeActivity
