\* People run one playbook at a time; every step may fail.
SPECIFICATION Spec
CONSTANTS
    d1 = d1
    d2 = d2
    n1 = n1
    n2 = n2
    p1 = p1
    p2 = p2
    Nowhere = Nowhere
    Unset = Unset
    Modulus <- MCModulus
    Servers <- MCServers
    Nodes <- MCNodes
    Bodies <- MCBodies
    Converging <- MCServers
    Plays <- OnePlay
    FirstSerial <- MCFirstSerial
    MaxRuns <- MCMaxRuns
    Serialized = TRUE
SYMMETRY NodeSymmetry
INVARIANTS
    TypeOK
    AliasesAreLive
    ChoiceIsAccepted
    WriterInv
PROPERTIES
    SerialsOnlyAdvance
    AnswersChangeWithSerial
