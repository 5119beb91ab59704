\* Playbooks that update role DNS beside each other; no zone is converged.
SPECIFICATION Spec
CONSTANTS
    d1 = d1
    d2 = d2
    n1 = n1
    n2 = n2
    p1 = p1
    p2 = p2
    Nowhere = Nowhere
    Unset = Unset
    Modulus <- MCModulus
    Servers <- MCServers
    Nodes <- MCNodes
    Bodies <- OneBody
    Converging <- NoServers
    Plays <- TwoPlays
    FirstSerial <- MCFirstSerial
    MaxRuns <- ThreeRuns
    Serialized = FALSE
SYMMETRY StaleSymmetry
INVARIANTS
    NoteIsTrue
    ServersAgree
