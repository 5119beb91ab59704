------------------------------ MODULE MCRoleDns -----------------------------
(***************************************************************************)
(* Small instances of RoleDns: two servers, two nodes, two zone contents,  *)
(* serials of a small space that wrap during the runs.                     *)
(***************************************************************************)
EXTENDS RoleDns, TLC

CONSTANTS d1, d2, n1, n2, p1, p2

MCServers == {d1, d2}
MCNodes == {n1, n2}
OneBody == {"before"}
MCBodies == {"before", "after"}
OnePlay == {p1}
TwoPlays == {p1, p2}
NoServers == {}

\* Bounds: the space of serials, the serial before the wrap, playbook runs.
MCModulus == 12
MCFirstSerial == 10
MCMaxRuns == 4
TwoRuns == 2
ThreeRuns == 3

NodeSymmetry == Permutations(MCNodes)
StaleSymmetry == NodeSymmetry \cup Permutations(TwoPlays)

=============================================================================
