--------------------------- MODULE MCTopologyLock ---------------------------
(***************************************************************************)
(* Small instances of TopologyLock: the two database nodes and one or two  *)
(* playbook processes.                                                     *)
(***************************************************************************)
EXTENDS TopologyLock, TLC

\* Bounds: the two members of the ReplicaSet, as model values.
CONSTANTS n1, n2, o1, o2

MCNodes == {n1, n2}
SingleOperator == {o1}
TwoOperators == {o1, o2}
OperatorSymmetry == Permutations(TwoOperators)

AllPrograms == {"service", "manual", "restore"}
ServiceOnly == {"service"}
RestoreOnly == {"restore"}

BothKinds == {"switchover", "failover"}
SwitchoverOnly == {"switchover"}

=============================================================================
