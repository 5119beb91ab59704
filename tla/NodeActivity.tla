---------------------------- MODULE NodeActivity ----------------------------
(***************************************************************************)
(* What docs/mysql-platform.md promises of one MySQL node: "Backup,        *)
(* restore validation, and topology changes must not overlap on a node."   *)
(* A topology change enters and leaves all the nodes it concerns at once;  *)
(* a backup or a restore test concerns a single node.                      *)
(***************************************************************************)

CONSTANT Nodes

VARIABLE active     \* active[n]: the activities under way on node n

Activities == {"backup", "restore", "topology"}

Init == active = [n \in Nodes |-> {}]

\* The activity starts on every node of S; nothing else is under way there.
Enter(S, a) ==
    /\ \A n \in S : active[n] = {}
    /\ active' = [n \in Nodes |-> IF n \in S THEN {a} ELSE active[n]]

\* The activity ends on every node of S.
Leave(S, a) ==
    /\ \A n \in S : active[n] = {a}
    /\ active' = [n \in Nodes |-> IF n \in S THEN {} ELSE active[n]]

Next == \E S \in SUBSET Nodes, a \in Activities : Enter(S, a) \/ Leave(S, a)

Spec == Init /\ [][Next]_active

=============================================================================
