--------------------------- MODULE MCReplicaSet -----------------------------
(***************************************************************************)
(* The two servers that the source's topology has.                         *)
(***************************************************************************)
EXTENDS ReplicaSet

MCNodes == {1, 2}

=============================================================================
