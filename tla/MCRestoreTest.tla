--------------------------- MODULE MCRestoreTest ----------------------------
(***************************************************************************)
(* Restore tests and backup runs on one host, small enough for TLC: either *)
(* one test of what the logs and their archive may have become, or two     *)
(* tests with every fault and a source that stands still.                  *)
(***************************************************************************)
EXTENDS RestoreTest

Bound(runs, transactions, rotations, archiving, tests, faults) ==
    [backups |-> runs, transactions |-> transactions, closed |-> rotations,
     archiving |-> archiving, attempts |-> tests, faults |-> faults]

MCBounds == {Bound(1, 1, 2, 1, 1, FALSE), Bound(2, 1, 0, 2, 1, FALSE),
             Bound(2, 0, 0, 0, 2, TRUE)}

=============================================================================
