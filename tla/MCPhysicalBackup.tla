-------------------------- MODULE MCPhysicalBackup --------------------------
(***************************************************************************)
(* Small instance of PhysicalBackup: three runs over two seconds, so that  *)
(* identifiers collide with complete, partial and leftover directories.    *)
(***************************************************************************)
EXTENDS PhysicalBackup

\* Bounds: the seconds the clock can show, and the runs of the program.
MCLastSecond == 2
MCMaxAttempts == 3

=============================================================================
