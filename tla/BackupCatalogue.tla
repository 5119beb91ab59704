-------------------------- MODULE BackupCatalogue ---------------------------
(***************************************************************************)
(* What docs/mysql-platform.md promises of the local backup repository:    *)
(* "Incomplete directories are excluded from selection [...]  An existing  *)
(* backup is never overwritten."  The catalogue of backups that can be     *)
(* selected only grows, and an identifier keeps the bytes it was entered   *)
(* with.                                                                   *)
(***************************************************************************)

CONSTANTS
    Ids,            \* backup identifiers: timestamps in seconds
    Contents        \* what a backup directory may hold

VARIABLE catalogue  \* the identifiers entered, each with its content

Init == catalogue = {}

Enter(id, content) ==
    /\ \A entry \in catalogue : entry.id # id
    /\ catalogue' = catalogue \cup {[id |-> id, content |-> content]}

Next == \E id \in Ids, content \in Contents : Enter(id, content)

Spec == Init /\ [][Next]_catalogue

=============================================================================
