--------------------------- MODULE BinlogArchive ----------------------------
(***************************************************************************)
(* The binary logs of a source server, and the archive that every physical *)
(* backup fills from them (archive_closed_binlogs) and that a restore test *)
(* with --pitr replays (pitr_binlogs, replay_binlogs).  The server commits *)
(* and rotates beside the program, and purges old logs under its hands.    *)
(*                                                                         *)
(* Abstracted: transactions are numbered in the order of their commit, and *)
(* a log file is the range of transactions it holds; log names are their   *)
(* numbers.  One source node and server UUID.                              *)
(***************************************************************************)
EXTENDS Naturals, Sequences, FiniteSetsExt

CONSTANTS
    MaxBackups,         \* bound: runs of the backup program
    MaxTransactions,    \* bound: transactions the source commits
    MaxClosed,          \* bound: the source rotates of itself up to this log
    Bounds              \* records of smaller bounds: a behaviour keeps to one;
                        \* archiving: only so many backup runs archive logs

ASSUME ArchiveAssumption ==
    /\ MaxBackups \in Nat \ {0}
    /\ MaxTransactions \in Nat
    /\ MaxClosed \in Nat
    /\ \A bound \in Bounds :
          /\ bound.backups \in 0..MaxBackups /\ bound.archiving \in Nat
          /\ bound.transactions \in 0..MaxTransactions /\ bound.closed \in 0..MaxClosed

VARIABLES
    bounds,             \* the bounds of this behaviour
    committed,          \* transactions the source has committed
    closed,             \* closed[l]: how many there were when log l was closed
    oldest,             \* the oldest log the source has not purged
    archived,           \* archived[l]: the file of log l in the archive
    manifests,          \* manifests[b]: the log manifest of backup b
    baseline,           \* baseline[b]: xtrabackup_binlog_info of backup b
    flushed,            \* flushed[b]: transactions at the flush of run b
    backups,            \* number of the present or last backup run
    step,               \* where that run is
    listed,             \* the closed logs of its SHOW BINARY LOGS
    todo                \* those it has not archived yet

sourceVars == <<bounds, committed, closed, oldest>>
archiveVars == <<archived, manifests, baseline, flushed>>
backupVars == <<backups, step, listed, todo>>
logVars == <<sourceVars, archiveVars, backupVars>>

Backups == 1..MaxBackups
Transactions == 1..MaxTransactions
Logs == 1..(MaxClosed + MaxBackups + 1)

\* A backup is completed when it has a baseline: the log that was active when
\* it ended, and the number of transactions it holds.
NoBaseline == [log |-> 0, count |-> 0]
NoManifest == [written |-> FALSE, logs |-> {}]

LogTypeOK ==
    /\ bounds \in Bounds
    /\ committed \in 0..MaxTransactions
    /\ closed \in Seq(0..MaxTransactions)
    /\ Len(closed) <= MaxClosed + MaxBackups
    /\ oldest \in 1..(Len(closed) + 1)
    /\ archived \in [Logs -> {"none", "good", "rotten"}]
    /\ manifests \in [Backups -> [written: BOOLEAN, logs: SUBSET Logs]]
    /\ baseline \in [Backups -> [log: 0..Len(closed) + 1, count: 0..committed]]
    /\ flushed \in [Backups -> 0..committed]
    /\ backups \in 0..MaxBackups
    /\ step \in {"idle", "begun", "stored", "flushed", "copying", "archived"}
    /\ listed \subseteq Logs /\ todo \subseteq listed

LogInit ==
    /\ bounds \in Bounds
    /\ committed = 0 /\ closed = <<>> /\ oldest = 1
    /\ archived = [l \in Logs |-> "none"]
    /\ manifests = [b \in Backups |-> NoManifest]
    /\ baseline = [b \in Backups |-> NoBaseline]
    /\ flushed = [b \in Backups |-> 0]
    /\ backups = 0 /\ step = "idle" /\ listed = {} /\ todo = {}

Completed == {b \in Backups : baseline[b].log # 0}

-----------------------------------------------------------------------------
(* The source server.                                                      *)

Commit ==
    /\ committed < bounds.transactions
    /\ committed' = committed + 1
    /\ UNCHANGED <<bounds, closed, oldest, archiveVars, backupVars>>

\* The active log is full.
Rotate ==
    /\ Len(closed) < bounds.closed
    /\ closed' = Append(closed, committed)
    /\ UNCHANGED <<bounds, committed, oldest, archiveVars, backupVars>>

\* binlog_expire_logs_seconds, or PURGE BINARY LOGS: never the active log.
Purge ==
    /\ oldest <= Len(closed)
    /\ oldest' = oldest + 1
    /\ UNCHANGED <<bounds, committed, closed, archiveVars, backupVars>>

\* The archive's medium loses a byte: one file is enough.
RotLog(l) ==
    /\ archived[l] = "good"
    /\ \A k \in Logs : archived[k] # "rotten"
    /\ archived' = [archived EXCEPT ![l] = "rotten"]
    /\ UNCHANGED <<sourceVars, manifests, baseline, flushed, backupVars>>

-----------------------------------------------------------------------------
(* The backup program.                                                     *)

Begin ==
    /\ step = "idle" /\ step' = "begun"
    /\ backups < bounds.backups /\ backups' = backups + 1
    /\ UNCHANGED <<sourceVars, archiveVars, listed, todo>>

\* xtrabackup and store_backup: the copy ends at a position of the active log.
Store ==
    /\ step = "begun" /\ step' = "stored"
    /\ baseline' = [baseline EXCEPT ![backups] =
                        [log |-> Len(closed) + 1, count |-> committed]]
    /\ UNCHANGED <<sourceVars, archived, manifests, flushed, backups, listed, todo>>

\* FLUSH BINARY LOGS closes the active log.
Flush ==
    /\ step = "stored" /\ step' = "flushed"
    /\ backups <= bounds.archiving
    /\ closed' = Append(closed, committed)
    /\ flushed' = [flushed EXCEPT ![backups] = committed]
    /\ UNCHANGED <<bounds, committed, oldest, archived, manifests, baseline, backups,
                   listed, todo>>

\* SHOW BINARY LOGS, all but the last.
List ==
    /\ step = "flushed" /\ step' = "copying"
    /\ listed' = oldest..Len(closed)
    /\ todo' = listed'
    /\ UNCHANGED <<sourceVars, archiveVars, backups>>

\* One log: its source must still be there, an archived file must be equal, a
\* new one is linked into place whole.  (Otherwise the run fails.)
ArchiveLog ==
    /\ step = "copying" /\ todo # {}
    /\ LET l == Min(todo)
       IN /\ l >= oldest /\ archived[l] # "rotten"
          /\ archived' = [archived EXCEPT ![l] = "good"]
          /\ todo' = todo \ {l}
    /\ UNCHANGED <<sourceVars, manifests, baseline, flushed, backups, step, listed>>

\* The manifest comes last.
WriteManifest ==
    /\ step = "copying" /\ todo = {}
    /\ step' = "archived" /\ listed' = {}
    /\ manifests' = [manifests EXCEPT ![backups] = [written |-> TRUE, logs |-> listed]]
    /\ UNCHANGED <<sourceVars, archived, baseline, flushed, backups, todo>>

\* The run is over, in whatever way.
Leave ==
    /\ step # "idle" /\ step' = "idle"
    /\ listed' = {} /\ todo' = {}
    /\ UNCHANGED <<sourceVars, archiveVars, backups>>

-----------------------------------------------------------------------------
(* Point-in-time recovery.                                                 *)

InLog(l) == ((IF l = 1 THEN 0 ELSE closed[l - 1]) + 1)..closed[l]

\* Mutant: a baseline that is not listed is not missed.
ReplayedLogsAnyway(b) ==
    {l \in manifests[b].logs : l >= baseline[b].log}

\* pitr_binlogs: from the baseline to the end of the manifest.
ReplayedLogs(b) ==
    IF baseline[b].log \in manifests[b].logs
    THEN baseline[b].log..Max(manifests[b].logs)
    ELSE {}

\* Its refusals: the baseline is not listed, there is a gap, a file has changed.
Replayable(b) ==
    /\ ReplayedLogs(b) # {}
    /\ \A l \in ReplayedLogs(b) : l \in manifests[b].logs /\ archived[l] = "good"

\* What mysqlbinlog feeds to the restored server beyond its own transactions.
Replayed(b) ==
    {t \in Transactions :
        /\ t > baseline[b].count
        /\ \E l \in ReplayedLogs(b) : t \in InLog(l)}

=============================================================================
