---------------------------- MODULE RestoreTest -----------------------------
(***************************************************************************)
(* The restore test (mysql-restore-test.py) on a host where the physical   *)
(* backup program runs too: one operation lock, one status file, one       *)
(* repository with its log archive.  A test copies a backup, prepares it   *)
(* and copies it back in transient systemd units, starts a server on the   *)
(* result in another, asks it, replays archived logs if told to, and       *)
(* removes everything it has made.                                         *)
(*                                                                         *)
(* SIGTERM and SIGINT raise SystemExit wherever the program is; a kill runs*)
(* no handler and leaves the units running; a power failure ends the units *)
(* and leaves the files.  A unit of an earlier test whose scratch directory*)
(* has been removed works in the removed directory (its ReadWritePaths is  *)
(* a mount of it): it never writes into a later one.                       *)
(*                                                                         *)
(* Abstracted: the bytes of a directory are good or rotten; a server's pid *)
(* is the number of the test that started it.                              *)
(***************************************************************************)
EXTENDS BinlogArchive

CONSTANTS
    MaxAttempts     \* bound: restore tests

\* Of Bounds, besides: attempts, the restore tests; faults, whether signals are
\* sent, programs are killed, servers die and power fails.
ASSUME RestoreAssumption ==
    /\ MaxAttempts \in Nat \ {0}
    /\ \A bound \in Bounds :
          bound.attempts \in 0..MaxAttempts /\ bound.faults \in BOOLEAN

VARIABLES
    lock,           \* who holds the operation lock
    status,         \* the status file, as far as restore tests matter
    content,        \* content[b]: the bytes of backup b in the repository
    scratch,        \* the restore directory
    copies,         \* copies[a]: the disposable copy of test a
    units,          \* units[a]: what the live transient unit of test a runs
    foreign,        \* pids of dead servers that other processes have got
    pc,             \* where the running test is
    attempt,        \* number of the present or last test
    target,         \* its variable `backup`
    owned,          \* whether its variable `source_backup` is set
    active,         \* whether its active_units has a unit
    seen,           \* the bytes its server answered from
    replay,         \* what it has replayed
    success,        \* its variable `success`
    disturbed       \* whether any cleanup was ever cut short

hostVars == <<lock, status>>
fileVars == <<content, scratch, copies>>
processVars == <<units, foreign>>
result == <<seen, replay, success>>
testVars == <<pc, attempt, target, owned, active, result>>
restoreVars == <<hostVars, fileVars, processVars, testVars, disturbed>>
vars == <<logVars, restoreVars>>

Attempts == 1..MaxAttempts
Bytes == {"none", "empty", "good", "rotten"}

\* by: the test that made the directory; pid: the content of mysqld.pid.
Scratch == [by: 0..MaxAttempts, pid: 0..MaxAttempts, sock: BOOLEAN, data: Bytes]
NoScratch == [by |-> 0, pid |-> 0, sock |-> FALSE, data |-> "none"]

Replay == [done: BOOLEAN, txns: SUBSET Transactions]
NoReplay == [done |-> FALSE, txns |-> {}]

\* path: backup_path; success, of: restore_test_success and _backup_path;
\* seen, replay: restore_test_validation; by, beside: the test that wrote them
\* and the backup_path it wrote them beside.
Status == [path: 0..MaxBackups, success: BOOLEAN, of: 0..MaxBackups,
           seen: Bytes, replay: Replay, by: 0..MaxAttempts, beside: 0..MaxBackups]
NoStatus == [path |-> 0, success |-> FALSE, of |-> 0, seen |-> "none",
             replay |-> NoReplay, by |-> 0, beside |-> 0]

\* The steps inside the try, and those of its finally.
Body == {"locked", "resolved", "stopped", "cleared", "made", "unowned", "named",
         "verified", "copied", "checked", "preparing", "prepared", "restoring",
         "restored", "starting", "validated", "replayed"}
Finally == {"cleanup", "stopUnit", "removeScratch", "removeCopy"}

TypeOK ==
    /\ LogTypeOK
    /\ lock \in {"free", "backup", "restore"}
    /\ lock = "restore" <=> pc # "idle"
    /\ lock = "backup" <=> step # "idle"
    /\ status \in Status
    /\ content \in [Backups -> {"good", "rotten"}]
    /\ scratch \in Scratch
    /\ copies \in [Attempts -> Bytes]
    /\ units \in [Attempts -> {"none", "prepare", "copyback", "server"}]
    /\ foreign \subseteq Attempts
    /\ pc \in Body \cup Finally \cup {"idle", "record"}
    /\ attempt \in 0..MaxAttempts
    /\ target \in 0..MaxBackups
    /\ owned \in BOOLEAN /\ active \in BOOLEAN
    /\ seen \in Bytes /\ replay \in Replay
    /\ success \in BOOLEAN /\ disturbed \in BOOLEAN

Init ==
    /\ LogInit
    /\ lock = "free" /\ status = NoStatus
    /\ content = [b \in Backups |-> "good"]
    /\ scratch = NoScratch
    /\ copies = [a \in Attempts |-> "none"]
    /\ units = [a \in Attempts |-> "none"] /\ foreign = {}
    /\ pc = "idle" /\ attempt = 0 /\ target = 0
    /\ owned = FALSE /\ active = FALSE
    /\ seen = "none" /\ replay = NoReplay /\ success = FALSE
    /\ disturbed = FALSE

-----------------------------------------------------------------------------
(* The source server and the backup program.  Nobody but a backup run reads*)
(* the source, so the source's steps are taken while one does; and bytes   *)
(* rot just before a test reads them.  Neither loses a behaviour that the  *)
(* programs can tell apart.                                                *)

Source ==
    /\ \/ step \in {"begun", "stored", "flushed"} /\ (Commit \/ Rotate)
       \/ step \in {"stored", "flushed", "copying"} /\ Purge
    /\ UNCHANGED restoreVars

BackupLock ==
    /\ lock = "free" /\ lock' = "backup"
    /\ Begin
    /\ UNCHANGED <<status, fileVars, processVars, testVars, disturbed>>

BackupWorks ==
    /\ Store \/ Flush \/ List \/ ArchiveLog \/ WriteManifest
    /\ UNCHANGED restoreVars

\* write_status, after success or failure: once the backup is stored it names
\* it, and the last restore test does not count for it.
BackupEnds ==
    /\ Leave
    /\ lock' = "free"
    /\ status' = IF step \in {"idle", "begun"} THEN status
                 ELSE [status EXCEPT !.path = backups, !.success = FALSE]
    /\ UNCHANGED <<fileVars, processVars, testVars, disturbed>>

\* Killed, or its status file cannot be written.
BackupDies ==
    /\ bounds.faults
    /\ Leave
    /\ lock' = "free"
    /\ UNCHANGED <<status, fileVars, processVars, testVars, disturbed>>

\* The medium loses a byte of the backup under test, or of an archived log.
RotBackup ==
    /\ pc \in {"named", "verified"}
    /\ content' = [content EXCEPT ![target] = "rotten"]
    /\ UNCHANGED <<logVars, hostVars, scratch, copies, processVars, testVars,
                   disturbed>>

RotArchive ==
    /\ pc = "validated"
    /\ \E l \in ReplayedLogs(target) : RotLog(l)
    /\ UNCHANGED restoreVars

-----------------------------------------------------------------------------
(* Transient units, the restored server and pids.                          *)

Serving(a) == units[a] = "server" /\ scratch.by = a

ServerOpensSocket(a) ==
    /\ Serving(a) /\ ~scratch.sock
    /\ scratch' = [scratch EXCEPT !.sock = TRUE]
    /\ UNCHANGED <<logVars, hostVars, content, copies, processVars, testVars,
                   disturbed>>

ServerWritesPid(a) ==
    /\ Serving(a) /\ scratch.pid = 0
    /\ scratch' = [scratch EXCEPT !.pid = a]
    /\ UNCHANGED <<logVars, hostVars, content, copies, processVars, testVars,
                   disturbed>>

\* A unit of test a is over: a server that is stopped removes its own files.
UnitEnds(a) ==
    /\ units' = [units EXCEPT ![a] = "none"]
    /\ scratch' = IF Serving(a) THEN [scratch EXCEPT !.pid = 0, !.sock = FALSE]
                  ELSE scratch

\* Mutant: the units have no RuntimeMaxSec.
ExpireNever(a) == units[a] # "none" /\ UNCHANGED vars

\* RuntimeMaxSec, or the command ends of itself.
Expire(a) ==
    /\ units[a] # "none"
    /\ UnitEnds(a)
    /\ UNCHANGED <<logVars, hostVars, content, copies, foreign, testVars,
                   disturbed>>

\* A server that is killed leaves its socket; systemd may remove its pid file.
ServerDies(a) ==
    /\ bounds.faults
    /\ Serving(a)
    /\ units' = [units EXCEPT ![a] = "none"]
    /\ \E p \in {0, scratch.pid} : scratch' = [scratch EXCEPT !.pid = p]
    /\ UNCHANGED <<logVars, hostVars, content, copies, foreign, testVars,
                   disturbed>>

\* Another process gets the pid of a dead server that is still on file.
PidReused(a) ==
    /\ scratch.pid = a /\ units[a] = "none" /\ a \notin foreign
    /\ foreign' = foreign \cup {a}
    /\ UNCHANGED <<logVars, hostVars, fileVars, units, testVars, disturbed>>

\* stop_server returns: there was no process (and no socket), or the server of
\* this directory has been asked to shut down, or sent SIGTERM, and is gone.
\* It raises for a socket without a live pid, for a foreign process and for a
\* server that does not end.  While it looks and acts no pid changes hands.
ServerStopped ==
    /\ UNCHANGED foreign
    /\ \/ /\ scratch.pid # 0 /\ scratch.pid \notin foreign
          /\ units[scratch.pid] = "server"
          /\ UnitEnds(scratch.pid)
       \/ /\ ~scratch.sock
          /\ scratch.pid # 0 => /\ scratch.pid \notin foreign
                                /\ units[scratch.pid] = "none"
          /\ UNCHANGED <<units, scratch>>

-----------------------------------------------------------------------------
(* main of the restore test: the try.                                      *)

\* The program goes from one step to another.
Goto(from, to) ==
    /\ pc = from /\ pc' = to
    /\ UNCHANGED <<logVars, hostVars, attempt, disturbed>>

\* The nonblocking flock; a busy one ends the program before it did anything.
Lock ==
    /\ pc = "idle" /\ pc' = "locked"
    /\ lock = "free" /\ lock' = "restore"
    /\ attempt < bounds.attempts /\ attempt' = attempt + 1
    /\ UNCHANGED <<logVars, status, fileVars, processVars, target, owned,
                   active, result, disturbed>>

\* resolve_backup, the size of the backup and the free space.
Resolve ==
    /\ Goto("locked", "resolved")
    /\ target' \in Completed
    /\ UNCHANGED <<fileVars, processVars, owned, active, result>>

\* A scratch directory of an earlier test: its server is stopped first.
StopLeftover ==
    /\ Goto("resolved", "stopped")
    /\ IF scratch.by = 0 THEN UNCHANGED processVars /\ UNCHANGED scratch
       ELSE ServerStopped
    /\ UNCHANGED <<content, copies, target, owned, active, result>>

RemoveLeftover ==
    /\ Goto("stopped", "cleared")
    /\ scratch' = NoScratch
    /\ UNCHANGED <<content, copies, processVars, target, owned, active,
                   result>>

MakeScratch ==
    /\ Goto("cleared", "made")
    /\ scratch' = [NoScratch EXCEPT !.by = attempt, !.data = "empty"]
    /\ UNCHANGED <<content, copies, processVars, target, owned, active,
                   result>>

\* mkdtemp has made the directory and not yet returned its name.
MakeCopy ==
    /\ Goto("made", "unowned")
    /\ copies' = [copies EXCEPT ![attempt] = "empty"]
    /\ UNCHANGED <<content, scratch, processVars, target, owned, active,
                   result>>

\* Mutant: the name is not kept.
OwnCopyLost ==
    /\ Goto("unowned", "named")
    /\ UNCHANGED <<fileVars, processVars, target, owned, active, result>>

OwnCopy ==
    /\ Goto("unowned", "named")
    /\ owned' = TRUE
    /\ UNCHANGED <<fileVars, processVars, target, active, result>>

\* verify_backup of the repository's directory.
Verify ==
    /\ Goto("named", "verified")
    /\ content[target] = "good"
    /\ UNCHANGED <<fileVars, processVars, target, owned, active, result>>

\* copytree reads the directory again.
CopyBackup ==
    /\ Goto("verified", "copied")
    /\ copies' = [copies EXCEPT ![attempt] = content[target]]
    /\ UNCHANGED <<content, scratch, processVars, target, owned, active,
                   result>>

\* Mutant: what has been verified once is not verified again.
VerifyCopyOmitted ==
    /\ Goto("copied", "checked")
    /\ UNCHANGED <<fileVars, processVars, target, owned, active, result>>

\* verify_backup of the copy.
VerifyCopy ==
    /\ Goto("copied", "checked")
    /\ copies[attempt] = "good"
    /\ UNCHANGED <<fileVars, processVars, target, owned, active, result>>

\* The unit is noted in active_units, then systemd-run starts it.
Start(from, to, command) ==
    /\ Goto(from, to)
    /\ active' = TRUE
    /\ units' = [units EXCEPT ![attempt] = command]
    /\ UNCHANGED <<fileVars, foreign, target, owned, result>>

\* run_isolated returns: the command has ended well, its unit is gone.
Finish(from, to, command) ==
    /\ Goto(from, to)
    /\ units[attempt] = command
    /\ units' = [units EXCEPT ![attempt] = "none"]
    /\ active' = FALSE
    /\ UNCHANGED <<content, copies, foreign, target, owned, result>>

StartPrepare == Start("checked", "preparing", "prepare")

FinishPrepare ==
    /\ Finish("preparing", "prepared", "prepare")
    /\ UNCHANGED scratch

StartCopyBack == Start("prepared", "restoring", "copyback")

FinishCopyBack ==
    /\ Finish("restoring", "restored", "copyback")
    /\ scratch' = [scratch EXCEPT !.data = copies[attempt]]

StartServer == Start("restored", "starting", "server")

\* SELECT 1, the databases, the GTIDs, the accounts and the version, through
\* the socket of a server that is up.
Validate ==
    /\ Goto("starting", "validated")
    /\ Serving(attempt) /\ scratch.sock /\ scratch.pid = attempt
    /\ seen' = scratch.data
    /\ UNCHANGED <<fileVars, processVars, target, owned, active, replay,
                   success>>

\* With --pitr: replay_binlogs, and the check of what has been recovered.
ReplayLogs ==
    /\ Goto("validated", "replayed")
    /\ Serving(attempt) /\ Replayable(target)
    /\ replay' = [done |-> TRUE, txns |-> Replayed(target)]
    /\ UNCHANGED <<fileVars, processVars, target, owned, active, seen,
                   success>>

Succeed ==
    /\ pc \in {"validated", "replayed"} /\ pc' = "cleanup"
    /\ success' = TRUE
    /\ UNCHANGED <<logVars, hostVars, fileVars, processVars, attempt, target,
                   owned, active, seen, replay, disturbed>>

\* Any check that refuses and any command that fails or takes too long.
Fail ==
    /\ pc \in Body \ {"unowned"} /\ pc' = "cleanup"
    /\ UNCHANGED <<logVars, hostVars, fileVars, processVars, attempt, target,
                   owned, active, result, disturbed>>

-----------------------------------------------------------------------------
(* Its finally.                                                            *)

\* Mutant: the copy is removed before the unit is stopped.
StopServerCopyFirst ==
    /\ Goto("cleanup", "stopUnit")
    /\ ServerStopped
    /\ copies' = IF owned THEN [copies EXCEPT ![attempt] = "none"] ELSE copies
    /\ UNCHANGED <<content, target, owned, active, result>>

StopServer ==
    /\ Goto("cleanup", "stopUnit")
    /\ ServerStopped
    /\ UNCHANGED <<content, copies, target, owned, active, result>>

\* stop_isolated_unit of what is in active_units.
StopUnit ==
    /\ Goto("stopUnit", "removeScratch")
    /\ active' = FALSE
    /\ IF active THEN UnitEnds(attempt) ELSE UNCHANGED <<units, scratch>>
    /\ UNCHANGED <<content, copies, foreign, target, owned, result>>

RemoveScratch ==
    /\ Goto("removeScratch", "removeCopy")
    /\ scratch' = NoScratch
    /\ UNCHANGED <<content, copies, processVars, target, owned, active,
                   result>>

RemoveCopy ==
    /\ Goto("removeCopy", "record")
    /\ copies' = IF owned THEN [copies EXCEPT ![attempt] = "none"] ELSE copies
    /\ UNCHANGED <<content, scratch, processVars, target, owned, active,
                   result>>

\* stop_server refuses, a unit does not stop, a directory cannot be removed:
\* what is left stays, and the test has failed.
CleanupFails ==
    /\ pc \in Finally /\ pc' = "record"
    /\ success' = FALSE /\ disturbed' = TRUE
    /\ UNCHANGED <<logVars, hostVars, fileVars, processVars, attempt, target,
                   owned, active, seen, replay>>

\* Mutant: the lock is a file that nobody removes.
ExitLocked ==
    /\ pc' = "idle" /\ lock' = "restore"
    /\ target' = 0 /\ owned' = FALSE /\ active' = FALSE
    /\ seen' = "none" /\ replay' = NoReplay /\ success' = FALSE
    /\ UNCHANGED attempt

\* The process is gone, its flock and its variables with it.
Exit ==
    /\ pc' = "idle" /\ lock' = "free"
    /\ target' = 0 /\ owned' = FALSE /\ active' = FALSE
    /\ seen' = "none" /\ replay' = NoReplay /\ success' = FALSE
    /\ UNCHANGED attempt

Written == [path |-> status.path, success |-> success, of |-> target, seen |-> seen,
            replay |-> replay, by |-> attempt, beside |-> status.path]

\* update_restore_status: the file is read, these keys are changed, and it is
\* replaced; or it cannot be, and the program ends all the same.
Record ==
    /\ pc = "record"
    /\ status' \in {status, Written}
    /\ Exit
    /\ UNCHANGED <<logVars, fileVars, processVars, disturbed>>

-----------------------------------------------------------------------------
(* Interruptions.                                                          *)

\* SystemExit out of the try, out of the cleanup, or out of the recording.
Signal ==
    /\ bounds.faults
    /\ disturbed' = TRUE
    /\ \/ pc \in Body /\ pc' = "cleanup" /\ UNCHANGED success
       \/ pc \in Finally /\ pc' = "record" /\ success' = FALSE
    /\ UNCHANGED <<logVars, hostVars, fileVars, processVars, attempt, target,
                   owned, active, seen, replay>>

\* SIGKILL: the units live on.
Crash ==
    /\ bounds.faults
    /\ pc # "idle"
    /\ disturbed' = TRUE
    /\ Exit
    /\ UNCHANGED <<logVars, status, fileVars, processVars>>

\* A power failure: no process is left, and every file is.
PowerFailure ==
    /\ bounds.faults
    /\ lock # "free" \/ \E a \in Attempts : units[a] # "none"
    /\ disturbed' = TRUE
    /\ units' = [a \in Attempts |-> "none"] /\ foreign' = {}
    /\ step' = "idle" /\ listed' = {} /\ todo' = {}
    /\ Exit
    /\ UNCHANGED <<sourceVars, archiveVars, backups, status, fileVars>>

Test ==
    \/ Resolve \/ StopLeftover \/ RemoveLeftover \/ MakeScratch \/ MakeCopy \/ OwnCopy
    \/ Verify \/ CopyBackup \/ VerifyCopy \/ StartPrepare \/ FinishPrepare
    \/ StartCopyBack \/ FinishCopyBack \/ StartServer \/ Validate \/ ReplayLogs
    \/ Succeed \/ Fail \/ StopServer \/ StopUnit \/ RemoveScratch \/ RemoveCopy
    \/ CleanupFails \/ Record

Next ==
    \/ Source \/ BackupLock \/ BackupWorks \/ BackupEnds \/ BackupDies
    \/ RotBackup \/ RotArchive
    \/ \E a \in Attempts :
          ServerOpensSocket(a) \/ ServerWritesPid(a) \/ Expire(a) \/ ServerDies(a)
          \/ PidReused(a)
    \/ Lock \/ Test \/ Signal \/ Crash \/ PowerFailure

Spec == Init /\ [][Next]_vars

\* Every command the test runs has a timeout, and every unit RuntimeMaxSec.
FairSpec ==
    /\ Spec
    /\ WF_vars(Test)
    /\ \A a \in Attempts : WF_vars(Expire(a))

-----------------------------------------------------------------------------
(* Properties.                                                             *)

\* A success on file was earned: a server answered from right bytes of a
\* completed backup, and the test has left neither unit nor directory behind.
\* It was written beside the latest stored backup that the file names, never
\* beside an earlier one.
SuccessIsEarned ==
    status.success =>
        /\ status.of \in Completed /\ status.seen = "good"
        /\ units[status.by] = "none"
        /\ scratch.by # status.by /\ copies[status.by] = "none"
        /\ status.beside = status.path

\* A reported replay recovered every transaction up to the flush of the backup
\* run, and no transaction without all before it, whatever was committed,
\* rotated, purged or spoilt in the meantime.
ReplayIsComplete ==
    status.replay.done =>
        LET recovered == (1..baseline[status.of].count) \cup status.replay.txns
        IN /\ 1..flushed[status.of] \subseteq recovered
           /\ \A t \in recovered : 1..t \subseteq recovered

\* docs/mysql-platform.md:136-137.  No test removes the scratch directory that
\* it has made, nor the disposable copy of any test, under a live unit of the
\* test whose it is.
FilesOutliveUnit ==
    [][/\ scratch.by = attempt /\ scratch'.by # attempt => units[attempt] = "none"
       /\ \A a \in Attempts :
             copies[a] # "none" /\ copies'[a] = "none" => units[a] = "none"]_vars

\* Whatever fails, a test that is not cut short leaves nothing behind.
ErrorsLeaveNothing ==
    pc = "idle" /\ ~disturbed =>
        /\ scratch = NoScratch
        /\ \A a \in Attempts : copies[a] = "none" /\ units[a] = "none"

\* A test gives the lock back, and no unit runs for ever, after any kill.
EverythingEnds ==
    /\ lock = "restore" ~> lock # "restore"
    /\ \A a \in Attempts : units[a] # "none" ~> units[a] = "none"

=============================================================================
