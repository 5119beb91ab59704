--------------------------- MODULE PhysicalBackup ---------------------------
(***************************************************************************)
(* One node's physical backup program and the local repository it fills    *)
(* (mysql-physical-backup.py, mysql_backup_storage.py).  Runs follow one   *)
(* another under the node's operation lock; each may fail at any step, be  *)
(* interrupted by SIGTERM or SIGINT, which raise SystemExit wherever the   *)
(* program is, or be killed, which runs no handler at all.                 *)
(*                                                                         *)
(* Abstracted: the bytes of a backup are the number of the attempt that    *)
(* took it, an identifier is the second it was made in, and archiving      *)
(* closed binary logs is one step that ends with its manifest.             *)
(***************************************************************************)
EXTENDS Naturals

CONSTANTS
    LastSecond,     \* bound: the seconds the clock may show
    MaxAttempts,    \* bound: runs of the program
    MaySignal,      \* whether SIGTERM and SIGINT are sent
    MayCrash,       \* whether the program may be killed
    RemovalMayFail  \* whether rmtree may end with an I/O error

ASSUME BoundsAssumption ==
    /\ LastSecond \in Nat \ {0}
    /\ MaxAttempts \in Nat \ {0}
    /\ MaySignal \in BOOLEAN
    /\ MayCrash \in BOOLEAN
    /\ RemovalMayFail \in BOOLEAN

VARIABLES
    now,            \* the second the system clock shows
    lock,           \* who holds the node's operation lock
    staging,        \* staging[t]: the attempt whose directory t is in staging, or 0
    repo,           \* repo[t]: the directory of identifier t in the repository
    manifests,      \* identifiers with a binary log manifest
    status,         \* the status file
    pc,             \* where the running program is
    attempt,        \* number of the present or last run
    allow,          \* --allow-primary
    runId,          \* its run_id
    owned,          \* whether its variable `staging` is set
    mem,            \* its copy of the status
    disturbed       \* whether a run was ever interrupted, killed or failed to clean up

files == <<staging, repo, manifests, status>>
job == <<pc, attempt, allow, runId, owned, mem>>
vars == <<now, lock, files, job, disturbed>>

Seconds == 1..LastSecond
Attempts == 1..MaxAttempts

\* copy: how much of the source a directory holds; bad: a byte went wrong in
\* the copy; rotten: the medium lost a byte of a good copy afterwards.
Copies == {"none", "partial", "bad", "good", "rotten"}
Directory == [by: 0..MaxAttempts, copy: Copies, marker: BOOLEAN]
NoDirectory == [by |-> 0, copy |-> "none", marker |-> FALSE]

\* path: backup_path; stored: storage_success; last: what the newest of
\* last_attempt, last_success and last_failure says.
Status == [path: 0..LastSecond, stored: BOOLEAN,
           last: {"none", "skipped", "success", "failure"}]
NoStatus == [path |-> 0, stored |-> FALSE, last |-> "none"]

Steps == {"idle", "locked", "ready", "made", "copy", "prepared", "storing",
          "copied", "marked", "stored", "archived", "reported", "failing",
          "cleanup"}

TypeOK ==
    /\ now \in Seconds
    /\ lock \in {"free", "backup", "other"}
    /\ staging \in [Seconds -> 0..MaxAttempts]
    /\ repo \in [Seconds -> Directory]
    /\ manifests \subseteq Seconds
    /\ status \in Status /\ mem \in Status
    /\ pc \in Steps
    /\ attempt \in 0..MaxAttempts
    /\ allow \in BOOLEAN /\ owned \in BOOLEAN /\ disturbed \in BOOLEAN
    /\ runId \in 0..LastSecond

Init ==
    /\ now = 1
    /\ lock = "free"
    /\ staging = [t \in Seconds |-> 0]
    /\ repo = [t \in Seconds |-> NoDirectory]
    /\ manifests = {}
    /\ status = NoStatus /\ mem = NoStatus
    /\ pc = "idle" /\ attempt = 0 /\ allow = FALSE
    /\ runId = 0 /\ owned = FALSE
    /\ disturbed = FALSE

-----------------------------------------------------------------------------
(* The surroundings.                                                       *)

\* Time passes, or the clock is set back.
Clock ==
    /\ now' \in Seconds
    /\ UNCHANGED <<lock, files, job, disturbed>>

\* A restore test or a topology operation takes and releases the lock.
OtherOperation ==
    /\ \/ lock = "free" /\ lock' = "other"
       \/ lock = "other" /\ lock' = "free"
    /\ UNCHANGED <<now, files, job, disturbed>>

\* The medium loses a byte of a copied directory.
Rot(t) ==
    /\ repo[t].copy = "good"
    /\ repo' = [repo EXCEPT ![t].copy = "rotten"]
    /\ UNCHANGED <<now, lock, staging, manifests, status, job, disturbed>>

-----------------------------------------------------------------------------
(* main of the backup program.                                             *)

Goto(from, to) == pc = from /\ pc' = to

\* acquire_operation_lock, read_status and the reset; a busy lock ends the
\* program before it has changed anything.
Lock(primaryAllowed) ==
    /\ Goto("idle", "locked")
    /\ lock = "free" /\ lock' = "backup"
    /\ attempt < MaxAttempts /\ attempt' = attempt + 1
    /\ allow' = primaryAllowed
    /\ mem' = [status EXCEPT !.stored = FALSE]
    /\ UNCHANGED <<now, files, runId, owned, disturbed>>

\* A healthy SECONDARY, or a PRIMARY with the override, and enough free space.
Accept ==
    /\ Goto("locked", "ready")
    /\ UNCHANGED <<now, lock, files, attempt, allow, runId, owned, mem, disturbed>>

\* Mutant: the reason for skipping is stored in the place of a summary.
SkipPrimaryReason ==
    /\ ~allow
    /\ Goto("locked", "reported")
    /\ mem' = [mem EXCEPT !.last = "current PRIMARY"]
    /\ status' = mem'
    /\ UNCHANGED <<now, lock, staging, repo, manifests, attempt, allow, runId,
                   owned, disturbed>>

\* The PRIMARY without the override: the status is written, nothing is done.
SkipPrimary ==
    /\ ~allow
    /\ Goto("locked", "reported")
    /\ mem' = [mem EXCEPT !.last = "skipped"]
    /\ status' = mem'
    /\ UNCHANGED <<now, lock, staging, repo, manifests, attempt, allow, runId,
                   owned, disturbed>>

\* Mutant: mkdir(exist_ok=True).
MakeStagingAnyway ==
    /\ Goto("ready", "made")
    /\ runId' = now
    /\ staging' = [staging EXCEPT ![now] = attempt]
    /\ UNCHANGED <<now, lock, repo, manifests, status, attempt, allow, owned,
                   mem, disturbed>>

\* mkdir(exist_ok=False) of a directory named after the present second.
MakeStaging ==
    /\ pc = "ready"
    /\ runId' = now
    /\ \/ /\ staging[now] = 0
          /\ staging' = [staging EXCEPT ![now] = attempt]
          /\ pc' = "made"
       \/ /\ staging[now] # 0
          /\ pc' = "failing"
          /\ UNCHANGED staging
    /\ UNCHANGED <<now, lock, repo, manifests, status, attempt, allow, owned,
                   mem, disturbed>>

\* Mutant: the assignment is lost.
OwnStagingLost ==
    /\ Goto("made", "copy")
    /\ UNCHANGED <<now, lock, files, attempt, allow, runId, owned, mem, disturbed>>

\* staging = candidate: from here on the directory is the program's to remove.
OwnStaging ==
    /\ Goto("made", "copy")
    /\ owned' = TRUE
    /\ UNCHANGED <<now, lock, files, attempt, allow, runId, mem, disturbed>>

\* xtrabackup --backup, the health check, --prepare and the file manifest.
CopyAndPrepare ==
    /\ Goto("copy", "prepared")
    /\ UNCHANGED <<now, lock, files, attempt, allow, runId, owned, mem, disturbed>>

\* Mutant: copytree(dirs_exist_ok=True).
StoreBeginOver ==
    /\ Goto("prepared", "storing")
    /\ repo' = [repo EXCEPT ![runId].by = attempt, ![runId].copy = "partial"]
    /\ UNCHANGED <<now, lock, staging, manifests, status, attempt, allow, runId,
                   owned, mem, disturbed>>

\* copytree makes its destination first, and refuses an existing one.
StoreBegin ==
    /\ pc = "prepared"
    /\ \/ /\ repo[runId].by = 0
          /\ repo' = [repo EXCEPT ![runId].by = attempt, ![runId].copy = "partial"]
          /\ pc' = "storing"
       \/ /\ repo[runId].by # 0
          /\ pc' = "failing"
          /\ UNCHANGED repo
    /\ UNCHANGED <<now, lock, staging, manifests, status, attempt, allow, runId,
                   owned, mem, disturbed>>

\* The rest of copytree, which may copy a byte wrong without an error.
StoreCopy ==
    /\ Goto("storing", "copied")
    /\ \E c \in {"good", "bad"} : repo' = [repo EXCEPT ![runId].copy = c]
    /\ UNCHANGED <<now, lock, staging, manifests, status, attempt, allow, runId,
                   owned, mem, disturbed>>

\* Mutant: the marker is written before the copy is verified.
StoreMarkUnverified ==
    /\ Goto("copied", "marked")
    /\ repo' = [repo EXCEPT ![runId].marker = TRUE]
    /\ UNCHANGED <<now, lock, staging, manifests, status, attempt, allow, runId,
                   owned, mem, disturbed>>

\* verify_files against the manifest, then the completion marker.
StoreMark ==
    /\ pc = "copied"
    /\ \/ /\ repo[runId].copy = "good"
          /\ repo' = [repo EXCEPT ![runId].marker = TRUE]
          /\ pc' = "marked"
       \/ /\ repo[runId].copy # "good"
          /\ pc' = "failing"
          /\ UNCHANGED repo
    /\ UNCHANGED <<now, lock, staging, manifests, status, attempt, allow, runId,
                   owned, mem, disturbed>>

\* Mutant: the status is updated before the verification has passed.
StoreVerifyLate ==
    /\ pc = "marked"
    /\ mem' = [mem EXCEPT !.path = runId, !.stored = TRUE]
    /\ \/ repo[runId].copy = "good" /\ pc' = "stored" /\ UNCHANGED repo
       \/ /\ repo[runId].copy # "good"
          /\ pc' = "failing"
          /\ repo' = [repo EXCEPT ![runId].marker = FALSE]
    /\ UNCHANGED <<now, lock, staging, manifests, status, attempt, allow, runId,
                   owned, disturbed>>

\* verify_backup once more; a refusal takes the marker back.
StoreVerify ==
    /\ pc = "marked"
    /\ \/ /\ repo[runId].copy = "good"
          /\ pc' = "stored"
          /\ mem' = [mem EXCEPT !.path = runId, !.stored = TRUE]
          /\ UNCHANGED repo
       \/ /\ repo[runId].copy # "good"
          /\ pc' = "failing"
          /\ repo' = [repo EXCEPT ![runId].marker = FALSE]
          /\ UNCHANGED mem
    /\ UNCHANGED <<now, lock, staging, manifests, status, attempt, allow, runId,
                   owned, disturbed>>

\* archive_closed_binlogs: the manifest is its last write; replacing one is an
\* error, which Fail stands for.
Archive ==
    /\ Goto("stored", "archived")
    /\ runId \notin manifests
    /\ manifests' = manifests \cup {runId}
    /\ UNCHANGED <<now, lock, staging, repo, status, attempt, allow, runId,
                   owned, mem, disturbed>>

\* The last health check, last_success and the status file.
Report ==
    /\ Goto("archived", "reported")
    /\ mem' = [mem EXCEPT !.last = "success"]
    /\ status' = mem'
    /\ UNCHANGED <<now, lock, staging, repo, manifests, attempt, allow, runId,
                   owned, disturbed>>

\* The result, or the reason for skipping, is printed.
Return ==
    /\ Goto("reported", "cleanup")
    /\ UNCHANGED <<now, lock, files, attempt, allow, runId, owned, mem, disturbed>>

\* Any other error: an unhealthy source, no space, a failed tool, a bad binlog.
Fail ==
    /\ pc \in {"locked", "ready", "copy", "prepared", "storing", "copied",
               "stored", "archived", "reported"}
    /\ pc' = "failing"
    /\ UNCHANGED <<now, lock, files, attempt, allow, runId, owned, mem, disturbed>>

\* except BaseException: last_failure, and the status as far as it got, if
\* the status file can be written.
RecordFailure ==
    /\ Goto("failing", "cleanup")
    /\ mem' = [mem EXCEPT !.last = "failure"]
    /\ status' \in {status, mem'}
    /\ UNCHANGED <<now, lock, staging, repo, manifests, attempt, allow, runId,
                   owned, disturbed>>

\* The process is gone, its flock and its variables with it.
Exit ==
    /\ pc' = "idle" /\ lock' = "free"
    /\ allow' = FALSE /\ runId' = 0 /\ owned' = FALSE /\ mem' = NoStatus
    /\ UNCHANGED attempt

\* finally: remove the staging directory that is ours, then close the lock.
Cleanup ==
    /\ pc = "cleanup"
    /\ staging' = IF owned THEN [staging EXCEPT ![runId] = 0] ELSE staging
    /\ Exit
    /\ UNCHANGED <<now, repo, manifests, status, disturbed>>

\* An I/O error out of rmtree: the lock is closed all the same, what is left
\* of the directory stays.
FailedCleanup ==
    /\ RemovalMayFail
    /\ pc = "cleanup" /\ owned
    /\ Exit
    /\ disturbed' = TRUE
    /\ UNCHANGED <<now, files>>

-----------------------------------------------------------------------------
(* Interruptions.                                                          *)

\* SystemExit out of the removal: as if it had failed.
InterruptedCleanup ==
    /\ MaySignal
    /\ pc = "cleanup"
    /\ Exit
    /\ disturbed' = TRUE
    /\ UNCHANGED <<now, files>>

\* SystemExit anywhere else: inside verify_backup it takes the marker back,
\* just before or after it does not; inside the handler it skips the status.
Signal ==
    /\ MaySignal
    /\ pc \notin {"idle", "cleanup"}
    /\ pc' = IF pc = "failing" THEN "cleanup" ELSE "failing"
    /\ \/ UNCHANGED repo
       \/ pc = "marked" /\ repo' = [repo EXCEPT ![runId].marker = FALSE]
    /\ disturbed' = TRUE
    /\ UNCHANGED <<now, lock, staging, manifests, status, attempt, allow, runId,
                   owned, mem>>

\* SIGKILL, or SIGHUP of a lost session: the kernel drops the flock.
Crash ==
    /\ MayCrash
    /\ pc # "idle"
    /\ Exit
    /\ disturbed' = TRUE
    /\ UNCHANGED <<now, files>>

Next ==
    \/ Clock \/ OtherOperation
    \/ \E t \in Seconds : Rot(t)
    \/ \E primaryAllowed \in BOOLEAN : Lock(primaryAllowed)
    \/ Accept \/ SkipPrimary \/ MakeStaging \/ OwnStaging \/ CopyAndPrepare
    \/ StoreBegin \/ StoreCopy \/ StoreMark \/ StoreVerify
    \/ Archive \/ Report \/ Return \/ Fail \/ RecordFailure \/ Cleanup
    \/ FailedCleanup \/ InterruptedCleanup \/ Signal \/ Crash

Spec == Init /\ [][Next]_vars

-----------------------------------------------------------------------------
(* Properties.                                                             *)

\* What list_backups and resolve_backup select from, under the lock.
Completed == {t \in Seconds : repo[t].marker}

\* A completion marker is a promise about bytes: the directory was copied
\* whole and right, and only the medium can have spoilt it since.  A binary
\* log manifest is only ever there beside a completed backup.
MarkersAreEarned ==
    /\ \A t \in Completed : repo[t].by # 0 /\ repo[t].copy \in {"good", "rotten"}
    /\ manifests \subseteq Completed

\* The status file tells the truth after any sequence of failures, signals and
\* kills: the backup it names is a completed one, and a run it calls a success
\* has stored that backup and its binary log manifest.
StatusIsTrue ==
    /\ status.path # 0 => status.path \in Completed
    /\ status.stored => status.path # 0
    /\ status.last = "success" => status.stored /\ status.path \in manifests

\* docs/mysql-platform.md:113, for runs that nothing interrupts: whatever step
\* fails but the removal itself, no staging directory outlives its run.
ErrorsLeaveNoStaging ==
    pc = "idle" /\ ~disturbed => \A t \in Seconds : staging[t] = 0

\* docs/mysql-platform.md:113.  "Staging is removed after each attempt."
StagingIsRemoved ==
    pc = "idle" => \A t \in Seconds : staging[t] = 0

\* A staging directory that another run left behind is never removed or reused,
\* even by a run that is given the same second.
ForeignStagingIsKept ==
    [][\A t \in Seconds :
          staging[t] \notin {0, attempt} => staging'[t] = staging[t]]_vars

\* The selectable backups, each with the attempt whose bytes it holds.  While
\* the program itself verifies a new marker the lock keeps readers away.
entries ==
    {[id |-> t, content |-> repo[t].by] :
        t \in {u \in Completed : ~(pc = "marked" /\ runId = u)}}

Catalogue == INSTANCE BackupCatalogue
    WITH Ids <- Seconds, Contents <- Attempts, catalogue <- entries

\* The repository implements a catalogue that only grows and never replaces an
\* entry, through equal identifiers, partial copies, failures and crashes.
ImplementsCatalogue == Catalogue!Spec

=============================================================================
