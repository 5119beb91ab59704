# Verification of the provisioning repository

This directory holds TLA+ models of the parts of the repository that keep state
and run beside each other, the TLC configurations that check them on small
instances, and proofs that TLAPS checks for every instance.

## The system: inventory

The repository is an Ansible project with a handful of Python programs that run
on the managed hosts. Most roles are configuration: an ordered list of
idempotent tasks whose state is a file or a unit. The parts below keep state
that several actors read and write, or that has to survive an interruption.

| Component | State | Operations | What is hard | What makes it correct |
|---|---|---|---|---|
| Operation lock and topology playbooks (`roles/components/mysql_backup/tasks/*_topology_lock.yml`, `playbooks/operations/mysql-{switchover,failover,backup,restore-test}.yml`) | per node: a flock, the lock holder unit, the backup service; the ReplicaSet's PRIMARY | start, verify and stop the holder on every host; switch over, fail over; timed and manual backups; restore tests | check-then-start, failures on one host of two, killed playbooks, time limits, roles read before they are used | activities on a node exclude each other; a backup of a SECONDARY stays one; the lock is always given back |
| Physical backup and local repository (`files/mysql-physical-backup.py`, `files/mysql_backup_storage.py`) | staging directories, backup directories with markers, binary log manifests, the status file, the flock | run; store; archive closed logs; report; clean up | failures at any step, signals as exceptions, kills, identifiers of one second, clocks set back | markers and manifests can be trusted; the status is true; nothing is overwritten; staging is cleaned |
| Restore test (`files/mysql-restore-test.py`) | scratch directory, disposable copy, transient units, pid and socket files, the status file | lock, remove leftovers, verify, copy, prepare, copy back, start, validate, replay, clean up, record | orphaned units after a kill, pid reuse, leftovers after a reboot, a status file with two writers | a recorded success was earned by the backup it names; what a test made is removed; every test ends |
| Binary log archive and PITR (same two programs) | archived logs, manifests, each backup's baseline | flush, list, copy one log after another, manifest; choose and replay | a server that commits, rotates and purges meanwhile, archived files that rot | a reported replay has no hole and reaches the flush of its run |
| ReplicaSet manager (`roles/components/mysql_replicaset`) | membership, roles and write protection (in the servers) | check, converge (create, add, rejoin, allowed host), status, switchover, failover | the state is read, then acted on; sessions that die inside a change; servers that come back | one ReplicaSet; no diverged member rejoined; the report is so; check mode changes nothing |
| Role DNS (`roles/components/mysql_role_dns`, `roles/dns_authoritative/files/update-mysql-role-dns.py`) | per DNS server: zone file with serial, runtime records, applied-state file, what NSD has loaded | inspect both, choose a serial, update each, reload, record | two servers, two files on each, interrupted runs, zone convergence as a second writer, serial arithmetic modulo 2^32 | both servers serve the same records; a serial never stands for two contents |
| Zone rendering (`roles/dns_authoritative`) | zone files | render, choose a serial, restart NSD | a restart that is notified and never happens | a changed zone has a newer serial |
| Provision command (`commands/provision.py`) | run directory and secret file, child process group, signal handlers | resolve, write, spawn, wait, stop, leave | signals around the spawn and in the cleanup, descendants that survive their leader, a supervisor's storage | no secret file and no process outlive the command; no interrupted run looks successful |
| GameAP panel bootstrap (`roles/services/gameap_panel`) | database, service, the vendor's binary as a child | inspect, seed, verify, start | the child outliving its helper, a half-initialized database, two helpers | the binary is always owned; what was left half done is worked on again only by a helper that had checked before |
| GameAP daemon enrolment (`roles/services/gameap_daemon`) | lock, attempt marker, identity files; the panel's node | refuse, mark, call once, save, converge | a call that cannot be repeated, late and lost answers | the node is registered once and never forgotten |
| GitHub runner registration (`roles/services/github_runner`) | attempt marker; an external registration | register, remove | a remote call that is not idempotent | never registered twice without somebody looking |
| Router, MySQL server, Zabbix, recursor, cloudflared, nginx, Atlas host, foundation | configuration files, packages, units | converge | ordering within one playbook | convergence is idempotent |

They interact through files under a node's flock (backup, restore test), through
systemd units (playbooks and programs), through AdminAPI (playbooks and MySQL),
and through Ansible's own order: one task on all hosts of a play, then the next.

## Modules

| Module | Models | Runs |
|---|---|---|
| `NodeActivity` | abstract: what the documentation promises of one node | implemented by `TopologyLock` |
| `TopologyLock` | lock, holder unit, service, programs and playbooks | `TopologyLock`, `TopologyLockLive`, `TopologyLockRace`, `TopologyLockRestore` |
| `MCTopologyLock` | two nodes, one or two playbook processes | |
| `TopologyLockProofs` | theorems about `TopologyLock` | |
| `BackupCatalogue` | abstract: the backups that can be selected | implemented by `PhysicalBackup` |
| `PhysicalBackup` | the backup program, its repository and its status | `PhysicalBackup`, `PhysicalBackupSignal` |
| `MCPhysicalBackup` | three runs, two seconds | |
| `PhysicalBackupProofs` | theorems about `PhysicalBackup` | |
| `BinlogArchive` | the source's binary logs, their archive, and the choice and replay of logs | extended by `RestoreTest` |
| `RestoreTest` | the restore test, with the backup program as the other holder of lock and status file | `RestoreTest` |
| `MCRestoreTest` | two tests, two backups, three sets of bounds | |
| `RestoreTestProofs` | theorems about `BinlogArchive` and `RestoreTest` | |
| `ReplicaSet` | the ReplicaSet manager and two servers behind AdminAPI | `ReplicaSet` |
| `MCReplicaSet` | two servers | |
| `ReplicaSetProofs` | theorems about `ReplicaSet` | |
| `SoaSerial` | SOA serials in RFC 1982 sequence space: the filters' and the updater's arithmetic | extended by `RoleDns` |
| `RoleDns` | role DNS on two servers, and zone convergence as the second writer of the zone file | `RoleDns`, `RoleDnsBeside`, `RoleDnsStale` |
| `MCRoleDns` | two servers, two nodes, serials that wrap | |
| `RoleDnsProofs` | theorems about `SoaSerial` and `RoleDns` | |
| `Provision` | runs of the provision command | composed in `GameAP` |
| `PanelSeed` | the helper that seeds the panel's database, and the service | composed in `GameAP` |
| `Enrolment` | the helper that enrols a daemon, and the panel's answers | composed in `GameAP` |
| `GameAP` | the composition: commands that play playbooks that start these helpers | `GameAP` |
| `MCGameAP` | two commands, five scenarios | |
| `ProvisionProofs` | theorems about `Provision` | |
| `HelperProofs` | theorems about `PanelSeed` and `Enrolment` | |
| `GameAPProofs` | the composition implements its parts and inherits their theorems | |

Definitions whose comment begins with `Mutant:` are not part of a
specification: each is a plausible mistake in the code, and TLC finds the
property it is kept for violated when it takes the place of the definition that
follows it.

### TopologyLock

`holder[n]` is who has the flock of node *n*; `unit[n]` and `service[n]` are the
ActiveState of `mysql-topology-operation-lock.service` and
`mysql-physical-backup.service`; `sourceRole[n]` is the role the running backup
program has read. `phase`, `kind`, `target`, `done`, `expired`, `attempted` and
`failed` are one playbook process: the task it is at, the hosts that have finished
that task, the hosts whose holder unit it has read as failed,
`mysql_topology_lock_start_attempted` of each host, and whether the task has
failed on one of them. `Kinds` says which of the two playbooks people run. A host
finishes a task in one step (`ReadService`, `ReadHolder`, `ResetFailed`,
`StartHolder`, `VerifyHolder`, `ReleaseHolder`, each with `Task`), so that a unit
may change between the task that reads it and the one that resets or starts it;
`InspectLock` is the assertion about the lock file, which passes or fails for all
hosts at once, since what lies at its path is not modelled. `NextTask` is
Ansible's linear strategy with `any_errors_fatal`: every host
finishes the task, then all go on or all go to `always`. `ChangePrimary`,
`TopologyFails` and `Dependents` are the three roles the block includes after
the lock. `Kill` is the death of the control process, after which no `always`
section runs and no fact is left. `Expire` is `RuntimeMaxSec`.

Simplifications: `systemctl start` and the flock it decides are one step; the
ReplicaSet is its PRIMARY and whether AdminAPI reports it ONLINE; a former
PRIMARY is a readable SECONDARY as soon as another node is promoted; a task that
reads several properties of one unit reads its ActiveState; tasks that register
and assert what one command has printed are one step; check mode, with its probe
of the flock (acquire_topology_lock.yml:100-124), is not modelled.

### PhysicalBackup

One run follows another under the flock. `pc` is where the program is, `mem` its
copy of the status, `owned` whether its variable `staging` is set. The steps are
those of `main` and of `store_backup`, one for every point at which an
interruption leaves different files behind: the directory is made and then
remembered; `copytree` makes its destination, fills it, the copy is verified
against the manifest, the marker is written, the backup is verified once more.
`Fail` is every error between those steps, `FailedCleanup` an `rmtree` of the
cleanup that fails by itself. `Signal` is SIGTERM or SIGINT, which
raise `SystemExit` where the program happens to be; `Crash` is SIGKILL, a lost
session or a power failure. Outside the program the clock moves both ways
(`Clock`), other operations take the lock (`OtherOperation`) and the medium may
lose a byte (`Rot`). `MaySignal`, `MayCrash` and `RemovalMayFail` say which of
signals, kills and failing removals a behaviour has; any of them that leaves
staging behind sets `disturbed`, which `ErrorsLeaveNoStaging` excepts.

Simplifications: the bytes of a backup are the number of the attempt that took
it; an identifier is its second; archiving closed binary logs is one step;
signals before the `try` have the effect of a kill, because nothing has been
made by then; the status entries of the restore test are not modelled; a second
signal while the first is handled is one more `Signal`.

### BinlogArchive and RestoreTest

`BinlogArchive` has the server's side: `closed[l]` is the number of transactions
committed when log *l* was closed, `oldest` the first log not yet purged; the
server commits, rotates and purges (`Commit`, `Rotate`, `Purge`) beside the
backup program's steps (`Begin`, `Store` with the baseline of
`xtrabackup_binlog_info`, `Flush`, `List`, `ArchiveLog`, `WriteManifest`,
`Leave`). `ReplayedLogs`, `Replayable` and `Replayed` are `pitr_binlogs` and
`replay_binlogs`.

`RestoreTest` adds the host: the flock, the status file with its two writers,
the restore directory (`scratch`, with the pid file, the socket and the data),
the disposable copies, and the transient units, which live on when the program
is killed. `pc` follows `main`; each step between two points at which an
interruption leaves something different behind is an action. `ServerStopped` is
`stop_server` with its refusals. `Fail`, `CleanupFails`, `Signal`, `Crash` and
`PowerFailure` interrupt it anywhere; `ServerDies`, `Expire` (`RuntimeMaxSec` or
the command's own end) and `PidReused` are the world's part; `RotBackup` and
`RotArchive` spoil bytes.

Simplifications: bytes are good or rotten; a server's pid is the number of its
test; `systemd-run`'s start request is handled before the stop that follows it;
no pid changes hands while `stop_server` runs; the unit of a test that was killed
works in its own, detached directory (its `ReadWritePaths` is a mount of it);
`run_isolated`'s `finally` is merged with the cleanup's `StopUnit`. Two
reductions lose no behaviour the programs can tell apart: the source moves only
while a backup run can see it, and bytes rot just before a test reads them.

What the model shows besides its properties: after a kill the next test removes
the left-over directory under an orphaned unit that has not written its pid file
yet (mysql-restore-test.py:239-241; `FilesOutliveUnit` is therefore about the
scratch directory a test has made and its own unit, and about a disposable copy and
the unit of the test whose copy it is); a socket without a live pid makes every later test refuse
until somebody looks; disposable copies of killed tests stay; when `stop_server`
raises in the cleanup, the unit is left to its `RuntimeMaxSec`.

### ReplicaSet

One session of the manager follows another (the topology lock sees to that).
`pc` is where it is, `at` the server it is connected to, `todo` the instances a
convergence has not considered yet; `report` is the state it has read last and will
print, `seen` a history of the states the pair was in since the session's last
change, whoever brought them about. `ReportIsTrue` holds a report to both: it is one
of the states in `seen`, so none from before the change, and it shows what the
action promises. `meta`
is each server's copy of the metadata, with the number of its view: AdminAPI is
external, takes the newest view it can reach, checks its own preconditions when
it acts, and acts as a whole unless the session dies inside (`AddDies`,
`SetPrimaryDies`, the torn half of `SetAllowedHost`). Servers stop, start, lose
replication or write protection, and are installed anew between sessions.

Simplifications: two servers, since the code requires exactly two online;
reading a state is one step (the code asks AdminAPI for a status and then each
server for its variables, and what changes between the two is not told apart);
`serverPolicy` is reduced to being reachable. What
the model shows besides: a former PRIMARY that returns after a failover is
writable until an operator acts, and a check before any ReplicaSet exists reports
that there is none, which the role then refuses.

### Provision, PanelSeed, Enrolment and GameAP

Each part has its own state and specification. `Provision` is `run` of the
command, step by step, with the child's process group (a leader and what
it starts), handlers that are not installed, installed or ignored, and a signal
at every step; `cut` is a ghost that says a signal cut a cleanup short (before
the handlers ignore signals, provision.py:172 and 182), which `SecretIsGuarded`
excepts. A signal before the handlers, or after them and before the `with`
statement is entered, leaves an empty directory (provision.py:117 and 131-134; the
second sets `cut`). Whether `temporary_run_directory`, which is not in the
repository, would take it away after all is not known, so the model leaves it there.
`PanelSeed` is gameap-bootstrap.py: the checks, the fork
with `PR_SET_PDEATHSIG`, polling, stopping. Two seed helpers can run at once,
since there is no lock (gameap-bootstrap.py:44). `overtaken` is a ghost: the helpers
whose check another one's binary has made stale before they start their own.
`PartialIsKept` says that they are the only ones that ever start the binary on a
database left half initialized; it is a statement about helpers that overlap, and
the exception is what the code leaves open. An `InterruptedError` that the
polling's `except (OSError, sqlite3.Error)` swallows is in the model
(`SeedSignal` need not be heeded while polling). `Enrolment` is
gameap-enroll.py: lock, refusal, marker, one call, files in their order. A
convergence of the daemon (enrolled.yml) reads the configuration, writes it back
and starts the service (`ReadIdentity`, `WriteBack`, `RunDaemon`), with `read` for
what it carries from one to the next; it may end in between.

`GameAP` composes them: the leader of a command's process group is Ansible,
whose tasks start the helpers; it dies with the command's cleanup, while a
helper that was started goes on; what a playbook has read is gone with its Ansible
(`Abandoned`); the panel answers while its service runs.

Simplifications: a synced file is durable; a process group number is not reused;
`OperatorClears` is a person who looks when nothing is in flight: no helper, no
call and no convergence that has read the files (a convergence that had would write
the old identity back); ssh's control
masters and the vendor's own descendants are left out; `Turn` lets, in scenarios
without faults, one command get to Ansible before the other (a scheduling
reduction: until then they share nothing).

### RoleDns

`files[s]` is what is on the disk of server *s*: the serial and the static
content of the zone file, and the runtime records it includes; `loaded[s]` is
what NSD answers from and `applied[s]` the applied-state file. `play[p]` is one
playbook that runs the role `mysql_role_dns`: `Inspect` on both servers, `Choose`
on the controller (the filter, or the assertion that fails for ambiguous
serials), the updater on each server (`LeaveAlone`, `Refuse`, or `ReadZone`,
`WriteZone`, `WriteRecords` under the flock, with `UpdateFails` between them),
`Reload` where something has changed or was never recorded, `Record` on both.
`NextTask` ends a play one of whose items has failed. `ChangePrimary` is a
switchover or failover that goes on to the role, `Converge` the convergence of
the MySQL service, which uses the PRIMARY it has read. `conv[s]` is convergence
of authoritative DNS on a server: `Render` reads the file and selects a serial,
`WriteTemplate` writes it, `RestartNsd` is the handler, `ConvergenceFails`
forgets it. `Reboot` cuts an updater off and starts NSD from the files.

Simplifications: records are the PRIMARY they name (the secondaries follow from
it); a loop visits the servers in any order; a new server's note names no node,
as its records do; only the zone that includes the records is converged; when a
play ends, an updater it has started ends with it (`Abort`, like
`UpdateFails`, may leave the zone written and the records not).

## Runs

| Run | Question | Result |
|---|---|---|
| `TopologyLock` | Two nodes, all programs, killed playbooks, a failing PRIMARY; people run one topology playbook at a time. Do activities on a node exclude each other? | passes: `LockInv`, `NoOverlap`, `BackupStaysOnSecondary`, and `ImplementsNodeActivity` |
| `TopologyLockLive` | Is the lock always given back, and does a playbook always end? | passes, under the fairness below |
| `TopologyLockRace` | What if two topology playbooks run at once? | `NoOverlap` is violated: two playbooks read a holder that neither has started |
| `TopologyLockRestore` | Is a restore test always on a SECONDARY, where people run switchovers only? | `RestoreOnSecondary` is violated: a switchover changes the PRIMARY between the plan and the lock |
| `PhysicalBackup` | Can markers, manifests, status and catalogue be trusted after any sequence of failures, signals, kills and clock changes? | passes |
| `PhysicalBackupSignal` | Is staging removed after each attempt? | `StagingIsRemoved` is violated |
| `RestoreTest` | Backups with their log archive and restore tests with every failure, signal, kill, dying server and power failure: is a recorded success earned, a replay complete, nothing left behind, and does every test end? | passes (418,469 states) |
| `GameAP` | Two commands that seed the panel, enrol or converge a daemon, side by side or one with every interruption: are secrets and processes cleaned up, the vendor's binary owned, the node registered once? | passes (448,434 states) |
| `ReplicaSet` | Four sessions of the manager among four failures and interventions: one ReplicaSet, no diverged member rejoined, true reports, a check mode that changes nothing? | passes (1,400,833 states) |
| `RoleDns` | Role updates and zone convergence one after another, any of them failing, aborted or cut by a reboot: are the names, the notes and the serials right? | passes |
| `RoleDnsBeside` | Plays that update role DNS beside each other, each with what it has inspected: is a note of what NSD has loaded still true, and do both servers agree in the end? | passes (`AnswersChangeWithSerial` does not hold there: a reload is outside the flock; serials are proved for this case) |
| `RoleDnsStale` | What if the MySQL service is converged beside a switchover? | `AliasesAreLive` is violated |

`AliasesAreLive` (a play that ended well has repaired whatever earlier ones left
half done, on both servers), `NoteIsTrue` (a reload is never skipped that is
needed), `ChoiceIsAccepted` (the filter and the updater agree about order across
the wrap), `SerialsOnlyAdvance` and `AnswersChangeWithSerial` (no resolver or
secondary ever sees other answers under an old serial) are the properties of
role DNS; `WriterInv` is why serials only advance. `ServersAgree` is what plays that
overlap come to: a play that was overtaken either is refused, and fails, or leaves
the servers to the one that overtook it on both. `NoteIsTrue` is checked where plays
overlap and proved for plays and zone convergence one after another as well.

The runs that end in a violation are the findings of `PROJECT.json`, each with
the line of the documentation it contradicts.

*Bounds.* Two nodes are all the ReplicaSet has. Two playbook processes are
enough for one to find the lock of a killed other; they are interchangeable
(symmetry), which is used only in runs without liveness. Two seconds and three
runs let an identifier meet a complete, a partial and a left-over directory of
another run, and let a run follow one that did. Two DNS servers are all the
code allows. Four playbook runs let two half-done ones of different kinds be
followed by one that has to repair them; the serials are those of a space of 12
and begin two before its end, so that they wrap in the first or second run of
every behaviour, and four runs (`MaxRuns + 1 < HalfRange`) cannot carry the two
servers half the space apart, which takes 2^31 runs in the code. Nodes are
interchangeable (symmetry), with two plays these too. `RoleDns` runs with
`Serialized`: people run one of these playbooks at a time. `RoleDnsBeside` and
`RoleDnsStale` run without, and without zone convergence (`Converging` is
empty); three runs of two plays let one overtake another that still updates the
second server. Only in `RoleDnsBeside` does the updater refuse a serial
(`Refuse`): where plays run one at a time, `ChoiceIsAccepted` says that it need
not.

`RestoreTest` has three records of bounds, of which a behaviour keeps one: one
test of one backup beside two rotations; two backups that both archive, with a
transaction between; and two tests of two backups with every fault, where the
source stands still. One transaction on either side of a boundary is enough to
see a hole or a reach that is short; two tests are enough for one to meet the
leavings of another; two backups for a report to be beside the wrong one.
`GameAP` has five scenarios: two seeds, two enrolments and an enrolment beside a
convergence of the daemon, all without faults of the command (the helpers fail
and are killed in every scenario); a seed and an enrolment alone with every
interruption of the command. Two helpers are enough for the second to meet what
the first left. `ReplicaSet` has four sessions and four faults, enough for
creation, a lost server, a failover and the session that meets its return.

*Fairness.* `FairSpec` of `TopologyLock` assumes that a playbook at work goes
on (`WF` of `Advance`), that the holder unit expires, that the backup service
comes to ask for the flock, and that a program that has it ends. The code
justifies each with a time limit: connection and module timeouts of Ansible's
tasks and the ReplicaSet manager's timeout; `RuntimeMaxSec` of the holder unit;
`TimeoutStartSec` of the backup service. `FairSpec` of `RestoreTest` assumes that a started test goes
on (`WF` of `Test`: every command it runs has a timeout) and that a unit expires
(`RuntimeMaxSec`). That of `GameAP` assumes that what a process can do of itself
is done (`WF` of `Moves`): the command waits two seconds for the group it stops,
and every wait of the helpers has a timeout. Nobody is assumed to start anything,
and no fault to stop.

*Deadlock* is checked in every run but `RestoreTest`, `GameAP` and `ReplicaSet`:
a host where every test is over, playbooks that have ended and a manager that is
not called have nothing left to do.

## Proofs

`TopologyLockProofs`, for any set of nodes and of playbook processes:
`TypeCorrect` needs no assumption beyond the module's. `LockCorrect`,
`NoOverlapHolds`, `StaysOnSecondary` and `Implements` assume `Serialized`
(people run one topology playbook at a time; `TopologyLockRace` shows what
happens otherwise) and `BudgetHolds` (the holder's `RuntimeMaxSec` is longer
than the playbook that needs it; the model has no clock to derive it from).
The argument is the inductive invariant `LockInv`, which TLC checks first. It
is needed because `NoOverlap` says nothing of a playbook before it changes the
topology: `Progress` says which hosts have a start behind them at each task and
that, once verified, the unit is active there; `UnitHoldsFlock` turns an active
unit into a flock; `BackupHoldsFlock` turns a running program into one; and
`OneOperator` says that nobody else is there to stop the unit. `Implements`
maps every step to an entry, a departure or a stutter of `NodeActivity`.

`PhysicalBackupProofs`, for any number of runs and of seconds: the inductive
invariant is `RepositoryInv`, together with `RunningInv` for what a running
program's variables say of the disk. `MarkersHold`, `StatusHolds` and
`Implements` follow from it; there is no assumption but that the bounds are
positive. `RepositoryInv` says of every step after `StoreBegin` who made the
directory the program is filling (`Storing`), that an accepted identifier has no
manifest yet (`FreshDirectory`), and that the program's copy of the status is
true as well as the file (`MemIsTrue`): without the last, a failure that writes
the copy could not be shown to keep `StatusIsTrue`.
The staging directories have an invariant of their own, `StagingInv`: what is in
staging was made by the run at work or an earlier one, the directory that the
program regards as its own really is, and where nothing was ever interrupted
there is no other. `ErrorsCleanUp` and `ForeignIsKept` follow without further
assumptions, and `StagingIsRemovedUndisturbed` is the counterpart of
the run `PhysicalBackupSignal`: without signals and kills, and where `rmtree`
itself succeeds, the sentence of the documentation is true whatever else fails.

`RoleDnsProofs`, for any modulus that is even and greater than two, any two servers,
nodes and contents: the arithmetic of serials first (`DistanceValue`,
`FollowingIsNewer`), then `ConvergedIsNewer` and `ChoiceRefusedAtBoundary`, which
together state the exact boundary of the filter's choice: serials half the space
apart are refused as ambiguous, but for serials one less than that apart the
choice is not newer than the older one and the updater refuses it. Five inductive
invariants follow, each proved with those before it.

- `WriterInv` (for `WritersAdvance`, `SerialsAdvance`): what an updater that has
  not written yet was given is newer than the file (`UpdaterAdvances`), what has
  been rendered is the file's serial or the next one (`RenderedAdvances`), and
  nobody else writes in between (`OneWriter`: one updater per flock, and no play
  where a zone is converged). Without the last, neither of the others survives a
  step of the other writer, which has no flock in common with it.
- `Bounded` (`SerialsStayClose`, without any hypothesis): RFC 1982 order is not
  transitive, so nothing follows from it over several steps. The age of a serial
  is its distance from the first one; no age is greater than the number of runs
  that are past their inspection, which is less than half the space. Among such
  serials the order of the code is the order of ages (`AgeOrder`), and a choice is
  newer than what it was chosen from (`ConvergedAdvances`).
- `NoteInv` (for `NoteHolds`): a play that counts on having updated a server, or
  on NSD having loaded it, is right as long as no newer serial has replaced its
  own (`UpdatedStays`, `ServedStays`); between the two writes of an updater no note
  can match (`WrittenIsTarget`); no note is ahead of its file (`NotedBefore`). So
  a note that matches was written by a play that is right about NSD, even if it
  was overtaken since.
- `AloneInv` (for `AliasesHold`, `ChoiceHolds`, `AnswersHold`): what the one play
  at work may rely on. Its inspection still describes the files, its serial will be
  accepted, what it has updated has its serial (`PlayAlone`), and what NSD does not
  answer from yet is newer than what it answers from (`AnswersBehind`).
- `AgreeInv` (for `AgreementHolds`): what plays that overlap still owe. Where NSD
  has not loaded its files, some play will have it load them, or will fail
  (`LoadIsOwed`); where one server is behind, some play will bring it up or be
  refused there (`SerialIsOwed`); where the serials are the same and the records
  are not, some play is between the servers (`RecordsAreOwed`); and updaters carry
  the static content along unchanged (`OneBody`).

`TypeCorrect` and `SerialsStayClose` need no assumption beyond the module's.
`WritersAdvance`, `SerialsAdvance` and `NoteHolds` assume that people run one
playbook at a time, or that no zone is converged beside plays, which may then
overlap in any way. `AgreementHolds` assumes that no zone is converged.
`AliasesHold`, `ChoiceHolds` and `AnswersHold` assume that
people run one playbook at a time: `RoleDnsStale` shows the first fail otherwise,
and plays that overlap have serials refused and reload each other's zone.
`AliasesHold` also assumes that there is a play, for "every play has ended well"
says nothing otherwise.

`RestoreTestProofs`, for any numbers of backups, transactions, logs and tests,
from the assumptions of the two modules only. `CompleteCorrect` rests on the
logs: closed logs are in order and have no hole between them (`ClosedInOrder`,
`NoHoles`), a baseline lies in the log it names (`BaselineFits`), and a manifest
is an interval of logs that reaches beyond the flush of its run
(`ManifestsReach`, of the run that is still copying too). `ReplayRecovers` puts
them together; `StillRecovers` says that logs which are closed later take nothing
away from a report. `EarnedCorrect`, `LeavesNothing` and `OutlivesUnit` rest on
what the test's variables say step by step: its unit is noted before it starts
(`UnitIsNoted`), directory and pid file are of the test that made them
(`ScratchIsOwn`), bytes are good from the second verification on
(`BytesAreGood`), and nobody has made anything for a later test (`Attempted`).
The invariant says of both programs what each may assume of the other: a test
runs only while no backup does (`lock`), so that the backup it has resolved
stays as it is.

`ReplicaSetProofs`, for any number of sessions, failures and interventions, from
the module's assumption that there are two servers: all of the run's properties
(`TypeCorrect`, `ForkCorrect`, `ReportCorrect`, `CheckCorrect`, `RejoinCorrect`).
Each of the two servers reads its own copy of the metadata, so the invariant says
how the copies can differ: they are the same, or one server was forced to take
over from the other, which does not know it and which it has declared invalid
(`Agreement`). That a forced view never meets another of its number needs
`Replicas`: a server that replicates is a member, not the primary, of what every
managed server holds. Hence a failover starts from the one view there is, and a
member that joins and a planned switchover reach both servers. What a session has
found of an instance (`Considered`) then holds of every copy, not only of the one
it has read. For the report, `Reported` says of every step after a reading that the
state read is one there has been since the last change, and what the checks that
followed have found it to show.

`ProvisionProofs` and `HelperProofs`, for any number of runs or helpers: what exists
at each step of a run (`StorageInv`) and what an
interrupted run still has to do (`SignalInv`); that a check still stands for a
helper that no other's binary has overtaken (`CheckStands`); that at each step of a
call and of its helper the directory says so (`HolderProgress`, `CallProgress`),
with one owner of the files (`OneOwner`), and that what a convergence carries is
still a complete identity when it writes it back (`ReadStands`).
`GameAPProofs` shows that every step of the
composition is a step or a stutter of each part (`PartsImplemented`), so that
`CommandCorrect`, `PanelCorrect` and `NodeCorrect` follow from the parts'
theorems for playbooks that run side by side.

Every invariant and action property of a passing run is stated by a theorem.
Only model-checked are the four liveness properties (`LockIsReleased`,
`OperationEnds`, both `EverythingEnds`): they rest on weak fairness, whose proof
needs `ENABLED`, which this prover cannot reach, no more than induction over data.

## Not modelled

See `components` in `PROJECT.json` for each part and its reason. Pure
configuration roles have no behaviour to interleave. String work (record
rendering, option parsing, address expansion, the validation of static records)
is left to the unit tests of the repository. AdminAPI, systemd, NSD, the GameAP
panel and the vendor's binary are external and modelled as the code uses them.

## Plan

In the order of the harm a mistake would do:

1. `Switchover`, which composes lock, ReplicaSet, role DNS and Router: that an
   alias follows the PRIMARY through a switchover that fails in any of them.
2. The registration of a GitHub runner, whose shape `Enrolment` has.
