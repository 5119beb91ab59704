---------------------------- MODULE TopologyLock ----------------------------
(***************************************************************************)
(* The operation lock of the MySQL nodes.  Every node has one lock file;   *)
(* the physical backup program (run by its systemd service or by hand),    *)
(* the restore test and the topology lock holder unit take a nonblocking   *)
(* exclusive flock on it.  Switchover and failover playbooks start that    *)
(* unit on the nodes they concern, change the primary, update role DNS and *)
(* validate the Routers, and always stop the unit afterwards.              *)
(*                                                                         *)
(* Ansible's linear strategy runs one task on every host of the play, then *)
(* the next one; any_errors_fatal lets the other hosts finish a task that  *)
(* failed on one of them and then goes to the block's `always` section.    *)
(***************************************************************************)
EXTENDS FiniteSets

CONSTANTS
    Nodes,          \* the svc_mysql hosts
    Operators,      \* playbook processes that change the topology
    Nobody,         \* no node
    Programs,       \* the programs that somebody or a timer may start
    Kinds,          \* the playbooks that people run
    Serialized,     \* TRUE: people run one topology playbook at a time
    BudgetHolds     \* TRUE: RuntimeMaxSec never expires under a live playbook

ASSUME ConstantsAssumption ==
    /\ Nobody \notin Nodes
    /\ Programs \subseteq {"service", "manual", "restore"}
    /\ Kinds \subseteq {"switchover", "failover"}
    /\ Serialized \in BOOLEAN
    /\ BudgetHolds \in BOOLEAN

VARIABLES
    holder,         \* holder[n]: who has the flock of node n
    unit,           \* unit[n]: ActiveState of the lock holder unit
    service,        \* service[n]: ActiveState of the physical backup service
    sourceRole,     \* sourceRole[n]: the role the running backup has read
    primary,        \* the ReplicaSet's PRIMARY
    primaryUp,      \* whether AdminAPI reports it ONLINE
    plan,           \* the node the restore playbook has chosen as SECONDARY
    phase,          \* phase[o]: the task operator o is at
    kind,           \* kind[o]: which playbook it runs
    target,         \* target[o]: mysql_target_primary
    done,           \* done[o]: hosts that have finished the present task
    expired,        \* expired[o]: hosts whose failed holder unit is to be reset
    attempted,      \* attempted[o]: hosts with mysql_topology_lock_start_attempted
    failed          \* failed[o]: the present task has failed on some host

nodeVars == <<holder, unit, service, sourceRole>>
topologyVars == <<primary, primaryUp>>
operatorVars == <<phase, kind, target, done, expired, attempted, failed>>
vars == <<nodeVars, topologyVars, plan, operatorVars>>

BackupPrograms == {"service", "manual"}
Holders == {"free", "unit", "restore"} \cup BackupPrograms

\* The tasks of the two playbooks that read or write shared state, in order.
HostTasks == {"readService", "readHolder", "resetFailed", "start", "verify", "release"}
Following == [readService |-> "readHolder", readHolder |-> "resetFailed",
              resetFailed |-> "inspectLock", start |-> "verify",
              verify |-> "topology", release |-> "idle"]
Changing == {"topology", "dependents"}
Phases == HostTasks \cup Changing \cup {"inspectLock", "idle"}

TypeOK ==
    /\ holder \in [Nodes -> Holders]
    /\ unit \in [Nodes -> {"inactive", "active", "failed"}]
    /\ service \in [Nodes -> {"inactive", "activating", "failed"}]
    /\ sourceRole \in [Nodes -> {"none", "unread", "PRIMARY", "SECONDARY"}]
    /\ primary \in Nodes /\ primaryUp \in BOOLEAN
    /\ plan \in Nodes \cup {Nobody}
    /\ phase \in [Operators -> Phases]
    /\ kind \in [Operators -> {"switchover", "failover"}]
    /\ target \in [Operators -> Nodes \cup {Nobody}]
    /\ \A o \in Operators : phase[o] # "idle" => target[o] \in Nodes
    /\ done \in [Operators -> SUBSET Nodes]
    /\ expired \in [Operators -> SUBSET Nodes]
    /\ attempted \in [Operators -> SUBSET Nodes]
    /\ failed \in [Operators -> BOOLEAN]

Init ==
    /\ holder = [n \in Nodes |-> "free"]
    /\ unit = [n \in Nodes |-> "inactive"]
    /\ service = [n \in Nodes |-> "inactive"]
    /\ sourceRole = [n \in Nodes |-> "none"]
    /\ primary \in Nodes /\ primaryUp = TRUE
    /\ plan = Nobody
    /\ phase = [o \in Operators |-> "idle"]
    /\ kind = [o \in Operators |-> "switchover"]
    /\ target = [o \in Operators |-> Nobody]
    /\ done = [o \in Operators |-> {}]
    /\ expired = [o \in Operators |-> {}]
    /\ attempted = [o \in Operators |-> {}]
    /\ failed = [o \in Operators |-> FALSE]

-----------------------------------------------------------------------------
(* The physical backup program, as far as the lock and the role go.        *)

\* role_state: a SECONDARY needs a running receiver, so none without a primary.
Role(n) == IF ~primaryUp THEN "UNKNOWN"
           ELSE IF primary = n THEN "PRIMARY" ELSE "SECONDARY"

\* The timer, or a person, starts the oneshot service.
StartService(n) ==
    /\ "service" \in Programs
    /\ service[n] \in {"inactive", "failed"}
    /\ service' = [service EXCEPT ![n] = "activating"]
    /\ UNCHANGED <<holder, unit, sourceRole, topologyVars, plan, operatorVars>>

\* acquire_operation_lock by the service: --skip-if-lock-busy ends it quietly.
ServiceLock(n) ==
    /\ service[n] = "activating" /\ holder[n] # "service"
    /\ \/ /\ holder[n] = "free"
          /\ holder' = [holder EXCEPT ![n] = "service"]
          /\ sourceRole' = [sourceRole EXCEPT ![n] = "unread"]
          /\ UNCHANGED service
       \/ /\ holder[n] # "free"
          /\ service' = [service EXCEPT ![n] = "inactive"]
          /\ UNCHANGED <<holder, sourceRole>>
    /\ UNCHANGED <<unit, topologyVars, plan, operatorVars>>

\* Mutant: the flock is not asked for.
ManualLockIgnored(n) ==
    /\ "manual" \in Programs
    /\ holder[n] \notin BackupPrograms
    /\ holder' = [holder EXCEPT ![n] = "manual"]
    /\ sourceRole' = [sourceRole EXCEPT ![n] = "unread"]
    /\ UNCHANGED <<unit, service, topologyVars, plan, operatorVars>>

\* acquire_operation_lock by the backup playbook; a busy lock changes nothing.
ManualLock(n) ==
    /\ "manual" \in Programs
    /\ holder[n] = "free"
    /\ holder' = [holder EXCEPT ![n] = "manual"]
    /\ sourceRole' = [sourceRole EXCEPT ![n] = "unread"]
    /\ UNCHANGED <<unit, service, topologyVars, plan, operatorVars>>

\* The role is read once; only --allow-primary, never given to the service,
\* goes on with a PRIMARY.
ReadRole(n) ==
    /\ sourceRole[n] = "unread"
    /\ \/ Role(n) = "SECONDARY"
       \/ Role(n) = "PRIMARY" /\ holder[n] = "manual"
    /\ sourceRole' = [sourceRole EXCEPT ![n] = Role(n)]
    /\ UNCHANGED <<holder, unit, service, topologyVars, plan, operatorVars>>

\* The program ends and its flock goes with it; systemd keeps the result.
EndBackup(n, result) ==
    /\ holder[n] \in BackupPrograms
    /\ holder' = [holder EXCEPT ![n] = "free"]
    /\ sourceRole' = [sourceRole EXCEPT ![n] = "none"]
    /\ service' = IF holder[n] = "service"
                  THEN [service EXCEPT ![n] = result] ELSE service
    /\ UNCHANGED <<unit, topologyVars, plan, operatorVars>>

\* A run completes after the last health check, or skips the PRIMARY.
FinishBackup(n) ==
    /\ \/ sourceRole[n] = "unread" /\ Role(n) = "PRIMARY"
       \/ sourceRole[n] = "PRIMARY"
       \/ sourceRole[n] = "SECONDARY" /\ Role(n) = "SECONDARY"
    /\ EndBackup(n, "inactive")

\* A refusal, an error, a timeout, a signal or a crash at any point.
FailBackup(n) == EndBackup(n, "failed")

-----------------------------------------------------------------------------
(* The restore playbook: ReplicaSet status, then the program on the        *)
(* SECONDARY it reported.                                                  *)

PlanRestore(n) ==
    /\ "restore" \in Programs
    /\ plan = Nobody /\ primaryUp /\ n # primary
    /\ plan' = n
    /\ UNCHANGED <<nodeVars, topologyVars, operatorVars>>

\* Mutant: LOCK_SH for LOCK_EX, so that a backup is no obstacle.
StartRestoreShared(n) ==
    /\ plan = n
    /\ plan' = Nobody
    /\ holder' = IF holder[n] # "unit"
                 THEN [holder EXCEPT ![n] = "restore"] ELSE holder
    /\ UNCHANGED <<unit, service, sourceRole, topologyVars, operatorVars>>

StartRestore(n) ==
    /\ plan = n
    /\ plan' = Nobody
    /\ holder' = IF holder[n] = "free"
                 THEN [holder EXCEPT ![n] = "restore"] ELSE holder
    /\ UNCHANGED <<unit, service, sourceRole, topologyVars, operatorVars>>

EndRestore(n) ==
    /\ holder[n] = "restore"
    /\ holder' = [holder EXCEPT ![n] = "free"]
    /\ UNCHANGED <<unit, service, sourceRole, topologyVars, plan, operatorVars>>

-----------------------------------------------------------------------------
(* The lock holder unit and the server, left to themselves.                *)

\* Mutant: a unit without RuntimeMaxSec.
ExpireNever(n) == n \notin Nodes /\ UNCHANGED vars

\* RuntimeMaxSec: systemd kills flock and sleep, and the unit is failed.
Expire(n) ==
    /\ unit[n] = "active"
    /\ BudgetHolds => \A o \in Operators : n \notin attempted[o]
    /\ unit' = [unit EXCEPT ![n] = "failed"]
    /\ holder' = [holder EXCEPT ![n] = "free"]
    /\ UNCHANGED <<service, sourceRole, topologyVars, plan, operatorVars>>

\* The PRIMARY's server stops or comes back.
PrimaryChanges ==
    /\ primaryUp' = ~primaryUp
    /\ UNCHANGED <<nodeVars, primary, plan, operatorVars>>

-----------------------------------------------------------------------------
(* mysql-switchover.yml and mysql-failover.yml.                            *)

\* The hosts of the play: both nodes, or only the confirmed target.
Hosts(o) == IF kind[o] = "switchover" THEN Nodes ELSE {target[o]}

\* Mutant: mysql_target_primary is not required.
BeginUntargeted(o, k, t) ==
    /\ phase[o] = "idle"
    /\ Serialized => \A p \in Operators : phase[p] = "idle"
    /\ phase' = [phase EXCEPT ![o] = "readService"]
    /\ kind' = [kind EXCEPT ![o] = k]
    /\ UNCHANGED <<nodeVars, topologyVars, plan, target, done, expired, attempted, failed>>

Begin(o, k, t) ==
    /\ phase[o] = "idle"
    /\ Serialized => \A p \in Operators : phase[p] = "idle"
    /\ phase' = [phase EXCEPT ![o] = "readService"]
    /\ kind' = [kind EXCEPT ![o] = k]
    /\ target' = [target EXCEPT ![o] = t]
    /\ UNCHANGED <<nodeVars, topologyVars, plan, done, expired, attempted, failed>>

\* Host n finishes the task that operator o is at.
Task(o, n, task, ok) ==
    /\ phase[o] = task
    /\ n \in Hosts(o) \ done[o]
    /\ done' = [done EXCEPT ![o] = @ \cup {n}]
    /\ failed' = [failed EXCEPT ![o] = @ \/ ~ok]
    /\ UNCHANGED <<phase, kind, target>>

\* Require an inactive physical backup service.
ReadService(o, n) ==
    /\ Task(o, n, "readService", service[n] = "inactive")
    /\ UNCHANGED <<nodeVars, topologyVars, plan, expired, attempted>>

\* Refuse a concurrent lock holder; remember an expired one.
ReadHolder(o, n) ==
    /\ Task(o, n, "readHolder", unit[n] # "active")
    /\ expired' = [expired EXCEPT ![o] = IF unit[n] = "failed" THEN @ \cup {n} ELSE @]
    /\ UNCHANGED <<nodeVars, topologyVars, plan, attempted>>

\* Clear the failure of an expired holder.  The unit may have been started
\* since it was read; reset-failed does nothing to an active unit.
ResetFailed(o, n) ==
    /\ Task(o, n, "resetFailed", TRUE)
    /\ unit' = [unit EXCEPT ![n] =
                   IF n \in expired[o] /\ @ = "failed" THEN "inactive" ELSE @]
    /\ expired' = [expired EXCEPT ![o] = @ \ {n}]
    /\ UNCHANGED <<holder, service, sourceRole, topologyVars, plan, attempted>>

\* Require a safe lock file on every host.  What lies at its path is not
\* modelled, so the hosts are not told apart: one is refused, or none.
InspectLock(o) ==
    /\ phase[o] = "inspectLock"
    /\ \E next \in {"start", "release"} :
          phase' = [phase EXCEPT ![o] = next]
    /\ UNCHANGED <<nodeVars, topologyVars, plan, kind, target, done, expired, attempted,
                   failed>>

\* Mutant: Type=simple, so that a start succeeds before flock has decided.
StartHolderUnnotified(o, n) ==
    /\ Task(o, n, "start", TRUE)
    /\ attempted' = [attempted EXCEPT ![o] = @ \cup {n}]
    /\ unit' = [unit EXCEPT ![n] =
                   IF @ = "active" \/ holder[n] = "free" THEN "active" ELSE "failed"]
    /\ holder' = [holder EXCEPT ![n] = IF @ = "free" THEN "unit" ELSE @]
    /\ UNCHANGED <<service, sourceRole, topologyVars, plan, expired>>

\* systemctl start: nothing to do for an active unit; otherwise flock
\* --nonblock decides, and the notification makes the unit active.
StartHolder(o, n) ==
    /\ Task(o, n, "start", unit[n] = "active" \/ holder[n] = "free")
    /\ attempted' = [attempted EXCEPT ![o] = @ \cup {n}]
    /\ \/ /\ unit[n] = "active"
          /\ UNCHANGED <<unit, holder>>
       \/ /\ unit[n] # "active" /\ holder[n] = "free"
          /\ unit' = [unit EXCEPT ![n] = "active"]
          /\ holder' = [holder EXCEPT ![n] = "unit"]
       \/ /\ unit[n] # "active" /\ holder[n] # "free"
          /\ unit' = [unit EXCEPT ![n] = "failed"]
          /\ UNCHANGED holder
    /\ UNCHANGED <<service, sourceRole, topologyVars, plan, expired>>

\* Require the lock to be held.
VerifyHolder(o, n) ==
    /\ Task(o, n, "verify", unit[n] = "active")
    /\ UNCHANGED <<nodeVars, topologyVars, plan, expired, attempted>>

\* `always`: stop the unit where its start was attempted, and only there.
ReleaseHolder(o, n) ==
    /\ Task(o, n, "release", TRUE)
    /\ \/ /\ n \in attempted[o]
          /\ unit' = [unit EXCEPT ![n] = "inactive"]
          /\ holder' = IF unit[n] = "active"
                       THEN [holder EXCEPT ![n] = "free"] ELSE holder
       \/ /\ n \notin attempted[o]
          /\ UNCHANGED <<unit, holder>>
    /\ UNCHANGED <<service, sourceRole, topologyVars, plan, expired, attempted>>

\* Mutant: without any_errors_fatal the hosts that did not fail go on.
NextTaskRegardless(o) ==
    /\ phase[o] \in HostTasks
    /\ done[o] = Hosts(o)
    /\ phase' = [phase EXCEPT ![o] = Following[@]]
    /\ done' = [done EXCEPT ![o] = {}]
    /\ failed' = [failed EXCEPT ![o] = FALSE]
    /\ IF phase[o] = "release"
       THEN /\ attempted' = [attempted EXCEPT ![o] = {}]
            /\ expired' = [expired EXCEPT ![o] = {}]
            /\ target' = [target EXCEPT ![o] = Nobody]
            /\ kind' = [kind EXCEPT ![o] = "switchover"]
       ELSE UNCHANGED <<attempted, expired, target, kind>>
    /\ UNCHANGED <<nodeVars, topologyVars, plan>>

\* Mutant: a failover waits for the node that has failed, too.
NextTaskEverywhere(o) ==
    /\ done[o] = Nodes
    /\ NextTaskRegardless(o)

\* All hosts have finished a task: the next one, or the `always` section.
NextTask(o) ==
    /\ phase[o] \in HostTasks
    /\ done[o] = Hosts(o)
    /\ phase' = [phase EXCEPT ![o] = IF failed[o] /\ @ # "release"
                                     THEN "release" ELSE Following[@]]
    /\ done' = [done EXCEPT ![o] = {}]
    /\ failed' = [failed EXCEPT ![o] = FALSE]
    /\ IF phase[o] = "release"
       THEN /\ attempted' = [attempted EXCEPT ![o] = {}]
            /\ expired' = [expired EXCEPT ![o] = {}]
            /\ target' = [target EXCEPT ![o] = Nobody]
            /\ kind' = [kind EXCEPT ![o] = "switchover"]
       ELSE UNCHANGED <<attempted, expired, target, kind>>
    /\ UNCHANGED <<nodeVars, topologyVars, plan>>

\* The ReplicaSet manager's switchover needs an online SECONDARY as target,
\* its failover an unavailable PRIMARY.  It may fail before or after the change.
ChangePrimary(o) ==
    /\ phase[o] = "topology"
    /\ \E next \in {"dependents", "release"} :
          phase' = [phase EXCEPT ![o] = next]
    /\ target[o] # primary
    /\ primaryUp = (kind[o] = "switchover")
    /\ primary' = target[o] /\ primaryUp' = TRUE
    /\ UNCHANGED <<nodeVars, plan, kind, target, done, expired, attempted, failed>>

TopologyFails(o) ==
    /\ phase[o] = "topology"
    /\ phase' = [phase EXCEPT ![o] = "release"]
    /\ UNCHANGED <<nodeVars, topologyVars, plan, kind, target, done, expired, attempted,
                   failed>>

\* Role DNS and Router validation, which may succeed or fail.
Dependents(o) ==
    /\ phase[o] = "dependents"
    /\ phase' = [phase EXCEPT ![o] = "release"]
    /\ UNCHANGED <<nodeVars, topologyVars, plan, kind, target, done, expired, attempted,
                   failed>>

\* The control process dies: no `always` section, and its facts are lost.
Kill(o) ==
    /\ phase[o] # "idle"
    /\ phase' = [phase EXCEPT ![o] = "idle"]
    /\ kind' = [kind EXCEPT ![o] = "switchover"]
    /\ target' = [target EXCEPT ![o] = Nobody]
    /\ done' = [done EXCEPT ![o] = {}]
    /\ expired' = [expired EXCEPT ![o] = {}]
    /\ attempted' = [attempted EXCEPT ![o] = {}]
    /\ failed' = [failed EXCEPT ![o] = FALSE]
    /\ UNCHANGED <<nodeVars, topologyVars, plan>>

-----------------------------------------------------------------------------

HostTask(o, n) ==
    \/ ReadService(o, n) \/ ReadHolder(o, n) \/ ResetFailed(o, n)
    \/ StartHolder(o, n) \/ VerifyHolder(o, n) \/ ReleaseHolder(o, n)

Advance(o) ==
    \/ \E n \in Nodes : HostTask(o, n)
    \/ InspectLock(o)
    \/ NextTask(o) \/ ChangePrimary(o) \/ TopologyFails(o) \/ Dependents(o)

EndProgram(n) == FinishBackup(n) \/ FailBackup(n) \/ EndRestore(n)

Next ==
    \/ \E n \in Nodes :
          \/ StartService(n) \/ ServiceLock(n) \/ ManualLock(n) \/ ReadRole(n)
          \/ FinishBackup(n) \/ FailBackup(n)
          \/ PlanRestore(n) \/ StartRestore(n) \/ EndRestore(n)
          \/ Expire(n)
    \/ PrimaryChanges
    \/ \E o \in Operators :
          \/ \E k \in Kinds, t \in Nodes : Begin(o, k, t)
          \/ \E n \in Nodes : HostTask(o, n)
          \/ InspectLock(o)
          \/ NextTask(o) \/ ChangePrimary(o) \/ TopologyFails(o) \/ Dependents(o)
          \/ Kill(o)

Spec == Init /\ [][Next]_vars

\* Every program, task and unit has a time limit; nobody has to start one.
Fairness ==
    /\ \A o \in Operators : WF_vars(Advance(o))
    /\ \A n \in Nodes : WF_vars(Expire(n)) /\ WF_vars(ServiceLock(n))
                        /\ WF_vars(EndProgram(n))

FairSpec == Spec /\ Fairness

-----------------------------------------------------------------------------
(* Properties.                                                             *)

\* Operator o is changing, or adapting others to, the topology of node n.
Mutating(o, n) == phase[o] \in Changing /\ n \in Hosts(o)

\* docs/mysql-platform.md:24.  While a playbook changes the topology of a node
\* no backup and no restore test runs there.
NoOverlap ==
    \A n \in Nodes, o \in Operators :
        Mutating(o, n) => holder[n] \notin BackupPrograms \cup {"restore"}

\* A backup that started on a SECONDARY is never on the PRIMARY: the node is
\* not promoted before the program has ended, whichever playbook tries to.
BackupStaysOnSecondary ==
    \A n \in Nodes : sourceRole[n] = "SECONDARY" => n # primary

\* Why NoOverlap holds, in four parts.  The unit is active exactly while it has
\* the flock of its node.
UnitHoldsFlock == \A n \in Nodes : unit[n] = "active" <=> holder[n] = "unit"

\* A backup program has read a role, or is about to, exactly while it has it.
BackupHoldsFlock ==
    \A n \in Nodes : sourceRole[n] # "none" <=> holder[n] \in BackupPrograms

\* At most one playbook is at work.
OneOperator ==
    \A o, p \in Operators : phase[o] # "idle" /\ phase[p] # "idle" => o = p

\* What a playbook knows at each task: the hosts it has started the unit on,
\* and, past its verification, that the unit is still active on all of them.
Progress(o) ==
    /\ phase[o] = "idle" => done[o] = {} /\ attempted[o] = {} /\ ~failed[o]
    /\ done[o] \subseteq Hosts(o)
    /\ phase[o] = "start" => done[o] \subseteq attempted[o]
    /\ phase[o] = "start" /\ ~failed[o] => \A n \in done[o] : unit[n] = "active"
    /\ phase[o] \in {"verify"} \cup Changing =>
          /\ Hosts(o) \subseteq attempted[o]
          /\ \A n \in Hosts(o) : unit[n] = "active"
    /\ phase[o] \in Changing \cup {"inspectLock"} => done[o] = {} /\ ~failed[o]

LockInv ==
    UnitHoldsFlock /\ BackupHoldsFlock /\ OneOperator /\ \A o \in Operators : Progress(o)

\* mysql-restore-test.yml:16.  "Run an isolated restore test on the current
\* SECONDARY": the node under test is not the PRIMARY.
RestoreOnSecondary ==
    \A n \in Nodes : holder[n] = "restore" /\ primaryUp => n # primary

\* What is under way on each node, for the abstract specification.
activeOn ==
    [n \in Nodes |->
        (IF holder[n] \in BackupPrograms THEN {"backup"} ELSE {})
        \cup (IF holder[n] = "restore" THEN {"restore"} ELSE {})
        \cup (IF \E o \in Operators : Mutating(o, n) THEN {"topology"} ELSE {})]

Activity == INSTANCE NodeActivity WITH active <- activeOn

\* The flock, the unit and the playbooks together keep the promise that
\* backups, restore tests and topology changes do not overlap on a node.
ImplementsNodeActivity == Activity!Spec

\* A node does not stay locked: whatever becomes of the playbook that started
\* the lock holder, its unit stops, by the `always` section or by RuntimeMaxSec.
LockIsReleased ==
    \A n \in Nodes : unit[n] = "active" ~> unit[n] # "active"

\* A playbook never hangs on the lock: refused, failed, killed or successful,
\* it gets through its `always` section.
OperationEnds ==
    \A o \in Operators : phase[o] # "idle" ~> phase[o] = "idle"

=============================================================================
