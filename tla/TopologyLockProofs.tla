------------------------- MODULE TopologyLockProofs -------------------------
(***************************************************************************)
(* Proofs about TopologyLock for any set of nodes and operators.  The type *)
(* invariant holds unconditionally; the exclusion of backups, restore      *)
(* tests and topology changes holds when topology playbooks are run one at *)
(* a time and the lock holder outlives them (the run TopologyLockRace      *)
(* shows that it fails without the first assumption).                      *)
(***************************************************************************)
EXTENDS TopologyLock, TLAPS

LEMMA InitTypeOK == Init => TypeOK
  BY DEF Init, TypeOK, Holders, Phases, HostTasks

\* A step of the programs, the units or the server keeps the types.
LEMMA NodeStepTypeOK ==
  ASSUME TypeOK, NEW n \in Nodes,
         \/ StartService(n) \/ ServiceLock(n) \/ ManualLock(n) \/ ReadRole(n)
         \/ FinishBackup(n) \/ FailBackup(n)
         \/ PlanRestore(n) \/ StartRestore(n) \/ EndRestore(n) \/ Expire(n)
  PROVE  TypeOK'
  <1>1. CASE StartService(n)
    BY <1>1 DEF TypeOK, StartService, nodeVars, topologyVars, operatorVars
  <1>2. CASE ServiceLock(n)
    BY <1>2 DEF TypeOK, ServiceLock, Holders, BackupPrograms, nodeVars,
                topologyVars, operatorVars
  <1>3. CASE ManualLock(n)
    BY <1>3 DEF TypeOK, ManualLock, Holders, BackupPrograms, nodeVars,
                topologyVars, operatorVars
  <1>4. CASE ReadRole(n)
    BY <1>4 DEF TypeOK, ReadRole, Role, topologyVars, operatorVars
  <1>5. CASE FinishBackup(n)
    BY <1>5 DEF TypeOK, FinishBackup, EndBackup, Holders, topologyVars, operatorVars
  <1>6. CASE FailBackup(n)
    BY <1>6 DEF TypeOK, FailBackup, EndBackup, Holders, topologyVars, operatorVars
  <1>7. CASE PlanRestore(n)
    BY <1>7 DEF TypeOK, PlanRestore, nodeVars, topologyVars, operatorVars
  <1>8. CASE StartRestore(n)
    BY <1>8 DEF TypeOK, StartRestore, Holders, topologyVars, operatorVars
  <1>9. CASE EndRestore(n)
    BY <1>9 DEF TypeOK, EndRestore, Holders, topologyVars, operatorVars
  <1>10. CASE Expire(n)
    BY <1>10 DEF TypeOK, Expire, Holders, topologyVars, operatorVars
  <1>11. QED
    BY <1>1, <1>2, <1>3, <1>4, <1>5, <1>6, <1>7, <1>8, <1>9, <1>10

\* A step of an operator keeps the types.
LEMMA OperatorStepTypeOK ==
  ASSUME TypeOK, NEW o \in Operators,
         \/ \E k \in Kinds, t \in Nodes : Begin(o, k, t)
         \/ \E n \in Nodes : HostTask(o, n)
         \/ InspectLock(o) \/ NextTask(o) \/ ChangePrimary(o)
         \/ TopologyFails(o) \/ Dependents(o) \/ Kill(o)
  PROVE  TypeOK'
  <1> USE DEF TypeOK, nodeVars, topologyVars, operatorVars
  <1>1. CASE \E k \in Kinds, t \in Nodes : Begin(o, k, t)
    BY <1>1, ConstantsAssumption DEF Begin, Phases, HostTasks
  <1>2. ASSUME NEW n \in Nodes, HostTask(o, n)
        PROVE  TypeOK'
    <2>1. CASE ReadService(o, n)
      BY <2>1 DEF ReadService, Task
    <2>2. CASE ReadHolder(o, n)
      BY <2>2 DEF ReadHolder, Task
    <2>3. CASE StartHolder(o, n)
      BY <2>3 DEF StartHolder, Task, Holders
    <2>4. CASE VerifyHolder(o, n)
      BY <2>4 DEF VerifyHolder, Task
    <2>5. CASE ReleaseHolder(o, n)
      BY <2>5 DEF ReleaseHolder, Task, Holders
    <2>6. CASE ResetFailed(o, n)
      BY <2>6 DEF ResetFailed, Task
    <2>7. QED
      BY <1>2, <2>1, <2>2, <2>3, <2>4, <2>5, <2>6 DEF HostTask
  <1>3. CASE NextTask(o)
    BY <1>3 DEF NextTask, Following, Phases, HostTasks, Changing
  <1>4. CASE ChangePrimary(o)
    BY <1>4 DEF ChangePrimary, Phases, HostTasks, Changing
  <1>5. CASE TopologyFails(o)
    BY <1>5 DEF TopologyFails, Phases, HostTasks
  <1>6. CASE Dependents(o)
    BY <1>6 DEF Dependents, Phases, HostTasks
  <1>7. CASE Kill(o)
    BY <1>7 DEF Kill, Phases
  <1>8. CASE InspectLock(o)
    BY <1>8 DEF InspectLock, Phases, HostTasks
  <1>9. QED
    BY <1>1, <1>2, <1>3, <1>4, <1>5, <1>6, <1>7, <1>8

LEMMA NextTypeOK == TypeOK /\ [Next]_vars => TypeOK'
  <1> SUFFICES ASSUME TypeOK, [Next]_vars
               PROVE  TypeOK'
    OBVIOUS
  <1>1. CASE PrimaryChanges
    BY <1>1 DEF PrimaryChanges, TypeOK, nodeVars, operatorVars
  <1>2. CASE UNCHANGED vars
    BY <1>2 DEF vars, TypeOK, nodeVars, topologyVars, operatorVars
  <1>3. QED
    BY <1>1, <1>2, NodeStepTypeOK, OperatorStepTypeOK DEF Next

\* Every reachable state of every instance has the declared types.
THEOREM TypeCorrect == Spec => []TypeOK
  BY InitTypeOK, NextTypeOK, PTL DEF Spec

-----------------------------------------------------------------------------
(* The flock of a node and the state of the unit and the programs on it.   *)

FlockInv == UnitHoldsFlock /\ BackupHoldsFlock

LEMMA InitFlock == Init => FlockInv
  BY DEF Init, FlockInv, UnitHoldsFlock, BackupHoldsFlock, BackupPrograms

\* Whatever is done to node n is done to its flock, its unit and its backup
\* program together, and to no other node.
LEMMA NodeStepFlock ==
  ASSUME TypeOK, FlockInv, NEW n \in Nodes,
         \/ StartService(n) \/ ServiceLock(n) \/ ManualLock(n) \/ ReadRole(n)
         \/ FinishBackup(n) \/ FailBackup(n)
         \/ PlanRestore(n) \/ StartRestore(n) \/ EndRestore(n) \/ Expire(n)
  PROVE  FlockInv'
  <1> USE DEF TypeOK, FlockInv, UnitHoldsFlock, BackupHoldsFlock, BackupPrograms, Holders
  <1>1. CASE StartService(n)
    BY <1>1 DEF StartService
  <1>2. CASE ServiceLock(n)
    BY <1>2 DEF ServiceLock
  <1>3. CASE ManualLock(n)
    BY <1>3 DEF ManualLock
  <1>4. CASE ReadRole(n)
    BY <1>4 DEF ReadRole, Role
  <1>5. CASE FinishBackup(n)
    BY <1>5 DEF FinishBackup, EndBackup
  <1>6. CASE FailBackup(n)
    BY <1>6 DEF FailBackup, EndBackup
  <1>7. CASE PlanRestore(n)
    BY <1>7 DEF PlanRestore, nodeVars
  <1>8. CASE StartRestore(n)
    BY <1>8 DEF StartRestore
  <1>9. CASE EndRestore(n)
    BY <1>9 DEF EndRestore
  <1>10. CASE Expire(n)
    BY <1>10 DEF Expire
  <1>11. QED
    BY <1>1, <1>2, <1>3, <1>4, <1>5, <1>6, <1>7, <1>8, <1>9, <1>10

LEMMA HostTaskFlock ==
  ASSUME TypeOK, FlockInv, NEW o \in Operators, NEW n \in Nodes, HostTask(o, n)
  PROVE  FlockInv'
  <1> USE DEF TypeOK, FlockInv, UnitHoldsFlock, BackupHoldsFlock, BackupPrograms,
              Holders, nodeVars
  <1>1. CASE ReadService(o, n)
    BY <1>1 DEF ReadService
  <1>2. CASE ReadHolder(o, n)
    BY <1>2 DEF ReadHolder
  <1>3. CASE StartHolder(o, n)
    BY <1>3 DEF StartHolder
  <1>4. CASE VerifyHolder(o, n)
    BY <1>4 DEF VerifyHolder
  <1>5. CASE ReleaseHolder(o, n)
    BY <1>5 DEF ReleaseHolder
  <1>6. CASE ResetFailed(o, n)
    BY <1>6 DEF ResetFailed
  <1>7. QED
    BY <1>1, <1>2, <1>3, <1>4, <1>5, <1>6 DEF HostTask

\* The other steps of a playbook do not touch the nodes.
LEMMA ControlStepNodes ==
  ASSUME NEW o \in Operators,
         \/ \E k \in Kinds, t \in Nodes : Begin(o, k, t)
         \/ InspectLock(o) \/ NextTask(o) \/ ChangePrimary(o)
         \/ TopologyFails(o) \/ Dependents(o) \/ Kill(o)
  PROVE  UNCHANGED nodeVars
  BY DEF Begin, InspectLock, NextTask, ChangePrimary, TopologyFails, Dependents, Kill

LEMMA NextFlock == TypeOK /\ FlockInv /\ [Next]_vars => FlockInv'
  <1> SUFFICES ASSUME TypeOK, FlockInv, [Next]_vars
               PROVE  FlockInv'
    OBVIOUS
  <1>1. CASE UNCHANGED nodeVars
    BY <1>1 DEF nodeVars, FlockInv, UnitHoldsFlock, BackupHoldsFlock
  <1>2. CASE PrimaryChanges \/ UNCHANGED vars
    BY <1>1, <1>2 DEF PrimaryChanges, vars
  <1>3. ASSUME NEW o \in Operators, NEW n \in Nodes, HostTask(o, n)
        PROVE  FlockInv'
    BY <1>3, HostTaskFlock
  <1>4. QED
    BY <1>1, <1>2, <1>3, NodeStepFlock, ControlStepNodes DEF Next

-----------------------------------------------------------------------------
(* A playbook past its verification still has the unit active.             *)

LEMMA InitProgress == Init => OneOperator /\ \A o \in Operators : Progress(o)
  BY DEF Init, OneOperator, Progress, Changing

\* Programs and units do not move the playbooks, and under BudgetHolds the unit
\* does not expire where one has started it.
LEMMA NodeStepProgress ==
  ASSUME TypeOK, BudgetHolds, NEW n \in Nodes, NEW o \in Operators, Progress(o),
         \/ StartService(n) \/ ServiceLock(n) \/ ManualLock(n) \/ ReadRole(n)
         \/ FinishBackup(n) \/ FailBackup(n)
         \/ PlanRestore(n) \/ StartRestore(n) \/ EndRestore(n) \/ Expire(n)
  PROVE  Progress(o)'
  <1>1. CASE UNCHANGED <<unit, operatorVars>>
    BY <1>1 DEF Progress, Hosts, operatorVars
  <1>2. CASE Expire(n)
    <2>1. n \notin attempted[o] /\ UNCHANGED operatorVars
      BY <1>2 DEF Expire
    <2>2. \A m \in Nodes \ {n} : unit'[m] = unit[m]
      BY <1>2 DEF Expire, TypeOK
    <2>3. done[o] \subseteq Nodes
      BY DEF TypeOK
    <2>4. Hosts(o) \subseteq Nodes \/ phase[o] = "idle"
      BY DEF TypeOK, Hosts
    <2>5. QED
      BY <2>1, <2>2, <2>3, <2>4 DEF Progress, Hosts, operatorVars, Changing
  <1>3. QED
    BY <1>1, <1>2 DEF StartService, ServiceLock, ManualLock, ReadRole, FinishBackup,
        FailBackup, EndBackup, PlanRestore, StartRestore, EndRestore, nodeVars

\* What operator o does to its own progress.
LEMMA OwnStepProgress ==
  ASSUME TypeOK, NEW o \in Operators, Progress(o),
         \/ \E k \in Kinds, t \in Nodes : Begin(o, k, t)
         \/ \E n \in Nodes : HostTask(o, n)
         \/ InspectLock(o) \/ NextTask(o) \/ ChangePrimary(o)
         \/ TopologyFails(o) \/ Dependents(o) \/ Kill(o)
  PROVE  Progress(o)'
  <1> USE DEF TypeOK, Progress, Hosts, Changing
  <1>1. CASE \E k \in Kinds, t \in Nodes : Begin(o, k, t)
    BY <1>1 DEF Begin
  <1>2. ASSUME NEW n \in Nodes, HostTask(o, n)
        PROVE  Progress(o)'
    <2>1. CASE ReadService(o, n)
      BY <2>1 DEF ReadService, Task, nodeVars
    <2>2. CASE ReadHolder(o, n)
      BY <2>2 DEF ReadHolder, Task, nodeVars
    <2>3. CASE StartHolder(o, n)
      <3>1. /\ phase[o] = "start" /\ phase' = phase
            /\ kind' = kind /\ target' = target
            /\ n \in Hosts(o)
            /\ done'[o] = done[o] \cup {n} /\ attempted'[o] = attempted[o] \cup {n}
        BY <2>3 DEF StartHolder, Task
      <3>2. failed'[o] = (failed[o] \/ ~(unit[n] = "active" \/ holder[n] = "free"))
        BY <2>3 DEF StartHolder, Task
      <3>3. \A m \in Nodes \ {n} : unit'[m] = unit[m]
        BY <2>3 DEF StartHolder
      <3>4. unit[n] = "active" \/ holder[n] = "free" => unit'[n] = "active"
        BY <2>3 DEF StartHolder
      <3>5. ~failed'[o] => \A m \in done'[o] : unit'[m] = "active"
        <4>1. SUFFICES ASSUME ~failed'[o], NEW m \in done'[o]
                       PROVE  unit'[m] = "active"
          OBVIOUS
        <4>2. ~failed[o] /\ (unit[n] = "active" \/ holder[n] = "free")
          BY <3>2, <4>1, Zenon
        <4>3. QED
          BY <3>1, <3>3, <3>4, <4>2
      <3>6. QED
        BY <3>1, <3>5
    <2>4. CASE VerifyHolder(o, n)
      BY <2>4 DEF VerifyHolder, Task, nodeVars
    <2>5. CASE ReleaseHolder(o, n)
      BY <2>5 DEF ReleaseHolder, Task
    <2>6. CASE ResetFailed(o, n)
      BY <2>6 DEF ResetFailed, Task
    <2>7. QED
      BY <1>2, <2>1, <2>2, <2>3, <2>4, <2>5, <2>6 DEF HostTask
  <1>3. CASE NextTask(o)
    BY <1>3 DEF NextTask, HostTasks, Following, nodeVars
  <1>4. CASE ChangePrimary(o)
    BY <1>4 DEF ChangePrimary, nodeVars
  <1>5. CASE TopologyFails(o)
    BY <1>5 DEF TopologyFails, nodeVars
  <1>6. CASE Dependents(o)
    BY <1>6 DEF Dependents, nodeVars
  <1>7. CASE Kill(o)
    BY <1>7 DEF Kill, nodeVars
  <1>8. CASE InspectLock(o)
    BY <1>8 DEF InspectLock, nodeVars
  <1>9. QED
    BY <1>1, <1>2, <1>3, <1>4, <1>5, <1>6, <1>7, <1>8

\* An idle playbook knows nothing, so another one's step cannot mislead it.
LEMMA IdleProgress ==
  ASSUME TypeOK, NEW o \in Operators, Progress(o), phase[o] = "idle",
         phase'[o] = "idle", done'[o] = done[o], attempted'[o] = attempted[o],
         failed'[o] = failed[o]
  PROVE  Progress(o)'
  BY DEF Progress, Changing

\* The step of one playbook leaves the variables of the others alone.
LEMMA OthersUnchanged ==
  ASSUME TypeOK, NEW p \in Operators, NEW o \in Operators, o # p,
         \/ \E k \in Kinds, t \in Nodes : Begin(p, k, t)
         \/ \E n \in Nodes : HostTask(p, n)
         \/ InspectLock(p) \/ NextTask(p) \/ ChangePrimary(p)
         \/ TopologyFails(p) \/ Dependents(p) \/ Kill(p)
  PROVE  /\ phase'[o] = phase[o] /\ done'[o] = done[o]
         /\ attempted'[o] = attempted[o] /\ failed'[o] = failed[o]
  BY DEF TypeOK, Begin, HostTask, ReadService, ReadHolder, ResetFailed, StartHolder,
         VerifyHolder, ReleaseHolder, Task, InspectLock, NextTask, ChangePrimary,
         TopologyFails, Dependents, Kill

\* When one playbook takes a step, the others are idle, if they are serialized.
LEMMA OthersIdle ==
  ASSUME TypeOK, Serialized, OneOperator, NEW p \in Operators, NEW o \in Operators, o # p,
         \/ \E k \in Kinds, t \in Nodes : Begin(p, k, t)
         \/ \E n \in Nodes : HostTask(p, n)
         \/ InspectLock(p) \/ NextTask(p) \/ ChangePrimary(p)
         \/ TopologyFails(p) \/ Dependents(p) \/ Kill(p)
  PROVE  phase[o] = "idle"
  <1>1. CASE \E k \in Kinds, t \in Nodes : Begin(p, k, t)
    BY <1>1 DEF Begin
  <1>2. CASE phase[p] # "idle"
    BY <1>2 DEF OneOperator
  <1>3. QED
    BY <1>1, <1>2 DEF HostTask, ReadService, ReadHolder, ResetFailed,
       StartHolder, VerifyHolder, ReleaseHolder, Task, InspectLock, NextTask, HostTasks,
       ChangePrimary, TopologyFails, Dependents, Kill

LEMMA OperatorStepProgress ==
  ASSUME TypeOK, Serialized, OneOperator, \A o \in Operators : Progress(o),
         NEW p \in Operators,
         \/ \E k \in Kinds, t \in Nodes : Begin(p, k, t)
         \/ \E n \in Nodes : HostTask(p, n)
         \/ InspectLock(p) \/ NextTask(p) \/ ChangePrimary(p)
         \/ TopologyFails(p) \/ Dependents(p) \/ Kill(p)
  PROVE  OneOperator' /\ \A o \in Operators : Progress(o)'
  <1>1. \A o \in Operators \ {p} : phase[o] = "idle" /\ phase'[o] = "idle"
    BY OthersIdle, OthersUnchanged
  <1>2. OneOperator'
    BY <1>1 DEF OneOperator
  <1>3. ASSUME NEW o \in Operators PROVE Progress(o)'
    <2>1. CASE o = p
      BY <2>1, OwnStepProgress
    <2>2. CASE o # p
      BY <1>1, <2>2, OthersUnchanged, IdleProgress
    <2>3. QED
      BY <2>1, <2>2
  <1>4. QED
    BY <1>2, <1>3

LEMMA NextLockInv ==
  ASSUME Serialized, BudgetHolds
  PROVE  TypeOK /\ LockInv /\ [Next]_vars => LockInv'
  <1> SUFFICES ASSUME TypeOK, LockInv, [Next]_vars
               PROVE  LockInv'
    OBVIOUS
  <1> USE DEF LockInv
  <1>1. UnitHoldsFlock' /\ BackupHoldsFlock'
    BY NextFlock DEF FlockInv
  <1>2. ASSUME NEW n \in Nodes,
               \/ StartService(n) \/ ServiceLock(n) \/ ManualLock(n) \/ ReadRole(n)
               \/ FinishBackup(n) \/ FailBackup(n)
               \/ PlanRestore(n) \/ StartRestore(n) \/ EndRestore(n) \/ Expire(n)
        PROVE  OneOperator' /\ \A o \in Operators : Progress(o)'
    <2>1. UNCHANGED phase
      BY <1>2 DEF StartService, ServiceLock, ManualLock, ReadRole, FinishBackup,
         FailBackup, EndBackup, PlanRestore, StartRestore, EndRestore, Expire,
         operatorVars
    <2>2. QED
      BY <1>2, <2>1, NodeStepProgress DEF OneOperator
  <1>3. ASSUME PrimaryChanges \/ UNCHANGED vars
        PROVE  OneOperator' /\ \A o \in Operators : Progress(o)'
    BY <1>3 DEF PrimaryChanges, vars, nodeVars, operatorVars, OneOperator, Progress, Hosts
  <1>4. OneOperator' /\ \A o \in Operators : Progress(o)'
    BY <1>2, <1>3, OperatorStepProgress DEF Next
  <1>5. QED
    BY <1>1, <1>4, Zenon

\* The lock and the playbooks keep their invariant for any number of nodes and
\* operators, when topology playbooks are run one at a time within the time
\* the lock holder allows.
THEOREM LockCorrect == ASSUME Serialized, BudgetHolds PROVE Spec => []LockInv
  <1>1. Init => LockInv
    BY InitFlock, InitProgress DEF FlockInv, LockInv
  <1>2. QED
    BY <1>1, NextLockInv, TypeCorrect, PTL DEF Spec

LEMMA LockInvNoOverlap == LockInv => NoOverlap
  BY DEF LockInv, NoOverlap, Mutating, UnitHoldsFlock, Progress, BackupPrograms, Hosts, Changing

\* No backup and no restore test runs on a node while a playbook changes its
\* topology, updates role DNS or validates the Routers.
THEOREM NoOverlapHolds == ASSUME Serialized, BudgetHolds PROVE Spec => []NoOverlap
  BY LockCorrect, LockInvNoOverlap, PTL

-----------------------------------------------------------------------------
(* A node whose SECONDARY backup is running is not promoted.               *)

LEMMA NextStaysOnSecondary ==
  TypeOK /\ LockInv /\ BackupStaysOnSecondary /\ [Next]_vars => BackupStaysOnSecondary'
  <1> SUFFICES ASSUME TypeOK, LockInv, BackupStaysOnSecondary, [Next]_vars,
                      NEW m \in Nodes, sourceRole'[m] = "SECONDARY"
               PROVE  m # primary'
    BY DEF BackupStaysOnSecondary
  <1>1. ASSUME NEW n \in Nodes, ReadRole(n)
        PROVE  m # primary'
    BY <1>1 DEF ReadRole, Role, TypeOK, BackupStaysOnSecondary, topologyVars
  <1>2. ASSUME NEW o \in Operators, ChangePrimary(o)
        PROVE  m # primary'
    <2>1. phase[o] = "topology" /\ primary' = target[o] /\ sourceRole' = sourceRole
      BY <1>2 DEF ChangePrimary, nodeVars
    <2>2. target[o] \in Hosts(o) /\ target[o] \in Nodes
      BY <2>1 DEF TypeOK, Hosts
    <2>3. unit[target[o]] = "active"
      BY <2>1, <2>2 DEF LockInv, Progress, Changing
    <2>4. sourceRole[target[o]] = "none"
      BY <2>2, <2>3 DEF LockInv, UnitHoldsFlock, BackupHoldsFlock, BackupPrograms
    <2>5. QED
      BY <2>1, <2>4
  <1>3. CASE /\ primary' = primary
             /\ sourceRole'[m] \in {sourceRole[m], "none", "unread"}
    BY <1>3 DEF BackupStaysOnSecondary
  <1>4. ASSUME NEW n \in Nodes,
               \/ StartService(n) \/ ServiceLock(n) \/ ManualLock(n)
               \/ FinishBackup(n) \/ FailBackup(n)
               \/ PlanRestore(n) \/ StartRestore(n) \/ EndRestore(n) \/ Expire(n)
        PROVE  m # primary'
    BY <1>3, <1>4 DEF StartService, ServiceLock, ManualLock, FinishBackup, FailBackup,
       EndBackup, PlanRestore, StartRestore, EndRestore, Expire, nodeVars,
       topologyVars, TypeOK
  <1>5. ASSUME NEW o \in Operators, NEW n \in Nodes, HostTask(o, n)
        PROVE  m # primary'
    BY <1>3, <1>5 DEF HostTask, ReadService, ReadHolder, ResetFailed,
       StartHolder, VerifyHolder, ReleaseHolder, nodeVars, topologyVars
  <1>6. ASSUME NEW o \in Operators,
               \/ \E k \in Kinds, t \in Nodes : Begin(o, k, t)
               \/ InspectLock(o) \/ NextTask(o) \/ TopologyFails(o) \/ Dependents(o)
               \/ Kill(o)
        PROVE  m # primary'
    BY <1>3, <1>6 DEF Begin, InspectLock, NextTask, TopologyFails, Dependents, Kill,
       nodeVars, topologyVars
  <1>7. CASE PrimaryChanges \/ UNCHANGED vars
    BY <1>3, <1>7 DEF PrimaryChanges, vars, nodeVars, topologyVars
  <1>8. QED
    BY <1>1, <1>2, <1>4, <1>5, <1>6, <1>7 DEF Next

\* While a backup of a SECONDARY runs, no switchover and no failover makes its
\* node the PRIMARY.
THEOREM StaysOnSecondary ==
  ASSUME Serialized, BudgetHolds PROVE Spec => []BackupStaysOnSecondary
  <1>1. Init => BackupStaysOnSecondary
    BY DEF Init, BackupStaysOnSecondary
  <1>2. QED
    BY <1>1, NextStaysOnSecondary, LockCorrect, TypeCorrect, PTL DEF Spec

-----------------------------------------------------------------------------
(* The refinement: every step enters or leaves one activity on a set of    *)
(* nodes, or does neither.                                                 *)

LEMMA EnterStep ==
  ASSUME NEW S \in SUBSET Nodes, NEW a \in Activity!Activities,
         \A n \in S : activeOn[n] = {} /\ activeOn'[n] = {a},
         \A n \in Nodes \ S : activeOn'[n] = activeOn[n]
  PROVE  Activity!Next
  <1>1. activeOn' = [n \in Nodes |-> IF n \in S THEN {a} ELSE activeOn[n]]
    BY DEF activeOn
  <1>2. Activity!Enter(S, a)
    BY <1>1 DEF Activity!Enter
  <1>3. QED
    BY <1>2 DEF Activity!Next

LEMMA LeaveStep ==
  ASSUME NEW S \in SUBSET Nodes, NEW a \in Activity!Activities,
         \A n \in S : activeOn[n] = {a} /\ activeOn'[n] = {},
         \A n \in Nodes \ S : activeOn'[n] = activeOn[n]
  PROVE  Activity!Next
  <1>1. activeOn' = [n \in Nodes |-> IF n \in S THEN {} ELSE activeOn[n]]
    BY DEF activeOn
  <1>2. Activity!Leave(S, a)
    BY <1>1 DEF Activity!Leave
  <1>3. QED
    BY <1>2 DEF Activity!Next

LEMMA QuietStep ==
  ASSUME \A n \in Nodes : activeOn'[n] = activeOn[n]
  PROVE  UNCHANGED activeOn
  BY DEF activeOn

\* A program that takes or drops the flock of node n enters or leaves there.
LEMMA NodeStepRefines ==
  ASSUME TypeOK, LockInv, NEW n \in Nodes,
         \/ StartService(n) \/ ServiceLock(n) \/ ManualLock(n) \/ ReadRole(n)
         \/ FinishBackup(n) \/ FailBackup(n)
         \/ PlanRestore(n) \/ StartRestore(n) \/ EndRestore(n) \/ Expire(n)
  PROVE  Activity!Next \/ UNCHANGED activeOn
  <1>1. UNCHANGED operatorVars
    BY DEF StartService, ServiceLock, ManualLock, ReadRole, FinishBackup, FailBackup,
       EndBackup, PlanRestore, StartRestore, EndRestore, Expire
  <1>2. \A o \in Operators, m \in Nodes : Mutating(o, m)' <=> Mutating(o, m)
    BY <1>1 DEF operatorVars, Mutating, Hosts
  <1>3. \A m \in Nodes \ {n} : activeOn'[m] = activeOn[m]
    <2>1. \A m \in Nodes \ {n} : holder'[m] = holder[m]
      BY DEF TypeOK, StartService, ServiceLock, ManualLock, ReadRole, FinishBackup,
         FailBackup, EndBackup, PlanRestore, StartRestore, EndRestore, Expire, nodeVars
    <2>2. QED
      BY <1>2, <2>1 DEF activeOn
  <1>4. holder[n] \in {"free", "restore", "service", "manual"} =>
            \A o \in Operators : ~Mutating(o, n)
    BY DEF LockInv, Mutating, UnitHoldsFlock, Progress, Hosts, Changing
  <1>5. {n} \in SUBSET Nodes /\ "backup" \in Activity!Activities
                             /\ "restore" \in Activity!Activities
    BY DEF Activity!Activities
  <1>6. CASE ServiceLock(n) \/ ManualLock(n)
    <2>1. CASE holder'[n] = holder[n]
      BY <1>2, <1>3, <2>1, QuietStep DEF activeOn
    <2>2. CASE holder[n] = "free" /\ holder'[n] \in BackupPrograms
      <3>1. activeOn[n] = {} /\ activeOn'[n] = {"backup"}
        BY <1>2, <1>4, <2>2 DEF activeOn, BackupPrograms
      <3>2. QED
        BY <3>1, <1>3, <1>5, EnterStep
    <2>3. QED
      BY <1>6, <2>1, <2>2 DEF TypeOK, ServiceLock, ManualLock, BackupPrograms
  <1>7. CASE FinishBackup(n) \/ FailBackup(n)
    <2>1. holder[n] \in BackupPrograms /\ holder'[n] = "free"
      BY <1>7 DEF TypeOK, FinishBackup, FailBackup, EndBackup
    <2>2. activeOn[n] = {"backup"} /\ activeOn'[n] = {}
      BY <1>2, <1>4, <2>1 DEF activeOn, BackupPrograms
    <2>3. QED
      BY <2>2, <1>3, <1>5, LeaveStep
  <1>8. CASE StartRestore(n)
    <2>1. CASE holder[n] # "free"
      BY <1>2, <1>3, <1>8, <2>1, QuietStep DEF activeOn, StartRestore
    <2>2. CASE holder[n] = "free"
      <3>1. holder'[n] = "restore"
        BY <1>8, <2>2 DEF StartRestore, TypeOK
      <3>2. activeOn[n] = {} /\ activeOn'[n] = {"restore"}
        BY <1>2, <1>4, <2>2, <3>1 DEF activeOn, BackupPrograms
      <3>3. QED
        BY <3>2, <1>3, <1>5, EnterStep
    <2>3. QED
      BY <2>1, <2>2
  <1>9. CASE EndRestore(n)
    <2>1. holder[n] = "restore" /\ holder'[n] = "free"
      BY <1>9 DEF TypeOK, EndRestore
    <2>2. activeOn[n] = {"restore"} /\ activeOn'[n] = {}
      BY <1>2, <1>4, <2>1 DEF activeOn, BackupPrograms
    <2>3. QED
      BY <2>2, <1>3, <1>5, LeaveStep
  <1>10. CASE Expire(n)
    <2>1. holder[n] = "unit" /\ holder'[n] = "free"
      BY <1>10 DEF Expire, TypeOK, LockInv, UnitHoldsFlock
    <2>2. activeOn'[n] = activeOn[n]
      BY <1>2, <2>1 DEF activeOn, BackupPrograms
    <2>3. QED
      BY <2>2, <1>3, QuietStep
  <1>11. CASE StartService(n) \/ ReadRole(n) \/ PlanRestore(n)
    <2>1. holder' = holder
      BY <1>11 DEF StartService, ReadRole, PlanRestore, nodeVars
    <2>2. activeOn'[n] = activeOn[n]
      BY <1>2, <2>1 DEF activeOn
    <2>3. QED
      BY <2>2, <1>3, QuietStep
  <1>12. QED
    BY <1>6, <1>7, <1>8, <1>9, <1>10, <1>11

\* The lock holder is no activity, and a host task belongs to no change.
LEMMA HostTaskRefines ==
  ASSUME TypeOK, LockInv, NEW o \in Operators, NEW n \in Nodes, HostTask(o, n)
  PROVE  UNCHANGED activeOn
  <1>1. UNCHANGED <<phase, kind, target>>
    BY DEF HostTask, ReadService, ReadHolder, ResetFailed, StartHolder, VerifyHolder,
       ReleaseHolder, Task
  <1>2. \A p \in Operators, m \in Nodes : Mutating(p, m)' <=> Mutating(p, m)
    BY <1>1 DEF Mutating, Hosts
  <1>3. \A m \in Nodes : \/ holder'[m] = holder[m]
                         \/ {holder'[m], holder[m]} \subseteq {"free", "unit"}
    BY DEF TypeOK, LockInv, UnitHoldsFlock, HostTask, ReadService, ReadHolder, ResetFailed,
       StartHolder, VerifyHolder, ReleaseHolder, nodeVars
  <1>4. \A m \in Nodes : activeOn'[m] = activeOn[m]
    BY <1>2, <1>3 DEF activeOn, BackupPrograms
  <1>5. QED
    BY <1>4, QuietStep

\* The other steps of a playbook change nothing, enter the topology change on
\* its hosts when its verification has passed, or leave it there.
LEMMA ControlStepRefines ==
  ASSUME TypeOK, Serialized, LockInv, NEW o \in Operators,
         \/ \E k \in Kinds, t \in Nodes : Begin(o, k, t)
         \/ InspectLock(o) \/ NextTask(o) \/ ChangePrimary(o)
         \/ TopologyFails(o) \/ Dependents(o) \/ Kill(o)
  PROVE  Activity!Next \/ UNCHANGED activeOn
  <1> USE DEF LockInv
  <1>1. \A p \in Operators \ {o} : phase[p] = "idle" /\ phase'[p] = "idle"
    BY OthersIdle, OthersUnchanged
  <1>2. \A m \in Nodes :
           /\ (\E p \in Operators : Mutating(p, m)) <=> Mutating(o, m)
           /\ (\E p \in Operators : Mutating(p, m)') <=> Mutating(o, m)'
    BY <1>1 DEF Mutating, Changing
  <1>3. holder' = holder
    BY ControlStepNodes DEF nodeVars
  <1>4. \A m \in Nodes : (Mutating(o, m)' <=> Mutating(o, m)) =>
                            activeOn'[m] = activeOn[m]
    BY <1>2, <1>3 DEF activeOn
  <1>5. "topology" \in Activity!Activities
    BY DEF Activity!Activities
  <1>6. CASE \A m \in Nodes : Mutating(o, m)' <=> Mutating(o, m)
    BY <1>4, <1>6, QuietStep
  <1>7. CASE phase[o] \in Changing /\ phase'[o] \notin Changing
    <2>1. Hosts(o) \in SUBSET Nodes
      BY <1>7 DEF TypeOK, Hosts, Changing
    <2>2. \A m \in Hosts(o) : holder[m] = "unit"
      BY <1>7, <2>1 DEF Progress, UnitHoldsFlock
    <2>3. \A m \in Hosts(o) : activeOn[m] = {"topology"} /\ activeOn'[m] = {}
      BY <1>2, <1>3, <1>7, <2>1, <2>2 DEF activeOn, BackupPrograms, Mutating
    <2>4. \A m \in Nodes \ Hosts(o) : activeOn'[m] = activeOn[m]
      BY <1>4, <1>7 DEF Mutating
    <2>5. QED
      BY <1>5, <2>1, <2>3, <2>4, LeaveStep
  <1>8. CASE phase[o] = "verify" /\ phase'[o] \in Changing /\ UNCHANGED <<kind, target>>
    <2>1. Hosts(o) \in SUBSET Nodes
      BY <1>8 DEF TypeOK, Hosts
    <2>2. \A m \in Hosts(o) : holder[m] = "unit"
      BY <1>8, <2>1 DEF Progress, UnitHoldsFlock
    <2>3. Hosts(o)' = Hosts(o)
      BY <1>8 DEF Hosts
    <2>4. \A m \in Hosts(o) : ~Mutating(o, m) /\ Mutating(o, m)'
      BY <1>8, <2>3 DEF Mutating, Changing
    <2>5. \A m \in Hosts(o) : activeOn[m] = {} /\ activeOn'[m] = {"topology"}
      BY <1>2, <1>3, <2>1, <2>2, <2>4 DEF activeOn, BackupPrograms
    <2>6. \A m \in Nodes \ Hosts(o) : activeOn'[m] = activeOn[m]
      BY <1>4, <2>3 DEF Mutating
    <2>7. QED
      BY <1>5, <2>1, <2>5, <2>6, EnterStep
  <1>9. CASE phase[o] \notin Changing /\ phase'[o] \notin Changing
    BY <1>6, <1>9 DEF Mutating
  <1>10. CASE phase[o] \in Changing /\ phase'[o] \in Changing /\ UNCHANGED <<kind, target>>
    BY <1>6, <1>10 DEF Mutating, Hosts
  <1>11. QED
    BY <1>7, <1>8, <1>9, <1>10 DEF TypeOK, Begin, InspectLock, NextTask, HostTasks,
       Following, ChangePrimary, TopologyFails, Dependents, Kill, Changing

\* The flocks, the unit and the playbooks implement the abstract promise that
\* backups, restore tests and topology changes of a node exclude each other.
THEOREM Implements ==
  ASSUME Serialized, BudgetHolds PROVE Spec => ImplementsNodeActivity
  <1>1. Init => Activity!Init
    BY DEF Init, Activity!Init, activeOn, BackupPrograms, Mutating, Changing
  <1>2. TypeOK /\ LockInv /\ [Next]_vars => [Activity!Next]_activeOn
    <2> SUFFICES ASSUME TypeOK, LockInv, [Next]_vars
                 PROVE  Activity!Next \/ UNCHANGED activeOn
      OBVIOUS
    <2>1. CASE PrimaryChanges \/ UNCHANGED vars
      BY <2>1, QuietStep DEF PrimaryChanges, vars, nodeVars, operatorVars, activeOn,
         Mutating, Hosts
    <2>2. QED
      BY <2>1, NodeStepRefines, HostTaskRefines, ControlStepRefines DEF Next
  <1>3. QED
    BY <1>1, <1>2, LockCorrect, TypeCorrect, PTL DEF Spec, ImplementsNodeActivity,
       Activity!Spec

=============================================================================
