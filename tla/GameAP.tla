------------------------------- MODULE GameAP -------------------------------
(***************************************************************************)
(* The provision command at work: its runs drive the playbooks that seed   *)
(* the GameAP panel, enrol a daemon with it and converge the daemon.  Two  *)
(* runs may be under way at once.  Ansible is the child of a run: its tasks*)
(* go on while that process lives, whatever has become of the command, and *)
(* a helper it has started on a host goes on whatever becomes of Ansible.  *)
(* A call to the panel is answered while its service runs.                 *)
(*                                                                         *)
(* One panel and one daemon; every task that reads or changes the state of *)
(* either is a step, the others are left out.  Check mode starts no helper.*)
(***************************************************************************)
EXTENDS Provision, PanelSeed, Enrolment

CONSTANTS
    Scenarios       \* which playbook each run plays, where the panel begins,
                    \* and whether the command fails, is interrupted or killed

ASSUME GameAPAssumption ==
    /\ Seeds = Runs /\ Helpers = Runs /\ Convergences = Runs
    /\ \A s \in Scenarios :
          /\ s.plays \in [Runs -> {"panel", "enrol", "daemon", "nothing"}]
          /\ s.db \in Databases /\ s.faults \in BOOLEAN

VARIABLES
    scenario,       \* the scenario of this behaviour
    task            \* task[r]: the task Ansible is at in run r

vars == <<provisionVars, seedVars, enrolVars, scenario, task>>

Tasks == {"inspect", "help", "wait", "converge", "write", "start", "over"}

TypeOK ==
    /\ ProvisionTypeOK /\ SeedTypeOK /\ EnrolTypeOK
    /\ scenario \in Scenarios
    /\ task \in [Runs -> Tasks]

Init ==
    /\ ProvisionInit /\ SeedInit /\ EnrolInit
    /\ scenario \in Scenarios
    /\ db = scenario.db
    /\ service = IF db = "initialized" THEN "active" ELSE "inactive"
    /\ \A r \in Runs : managed[r] => scenario.faults
    /\ task = [r \in Runs |-> IF scenario.plays[r] = "daemon" THEN "converge" ELSE "inspect"]

-----------------------------------------------------------------------------
(* The tasks of the playbooks.                                             *)

\* Ansible is at a task of a playbook and goes to the next.
Plays(r, plays, from, to) ==
    /\ "leader" \in group[r]
    /\ scenario.plays[r] \in plays
    /\ task[r] = from
    /\ task' = [task EXCEPT ![r] = to]
    /\ UNCHANGED <<provisionVars, scenario>>

\* "Inspect database initialization": the helper's `inspect`.
InspectPanel(r) ==
    /\ Plays(r, {"panel"}, "inspect", IF db \in Uninitialized THEN "help" ELSE "converge")
    /\ db # "partial"
    /\ UNCHANGED <<seedVars, enrolVars>>

StartSeed(r) ==
    /\ Plays(r, {"panel"}, "help", "wait")
    /\ BeginSeed(r)
    /\ UNCHANGED enrolVars

SeedReturns(r) ==
    /\ Plays(r, {"panel"}, "wait", IF seed[r] = "done" THEN "converge" ELSE "over")
    /\ seed[r] \in {"done", "failed"}
    /\ UNCHANGED <<seedVars, enrolVars>>

\* "Enable and start Panel", which may be running.
StartPanel(r) ==
    /\ Plays(r, {"panel"}, "converge", "over")
    /\ \/ StartService
       \/ service = "active" /\ UNCHANGED seedVars
    /\ UNCHANGED enrolVars

\* "Refuse existing or uncertain enrollment".
InspectNode(r) ==
    /\ Plays(r, {"enrol"}, "inspect", "help")
    /\ ~Exists("config") /\ ~Exists("certs") /\ ~Exists("marker")
    /\ UNCHANGED <<seedVars, enrolVars>>

StartHelper(r) ==
    /\ Plays(r, {"enrol"}, "help", "wait")
    /\ LockDirectory(r)
    /\ UNCHANGED seedVars

HelperReturns(r) ==
    /\ Plays(r, {"enrol"}, "wait", IF at[r] = "enrolled" THEN "converge" ELSE "over")
    /\ at[r] \in {"enrolled", "failed"}
    /\ UNCHANGED <<seedVars, enrolVars>>

\* The daemon's role, as a part of the enrolment or by itself: the configuration
\* is read, written back and the service started.
ReadDaemon(r) ==
    /\ Plays(r, {"enrol", "daemon"}, "converge", "write")
    /\ ReadIdentity(r)
    /\ UNCHANGED seedVars

WriteDaemon(r) ==
    /\ Plays(r, {"enrol", "daemon"}, "write", "start")
    /\ WriteBack(r)
    /\ UNCHANGED seedVars

StartDaemon(r) ==
    /\ Plays(r, {"enrol", "daemon"}, "start", "over")
    /\ RunDaemon(r)
    /\ UNCHANGED seedVars

\* A task refuses or fails.
TaskFails(r) ==
    /\ task[r] # "over"
    /\ Plays(r, {"panel", "enrol", "daemon"}, task[r], "over")
    /\ ConvergenceEnds(r)
    /\ UNCHANGED seedVars

Playbook(r) ==
    \/ InspectPanel(r) \/ StartSeed(r) \/ SeedReturns(r) \/ StartPanel(r)
    \/ InspectNode(r) \/ StartHelper(r) \/ HelperReturns(r)
    \/ ReadDaemon(r) \/ WriteDaemon(r) \/ StartDaemon(r) \/ TaskFails(r)

-----------------------------------------------------------------------------
(* The parts.                                                              *)

\* Without faults nothing happens between the runs until Ansible is started:
\* one run gets there, then the other.
Turn(r) ==
    /\ scenario.plays[r] # "nothing"
    /\ \/ scenario.faults
       \/ phase[r] \in {"waiting", "stop", "terminated", "leaving"}
       \/ \A q \in Runs \ {r} : phase[q] \in {"idle", "waiting", "ended"}

Commanding(r) ==
    /\ Turn(r)
    /\ Command(r)
    /\ UNCHANGED <<seedVars, enrolVars, scenario, task>>

\* Ansible exits when its playbook is over.
Over(r) ==
    /\ task[r] = "over"
    /\ Exits(r, "leader")
    /\ UNCHANGED <<seedVars, enrolVars, scenario, task>>

Interrupted(r) ==
    /\ scenario.faults
    /\ scenario.plays[r] # "nothing"
    /\ \/ Refuse(r) \/ Raise(r)
       \/ SignalEarly(r) \/ SignalNoted(r) \/ SignalRaises(r) \/ Killed(r)
       \/ Forks(r) \/ (\E process \in Processes : Exits(r, process)) \/ Sweep(r)
    /\ UNCHANGED <<seedVars, enrolVars, scenario, task>>

Seeding(s) ==
    /\ Helper(s) \/ SeedSignal(s) \/ SeedKilled(s)
       \/ VendorBinds(s) \/ VendorWorks(s) \/ VendorExits(s)
    /\ UNCHANGED <<provisionVars, enrolVars, scenario, task>>

\* A channel to the panel, and an answer from it, need its service.
Enrolling(h) ==
    /\ Enrols(h) \/ PanelEnrols(h) \/ PanelRefuses(h)
    /\ at'[h] # at[h] /\ at'[h] \in {"connected", "answered"} => service = "active"
    /\ calls'[h] = "committed" /\ calls[h] # "committed" => service = "active"
    /\ UNCHANGED <<provisionVars, seedVars, scenario, task>>

\* Ansible is gone, and with it what it has read.
Abandoned(r) ==
    /\ "leader" \notin group[r] /\ read[r] # {}
    /\ ConvergenceEnds(r)
    /\ UNCHANGED <<provisionVars, seedVars, scenario, task>>

\* systemd starts and restarts the service, an operator stops it.
Service ==
    /\ StartService \/ StopService
    /\ UNCHANGED <<provisionVars, enrolVars, scenario, task>>

Operator ==
    /\ OperatorClears
    /\ UNCHANGED <<provisionVars, seedVars, scenario, task>>

Next ==
    \/ \E r \in Runs :
          \/ Commanding(r) \/ Over(r) \/ Interrupted(r) \/ Playbook(r)
          \/ Seeding(r) \/ Enrolling(r) \/ Abandoned(r)
    \/ Service \/ Operator

Spec == Init /\ [][Next]_vars

\* What a process does of itself: the command waits for its child and two
\* seconds for its group, and every wait of the two helpers has a timeout.
Moves(r) ==
    \/ Commanding(r)
    \/ /\ Helper(r) \/ VendorBinds(r)
       /\ UNCHANGED <<provisionVars, enrolVars, scenario, task>>
    \/ Enrols(r) /\ UNCHANGED <<provisionVars, seedVars, scenario, task>>

FairSpec == Spec /\ WF_vars(\E r \in Runs : Moves(r))

-----------------------------------------------------------------------------
(* Properties of the whole.                                                *)

Unfinished(r) ==
    \/ signalled[r] /\ phase[r] \notin {"ended", "killed"}
    \/ seed[r] \notin {"none", "done", "failed"}
    \/ at[r] \notin {"none", "enrolled", "failed"}

\* An interrupted run ends, and so does every helper, whether or not there is
\* a command or an Ansible left to wait for it.
EverythingEnds == \A r \in Runs : []<>~Unfinished(r)

=============================================================================
