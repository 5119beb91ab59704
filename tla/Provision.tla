----------------------------- MODULE Provision ------------------------------
(***************************************************************************)
(* Runs of the provision command (provision.py): secrets are resolved and  *)
(* written to a file, Ansible is started on it in a process group of its   *)
(* own, and whatever happens the group is stopped and the file removed.    *)
(* SIGTERM and SIGINT come at any time, more than once; SIGKILL runs no    *)
(* handler.                                                                *)
(*                                                                         *)
(* Under a supervisor (`managed`) the child stays in the supervisor's group*)
(* and the directory is the supervisor's to remove.                        *)
(***************************************************************************)
CONSTANTS
    Runs            \* runs of the command

VARIABLES
    managed,        \* managed[r]: whether a supervisor gives run r its storage
    phase,          \* phase[r]: where it is
    handlers,       \* handlers[r]: of SIGTERM and SIGINT
    directory,      \* directory[r]: whether its run directory exists
    secret,         \* secret[r]: whether its vars.yml exists
    group,          \* group[r]: live processes of its child's group
    pending,        \* pending[r]: whether pending_signal is set
    signalled,      \* signalled[r]: whether it was ever interrupted
    result,         \* result[r]: how it ends, as far as that is decided
    cut             \* cut[r]: whether a signal cut its cleanup short or forestalled it

runVars == <<phase, handlers, pending, signalled, result, cut>>
storageVars == <<managed, directory, secret>>
provisionVars == <<runVars, storageVars, group>>

Processes == {"leader", "descendant"}
Phases == {"idle", "stored", "handling", "written", "spawning", "forked", "spawned",
           "waiting", "caught", "stop", "terminated", "leaving", "ended", "killed"}

ProvisionTypeOK ==
    /\ managed \in [Runs -> BOOLEAN]
    /\ phase \in [Runs -> Phases]
    /\ handlers \in [Runs -> {"previous", "interrupted", "ignored"}]
    /\ directory \in [Runs -> BOOLEAN] /\ secret \in [Runs -> BOOLEAN]
    /\ group \in [Runs -> SUBSET Processes]
    /\ pending \in [Runs -> BOOLEAN] /\ signalled \in [Runs -> BOOLEAN]
    /\ result \in [Runs -> {"none", "returned", "raised"}]
    /\ cut \in [Runs -> BOOLEAN]

ProvisionInit ==
    /\ managed \in [Runs -> BOOLEAN]
    /\ phase = [r \in Runs |-> "idle"]
    /\ handlers = [r \in Runs |-> "previous"]
    /\ directory = [r \in Runs |-> FALSE] /\ secret = [r \in Runs |-> FALSE]
    /\ group = [r \in Runs |-> {}]
    /\ pending = [r \in Runs |-> FALSE] /\ signalled = [r \in Runs |-> FALSE]
    /\ result = [r \in Runs |-> "none"] /\ cut = [r \in Runs |-> FALSE]

\* Run r goes from one phase to another.
Goes(r, from, to) ==
    /\ phase[r] = from
    /\ phase' = [phase EXCEPT ![r] = to]

-----------------------------------------------------------------------------
(* The command.                                                            *)

\* A secret cannot be resolved: nothing has been made.
Refuse(r) ==
    /\ Goes(r, "idle", "ended")
    /\ result' = [result EXCEPT ![r] = "raised"]
    /\ UNCHANGED <<handlers, pending, signalled, cut, storageVars, group>>

\* The secrets are resolved; mkdtemp, or temporary_run_directory.
MakeStorage(r) ==
    /\ Goes(r, "idle", "stored")
    /\ directory' = [directory EXCEPT ![r] = TRUE]
    /\ UNCHANGED <<handlers, pending, signalled, result, cut, managed, secret, group>>

InstallHandlers(r) ==
    /\ Goes(r, "stored", "handling")
    /\ handlers' = [handlers EXCEPT ![r] = "interrupted"]
    /\ UNCHANGED <<pending, signalled, result, cut, storageVars, group>>

WriteSecret(r) ==
    /\ Goes(r, "handling", "written")
    /\ secret' = [secret EXCEPT ![r] = TRUE]
    /\ UNCHANGED <<handlers, pending, signalled, result, cut, managed, directory, group>>

\* `spawning` is set: signals are remembered.
BeginSpawn(r) ==
    /\ Goes(r, "written", "spawning")
    /\ UNCHANGED <<handlers, pending, signalled, result, cut, storageVars, group>>

\* Popen has made the child and not yet returned it.
Fork(r) ==
    /\ Goes(r, "spawning", "forked")
    /\ group' = [group EXCEPT ![r] = {"leader"}]
    /\ UNCHANGED <<handlers, pending, signalled, result, cut, storageVars>>

\* `process` is set, `spawning` is not.
EndSpawn(r) ==
    /\ Goes(r, "forked", "spawned")
    /\ UNCHANGED <<handlers, pending, signalled, result, cut, storageVars, group>>

\* Mutant: the signal is forgotten.
CheckPendingNot(r) ==
    /\ Goes(r, "spawned", "waiting")
    /\ UNCHANGED <<handlers, pending, signalled, result, cut, storageVars, group>>

CheckPending(r) ==
    /\ Goes(r, "spawned", IF pending[r] THEN "caught" ELSE "waiting")
    /\ result' = IF pending[r] THEN [result EXCEPT ![r] = "raised"] ELSE result
    /\ UNCHANGED <<handlers, pending, signalled, cut, storageVars, group>>

\* wait() returns when the child has ended; what it started may live on.
Reap(r) ==
    /\ Goes(r, "waiting", IF managed[r] THEN "leaving" ELSE "stop")
    /\ "leader" \notin group[r]
    /\ UNCHANGED <<handlers, pending, signalled, result, cut, storageVars, group>>

\* Popen fails, or the file cannot be written.
Raise(r) ==
    /\ phase[r] \in {"handling", "written", "spawning"}
    /\ phase' = [phase EXCEPT ![r] = IF phase[r] = "spawning" THEN "caught" ELSE "leaving"]
    /\ result' = [result EXCEPT ![r] = "raised"]
    /\ UNCHANGED <<handlers, pending, signalled, cut, storageVars, group>>

\* except BaseException: from here on signals are ignored.  A managed child is
\* killed and reaped, any other one stopped with its group.
IgnoreSignals(r) ==
    /\ phase[r] = "caught"
    /\ handlers' = [handlers EXCEPT ![r] = "ignored"]
    /\ phase' = [phase EXCEPT ![r] = IF managed[r] \/ group[r] = {} THEN "leaving" ELSE "stop"]
    /\ group' = IF managed[r] THEN [group EXCEPT ![r] = group[r] \ {"leader"}] ELSE group
    /\ UNCHANGED <<pending, signalled, result, cut, storageVars>>

\* _stop: SIGTERM to the group, which some of it may survive for two seconds;
\* an empty group needs no more.
Terminate(r) ==
    /\ phase[r] = "stop"
    /\ IF group[r] = {} THEN Goes(r, "stop", "leaving") /\ UNCHANGED group
       ELSE /\ Goes(r, "stop", "terminated")
            /\ \E survivors \in SUBSET group[r] : group' = [group EXCEPT ![r] = survivors]
    /\ UNCHANGED <<handlers, pending, signalled, result, cut, storageVars>>

\* Mutant: a terminated leader is taken for the end of its group.
KillGroupLeader(r) ==
    /\ Goes(r, "terminated", "leaving")
    /\ group' = [group EXCEPT ![r] = group[r] \ {"leader"}]
    /\ UNCHANGED <<handlers, pending, signalled, result, cut, storageVars>>

\* Mutant: the group is waited for.
KillGroupNever(r) ==
    /\ group[r] = {}
    /\ Goes(r, "terminated", "leaving")
    /\ UNCHANGED <<handlers, pending, signalled, result, cut, storageVars, group>>

\* SIGKILL to the group, and the child is reaped.
KillGroup(r) ==
    /\ Goes(r, "terminated", "leaving")
    /\ group' = [group EXCEPT ![r] = {}]
    /\ UNCHANGED <<handlers, pending, signalled, result, cut, storageVars>>

\* The storage is left, and the handlers are put back.
Leave(r) ==
    /\ Goes(r, "leaving", "ended")
    /\ handlers' = [handlers EXCEPT ![r] = "previous"]
    /\ directory' = [directory EXCEPT ![r] = managed[r]]
    /\ secret' = [secret EXCEPT ![r] = secret[r] /\ managed[r]]
    /\ result' = [result EXCEPT ![r] = IF result[r] = "none" THEN "returned" ELSE result[r]]
    /\ UNCHANGED <<pending, signalled, cut, managed, group>>

-----------------------------------------------------------------------------
(* Signals.                                                                *)

\* The handlers are not installed yet: the command dies of the signal.
SignalEarly(r) ==
    /\ Goes(r, "stored", "killed")
    /\ signalled' = [signalled EXCEPT ![r] = TRUE]
    /\ UNCHANGED <<handlers, pending, result, cut, storageVars, group>>

\* While spawning, `interrupted` only takes a note.
SignalNoted(r) ==
    /\ phase[r] \in {"spawning", "forked"}
    /\ signalled' = [signalled EXCEPT ![r] = TRUE]
    /\ pending' = [pending EXCEPT ![r] = TRUE]
    /\ UNCHANGED <<phase, handlers, result, cut, storageVars, group>>

\* Anywhere else it raises SystemExit: past the storage when the with statement
\* has not been entered, out of it, into the except clause, or, in a cleanup
\* that does not ignore signals, out of that.  The file may be gone when the
\* removal of its directory is interrupted.
SignalRaises(r) ==
    /\ handlers[r] = "interrupted"
    /\ signalled' = [signalled EXCEPT ![r] = TRUE]
    /\ result' = [result EXCEPT ![r] = "raised"]
    /\ \/ /\ phase[r] = "handling"
          /\ phase' = [phase EXCEPT ![r] = "ended"]
          /\ cut' = [cut EXCEPT ![r] = ~managed[r]]
          /\ UNCHANGED secret
       \/ /\ phase[r] \in {"handling", "written"}
          /\ phase' = [phase EXCEPT ![r] = "leaving"]
          /\ UNCHANGED <<cut, secret>>
       \/ /\ phase[r] \in {"spawned", "waiting"}
          /\ phase' = [phase EXCEPT ![r] = "caught"]
          /\ UNCHANGED <<cut, secret>>
       \/ /\ phase[r] \in {"caught", "stop", "terminated"}
          /\ phase' = [phase EXCEPT ![r] = "leaving"]
          /\ cut' = [cut EXCEPT ![r] = TRUE]
          /\ UNCHANGED secret
       \/ /\ phase[r] = "leaving"
          /\ phase' = [phase EXCEPT ![r] = "ended"]
          /\ cut' = [cut EXCEPT ![r] = cut[r] \/ ~managed[r]]
          /\ \E left \in {secret[r], secret[r] /\ managed[r]} :
                secret' = [secret EXCEPT ![r] = left]
    /\ UNCHANGED <<handlers, pending, managed, directory, group>>

\* SIGKILL.
Killed(r) ==
    /\ phase[r] \notin {"idle", "ended", "killed"}
    /\ phase' = [phase EXCEPT ![r] = "killed"]
    /\ UNCHANGED <<handlers, pending, signalled, result, cut, storageVars, group>>

-----------------------------------------------------------------------------
(* The group of the child, and the supervisor.                             *)

Forks(r) ==
    /\ "leader" \in group[r]
    /\ group' = [group EXCEPT ![r] = Processes]
    /\ UNCHANGED <<runVars, storageVars>>

Exits(r, process) ==
    /\ process \in group[r]
    /\ group' = [group EXCEPT ![r] = group[r] \ {process}]
    /\ UNCHANGED <<runVars, storageVars>>

\* The supervisor ends the execution group, then removes what it owns.
Sweep(r) ==
    /\ managed[r] /\ phase[r] \in {"ended", "killed"} /\ directory[r]
    /\ group' = [group EXCEPT ![r] = {}]
    /\ directory' = [directory EXCEPT ![r] = FALSE]
    /\ secret' = [secret EXCEPT ![r] = FALSE]
    /\ UNCHANGED <<runVars, managed>>

Command(r) ==
    \/ MakeStorage(r) \/ InstallHandlers(r) \/ WriteSecret(r)
    \/ BeginSpawn(r) \/ Fork(r) \/ EndSpawn(r) \/ CheckPending(r) \/ Reap(r)
    \/ IgnoreSignals(r) \/ Terminate(r) \/ KillGroup(r) \/ Leave(r)

ProvisionNext ==
    \E r \in Runs :
        \/ Command(r) \/ Refuse(r) \/ Raise(r)
        \/ SignalEarly(r) \/ SignalNoted(r) \/ SignalRaises(r) \/ Killed(r)
        \/ Forks(r) \/ (\E process \in Processes : Exits(r, process)) \/ Sweep(r)

ProvisionSpec == ProvisionInit /\ [][ProvisionNext]_provisionVars

-----------------------------------------------------------------------------
(* Properties.                                                             *)

\* The file of secrets outlives every process that reads it, and a run that
\* was not killed, however it ended, leaves neither file nor process behind,
\* unless a signal cuts the cleanup short or comes after the handlers and
\* before the storage is entered (there are places where one can).
SecretIsGuarded ==
    \A r \in Runs : ~cut[r] =>
        /\ group[r] # {} => secret[r]
        /\ phase[r] = "ended" /\ ~managed[r] =>
              ~secret[r] /\ ~directory[r] /\ group[r] = {}

\* A run that was interrupted, while it was spawning too, does not return as
\* if nothing had happened.
SignalIsHeeded ==
    \A r \in Runs : signalled[r] => result[r] # "returned"

=============================================================================
