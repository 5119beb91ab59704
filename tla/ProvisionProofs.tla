--------------------------- MODULE ProvisionProofs ---------------------------
(***************************************************************************)
(* Proofs about Provision for any set of runs.  What must hold when a run  *)
(* has ended depends on the way there: whether there was anything to       *)
(* remove, whether the group was stopped before the storage is left, and   *)
(* whether a signal that was only noted is still remembered.  The          *)
(* strengthening says so phase by phase; a step of one run changes nothing *)
(* of another.                                                             *)
(***************************************************************************)
EXTENDS Provision, TLAPS

Started == {"idle", "stored", "handling", "written", "spawning"}
Written == {"written", "spawning", "forked", "spawned", "waiting", "caught", "stop",
            "terminated"}

\* What a run has made, and has to remove, in each phase.
StorageProgress(r) ==
    /\ phase[r] \in Started => group[r] = {}
    /\ phase[r] = "idle" => ~directory[r]
    /\ phase[r] \in {"idle", "stored", "handling"} => ~secret[r]
    /\ phase[r] \in Written => secret[r]
    /\ phase[r] = "leaving" /\ ~managed[r] /\ ~cut[r] => group[r] = {}

\* A signal has ended the run or will, unless it was killed.
SignalProgress(r) ==
    /\ result[r] = "returned" => phase[r] = "ended"
    /\ signalled[r] =>
          \/ result[r] = "raised" \/ phase[r] = "killed"
          \/ pending[r] /\ phase[r] \in {"spawning", "forked", "spawned"}

\* What SecretIsGuarded says of one run.
Guarded(r) ==
    ~cut[r] =>
        /\ group[r] # {} => secret[r]
        /\ phase[r] = "ended" /\ ~managed[r] =>
              ~secret[r] /\ ~directory[r] /\ group[r] = {}

StorageInv == \A r \in Runs : StorageProgress(r) /\ Guarded(r)
SignalInv == \A r \in Runs : SignalProgress(r)

-----------------------------------------------------------------------------

LEMMA ProvisionInitTypeOK == ProvisionInit => ProvisionTypeOK
  BY DEF ProvisionInit, ProvisionTypeOK, Phases

LEMMA CommandTypeOK ==
  ASSUME ProvisionTypeOK, NEW r \in Runs, Command(r) PROVE ProvisionTypeOK'
  <1> USE DEF ProvisionTypeOK, runVars, storageVars, Goes, Phases, Processes
  <1>1. CASE MakeStorage(r) \/ InstallHandlers(r) \/ WriteSecret(r)
    BY <1>1 DEF MakeStorage, InstallHandlers, WriteSecret
  <1>2. CASE BeginSpawn(r) \/ EndSpawn(r) \/ Reap(r)
    BY <1>2 DEF BeginSpawn, EndSpawn, Reap
  <1>3. CASE Fork(r) \/ KillGroup(r)
    BY <1>3 DEF Fork, KillGroup
  <1>4. CASE CheckPending(r)
    BY <1>4 DEF CheckPending
  <1>5. CASE IgnoreSignals(r)
    BY <1>5 DEF IgnoreSignals
  <1>6. CASE Terminate(r)
    <2>1. group' \in [Runs -> SUBSET Processes]
      <3>1. CASE group[r] = {}
        BY <1>6, <3>1 DEF Terminate
      <3>2. CASE group[r] # {}
        <4>1. PICK survivors \in SUBSET group[r] : group' = [group EXCEPT ![r] = survivors]
          BY <1>6, <3>2 DEF Terminate
        <4>2. survivors \in SUBSET Processes
          OBVIOUS
        <4>3. QED
          BY <4>1, <4>2
      <3>3. QED
        BY <3>1, <3>2
    <2>2. phase' \in [Runs -> Phases]
      BY <1>6 DEF Terminate
    <2>3. QED
      BY <1>6, <2>1, <2>2 DEF Terminate
  <1>7. CASE Leave(r)
    <2>1. directory' \in [Runs -> BOOLEAN] /\ secret' \in [Runs -> BOOLEAN]
      BY <1>7 DEF Leave
    <2>2. result' \in [Runs -> {"none", "returned", "raised"}]
      BY <1>7 DEF Leave
    <2>3. QED
      BY <1>7, <2>1, <2>2 DEF Leave
  <1>8. QED
    BY <1>1, <1>2, <1>3, <1>4, <1>5, <1>6, <1>7 DEF Command

LEMMA EventTypeOK ==
  ASSUME ProvisionTypeOK, NEW r \in Runs,
         \/ Refuse(r) \/ Raise(r)
         \/ SignalEarly(r) \/ SignalNoted(r) \/ SignalRaises(r) \/ Killed(r)
         \/ Forks(r) \/ (\E process \in Processes : Exits(r, process)) \/ Sweep(r)
  PROVE  ProvisionTypeOK'
  <1> USE DEF ProvisionTypeOK, runVars, storageVars, Goes, Phases, Processes
  <1>1. CASE Refuse(r) \/ Raise(r)
    BY <1>1 DEF Refuse, Raise
  <1>2. CASE SignalEarly(r) \/ SignalNoted(r) \/ Killed(r)
    BY <1>2 DEF SignalEarly, SignalNoted, Killed
  <1>3. CASE SignalRaises(r)
    <2>1. cut' \in [Runs -> BOOLEAN]
      BY <1>3 DEF SignalRaises
    <2>2. secret' \in [Runs -> BOOLEAN]
      <3>1. CASE phase[r] # "leaving"
        BY <1>3, <3>1 DEF SignalRaises
      <3>2. CASE phase[r] = "leaving"
        <4>1. PICK left \in {secret[r], secret[r] /\ managed[r]} :
                 secret' = [secret EXCEPT ![r] = left]
          BY <1>3, <3>2 DEF SignalRaises
        <4>2. left \in BOOLEAN
          OBVIOUS
        <4>3. QED
          BY <4>1, <4>2
      <3>3. QED
        BY <3>1, <3>2
    <2>3. phase' \in [Runs -> Phases]
      BY <1>3 DEF SignalRaises
    <2>4. QED
      BY <1>3, <2>1, <2>2, <2>3 DEF SignalRaises
  <1>4. CASE Forks(r)
    BY <1>4 DEF Forks
  <1>5. CASE \E process \in Processes : Exits(r, process)
    BY <1>5 DEF Exits
  <1>6. CASE Sweep(r)
    BY <1>6 DEF Sweep
  <1>7. QED
    BY <1>1, <1>2, <1>3, <1>4, <1>5, <1>6

\* The type of the state.
THEOREM ProvisionTypeCorrect == ProvisionSpec => []ProvisionTypeOK
  <1>1. ProvisionTypeOK /\ [ProvisionNext]_provisionVars => ProvisionTypeOK'
    <2> SUFFICES ASSUME ProvisionTypeOK, [ProvisionNext]_provisionVars
                 PROVE  ProvisionTypeOK'
      OBVIOUS
    <2>1. CASE UNCHANGED provisionVars
      BY <2>1 DEF provisionVars, runVars, storageVars, ProvisionTypeOK
    <2>2. QED
      BY <2>1, CommandTypeOK, EventTypeOK DEF ProvisionNext
  <1>2. QED
    BY <1>1, ProvisionInitTypeOK, PTL DEF ProvisionSpec

-----------------------------------------------------------------------------

LEMMA ProvisionInitInv == ProvisionInit => StorageInv /\ SignalInv
  BY DEF ProvisionInit, StorageInv, SignalInv, StorageProgress, SignalProgress, Guarded,
         Started, Written

\* A run that does nothing keeps what it had.
LEMMA Frame ==
  ASSUME NEW q \in Runs, ProvisionTypeOK, ProvisionTypeOK',
         phase'[q] = phase[q], group'[q] = group[q], directory'[q] = directory[q],
         secret'[q] = secret[q], managed'[q] = managed[q], cut'[q] = cut[q],
         result'[q] = result[q], signalled'[q] = signalled[q], pending'[q] = pending[q]
  PROVE  /\ StorageProgress(q) /\ Guarded(q) => StorageProgress(q)' /\ Guarded(q)'
         /\ SignalProgress(q) => SignalProgress(q)'
  BY DEF StorageProgress, SignalProgress, Guarded

\* A step of a run is a step of no other one.
LEMMA Others ==
  ASSUME ProvisionTypeOK, NEW r \in Runs, NEW q \in Runs, q # r,
         \/ Command(r) \/ Refuse(r) \/ Raise(r)
         \/ SignalEarly(r) \/ SignalNoted(r) \/ SignalRaises(r) \/ Killed(r)
         \/ Forks(r) \/ (\E process \in Processes : Exits(r, process)) \/ Sweep(r)
  PROVE  /\ phase'[q] = phase[q] /\ group'[q] = group[q] /\ directory'[q] = directory[q]
         /\ secret'[q] = secret[q] /\ managed'[q] = managed[q] /\ cut'[q] = cut[q]
         /\ result'[q] = result[q] /\ signalled'[q] = signalled[q]
         /\ pending'[q] = pending[q]
  <1> USE DEF ProvisionTypeOK, runVars, storageVars, Goes
  <1>1. CASE MakeStorage(r) \/ InstallHandlers(r) \/ WriteSecret(r)
             \/ BeginSpawn(r) \/ Fork(r) \/ EndSpawn(r) \/ CheckPending(r) \/ Reap(r)
    BY <1>1 DEF MakeStorage, InstallHandlers, WriteSecret, BeginSpawn, Fork, EndSpawn,
                CheckPending, Reap
  <1>2. CASE IgnoreSignals(r) \/ Terminate(r) \/ KillGroup(r) \/ Leave(r)
    BY <1>2 DEF IgnoreSignals, Terminate, KillGroup, Leave
  <1>3. CASE Refuse(r) \/ Raise(r) \/ SignalEarly(r) \/ SignalNoted(r) \/ Killed(r)
    BY <1>3 DEF Refuse, Raise, SignalEarly, SignalNoted, Killed
  <1>4. CASE SignalRaises(r)
    BY <1>4 DEF SignalRaises
  <1>5. CASE Forks(r) \/ (\E process \in Processes : Exits(r, process)) \/ Sweep(r)
    BY <1>5 DEF Forks, Exits, Sweep
  <1>6. QED
    BY <1>1, <1>2, <1>3, <1>4, <1>5 DEF Command

-----------------------------------------------------------------------------
(* The run that steps.                                                     *)

LEMMA CommandStorage ==
  ASSUME ProvisionTypeOK, NEW r \in Runs, StorageProgress(r), Guarded(r), Command(r)
  PROVE  StorageProgress(r)' /\ Guarded(r)'
  <1> USE DEF ProvisionTypeOK, StorageProgress, Guarded, Started, Written, Goes,
              runVars, storageVars
  <1>1. CASE MakeStorage(r)
    BY <1>1 DEF MakeStorage
  <1>2. CASE InstallHandlers(r)
    BY <1>2 DEF InstallHandlers
  <1>3. CASE WriteSecret(r)
    BY <1>3 DEF WriteSecret
  <1>4. CASE BeginSpawn(r) \/ EndSpawn(r)
    BY <1>4 DEF BeginSpawn, EndSpawn
  <1>5. CASE Fork(r)
    BY <1>5 DEF Fork
  <1>6. CASE CheckPending(r)
    BY <1>6 DEF CheckPending
  <1>7. CASE Reap(r)
    BY <1>7 DEF Reap
  <1>8. CASE IgnoreSignals(r)
    BY <1>8 DEF IgnoreSignals
  <1>9. CASE Terminate(r)
    BY <1>9 DEF Terminate
  <1>10. CASE KillGroup(r)
    BY <1>10 DEF KillGroup
  <1>11. CASE Leave(r)
    BY <1>11 DEF Leave
  <1>12. QED
    BY <1>1, <1>2, <1>3, <1>4, <1>5, <1>6, <1>7, <1>8, <1>9, <1>10, <1>11 DEF Command

LEMMA EventStorage ==
  ASSUME ProvisionTypeOK, NEW r \in Runs, StorageProgress(r), Guarded(r),
         \/ Refuse(r) \/ Raise(r)
         \/ SignalEarly(r) \/ SignalNoted(r) \/ SignalRaises(r) \/ Killed(r)
         \/ Forks(r) \/ (\E process \in Processes : Exits(r, process)) \/ Sweep(r)
  PROVE  StorageProgress(r)' /\ Guarded(r)'
  <1> USE DEF ProvisionTypeOK, StorageProgress, Guarded, Started, Written, Goes,
              runVars, storageVars
  <1>1. CASE Refuse(r)
    BY <1>1 DEF Refuse
  <1>2. CASE Raise(r)
    BY <1>2 DEF Raise
  <1>3. CASE SignalEarly(r) \/ SignalNoted(r) \/ Killed(r)
    BY <1>3 DEF SignalEarly, SignalNoted, Killed
  <1>4. CASE SignalRaises(r)
    BY <1>4 DEF SignalRaises
  <1>5. CASE Forks(r)
    BY <1>5 DEF Forks
  <1>6. CASE \E process \in Processes : Exits(r, process)
    BY <1>6 DEF Exits
  <1>7. CASE Sweep(r)
    BY <1>7 DEF Sweep
  <1>8. QED
    BY <1>1, <1>2, <1>3, <1>4, <1>5, <1>6, <1>7

LEMMA CommandSignal ==
  ASSUME ProvisionTypeOK, NEW r \in Runs, SignalProgress(r), Command(r)
  PROVE  SignalProgress(r)'
  <1> USE DEF ProvisionTypeOK, SignalProgress, Goes, runVars, storageVars
  <1>1. CASE MakeStorage(r) \/ InstallHandlers(r) \/ WriteSecret(r) \/ BeginSpawn(r)
    BY <1>1 DEF MakeStorage, InstallHandlers, WriteSecret, BeginSpawn
  <1>2. CASE Fork(r) \/ EndSpawn(r)
    BY <1>2 DEF Fork, EndSpawn
  <1>3. CASE CheckPending(r)
    BY <1>3 DEF CheckPending
  <1>4. CASE Reap(r) \/ IgnoreSignals(r) \/ Terminate(r) \/ KillGroup(r)
    BY <1>4 DEF Reap, IgnoreSignals, Terminate, KillGroup
  <1>5. CASE Leave(r)
    BY <1>5 DEF Leave
  <1>6. QED
    BY <1>1, <1>2, <1>3, <1>4, <1>5 DEF Command

LEMMA EventSignal ==
  ASSUME ProvisionTypeOK, NEW r \in Runs, SignalProgress(r),
         \/ Refuse(r) \/ Raise(r)
         \/ SignalEarly(r) \/ SignalNoted(r) \/ SignalRaises(r) \/ Killed(r)
         \/ Forks(r) \/ (\E process \in Processes : Exits(r, process)) \/ Sweep(r)
  PROVE  SignalProgress(r)'
  <1> USE DEF ProvisionTypeOK, SignalProgress, Goes, runVars, storageVars
  <1>1. CASE Refuse(r) \/ Raise(r)
    BY <1>1 DEF Refuse, Raise
  <1>2. CASE SignalEarly(r) \/ SignalNoted(r)
    BY <1>2 DEF SignalEarly, SignalNoted
  <1>3. CASE SignalRaises(r)
    BY <1>3 DEF SignalRaises
  <1>4. CASE Killed(r)
    BY <1>4 DEF Killed
  <1>5. CASE Forks(r) \/ (\E process \in Processes : Exits(r, process)) \/ Sweep(r)
    BY <1>5 DEF Forks, Exits, Sweep
  <1>6. QED
    BY <1>1, <1>2, <1>3, <1>4, <1>5

LEMMA ProvisionStepInv ==
  ASSUME ProvisionTypeOK, ProvisionTypeOK', StorageInv, SignalInv,
         [ProvisionNext]_provisionVars
  PROVE  StorageInv' /\ SignalInv'
  <1>1. CASE UNCHANGED provisionVars
    BY <1>1, Frame DEF provisionVars, runVars, storageVars, StorageInv, SignalInv
  <1>2. CASE ProvisionNext
    <2>1. PICK r \in Runs :
            \/ Command(r) \/ Refuse(r) \/ Raise(r)
            \/ SignalEarly(r) \/ SignalNoted(r) \/ SignalRaises(r) \/ Killed(r)
            \/ Forks(r) \/ (\E process \in Processes : Exits(r, process)) \/ Sweep(r)
      BY <1>2 DEF ProvisionNext
    <2>2. StorageProgress(r)' /\ Guarded(r)' /\ SignalProgress(r)'
      BY <2>1, CommandStorage, EventStorage, CommandSignal, EventSignal
         DEF StorageInv, SignalInv
    <2>3. ASSUME NEW q \in Runs, q # r
          PROVE  StorageProgress(q)' /\ Guarded(q)' /\ SignalProgress(q)'
      BY <2>1, <2>3, Others, Frame DEF StorageInv, SignalInv
    <2>4. QED
      BY <2>2, <2>3 DEF StorageInv, SignalInv
  <1>3. QED
    BY <1>1, <1>2

THEOREM ProvisionInvCorrect == ProvisionSpec => [](StorageInv /\ SignalInv)
  BY ProvisionInitInv, ProvisionStepInv, ProvisionTypeCorrect, PTL DEF ProvisionSpec

\* However a run ends, short of SIGKILL or of a signal that cuts its cleanup
\* short, neither its secrets nor its processes are left, and no process is
\* left without its secrets before that.
THEOREM SecretCorrect == ProvisionSpec => []SecretIsGuarded
  <1>1. StorageInv => SecretIsGuarded
    BY DEF StorageInv, Guarded, SecretIsGuarded
  <1>2. QED
    BY <1>1, ProvisionInvCorrect, PTL

\* No interrupted run returns as if it had not been interrupted.
THEOREM SignalCorrect == ProvisionSpec => []SignalIsHeeded
  <1>1. ProvisionTypeOK /\ SignalInv => SignalIsHeeded
    BY DEF ProvisionTypeOK, SignalInv, SignalProgress, SignalIsHeeded
  <1>2. QED
    BY <1>1, ProvisionTypeCorrect, ProvisionInvCorrect, PTL

=============================================================================
