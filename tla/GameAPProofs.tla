---------------------------- MODULE GameAPProofs ----------------------------
(***************************************************************************)
(* Every step of the whole is a step of each of its parts or none of it,   *)
(* so that what is proved of a part by itself holds of the whole, for any  *)
(* set of runs and any scenarios.                                          *)
(***************************************************************************)
EXTENDS GameAP, ProvisionProofs, HelperProofs

LEMMA ProvisionStep == [Next]_vars => [ProvisionNext]_provisionVars
  <1> SUFFICES ASSUME [Next]_vars PROVE [ProvisionNext]_provisionVars
    OBVIOUS
  <1>1. ASSUME NEW r \in Runs, Commanding(r) \/ Over(r) \/ Interrupted(r)
        PROVE  ProvisionNext
    BY <1>1 DEF Commanding, Over, Interrupted, ProvisionNext, Processes
  <1>2. ASSUME NEW r \in Runs, Playbook(r)
        PROVE  UNCHANGED provisionVars
    BY <1>2 DEF Playbook, Plays, InspectPanel, StartSeed, SeedReturns, StartPanel,
                InspectNode, StartHelper, HelperReturns, ReadDaemon, WriteDaemon,
                StartDaemon, TaskFails
  <1>3. ASSUME NEW r \in Runs, Seeding(r) \/ Enrolling(r) \/ Abandoned(r)
        PROVE  UNCHANGED provisionVars
    BY <1>3 DEF Seeding, Enrolling, Abandoned
  <1>4. CASE Service \/ Operator \/ UNCHANGED vars
    BY <1>4 DEF Service, Operator, vars
  <1>5. QED
    BY <1>1, <1>2, <1>3, <1>4 DEF Next

LEMMA SeedStep == [Next]_vars => [SeedNext]_seedVars
  <1> SUFFICES ASSUME [Next]_vars PROVE [SeedNext]_seedVars
    OBVIOUS
  <1>1. ASSUME NEW r \in Runs, Seeding(r) \/ StartSeed(r)
        PROVE  SeedNext
    BY <1>1, GameAPAssumption DEF Seeding, StartSeed, SeedNext
  <1>2. ASSUME NEW r \in Runs, StartPanel(r)
        PROVE  SeedNext \/ UNCHANGED seedVars
    BY <1>2 DEF StartPanel, SeedNext
  <1>3. ASSUME NEW r \in Runs,
               \/ Commanding(r) \/ Over(r) \/ Interrupted(r) \/ Enrolling(r)
               \/ InspectPanel(r) \/ SeedReturns(r) \/ InspectNode(r) \/ StartHelper(r)
               \/ HelperReturns(r) \/ ReadDaemon(r) \/ WriteDaemon(r)
               \/ StartDaemon(r) \/ TaskFails(r) \/ Abandoned(r)
        PROVE  UNCHANGED seedVars
    BY <1>3 DEF Commanding, Over, Interrupted, Enrolling, InspectPanel, SeedReturns,
                InspectNode, StartHelper, HelperReturns, ReadDaemon, WriteDaemon,
                StartDaemon, TaskFails, Abandoned
  <1>4. CASE Service
    BY <1>4 DEF Service, SeedNext
  <1>5. CASE Operator \/ UNCHANGED vars
    BY <1>5 DEF Operator, vars
  <1>6. QED
    BY <1>1, <1>2, <1>3, <1>4, <1>5 DEF Next, Playbook

LEMMA EnrolStep == [Next]_vars => [EnrolNext]_enrolVars
  <1> SUFFICES ASSUME [Next]_vars PROVE [EnrolNext]_enrolVars
    OBVIOUS
  <1>1. ASSUME NEW r \in Runs, Enrolling(r) \/ StartHelper(r)
        PROVE  EnrolNext
    BY <1>1, GameAPAssumption DEF Enrolling, StartHelper, EnrolNext
  <1>2. ASSUME NEW r \in Runs,
               \/ ReadDaemon(r) \/ WriteDaemon(r) \/ StartDaemon(r) \/ TaskFails(r)
               \/ Abandoned(r)
        PROVE  EnrolNext
    BY <1>2, GameAPAssumption
       DEF ReadDaemon, WriteDaemon, StartDaemon, TaskFails, Abandoned, EnrolNext
  <1>3. ASSUME NEW r \in Runs,
               \/ Commanding(r) \/ Over(r) \/ Interrupted(r) \/ Seeding(r)
               \/ InspectPanel(r) \/ StartSeed(r) \/ SeedReturns(r) \/ StartPanel(r)
               \/ InspectNode(r) \/ HelperReturns(r)
        PROVE  UNCHANGED enrolVars
    BY <1>3 DEF Commanding, Over, Interrupted, Seeding, InspectPanel, StartSeed,
                SeedReturns, StartPanel, InspectNode, HelperReturns
  <1>4. CASE Operator
    BY <1>4 DEF Operator, EnrolNext
  <1>5. CASE Service \/ UNCHANGED vars
    BY <1>5 DEF Service, vars
  <1>6. QED
    BY <1>1, <1>2, <1>3, <1>4, <1>5 DEF Next, Playbook

\* The whole implements each of its parts.
THEOREM PartsImplemented == Spec => ProvisionSpec /\ SeedSpec /\ EnrolSpec
  <1>1. Init => ProvisionInit /\ SeedInit /\ EnrolInit
    BY DEF Init
  <1>2. QED
    BY <1>1, ProvisionStep, SeedStep, EnrolStep, PTL
       DEF Spec, ProvisionSpec, SeedSpec, EnrolSpec

\* Beside the playbooks and the hosts, a run of the command still leaves no
\* secret and no process behind and heeds its signals.
THEOREM CommandCorrect == Spec => [](SecretIsGuarded /\ SignalIsHeeded)
  BY PartsImplemented, SecretCorrect, SignalCorrect, PTL

\* Whatever playbooks run side by side, the vendor's binary has its helper, and
\* it is started on a half initialized database only by a helper that another
\* one's binary has overtaken between its check and its start.
THEOREM PanelCorrect == Spec => []VendorIsOwned /\ PartialIsKept
  BY PartsImplemented, OwnedCorrect, PartialCorrect, PTL

\* Whatever playbooks run side by side, the panel registers the node once and
\* its registration is noted.
THEOREM NodeCorrect == Spec => [](OneRegistration /\ RegistrationIsNoted)
  BY PartsImplemented, OnceCorrect, RegistrationCorrect, PTL

\* The type of the state.
THEOREM GameAPTypeCorrect == Spec => []TypeOK
  <1> DEFINE WholeTypeOK == /\ scenario \in Scenarios
                            /\ task \in [Runs -> Tasks]
  <1>1. Init => WholeTypeOK
    BY DEF Init, Tasks
  <1>2. WholeTypeOK /\ [Next]_vars => WholeTypeOK'
    <2> SUFFICES ASSUME WholeTypeOK, [Next]_vars PROVE WholeTypeOK'
      OBVIOUS
    <2>1. ASSUME NEW r \in Runs, Playbook(r) PROVE WholeTypeOK'
      BY <2>1 DEF Playbook, Plays, Tasks, InspectPanel, StartSeed, SeedReturns,
                  StartPanel, InspectNode, StartHelper, HelperReturns, ReadDaemon,
                  WriteDaemon, StartDaemon, TaskFails
    <2>2. ASSUME NEW r \in Runs, Commanding(r) \/ Over(r) \/ Interrupted(r)
                                 \/ Seeding(r) \/ Enrolling(r) \/ Abandoned(r)
          PROVE  WholeTypeOK'
      BY <2>2 DEF Commanding, Over, Interrupted, Seeding, Enrolling, Abandoned
    <2>3. CASE Service \/ Operator \/ UNCHANGED vars
      BY <2>3 DEF Service, Operator, vars
    <2>4. QED
      BY <2>1, <2>2, <2>3 DEF Next
  <1>3. ProvisionTypeOK /\ SeedTypeOK /\ EnrolTypeOK /\ WholeTypeOK => TypeOK
    BY DEF TypeOK
  <1> HIDE DEF WholeTypeOK
  <1>4. QED
    BY <1>1, <1>2, <1>3, PartsImplemented, ProvisionTypeCorrect, SeedTypeCorrect,
       EnrolTypeCorrect, PTL DEF Spec

=============================================================================
