----------------------------- MODULE HelperProofs -----------------------------
(***************************************************************************)
(* Proofs about the two helpers of GameAP, for any number of each.         *)
(*                                                                         *)
(* PanelSeed: that the binary is not started on a half initialized database*)
(* rests on two facts: a child works for a helper that is past its start,  *)
(* and so what any other helper has checked still stands unless this child *)
(* has overtaken it.                                                       *)
(*                                                                         *)
(* Enrolment: that a registration is noted and that there is only one are  *)
(* not inductive: a call that is answered after its helper has died makes a*)
(* registration long after the marker was written.  The strengthening says *)
(* whose the files are, what a helper has written by the time it is        *)
(* somewhere, and what is known of its call.                               *)
(***************************************************************************)
EXTENDS PanelSeed, Enrolment, TLAPS

-----------------------------------------------------------------------------
(* PanelSeed.                                                              *)

\* Nobody has touched the database since a helper has looked at it, unless it
\* was overtaken.
CheckStands ==
    \A s \in Seeds :
        seed[s] \in {"checked", "asked"} => db \in Uninitialized \/ s \in overtaken

SeedInv == VendorIsOwned /\ CheckStands

\* The steps of one helper, its child and what comes upon them.
HelperSteps(s) ==
    \/ BeginSeed(s) \/ Helper(s) \/ SeedSignal(s) \/ SeedKilled(s)
    \/ VendorBinds(s) \/ VendorWorks(s) \/ VendorExits(s)

-----------------------------------------------------------------------------

LEMMA SeedInitTypeOK == SeedInit => SeedTypeOK
  BY DEF SeedInit, SeedTypeOK, Busy, Databases

LEMMA HelperTypeOK ==
  ASSUME SeedTypeOK, NEW s \in Seeds, HelperSteps(s) PROVE SeedTypeOK'
  <1> USE DEF SeedTypeOK, SeedGoes, SeedExits, Busy
  <1>1. CASE BeginSeed(s) \/ AskService(s) \/ Popened(s) \/ SeedGivesUp(s)
    BY <1>1 DEF BeginSeed, AskService, Popened, SeedGivesUp
  <1>2. CASE CheckDatabase(s)
    BY <1>2 DEF CheckDatabase
  <1>3. CASE ForkVendor(s) \/ Seeded(s) \/ StopVendor(s)
    BY <1>3 DEF ForkVendor, Seeded, StopVendor
  <1>4. CASE SeedRefuses(s) \/ SeedKilled(s)
    BY <1>4 DEF SeedRefuses, SeedKilled
  <1>5. CASE SeedSignal(s)
    BY <1>5 DEF SeedSignal
  <1>6. CASE VendorBinds(s) \/ VendorExits(s)
    BY <1>6 DEF VendorBinds, VendorExits
  <1>7. CASE VendorWorks(s)
    <2>1. db' \in Databases
      BY <1>7 DEF VendorWorks, Databases
    <2>2. QED
      BY <1>7, <2>1 DEF VendorWorks
  <1>8. QED
    BY <1>1, <1>2, <1>3, <1>4, <1>5, <1>6, <1>7 DEF HelperSteps, Helper

\* The type of the state.
THEOREM SeedTypeCorrect == SeedSpec => []SeedTypeOK
  <1>1. SeedTypeOK /\ [SeedNext]_seedVars => SeedTypeOK'
    <2> SUFFICES ASSUME SeedTypeOK, [SeedNext]_seedVars PROVE SeedTypeOK'
      OBVIOUS
    <2>1. CASE StartService \/ StopService \/ UNCHANGED seedVars
      BY <2>1 DEF StartService, StopService, seedVars, SeedTypeOK
    <2>2. QED
      BY <2>1, HelperTypeOK DEF SeedNext, HelperSteps
  <1>2. QED
    BY <1>1, SeedInitTypeOK, PTL DEF SeedSpec

-----------------------------------------------------------------------------

LEMMA SeedInitInv == SeedInit => SeedInv
  BY DEF SeedInit, SeedInv, VendorIsOwned, CheckStands, Busy

\* A child binds to a helper that is waiting for it, and dies with it.
LEMMA OwnedStep ==
  ASSUME SeedTypeOK, VendorIsOwned, NEW s \in Seeds, HelperSteps(s)
  PROVE  VendorIsOwned'
  <1> USE DEF SeedTypeOK, VendorIsOwned, SeedGoes, SeedExits, Busy
  <1>1. CASE BeginSeed(s) \/ CheckDatabase(s) \/ AskService(s) \/ ForkVendor(s)
    BY <1>1 DEF BeginSeed, CheckDatabase, AskService, ForkVendor
  <1>2. CASE Popened(s) \/ Seeded(s) \/ SeedGivesUp(s)
    BY <1>2 DEF Popened, Seeded, SeedGivesUp
  <1>3. CASE StopVendor(s)
    BY <1>3 DEF StopVendor
  <1>4. CASE SeedRefuses(s) \/ SeedKilled(s)
    BY <1>4 DEF SeedRefuses, SeedKilled
  <1>5. CASE SeedSignal(s)
    BY <1>5 DEF SeedSignal
  <1>6. CASE VendorBinds(s) \/ VendorWorks(s) \/ VendorExits(s)
    BY <1>6 DEF VendorBinds, VendorWorks, VendorExits
  <1>7. QED
    BY <1>1, <1>2, <1>3, <1>4, <1>5, <1>6 DEF HelperSteps, Helper

\* A child works for a helper past its start, and notes whom it overtakes.
LEMMA CheckStep ==
  ASSUME SeedTypeOK, SeedInv, NEW s \in Seeds, HelperSteps(s)
  PROVE  CheckStands'
  <1> USE DEF SeedTypeOK, CheckStands, SeedGoes, SeedExits
  <1>1. CASE VendorWorks(s)
    <2>1. seed[s] \in {"forked", "polling", "stopping"}
      BY <1>1 DEF VendorWorks, SeedInv, VendorIsOwned
    <2>2. \A t \in Seeds : seed[t] \in {"checked", "asked"} => t \in overtaken'
      BY <1>1, <2>1 DEF VendorWorks
    <2>3. QED
      BY <1>1, <2>2 DEF VendorWorks
  <1>2. CASE CheckDatabase(s)
    BY <1>2 DEF CheckDatabase, SeedInv
  <1>3. CASE BeginSeed(s) \/ AskService(s) \/ ForkVendor(s) \/ Popened(s)
    BY <1>3 DEF BeginSeed, AskService, ForkVendor, Popened, SeedInv
  <1>4. CASE Seeded(s) \/ SeedGivesUp(s) \/ StopVendor(s)
    BY <1>4 DEF Seeded, SeedGivesUp, StopVendor, SeedInv
  <1>5. CASE SeedRefuses(s) \/ SeedKilled(s) \/ SeedSignal(s)
    BY <1>5 DEF SeedRefuses, SeedKilled, SeedSignal, SeedInv
  <1>6. CASE VendorBinds(s) \/ VendorExits(s)
    BY <1>6 DEF VendorBinds, VendorExits, SeedInv
  <1>7. QED
    BY <1>1, <1>2, <1>3, <1>4, <1>5, <1>6 DEF HelperSteps, Helper

THEOREM SeedInvCorrect == SeedSpec => []SeedInv
  <1>1. SeedTypeOK /\ SeedInv /\ [SeedNext]_seedVars => SeedInv'
    <2> SUFFICES ASSUME SeedTypeOK, SeedInv, [SeedNext]_seedVars PROVE SeedInv'
      OBVIOUS
    <2>1. CASE StartService \/ StopService \/ UNCHANGED seedVars
      BY <2>1 DEF StartService, StopService, seedVars, SeedInv, VendorIsOwned,
                  CheckStands
    <2>2. ASSUME NEW s \in Seeds, HelperSteps(s) PROVE SeedInv'
      BY <2>2, OwnedStep, CheckStep DEF SeedInv
    <2>3. QED
      BY <2>1, <2>2 DEF SeedNext, HelperSteps
  <1>2. QED
    BY <1>1, SeedInitInv, SeedTypeCorrect, PTL DEF SeedSpec

\* The vendor's binary never runs without its helper.
THEOREM OwnedCorrect == SeedSpec => []VendorIsOwned
  BY SeedInvCorrect, PTL DEF SeedInv

\* Only a helper that has just asked forks the binary, and what it has checked
\* still stands unless it was overtaken.
THEOREM PartialCorrect == SeedSpec => PartialIsKept
  <1> DEFINE Starts(s) == vendor[s] = "none" /\ vendor'[s] # "none"
             Kept == \A s \in Seeds :
                        Starts(s) => db \in Uninitialized \/ s \in overtaken
  <1>1. SeedTypeOK /\ SeedInv /\ [SeedNext]_seedVars => [Kept]_seedVars
    <2> SUFFICES ASSUME SeedTypeOK, SeedInv, [SeedNext]_seedVars,
                        NEW t \in Seeds, Starts(t)
                 PROVE  db \in Uninitialized \/ t \in overtaken
      OBVIOUS
    <2> USE DEF SeedTypeOK
    <2>1. ASSUME StartService \/ StopService \/ UNCHANGED seedVars
          PROVE  FALSE
      BY <2>1 DEF StartService, StopService, seedVars
    <2>2. ASSUME NEW s \in Seeds, HelperSteps(s)
          PROVE  db \in Uninitialized \/ t \in overtaken
      <3>1. CASE ForkVendor(s)
        <4>1. s = t
          BY <3>1 DEF ForkVendor
        <4>2. QED
          BY <3>1, <4>1 DEF ForkVendor, SeedGoes, SeedInv, CheckStands
      <3>2. ASSUME BeginSeed(s) \/ CheckDatabase(s) \/ AskService(s) \/ Popened(s)
            PROVE  FALSE
        BY <3>2 DEF BeginSeed, CheckDatabase, AskService, Popened
      <3>3. ASSUME Seeded(s) \/ SeedGivesUp(s) \/ StopVendor(s)
            PROVE  FALSE
        BY <3>3 DEF Seeded, SeedGivesUp, StopVendor
      <3>4. ASSUME SeedRefuses(s) \/ SeedKilled(s) \/ SeedSignal(s)
            PROVE  FALSE
        BY <3>4 DEF SeedRefuses, SeedKilled, SeedSignal, SeedExits
      <3>5. ASSUME VendorBinds(s) \/ VendorWorks(s) \/ VendorExits(s)
            PROVE  FALSE
        BY <3>5 DEF VendorBinds, VendorWorks, VendorExits
      <3>6. QED
        BY <2>2, <3>1, <3>2, <3>3, <3>4, <3>5 DEF HelperSteps, Helper
    <2>3. QED
      BY <2>1, <2>2 DEF SeedNext, HelperSteps
  <1>2. QED
    BY <1>1, SeedTypeCorrect, SeedInvCorrect, PTL DEF SeedSpec, PartialIsKept

-----------------------------------------------------------------------------
(* Enrolment.                                                              *)

Before == {"none", "locked", "checked", "connected", "marked"}
After == {"answered", "saving", "configuring", "saved"}
Owned(h) == \E name \in Names : <<name, h>> \in files

\* The files of the directory are one helper's, "certs" is the first of what
\* it saves, and it saves what the panel has given it.
OneOwner ==
    /\ \A g, h \in Helpers : Owned(g) /\ Owned(h) => g = h
    /\ \A name \in Names \ {"marker"}, h \in Helpers :
          <<name, h>> \in files => <<"certs", h>> \in files /\ h \in registered

\* What a helper that holds the lock has written.
HolderProgress ==
    \A h \in Helpers :
        /\ at[h] \in {"checked", "connected"} => files = {}
        /\ at[h] \in {"marked", "called"} \cup After => <<"marker", h>> \in files
        /\ at[h] \in {"saving", "configuring", "saved"} => <<"certs", h>> \in files
        /\ at[h] \in {"configuring", "saved"} =>
              \A name \in Certificates \cup {"config"} : <<name, h>> \in files
        /\ at[h] = "saved" => <<"identity", h>> \in files

\* A call on its way has a marker, its helper alive or not.
CallProgress ==
    \A h \in Helpers :
        /\ at[h] \in Before => calls[h] = "none"
        /\ at[h] \in After \cup {"enrolled"} => calls[h] = "committed"
        /\ at[h] \in Holding /\ calls[h] = "committed" => h \in registered
        /\ calls[h] = "sent" => <<"marker", h>> \in files

\* A convergence works with a complete identity.
ReadStands == \A c \in Convergences : \A h \in read[c] : Complete(h)

EInv == OneOwner /\ HolderProgress /\ CallProgress /\ RegistrationIsNoted /\ ReadStands

-----------------------------------------------------------------------------

LEMMA EnrolInitTypeOK == EnrolInit => EnrolTypeOK
  BY DEF EnrolInit, EnrolTypeOK, Holding

LEMMA EnrolStepTypeOK == EnrolTypeOK /\ [EnrolNext]_enrolVars => EnrolTypeOK'
  <1> SUFFICES ASSUME EnrolTypeOK, [EnrolNext]_enrolVars PROVE EnrolTypeOK'
    OBVIOUS
  <1> USE DEF EnrolTypeOK, Holding
  <1>1. ASSUME NEW h \in Helpers, LockDirectory(h) PROVE EnrolTypeOK'
    BY <1>1 DEF LockDirectory, EnrolGoes
  <1>2. ASSUME NEW h \in Helpers, Enrols(h) PROVE EnrolTypeOK'
    <2>1. CASE RequireUnenrolled(h) \/ Connect(h) \/ Call(h) \/ Answer(h)
      BY <1>2, <2>1 DEF RequireUnenrolled, Connect, Call, Answer, EnrolGoes
    <2>2. CASE WriteMarker(h) \/ MakeCerts(h) \/ CreateConfig(h) \/ WriteConfig(h)
      BY <1>2, <2>2 DEF WriteMarker, MakeCerts, CreateConfig, WriteConfig, EnrolGoes, Names
    <2>3. CASE \E name \in Certificates : WriteCertificate(h, name)
      BY <1>2, <2>3 DEF WriteCertificate, Names
    <2>4. CASE RemoveMarker(h) \/ EnrolFails(h)
      BY <1>2, <2>4 DEF RemoveMarker, EnrolFails, EnrolGoes
    <2>5. QED
      BY <1>2, <2>1, <2>2, <2>3, <2>4 DEF Enrols
  <1>3. ASSUME NEW h \in Helpers, PanelEnrols(h) \/ PanelRefuses(h) PROVE EnrolTypeOK'
    BY <1>3 DEF PanelEnrols, PanelRefuses
  <1>4. CASE OperatorClears
    BY <1>4 DEF OperatorClears
  <1>5. CASE UNCHANGED enrolVars
    BY <1>5 DEF enrolVars
  <1>6. ASSUME NEW c \in Convergences,
               ReadIdentity(c) \/ WriteBack(c) \/ RunDaemon(c) \/ ConvergenceEnds(c)
        PROVE  EnrolTypeOK'
    <2>1. CASE WriteBack(c)
      <3>1. {"config", "identity"} \subseteq Names /\ read[c] \subseteq Helpers
        BY DEF Names
      <3>2. files' \subseteq Names \X Helpers
        BY <2>1, <3>1 DEF WriteBack
      <3>3. QED
        BY <2>1, <3>2 DEF WriteBack
    <2>2. QED
      BY <1>6, <2>1 DEF ReadIdentity, RunDaemon, ConvergenceEnds
  <1>7. QED
    BY <1>1, <1>2, <1>3, <1>4, <1>5, <1>6 DEF EnrolNext

\* The type of the state, and that at most one helper holds the lock.
THEOREM EnrolTypeCorrect == EnrolSpec => []EnrolTypeOK
  BY EnrolInitTypeOK, EnrolStepTypeOK, PTL DEF EnrolSpec

-----------------------------------------------------------------------------

LEMMA EnrolInitInv == EnrolInit => EInv
  BY DEF EnrolInit, EInv, OneOwner, Owned, HolderProgress, CallProgress,
         RegistrationIsNoted, ReadStands, Before, After, Holding

\* A step that writes no file: the helper goes on, or its call does.
LEMMA QuietInv ==
  ASSUME EnrolTypeOK, EInv, NEW h \in Helpers,
         \/ LockDirectory(h) \/ RequireUnenrolled(h) \/ Connect(h) \/ Call(h)
         \/ Answer(h) \/ EnrolFails(h) \/ PanelEnrols(h) \/ PanelRefuses(h)
  PROVE  EInv'
  <1> USE DEF EInv, EnrolTypeOK, EnrolGoes, Holding, Before, After
  <1>1. OneOwner'
    BY DEF OneOwner, Owned, LockDirectory, RequireUnenrolled, Connect, Call, Answer,
           EnrolFails, PanelEnrols, PanelRefuses
  <1>2. HolderProgress'
    <2>1. CASE RequireUnenrolled(h)
      <3>1. \A name \in Names, g \in Helpers : <<name, g>> \notin files
        BY <2>1 DEF RequireUnenrolled, Exists, OneOwner, Names
      <3>2. files = {}
        BY <3>1
      <3>3. QED
        BY <2>1, <3>2 DEF RequireUnenrolled, HolderProgress
    <2>2. CASE LockDirectory(h)
      BY <2>2 DEF HolderProgress, LockDirectory
    <2>3. CASE Connect(h)
      BY <2>3 DEF HolderProgress, Connect
    <2>4. CASE Call(h)
      BY <2>4 DEF HolderProgress, Call
    <2>5. CASE Answer(h)
      BY <2>5 DEF HolderProgress, Answer
    <2>6. CASE EnrolFails(h) \/ PanelEnrols(h) \/ PanelRefuses(h)
      BY <2>6 DEF HolderProgress, EnrolFails, PanelEnrols, PanelRefuses
    <2>7. QED
      BY <2>1, <2>2, <2>3, <2>4, <2>5, <2>6
  <1>3. CallProgress'
    <2>1. CASE LockDirectory(h)
      BY <2>1 DEF CallProgress, LockDirectory
    <2>2. CASE RequireUnenrolled(h)
      BY <2>2 DEF CallProgress, RequireUnenrolled
    <2>3. CASE Connect(h)
      BY <2>3 DEF CallProgress, Connect
    <2>4. CASE Call(h)
      BY <2>4 DEF CallProgress, HolderProgress, Call
    <2>5. CASE Answer(h)
      BY <2>5 DEF CallProgress, Answer
    <2>6. CASE EnrolFails(h)
      BY <2>6 DEF CallProgress, EnrolFails
    <2>7. CASE PanelEnrols(h) \/ PanelRefuses(h)
      BY <2>7 DEF CallProgress, PanelEnrols, PanelRefuses
    <2>8. QED
      BY <2>1, <2>2, <2>3, <2>4, <2>5, <2>6, <2>7
  <1>4. RegistrationIsNoted'
    <2>1. CASE PanelEnrols(h)
      BY <2>1 DEF RegistrationIsNoted, CallProgress, Complete, PanelEnrols
    <2>2. CASE LockDirectory(h) \/ RequireUnenrolled(h) \/ Connect(h) \/ Call(h)
      BY <2>2 DEF RegistrationIsNoted, Complete, LockDirectory, RequireUnenrolled,
                  Connect, Call
    <2>3. CASE Answer(h) \/ EnrolFails(h) \/ PanelRefuses(h)
      BY <2>3 DEF RegistrationIsNoted, Complete, Answer, EnrolFails, PanelRefuses
    <2>4. QED
      BY <2>1, <2>2, <2>3
  <1>5. ReadStands'
    <2>1. registered \subseteq registered' /\ UNCHANGED <<files, read>>
      BY DEF LockDirectory, RequireUnenrolled, Connect, Call, Answer, EnrolFails,
             PanelEnrols, PanelRefuses
    <2>2. QED
      BY <2>1 DEF ReadStands, Complete
  <1>6. QED
    BY <1>1, <1>2, <1>3, <1>4, <1>5

\* The marker is the first file of an empty directory.
LEMMA MarkerInv ==
  ASSUME EnrolTypeOK, EInv, NEW h \in Helpers, WriteMarker(h) PROVE EInv'
  <1> USE DEF EInv, EnrolTypeOK, WriteMarker, EnrolGoes, Holding, Before, After
  <1>1. files = {} /\ files' = {<<"marker", h>>}
    BY DEF HolderProgress
  <1>2. OneOwner'
    BY <1>1 DEF OneOwner, Owned, Names
  <1>3. HolderProgress'
    BY <1>1 DEF HolderProgress
  <1>4. CallProgress'
    BY DEF CallProgress
  <1>5. RegistrationIsNoted'
    BY <1>1 DEF RegistrationIsNoted, Complete, Names
  <1>6. ReadStands'
    BY <1>1 DEF ReadStands, Complete, Names
  <1>7. QED
    BY <1>2, <1>3, <1>4, <1>5, <1>6

\* A helper that saves adds to files of its own.
LEMMA SaveInv ==
  ASSUME EnrolTypeOK, EInv, NEW h \in Helpers, at[h] \in After,
         NEW name \in Names \ {"marker"},
         files' = files \cup {<<name, h>>},
         name = "certs" \/ at[h] # "answered",
         UNCHANGED <<registered, daemon>>
  PROVE  OneOwner' /\ RegistrationIsNoted'
  <1> USE DEF EInv, EnrolTypeOK, Holding, After
  <1>1. <<"marker", h>> \in files /\ h \in registered
    BY DEF HolderProgress, CallProgress
  <1>2. <<"certs", h>> \in files'
    BY DEF HolderProgress
  <1>3. \A g \in Helpers : Owned(g)' => Owned(g)
    BY <1>1 DEF Owned, Names
  <1>4. OneOwner'
    BY <1>1, <1>2, <1>3 DEF OneOwner
  <1>5. RegistrationIsNoted'
    BY DEF RegistrationIsNoted, Complete
  <1>6. QED
    BY <1>4, <1>5

LEMMA IdentityInv ==
  ASSUME EnrolTypeOK, EInv, NEW h \in Helpers,
         \/ MakeCerts(h) \/ CreateConfig(h) \/ WriteConfig(h)
         \/ \E name \in Certificates : WriteCertificate(h, name)
  PROVE  EInv'
  <1> USE DEF EInv, EnrolTypeOK, EnrolGoes, Holding, After
  <1>1. OneOwner' /\ RegistrationIsNoted'
    <2>1. CASE MakeCerts(h)
      BY <2>1, SaveInv DEF MakeCerts, Names
    <2>2. CASE CreateConfig(h)
      BY <2>2, SaveInv DEF CreateConfig, Names
    <2>3. CASE WriteConfig(h)
      BY <2>3, SaveInv DEF WriteConfig, Names
    <2>4. ASSUME NEW name \in Certificates, WriteCertificate(h, name)
          PROVE  OneOwner' /\ RegistrationIsNoted'
      BY <2>4, SaveInv DEF WriteCertificate, Names, Certificates
    <2>5. QED
      BY <2>1, <2>2, <2>3, <2>4
  <1>2. HolderProgress'
    <2>1. CASE MakeCerts(h)
      BY <2>1 DEF HolderProgress, MakeCerts
    <2>2. CASE CreateConfig(h)
      BY <2>2 DEF HolderProgress, CreateConfig
    <2>3. CASE WriteConfig(h)
      BY <2>3 DEF HolderProgress, WriteConfig
    <2>4. CASE \E name \in Certificates : WriteCertificate(h, name)
      BY <2>4 DEF HolderProgress, WriteCertificate
    <2>5. QED
      BY <2>1, <2>2, <2>3, <2>4
  <1>3. CallProgress'
    BY DEF CallProgress, MakeCerts, CreateConfig, WriteConfig, WriteCertificate, Before
  <1>4. ReadStands'
    BY DEF ReadStands, Complete, MakeCerts, CreateConfig, WriteConfig, WriteCertificate
  <1>5. QED
    BY <1>1, <1>2, <1>3, <1>4

\* The marker goes when everything else is there.
LEMMA RemoveInv ==
  ASSUME EnrolTypeOK, EInv, NEW h \in Helpers, RemoveMarker(h) PROVE EInv'
  <1> USE DEF EInv, EnrolTypeOK, RemoveMarker, EnrolGoes, Holding, After
  <1>1. Complete(h) /\ Complete(h)'
    BY DEF HolderProgress, Complete, Names
  <1>2. \A g \in Helpers : Owned(g) => g = h
    BY DEF OneOwner, HolderProgress, Owned, Names
  <1>3. OneOwner'
    BY <1>1 DEF OneOwner, Owned, Complete, Names
  <1>4. HolderProgress'
    BY DEF HolderProgress
  <1>5. CallProgress'
    BY <1>2 DEF CallProgress, Owned, Names, Before
  <1>6. RegistrationIsNoted'
    BY <1>1, <1>2 DEF RegistrationIsNoted, Complete, Owned, Names
  <1>7. ReadStands'
    BY DEF ReadStands, Complete
  <1>8. QED
    BY <1>3, <1>4, <1>5, <1>6, <1>7

\* A convergence that writes back writes what is there: the identity it has read
\* is the one whose files these are.
LEMMA WriteBackKeeps ==
  ASSUME EnrolTypeOK, EInv, NEW c \in Convergences, WriteBack(c)
  PROVE  files' = files
  <1>1. PICK h \in read[c] : TRUE
    BY DEF WriteBack
  <1>2. h \in Helpers /\ Complete(h)
    BY <1>1 DEF EnrolTypeOK, EInv, ReadStands
  <1>3. \A g \in Helpers : Owned(g) => g = h
    BY <1>2 DEF EInv, OneOwner, Owned, Complete, Names
  <1>4. read[c] = {h}
    BY <1>1, <1>3 DEF EnrolTypeOK, EInv, ReadStands, Owned, Complete, Names
  <1>5. {"config", "identity"} \X {h} \subseteq files
    BY <1>2 DEF Complete, Names
  <1>6. files \cap ({"config", "identity"} \X Helpers) \subseteq {"config", "identity"} \X {h}
    BY <1>3 DEF Owned, Names
  <1>7. QED
    BY <1>4, <1>5, <1>6 DEF WriteBack

\* The daemon is started with the identity that its convergence has read.
LEMMA ConvergenceInv ==
  ASSUME EnrolTypeOK, EInv, NEW c \in Convergences,
         ReadIdentity(c) \/ WriteBack(c) \/ RunDaemon(c) \/ ConvergenceEnds(c)
  PROVE  EInv'
  <1>1. files' = files /\ UNCHANGED <<at, holder, calls, registered>>
    BY WriteBackKeeps DEF ReadIdentity, WriteBack, RunDaemon, ConvergenceEnds
  <1>2. OneOwner' /\ HolderProgress' /\ CallProgress'
    BY <1>1 DEF EInv, OneOwner, Owned, HolderProgress, CallProgress
  <1>3. ReadStands'
    <2>1. \A h \in Helpers : Complete(h) => Complete(h)'
      BY <1>1 DEF Complete
    <2>2. CASE ReadIdentity(c)
      BY <2>1, <2>2 DEF ReadIdentity, EnrolTypeOK, EInv, ReadStands
    <2>3. CASE WriteBack(c)
      BY <2>1, <2>3 DEF WriteBack, EnrolTypeOK, EInv, ReadStands
    <2>4. CASE RunDaemon(c) \/ ConvergenceEnds(c)
      BY <2>1, <2>4 DEF RunDaemon, ConvergenceEnds, EnrolTypeOK, EInv, ReadStands
    <2>5. QED
      BY <2>2, <2>3, <2>4
  <1>4. RegistrationIsNoted'
    <2>1. CASE RunDaemon(c)
      <3>1. PICK h \in read[c] : TRUE
        BY <2>1 DEF RunDaemon
      <3>2. h \in Helpers /\ Complete(h)
        BY <3>1 DEF EnrolTypeOK, EInv, ReadStands
      <3>3. \A g \in daemon' : g = h
        BY <2>1, <3>2 DEF RunDaemon, EInv, OneOwner, Owned, Complete, Names
      <3>4. h \in registered
        BY <3>2 DEF EInv, OneOwner, Complete, Names
      <3>5. QED
        BY <1>1, <3>2, <3>3, <3>4 DEF EInv, RegistrationIsNoted, Complete
    <2>2. CASE daemon' = daemon
      BY <1>1, <2>2 DEF EInv, RegistrationIsNoted, Complete
    <2>3. QED
      BY <2>1, <2>2 DEF ReadIdentity, WriteBack, ConvergenceEnds
  <1>5. QED
    BY <1>2, <1>3, <1>4 DEF EInv

LEMMA EnrolStepInv == EnrolTypeOK /\ EInv /\ [EnrolNext]_enrolVars => EInv'
  <1> SUFFICES ASSUME EnrolTypeOK, EInv, [EnrolNext]_enrolVars PROVE EInv'
    OBVIOUS
  <1>1. ASSUME NEW c \in Convergences,
               ReadIdentity(c) \/ WriteBack(c) \/ RunDaemon(c) \/ ConvergenceEnds(c)
        PROVE  EInv'
    BY <1>1, ConvergenceInv
  <1>2. CASE OperatorClears
    <2>1. \A h \in Helpers : at[h] \notin Holding /\ at'[h] \notin Holding
      BY <1>2 DEF OperatorClears, EnrolTypeOK
    <2>2. OneOwner' /\ RegistrationIsNoted'
      BY <1>2 DEF OperatorClears, OneOwner, Owned, RegistrationIsNoted
    <2>3. HolderProgress' /\ CallProgress'
      BY <1>2, <2>1 DEF OperatorClears, HolderProgress, CallProgress, EInv, Holding,
                        Before, After
    <2>4. ReadStands'
      BY <1>2 DEF OperatorClears, ReadStands
    <2>5. QED
      BY <2>2, <2>3, <2>4 DEF EInv
  <1>3. CASE UNCHANGED enrolVars
    BY <1>3 DEF enrolVars, EInv, OneOwner, Owned, HolderProgress, CallProgress,
                RegistrationIsNoted, ReadStands, Complete
  <1>4. QED
    BY <1>1, <1>2, <1>3, QuietInv, MarkerInv, IdentityInv, RemoveInv DEF EnrolNext, Enrols

THEOREM EnrolInvCorrect == EnrolSpec => []EInv
  BY EnrolInitInv, EnrolStepInv, EnrolTypeCorrect, PTL DEF EnrolSpec

\* A node of the panel is never forgotten, however its call and its helper
\* ended, and the daemon runs with an identity the panel knows.
THEOREM RegistrationCorrect == EnrolSpec => []RegistrationIsNoted
  BY EnrolInvCorrect, PTL DEF EInv

\* The node is registered once: a registration has files in the directory, and
\* all of these are one helper's.
THEOREM OnceCorrect == EnrolSpec => []OneRegistration
  <1>1. EnrolTypeOK /\ EInv => OneRegistration
    BY DEF EnrolTypeOK, EInv, OneOwner, Owned, RegistrationIsNoted, Complete,
           OneRegistration, Names
  <1>2. QED
    BY <1>1, EnrolTypeCorrect, EnrolInvCorrect, PTL

=============================================================================
