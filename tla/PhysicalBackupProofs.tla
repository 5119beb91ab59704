------------------------ MODULE PhysicalBackupProofs ------------------------
(***************************************************************************)
(* Proofs about PhysicalBackup for any number of runs and any clock, with  *)
(* every failure, signal and kill: the completion markers and the status   *)
(* file can be trusted, and the repository is a catalogue that only grows. *)
(***************************************************************************)
EXTENDS PhysicalBackup, TLAPS

\* What the running program knows of the directory it stores into: its name is
\* new to the manifests and to both copies of the status until it is verified.
Storing == {"storing", "copied", "marked"}

FreshDirectory ==
    /\ pc \in Storing => /\ repo[runId].by \in Attempts
                         /\ runId \notin manifests
                         /\ status.path # runId /\ mem.path # runId
    /\ pc \in {"storing", "copied"} => ~repo[runId].marker
    /\ pc = "marked" => repo[runId].marker
    /\ pc = "stored" => runId \in Completed
    /\ pc \in {"stored", "archived"} => mem.stored /\ mem.path = runId
    /\ pc = "archived" => runId \in manifests

\* The program's copy of the status names only completed backups, too.
MemIsTrue ==
    /\ mem.path # 0 => mem.path \in Completed
    /\ mem.stored => mem.path # 0

RepositoryInv == MarkersAreEarned /\ StatusIsTrue /\ MemIsTrue /\ FreshDirectory

-----------------------------------------------------------------------------
(* Types.                                                                  *)

LEMMA InitTypeOK == Init => TypeOK
  <1> SUFFICES ASSUME Init PROVE TypeOK
    OBVIOUS
  <1>1. 1 \in Seconds /\ 0 \in 0..MaxAttempts /\ 0 \in 0..LastSecond
    BY BoundsAssumption DEF Seconds
  <1>2. NoDirectory \in Directory /\ NoStatus \in Status
    BY <1>1 DEF NoDirectory, Directory, Copies, NoStatus, Status
  <1>3. QED
    BY <1>1, <1>2 DEF Init, TypeOK, Steps

\* A running program has a number and, past MakeStaging, an identifier.
RunningInv ==
    /\ pc # "idle" => attempt \in Attempts
    /\ pc \in {"made", "copy", "prepared", "stored", "archived"} \cup Storing
           => runId \in Seconds

LEMMA NextTypeOK == TypeOK /\ RunningInv /\ [Next]_vars => TypeOK' /\ RunningInv'
  <1> SUFFICES ASSUME TypeOK, RunningInv, [Next]_vars
               PROVE  TypeOK' /\ RunningInv'
    OBVIOUS
  <1> USE DEF RunningInv, Storing, files, job
  <1>1. Seconds \subseteq 0..LastSecond
    BY BoundsAssumption DEF Seconds
  <1> 0 \in 0..LastSecond /\ 0 \in 0..MaxAttempts
    BY BoundsAssumption
  <1>2. ASSUME Exit, UNCHANGED <<repo, manifests, status>>, now' \in Seconds,
               disturbed' \in BOOLEAN, staging' \in [Seconds -> 0..MaxAttempts]
        PROVE  TypeOK' /\ RunningInv'
    BY <1>2 DEF TypeOK, Exit, NoStatus, Status, Steps
  <1>3. CASE Clock \/ OtherOperation \/ UNCHANGED vars
    BY <1>3 DEF Clock, OtherOperation, vars, TypeOK
  <1>4. ASSUME NEW t \in Seconds, Rot(t)
        PROVE  TypeOK' /\ RunningInv'
    <2>1. repo' \in [Seconds -> Directory]
      BY <1>4 DEF Rot, TypeOK, Directory, Copies
    <2>2. QED
      BY <1>4, <2>1 DEF Rot, TypeOK
  <1>5. ASSUME NEW primaryAllowed \in BOOLEAN, Lock(primaryAllowed)
        PROVE  TypeOK' /\ RunningInv'
    <2>1. attempt' \in 0..MaxAttempts /\ attempt' \in Attempts
      BY <1>5, BoundsAssumption DEF Lock, TypeOK, Attempts
    <2>2. mem' \in Status
      BY <1>5 DEF Lock, TypeOK, Status
    <2>3. QED
      BY <1>5, <2>1, <2>2 DEF Lock, Goto, TypeOK, Steps
  <1>6. CASE Accept \/ OwnStaging \/ CopyAndPrepare \/ Return \/ Fail
    BY <1>6 DEF Accept, OwnStaging, CopyAndPrepare, Return, Fail, Goto, TypeOK, Steps
  <1>7. CASE SkipPrimary \/ Report \/ RecordFailure
    <2>1. mem' \in Status /\ status' \in Status
      BY <1>7 DEF SkipPrimary, Report, RecordFailure, TypeOK, Status
    <2>2. QED
      BY <1>7, <2>1 DEF SkipPrimary, Report, RecordFailure, Goto, TypeOK, Steps
  <1>8. CASE MakeStaging
    BY <1>1, <1>8 DEF MakeStaging, TypeOK, Steps
  <1>9. CASE StoreBegin
    <2>1. repo' \in [Seconds -> Directory]
      BY <1>9 DEF StoreBegin, TypeOK, Directory, Copies
    <2>2. QED
      BY <1>9, <2>1 DEF StoreBegin, TypeOK, Steps
  <1>10. CASE StoreCopy
    <2>1. repo' \in [Seconds -> Directory]
      BY <1>10 DEF StoreCopy, Goto, TypeOK, Directory, Copies
    <2>2. QED
      BY <1>10, <2>1 DEF StoreCopy, Goto, TypeOK, Steps
  <1>11. CASE StoreMark
    <2>1. repo' \in [Seconds -> Directory]
      BY <1>11 DEF StoreMark, TypeOK, Directory, Copies
    <2>2. QED
      BY <1>11, <2>1 DEF StoreMark, TypeOK, Steps
  <1>12. CASE StoreVerify
    <2>1. runId \in Seconds
      BY <1>12 DEF StoreVerify
    <2>2. mem' \in Status
      BY <1>1, <1>12, <2>1 DEF StoreVerify, TypeOK, Status
    <2>3. repo' \in [Seconds -> Directory]
      BY <1>12, <2>1 DEF StoreVerify, TypeOK, Directory
    <2>4. QED
      BY <1>12, <2>2, <2>3 DEF StoreVerify, TypeOK, Steps
  <1>13. CASE Archive
    BY <1>13 DEF Archive, Goto, TypeOK, Steps
  <1>14. CASE Cleanup
    <2>1. staging' \in [Seconds -> 0..MaxAttempts]
      BY <1>14 DEF Cleanup, TypeOK
    <2>2. QED
      BY <1>2, <1>14, <2>1 DEF Cleanup, TypeOK
  <1>15. CASE FailedCleanup \/ InterruptedCleanup \/ Crash
    BY <1>2, <1>15 DEF FailedCleanup, InterruptedCleanup, Crash, TypeOK
  <1>16. CASE Signal
    <2>1. repo' \in [Seconds -> Directory]
      BY <1>16 DEF Signal, TypeOK, Directory
    <2>2. QED
      BY <1>16, <2>1 DEF Signal, TypeOK, Steps
  <1>17. QED
    BY <1>3, <1>4, <1>5, <1>6, <1>7, <1>8, <1>9, <1>10, <1>11, <1>12, <1>13, <1>14,
       <1>15, <1>16 DEF Next

\* Every reachable state of every instance has the declared types.
THEOREM TypeCorrect == Spec => [](TypeOK /\ RunningInv)
  <1>1. Init => RunningInv
    BY DEF Init, RunningInv, Storing
  <1>2. QED
    BY <1>1, InitTypeOK, NextTypeOK, PTL DEF Spec

-----------------------------------------------------------------------------
(* The repository, the status file and what the program knows of both.     *)

LEMMA InitRepositoryInv == Init => RepositoryInv
  BY DEF Init, RepositoryInv, MarkersAreEarned, StatusIsTrue, MemIsTrue, FreshDirectory,
     Completed, NoDirectory, NoStatus, Storing

\* A step that leaves the repository, the manifests and both copies of the
\* status alone, and does not move on in the store, keeps the invariant.
LEMMA QuietRepository ==
  ASSUME RepositoryInv, UNCHANGED <<repo, manifests, status>>,
         \/ UNCHANGED <<pc, runId, mem>>
         \/ /\ pc' \notin Storing \cup {"stored", "archived"}
            /\ mem' \in {mem, NoStatus}
  PROVE  RepositoryInv'
  BY DEF RepositoryInv, MarkersAreEarned, StatusIsTrue, MemIsTrue, FreshDirectory,
     Completed, Storing, NoStatus

\* The same with a new summary of the run in either copy.
LEMMA SummaryRepository ==
  ASSUME TypeOK, RepositoryInv, NEW l \in {"skipped", "failure"},
         mem' = [mem EXCEPT !.last = l], status' \in {status, mem'},
         UNCHANGED <<repo, manifests>>,
         pc' \notin Storing \cup {"stored", "archived"}
  PROVE  RepositoryInv'
  <1>1. mem'.path = mem.path /\ mem'.stored = mem.stored /\ mem'.last = l
    BY DEF TypeOK, Status
  <1>2. QED
    BY <1>1 DEF RepositoryInv, MarkersAreEarned, StatusIsTrue, MemIsTrue, FreshDirectory,
       Completed, Storing

LEMMA NextRepositoryInv ==
  TypeOK /\ RunningInv /\ RepositoryInv /\ [Next]_vars => RepositoryInv'
  <1> SUFFICES ASSUME TypeOK, RunningInv, RepositoryInv, [Next]_vars
               PROVE  RepositoryInv'
    OBVIOUS
  <1> USE DEF RepositoryInv, MarkersAreEarned, StatusIsTrue, MemIsTrue, FreshDirectory,
              Completed, Storing
  <1>1. CASE Clock \/ OtherOperation \/ UNCHANGED vars
    BY <1>1, QuietRepository DEF Clock, OtherOperation, vars, files, job
  <1>2. CASE Accept \/ OwnStaging \/ CopyAndPrepare \/ Return \/ Fail \/ MakeStaging
    BY <1>2, QuietRepository DEF Accept, OwnStaging, CopyAndPrepare, Return, Fail,
       MakeStaging, Goto, files
  <1>3. CASE Cleanup \/ FailedCleanup \/ InterruptedCleanup \/ Crash
    BY <1>3, QuietRepository DEF Cleanup, FailedCleanup, InterruptedCleanup, Crash, Exit, files
  <1>4. CASE SkipPrimary
    BY <1>4, SummaryRepository DEF SkipPrimary, Goto
  <1>5. CASE RecordFailure
    BY <1>5, SummaryRepository DEF RecordFailure, Goto
  <1>6. ASSUME NEW primaryAllowed \in BOOLEAN, Lock(primaryAllowed)
        PROVE  RepositoryInv'
    <2>1. mem'.path = status.path /\ mem'.stored = FALSE
      BY <1>6 DEF Lock, TypeOK, Status
    <2>2. QED
      BY <1>6, <2>1 DEF Lock, Goto, files
  <1>7. ASSUME NEW t \in Seconds, Rot(t)
        PROVE  RepositoryInv'
    <2>1. \A u \in Seconds : /\ repo'[u].by = repo[u].by
                             /\ repo'[u].marker = repo[u].marker
                             /\ repo'[u].copy \in {repo[u].copy, "rotten"}
      BY <1>7 DEF Rot, TypeOK, Directory
    <2>2. QED
      BY <1>7, <2>1 DEF Rot, job, RunningInv
  <1>8. CASE StoreBegin
    <2>1. runId \in Seconds
      BY <1>8 DEF StoreBegin, RunningInv
    <2>2. CASE repo[runId].by # 0
      BY <1>8, <2>2, QuietRepository DEF StoreBegin
    <2>3. CASE repo[runId].by = 0
      <3>1. ~repo[runId].marker
        BY <2>1, <2>3
      <3>2. attempt \in Attempts /\ attempt # 0
        BY <1>8 DEF StoreBegin, RunningInv, Attempts
      <3>3. \A u \in Seconds \ {runId} : repo'[u] = repo[u]
        BY <1>8, <2>3 DEF StoreBegin, TypeOK
      <3>4. repo'[runId].by = attempt /\ ~repo'[runId].marker
        BY <1>8, <2>1, <2>3, <3>1 DEF StoreBegin, TypeOK, Directory
      <3>5. Completed' = Completed
        BY <3>1, <3>3, <3>4
      <3>6. runId \notin Completed /\ runId # 0
        BY <2>1, <3>1 DEF Seconds
      <3>7. MarkersAreEarned'
        BY <1>8, <2>1, <2>3, <3>1, <3>3, <3>5 DEF StoreBegin
      <3>8. QED
        BY <1>8, <2>1, <2>3, <3>2, <3>4, <3>5, <3>6, <3>7 DEF StoreBegin
    <2>4. QED
      BY <2>2, <2>3
  <1>9. CASE StoreCopy
    <2>1. runId \in Seconds
      BY <1>9 DEF StoreCopy, Goto, RunningInv
    <2>2. \A u \in Seconds : repo'[u].by = repo[u].by /\ repo'[u].marker = repo[u].marker
                             /\ (u # runId => repo'[u] = repo[u])
      BY <1>9 DEF StoreCopy, TypeOK, Directory
    <2>3. QED
      BY <1>9, <2>1, <2>2 DEF StoreCopy, Goto
  <1>10. CASE StoreMark
    <2>1. runId \in Seconds
      BY <1>10 DEF StoreMark, RunningInv
    <2>2. CASE repo[runId].copy # "good"
      BY <1>10, <2>2, QuietRepository DEF StoreMark
    <2>3. CASE repo[runId].copy = "good"
      <3>1. /\ repo'[runId] = [repo[runId] EXCEPT !.marker = TRUE]
            /\ \A u \in Seconds \ {runId} : repo'[u] = repo[u]
        BY <1>10, <2>1, <2>3 DEF StoreMark, TypeOK
      <3>2. /\ repo'[runId].by = repo[runId].by /\ repo'[runId].copy = "good"
            /\ repo'[runId].marker
        BY <2>1, <2>3, <3>1 DEF TypeOK, Directory
      <3>3. repo[runId].by # 0
        BY <1>10 DEF StoreMark, Attempts
      <3>4. Completed' = Completed \cup {runId}
        BY <2>1, <3>1, <3>2
      <3>5. MarkersAreEarned'
        <4>1. ASSUME NEW t \in Seconds, repo'[t].marker
              PROVE  repo'[t].by # 0 /\ repo'[t].copy \in {"good", "rotten"}
          <5>1. CASE t = runId
            BY <3>2, <3>3, <5>1
          <5>2. CASE t # runId
            BY <3>1, <4>1, <5>2
          <5>3. QED
            BY <5>1, <5>2
        <4>2. manifests' \subseteq Completed'
          BY <1>10, <2>3, <3>4 DEF StoreMark
        <4>3. QED
          BY <4>1, <4>2
      <3>6. pc = "copied" /\ pc' = "marked"
            /\ UNCHANGED <<manifests, status, runId, mem>>
        BY <1>10, <2>3 DEF StoreMark
      <3>7. StatusIsTrue' /\ MemIsTrue'
        BY <3>4, <3>6
      <3>8. FreshDirectory'
        BY <3>2, <3>6
      <3>9. QED
        BY <3>5, <3>7, <3>8
    <2>4. QED
      BY <2>2, <2>3
  <1>11. CASE StoreVerify
    <2>1. runId \in Seconds /\ runId # 0
      BY <1>11 DEF StoreVerify, RunningInv, Seconds
    <2>2. CASE repo[runId].copy = "good"
      <3>1. mem'.path = runId /\ mem'.stored
        BY <1>11, <2>2 DEF StoreVerify, TypeOK, Status
      <3>2. QED
        BY <1>11, <2>1, <2>2, <3>1 DEF StoreVerify
    <2>3. CASE repo[runId].copy # "good"
      <3>1. \A u \in Seconds \ {runId} : repo'[u] = repo[u]
        BY <1>11, <2>3 DEF StoreVerify, TypeOK
      <3>2. ~repo'[runId].marker
        BY <1>11, <2>1, <2>3 DEF StoreVerify, TypeOK, Directory
      <3>3. QED
        BY <1>11, <2>1, <2>3, <3>1, <3>2 DEF StoreVerify
    <2>4. QED
      BY <2>2, <2>3
  <1>12. CASE Archive
    BY <1>12 DEF Archive, Goto
  <1>13. CASE Report
    <2>1. mem'.path = mem.path /\ mem'.stored = mem.stored
      BY <1>13 DEF Report, TypeOK, Status
    <2>2. QED
      BY <1>13, <2>1 DEF Report, Goto
  <1>14. CASE Signal
    <2>1. CASE UNCHANGED repo
      BY <1>14, <2>1, QuietRepository DEF Signal
    <2>2. CASE pc = "marked" /\ repo' = [repo EXCEPT ![runId].marker = FALSE]
      <3>1. runId \in Seconds
        BY <2>2 DEF RunningInv
      <3>2. \A u \in Seconds \ {runId} : repo'[u] = repo[u]
        BY <2>2 DEF TypeOK
      <3>3. ~repo'[runId].marker
        BY <2>2, <3>1 DEF TypeOK, Directory
      <3>4. QED
        BY <1>14, <2>2, <3>1, <3>2, <3>3 DEF Signal
    <2>3. QED
      BY <1>14, <2>1, <2>2 DEF Signal
  <1>15. QED
    BY <1>1, <1>2, <1>3, <1>4, <1>5, <1>6, <1>7, <1>8, <1>9, <1>10, <1>11, <1>12,
       <1>13, <1>14 DEF Next

\* The invariant of the repository and the status file.
THEOREM RepositoryCorrect == Spec => []RepositoryInv
  BY InitRepositoryInv, NextRepositoryInv, TypeCorrect, PTL DEF Spec

\* A completion marker is only ever beside a whole and right copy, whatever
\* interrupts the store, and a binary log manifest only beside a marker.
THEOREM MarkersHold == Spec => []MarkersAreEarned
  <1>1. RepositoryInv => MarkersAreEarned
    BY DEF RepositoryInv
  <1>2. QED
    BY <1>1, RepositoryCorrect, PTL

\* The status file never names a backup that is not completed, nor a success
\* without its backup and its binary log manifest.
THEOREM StatusHolds == Spec => []StatusIsTrue
  <1>1. RepositoryInv => StatusIsTrue
    BY DEF RepositoryInv
  <1>2. QED
    BY <1>1, RepositoryCorrect, PTL

-----------------------------------------------------------------------------
(* The refinement: a backup enters the catalogue when its second           *)
(* verification ends, or when the program is interrupted after its marker. *)

Verifying(t) == pc = "marked" /\ runId = t

LEMMA SameEntries ==
  ASSUME \A t \in Seconds :
            /\ (repo'[t].marker /\ ~Verifying(t)') <=> (repo[t].marker /\ ~Verifying(t))
            /\ repo[t].marker => repo'[t].by = repo[t].by
  PROVE  UNCHANGED entries
  BY DEF entries, Completed, Verifying

\* Leaving the store with the marker in place enters the backup.
LEMMA EnterEntry ==
  ASSUME TypeOK, RunningInv, RepositoryInv, pc = "marked", pc' # "marked",
         \A t \in Seconds : repo'[t] = repo[t]
  PROVE  Catalogue!Next
  <1> DEFINE id == runId
             content == repo[runId].by
  <1>1. id \in Seconds /\ content \in Attempts /\ repo[id].marker
    BY DEF RunningInv, RepositoryInv, FreshDirectory, Storing
  <1>2. entries = {[id |-> t, content |-> repo[t].by] :
                      t \in {u \in Seconds : repo[u].marker /\ u # runId}}
    BY DEF entries, Completed
  <1>3. entries' = {[id |-> t, content |-> repo[t].by] : t \in {u \in Seconds : repo[u].marker}}
    BY DEF entries, Completed
  <1>4. entries' = entries \cup {[id |-> id, content |-> content]}
    BY <1>1, <1>2, <1>3
  <1>5. \A entry \in entries : entry.id # id
    BY <1>2
  <1>6. Catalogue!Enter(id, content)
    BY <1>4, <1>5 DEF Catalogue!Enter
  <1>7. QED
    BY <1>1, <1>6 DEF Catalogue!Next

LEMMA NextRefines ==
  TypeOK /\ RunningInv /\ RepositoryInv /\ [Next]_vars => [Catalogue!Next]_entries
  <1> SUFFICES ASSUME TypeOK, RunningInv, RepositoryInv, [Next]_vars
               PROVE  Catalogue!Next \/ UNCHANGED entries
    OBVIOUS
  <1>1. CASE UNCHANGED repo /\ pc # "marked" /\ pc' # "marked"
    BY <1>1, SameEntries DEF Verifying
  <1>2. CASE UNCHANGED <<repo, pc, runId>>
    BY <1>2, SameEntries DEF Verifying
  <1>3. CASE UNCHANGED repo /\ pc = "marked" /\ pc' # "marked"
    BY <1>3, EnterEntry
  <1>4. CASE Clock \/ OtherOperation \/ UNCHANGED vars
    BY <1>2, <1>4 DEF Clock, OtherOperation, vars, files, job
  <1>5. CASE \/ Accept \/ SkipPrimary \/ MakeStaging \/ OwnStaging \/ CopyAndPrepare
             \/ Archive \/ Report \/ Return \/ Fail \/ RecordFailure \/ Cleanup
             \/ FailedCleanup \/ InterruptedCleanup
             \/ \E primaryAllowed \in BOOLEAN : Lock(primaryAllowed)
    BY <1>1, <1>5 DEF Accept, SkipPrimary, MakeStaging, OwnStaging, CopyAndPrepare,
       Archive, Report, Return, Fail, RecordFailure, Cleanup, FailedCleanup,
       InterruptedCleanup, Lock,
       Exit, Goto, files
  <1>6. CASE Crash
    BY <1>1, <1>3, <1>6 DEF Crash, Exit, files
  <1>7. ASSUME NEW t \in Seconds, Rot(t)
        PROVE  UNCHANGED entries
    <2>1. \A u \in Seconds : /\ repo'[u].by = repo[u].by
                             /\ repo'[u].marker = repo[u].marker
      BY <1>7 DEF Rot, TypeOK, Directory
    <2>2. QED
      BY <1>7, <2>1, SameEntries DEF Rot, job, Verifying
  <1>8. CASE StoreBegin
    <2>1. CASE repo[runId].by # 0
      BY <1>1, <1>8, <2>1 DEF StoreBegin
    <2>2. CASE repo[runId].by = 0
      <3>1. runId \in Seconds /\ ~repo[runId].marker
        BY <1>8, <2>2 DEF StoreBegin, RunningInv, RepositoryInv, MarkersAreEarned, Completed
      <3>2. \A u \in Seconds \ {runId} : repo'[u] = repo[u]
        BY <1>8, <2>2 DEF StoreBegin, TypeOK
      <3>3. ~repo'[runId].marker
        BY <1>8, <2>2, <3>1 DEF StoreBegin, TypeOK, Directory
      <3>4. QED
        BY <1>8, <3>1, <3>2, <3>3, SameEntries DEF StoreBegin, Verifying
    <2>3. QED
      BY <2>1, <2>2
  <1>9. CASE StoreCopy
    <2>1. \A u \in Seconds : repo'[u].by = repo[u].by /\ repo'[u].marker = repo[u].marker
      BY <1>9 DEF StoreCopy, TypeOK, Directory
    <2>2. QED
      BY <1>9, <2>1, SameEntries DEF StoreCopy, Goto, Verifying
  <1>10. CASE StoreMark
    <2>1. CASE repo[runId].copy # "good"
      BY <1>1, <1>10, <2>1 DEF StoreMark
    <2>2. CASE repo[runId].copy = "good"
      <3>1. pc = "copied" /\ pc' = "marked" /\ runId' = runId /\ ~repo[runId].marker
        BY <1>10, <2>2 DEF StoreMark, RepositoryInv, FreshDirectory
      <3>2. \A u \in Seconds : repo'[u].by = repo[u].by
                               /\ (u # runId => repo'[u].marker = repo[u].marker)
        BY <1>10, <2>2 DEF StoreMark, TypeOK, Directory
      <3>3. QED
        BY <3>1, <3>2, SameEntries DEF Verifying
    <2>3. QED
      BY <2>1, <2>2
  <1>11. ASSUME pc = "marked", pc' # "marked",
                repo' = [repo EXCEPT ![runId].marker = FALSE]
         PROVE  UNCHANGED entries
    <2>1. \A u \in Seconds : repo'[u].by = repo[u].by
                             /\ (u # runId => repo'[u].marker = repo[u].marker)
                             /\ (u = runId => ~repo'[u].marker)
      BY <1>11 DEF TypeOK, Directory
    <2>2. QED
      BY <1>11, <2>1, SameEntries DEF Verifying
  <1>12. CASE StoreVerify
    BY <1>3, <1>11, <1>12 DEF StoreVerify
  <1>13. CASE Signal
    BY <1>1, <1>3, <1>11, <1>13 DEF Signal
  <1>14. QED
    BY <1>4, <1>5, <1>6, <1>7, <1>8, <1>9, <1>10, <1>12, <1>13 DEF Next

\* The repository is a catalogue that only grows and never replaces an entry,
\* for any number of runs, equal identifiers, failures, signals and kills.
THEOREM Implements == Spec => ImplementsCatalogue
  <1>1. Init => Catalogue!Init
    BY DEF Init, Catalogue!Init, entries, Completed, NoDirectory
  <1>2. QED
    BY <1>1, NextRefines, RepositoryCorrect, TypeCorrect, PTL
    DEF Spec, ImplementsCatalogue, Catalogue!Spec

-----------------------------------------------------------------------------
(* The staging directories.                                                *)

\* What is in staging was made by this run or an earlier one; the directory that
\* the program regards as its own is; and where nothing was ever disturbed there
\* is none but the one that the program is about to clean up.
StagingInv ==
    /\ \A t \in Seconds : staging[t] <= attempt
    /\ pc = "idle" => ~owned
    /\ pc = "made" \/ owned => runId \in Seconds /\ staging[runId] = attempt
    /\ ~disturbed => \A t \in Seconds :
           staging[t] # 0 => t = runId /\ (pc = "made" \/ owned)
    /\ pc \in {"locked", "ready"} => ~owned

LEMMA NextStaging == TypeOK /\ RunningInv /\ StagingInv /\ [Next]_vars => StagingInv'
  <1> SUFFICES ASSUME TypeOK, RunningInv, StagingInv, [Next]_vars
               PROVE  StagingInv'
    OBVIOUS
  <1> USE DEF StagingInv, files, job
  <1>1. attempt \in Nat /\ \A t \in Seconds : staging[t] \in Nat
    BY BoundsAssumption DEF TypeOK
  <1>2. CASE Clock \/ OtherOperation \/ UNCHANGED vars \/ \E t \in Seconds : Rot(t)
    BY <1>2 DEF Clock, OtherOperation, Rot, vars
  <1>3. ASSUME NEW primaryAllowed \in BOOLEAN, Lock(primaryAllowed)
        PROVE  StagingInv'
    <2>1. attempt' = attempt + 1 /\ pc = "idle" /\ pc' = "locked"
          /\ UNCHANGED <<staging, runId, owned, disturbed>>
      BY <1>3 DEF Lock, Goto
    <2>2. \A t \in Seconds : staging'[t] <= attempt'
      BY <1>1, <2>1
    <2>3. QED
      BY <2>1, <2>2
  <1>4. CASE Accept \/ CopyAndPrepare \/ Return \/ Fail \/ SkipPrimary \/ StoreBegin
             \/ StoreCopy \/ StoreMark \/ StoreVerify \/ Archive \/ Report \/ RecordFailure
    <2>1. /\ UNCHANGED <<staging, runId, owned, disturbed, attempt>>
          /\ pc \notin {"idle", "made"} /\ pc' \notin {"idle", "made"}
          /\ pc' \in {"locked", "ready"} => pc \in {"locked", "ready"}
      BY <1>4 DEF Accept, CopyAndPrepare, Return, Fail, SkipPrimary, StoreBegin, StoreCopy,
         StoreMark, StoreVerify, Archive, Report, RecordFailure, Goto
    <2>2. QED
      BY <2>1
  <1>5. CASE MakeStaging
    <2>1. /\ pc = "ready" /\ ~owned /\ runId' = now /\ now \in Seconds
          /\ UNCHANGED <<owned, disturbed, attempt>>
      BY <1>5 DEF MakeStaging, TypeOK
    <2>2. CASE staging[now] = 0 /\ staging' = [staging EXCEPT ![now] = attempt] /\ pc' = "made"
      BY <1>1, <2>1, <2>2 DEF TypeOK
    <2>3. CASE staging' = staging /\ pc' = "failing"
      BY <2>1, <2>3
    <2>4. QED
      BY <1>5, <2>2, <2>3 DEF MakeStaging
  <1>6. CASE OwnStaging
    BY <1>6 DEF OwnStaging, Goto
  <1>7. CASE Cleanup
    <2>1. pc' = "idle" /\ owned' = FALSE /\ attempt' = attempt /\ disturbed' = disturbed
      BY <1>7 DEF Cleanup, Exit
    <2>2. CASE owned
      <3>1. runId \in Seconds /\ staging' = [staging EXCEPT ![runId] = 0]
        BY <1>7, <2>2 DEF Cleanup
      <3>2. QED
        BY <1>1, <2>1, <2>2, <3>1 DEF TypeOK
    <2>3. CASE ~owned
      BY <1>7, <2>1, <2>3 DEF Cleanup
    <2>4. QED
      BY <2>2, <2>3
  <1>8. CASE FailedCleanup \/ InterruptedCleanup \/ Crash
    BY <1>8 DEF FailedCleanup, InterruptedCleanup, Crash, Exit
  <1>9. CASE Signal
    <2>1. /\ UNCHANGED <<staging, runId, owned, attempt>> /\ disturbed' = TRUE
          /\ pc' \in {"failing", "cleanup"}
      BY <1>9 DEF Signal
    <2>2. QED
      BY <2>1
  <1>10. QED
    BY <1>2, <1>3, <1>4, <1>5, <1>6, <1>7, <1>8, <1>9 DEF Next

THEOREM StagingCorrect == Spec => []StagingInv
  <1>1. Init => StagingInv
    BY BoundsAssumption DEF Init, StagingInv
  <1>2. QED
    BY <1>1, NextStaging, TypeCorrect, PTL DEF Spec

\* A run that nothing interrupts removes its staging directory, whatever fails
\* in it (the finally of main).
THEOREM ErrorsCleanUp == Spec => []ErrorsLeaveNoStaging
  <1>1. StagingInv => ErrorsLeaveNoStaging
    BY DEF StagingInv, ErrorsLeaveNoStaging
  <1>2. QED
    BY <1>1, StagingCorrect, PTL

\* What an interrupted run left in staging is never removed or reused, even by
\* a run that is given the same second (mkdir(exist_ok=False)).
THEOREM ForeignIsKept == Spec => ForeignStagingIsKept
  <1>1. TypeOK /\ StagingInv /\ [Next]_vars =>
            [\A t \in Seconds :
                staging[t] \notin {0, attempt} => staging'[t] = staging[t]]_vars
    <2> SUFFICES ASSUME TypeOK, StagingInv, Next,
                        NEW t \in Seconds, staging[t] \notin {0, attempt}
                 PROVE  staging'[t] = staging[t]
      OBVIOUS
    <2>1. CASE MakeStaging
      BY <2>1 DEF MakeStaging, TypeOK
    <2>2. CASE Cleanup
      BY <2>2 DEF Cleanup, StagingInv, TypeOK
    <2>3. CASE staging' = staging
      BY <2>3
    <2>4. QED
      BY <2>1, <2>2, <2>3
      DEF Next, files, job, Clock, OtherOperation, Rot, Lock, Accept, SkipPrimary, OwnStaging,
          CopyAndPrepare, StoreBegin, StoreCopy, StoreMark, StoreVerify, Archive, Report,
          Return, Fail, RecordFailure, FailedCleanup, InterruptedCleanup, Signal, Crash
  <1>2. QED
    BY <1>1, StagingCorrect, TypeCorrect, PTL DEF Spec, ForeignStagingIsKept

\* docs/mysql-platform.md:113, "Staging is removed after each attempt": true of
\* every attempt, whatever step fails in it, where no signal and no kill reaches
\* the program and directories can be removed.  That it is not true with a
\* signal is what a run shows.
THEOREM StagingIsRemovedUndisturbed ==
    ~MaySignal /\ ~MayCrash /\ ~RemovalMayFail => (Spec => []StagingIsRemoved)
  <1> SUFFICES ASSUME ~MaySignal, ~MayCrash, ~RemovalMayFail
               PROVE  Spec => []StagingIsRemoved
    OBVIOUS
  <1>1. Init => ~disturbed
    BY DEF Init
  <1>2. ~disturbed /\ [Next]_vars => ~disturbed'
    BY DEF Next, vars, files, job, Clock, OtherOperation, Rot, Lock, Accept, SkipPrimary,
       MakeStaging, OwnStaging, CopyAndPrepare, StoreBegin, StoreCopy, StoreMark,
       StoreVerify, Archive, Report, Return, Fail, RecordFailure, Cleanup,
       FailedCleanup, InterruptedCleanup, Signal, Crash
  <1>3. ErrorsLeaveNoStaging /\ ~disturbed => StagingIsRemoved
    BY DEF ErrorsLeaveNoStaging, StagingIsRemoved
  <1>4. QED
    BY <1>1, <1>2, <1>3, ErrorsCleanUp, PTL DEF Spec

=============================================================================
