-------------------------- MODULE RestoreTestProofs --------------------------
(***************************************************************************)
(* Proofs about BinlogArchive and RestoreTest for any bounds.  That a      *)
(* replay is complete rests on the logs: closed one after another, no      *)
(* transaction lies between two of them, a baseline is where its log is,   *)
(* and a manifest reaches beyond the flush of its run.  That a success is  *)
(* earned and that nothing is left behind rest on the test: what its       *)
(* variables say of its unit, its directories and the bytes in them, step  *)
(* by step.                                                                *)
(***************************************************************************)
EXTENDS RestoreTest, TLAPS

-----------------------------------------------------------------------------
(* The logs.                                                               *)

\* The program gives up, or loses its power.
Abandon ==
    /\ step' = "idle" /\ listed' = {} /\ todo' = {}
    /\ UNCHANGED <<sourceVars, archiveVars, backups>>

LogStep ==
    \/ Commit \/ Rotate \/ Purge \/ (\E l : RotLog(l))
    \/ Begin \/ Store \/ Flush \/ List \/ ArchiveLog \/ WriteManifest
    \/ Abandon \/ UNCHANGED logVars

\* A run flushes once, and the source stops rotating of itself in time.
LenBound ==
    /\ step # "idle" => backups >= 1
    /\ Len(closed) <= MaxClosed + backups
    /\ step \in {"begun", "stored"} => Len(closed) < MaxClosed + backups

\* The transactions before log l.
Before(l) == IF l = 1 THEN 0 ELSE closed[l - 1]

ClosedInOrder ==
    /\ \A l \in 1..Len(closed) : Before(l) <= closed[l] /\ closed[l] <= committed
    /\ \A k, l \in 1..Len(closed) : k <= l => closed[k] <= closed[l]

\* What was committed since log k was opened is in one of the logs since.
NoHoles ==
    \A k, l \in 1..Len(closed) :
        \A t \in (Before(k) + 1)..closed[l] : \E m \in k..l : t \in InLog(m)

\* A baseline lies in the log it names.
BaselineFits ==
    \A b \in Completed :
        /\ baseline[b].log > 1 => closed[baseline[b].log - 1] <= baseline[b].count
        /\ baseline[b].log <= Len(closed) => baseline[b].count <= closed[baseline[b].log]

\* Logs one after another, up to the flush of run b or beyond it.
Reaches(logs, b) ==
    logs # {} =>
        \E first, last \in 1..Len(closed) :
            logs = first..last /\ first <= last /\ flushed[b] <= closed[last]

ManifestsReach ==
    /\ \A b \in Backups : Reaches(manifests[b].logs, b)
    /\ step = "flushed" => Len(closed) # 0 /\ flushed[backups] <= closed[Len(closed)]
    /\ step = "copying" => Reaches(listed, backups)

\* What a run has not written yet.
Fresh ==
    \A b \in Backups :
        /\ b > backups => baseline[b].log = 0 /\ manifests[b].logs = {}
        /\ b = backups /\ step = "begun" => baseline[b].log = 0
        /\ b = backups /\ step \in {"begun", "stored"} => manifests[b].logs = {}

LogInv == LenBound /\ ClosedInOrder /\ NoHoles /\ BaselineFits /\ ManifestsReach /\ Fresh

\* The numbers among the variables.
LEMMA LogNumbers ==
  ASSUME LogTypeOK
  PROVE  /\ MaxTransactions \in Nat /\ MaxClosed \in Nat /\ MaxBackups \in Nat
         /\ Len(closed) \in Nat /\ committed \in Nat /\ backups \in Nat /\ oldest \in Nat
         /\ \A l \in 1..Len(closed) : closed[l] \in Nat
         /\ \A b \in Backups : /\ baseline[b].log \in Nat /\ baseline[b].count \in Nat
                               /\ baseline[b].count <= committed
                               /\ baseline[b].log <= Len(closed) + 1
                               /\ flushed[b] \in Nat /\ flushed[b] <= committed
  <1>1. MaxTransactions \in Nat /\ MaxClosed \in Nat /\ MaxBackups \in Nat
    BY ArchiveAssumption
  <1>2. Len(closed) \in Nat /\ committed \in Nat /\ backups \in Nat /\ oldest \in Nat
    BY <1>1 DEF LogTypeOK
  <1>3. \A l \in 1..Len(closed) : closed[l] \in Nat
    BY <1>1 DEF LogTypeOK
  <1>4. ASSUME NEW b \in Backups
        PROVE  /\ baseline[b] \in [log: 0..Len(closed) + 1, count: 0..committed]
               /\ flushed[b] \in 0..committed
    BY <1>1 DEF LogTypeOK
  <1>5. QED
    BY <1>1, <1>2, <1>3, <1>4

\* What closing the active log does to the sequence of closed ones.
LEMMA Closing ==
  ASSUME LogTypeOK, closed' = Append(closed, committed)
  PROVE  /\ Len(closed) \in Nat /\ Len(closed') = Len(closed) + 1
         /\ closed' \in Seq(0..MaxTransactions)
         /\ \A l \in 1..Len(closed) : closed'[l] = closed[l]
         /\ closed'[Len(closed) + 1] = committed
  BY DEF LogTypeOK

LEMMA LogInitInv == LogInit => LogTypeOK /\ LogInv
  <1> SUFFICES ASSUME LogInit PROVE LogTypeOK /\ LogInv
    OBVIOUS
  <1> USE ArchiveAssumption DEF LogInit
  <1>1. Len(closed) = 0 /\ closed \in Seq(0..MaxTransactions) /\ 1..Len(closed) = {}
    OBVIOUS
  <1>2. LogTypeOK
    BY <1>1 DEF LogTypeOK, Backups, Logs, NoBaseline, NoManifest
  <1>3. LogInv
    BY <1>1 DEF LogInv, LenBound, ClosedInOrder, NoHoles, BaselineFits, Completed,
                ManifestsReach, Reaches, Fresh, NoBaseline, NoManifest
  <1>4. QED
    BY <1>2, <1>3

\* The types of what a run writes grow with the logs and the transactions.
LEMMA Grown ==
  ASSUME LogTypeOK, committed' \in Nat, committed <= committed',
         Len(closed') \in Nat, Len(closed) <= Len(closed')
  PROVE  /\ baseline \in [Backups -> [log: 0..Len(closed') + 1, count: 0..committed']]
         /\ flushed \in [Backups -> 0..committed']
         /\ oldest \in 1..(Len(closed') + 1)
  <1>1. Len(closed) \in Nat /\ committed \in Nat
    BY DEF LogTypeOK
  <1>2. 0..Len(closed) + 1 \subseteq 0..Len(closed') + 1 /\ 0..committed \subseteq 0..committed'
    BY <1>1
  <1>3. \A b \in Backups : baseline[b] \in [log: 0..Len(closed') + 1, count: 0..committed']
    BY <1>2 DEF LogTypeOK
  <1>4. QED
    BY <1>1, <1>2, <1>3 DEF LogTypeOK

LEMMA LogStepTypeOK ==
  ASSUME LogTypeOK, LenBound, LogStep PROVE LogTypeOK' /\ LenBound'
  <1> USE ArchiveAssumption DEF sourceVars, archiveVars, backupVars
  <1>0. Len(closed) \in Nat /\ committed \in Nat /\ backups \in Nat /\ bounds \in Bounds
    BY DEF LogTypeOK
  <1>1. CASE Commit
    <2>1. committed' = committed + 1 /\ committed' \in 0..MaxTransactions
      BY <1>0, <1>1 DEF Commit, LogTypeOK
    <2>2. UNCHANGED <<bounds, closed, oldest, archiveVars, backupVars>>
      BY <1>1 DEF Commit
    <2>3. QED
      BY <1>0, <2>1, <2>2, Grown DEF LogTypeOK, LenBound
  <1>2. CASE Rotate
    <2>1. Len(closed) < MaxClosed
      BY <1>0, <1>2 DEF Rotate
    <2>2. closed' = Append(closed, committed)
          /\ UNCHANGED <<bounds, committed, oldest, archiveVars, backupVars>>
      BY <1>2 DEF Rotate
    <2>3. closed' \in Seq(0..MaxTransactions) /\ Len(closed') = Len(closed) + 1
      BY <2>2, Closing
    <2>4. LenBound'
      BY <1>0, <2>1, <2>2, <2>3 DEF LenBound
    <2>5. Len(closed') <= MaxClosed + MaxBackups
      BY <1>0, <2>1, <2>3
    <2>6. QED
      BY <1>0, <2>2, <2>3, <2>4, <2>5, Grown DEF LogTypeOK
  <1>3. CASE Purge
    BY <1>0, <1>3 DEF Purge, LogTypeOK, LenBound
  <1>4. CASE \E l : RotLog(l)
    BY <1>0, <1>4 DEF RotLog, LogTypeOK, LenBound
  <1>5. CASE Begin
    <2>1. backups' \in 0..MaxBackups
      BY <1>0, <1>5 DEF Begin, LogTypeOK
    <2>2. LenBound'
      BY <1>0, <1>5 DEF Begin, LogTypeOK, LenBound
    <2>3. QED
      BY <1>5, <2>1, <2>2 DEF Begin, LogTypeOK
  <1>6. CASE Store
    <2>1. [log |-> Len(closed) + 1, count |-> committed]
            \in [log: 0..Len(closed) + 1, count: 0..committed]
      BY <1>0
    <2>2. baseline' \in [Backups -> [log: 0..Len(closed) + 1, count: 0..committed]]
      BY <1>6, <2>1 DEF Store, LogTypeOK
    <2>3. QED
      BY <1>0, <1>6, <2>2 DEF Store, LogTypeOK, LenBound
  <1>7. CASE Flush
    <2>1. closed' = Append(closed, committed)
          /\ UNCHANGED <<bounds, committed, oldest, archived, manifests, baseline,
                         backups, listed, todo>>
          /\ step = "stored" /\ step' = "flushed"
      BY <1>7 DEF Flush
    <2>2. closed' \in Seq(0..MaxTransactions) /\ Len(closed') = Len(closed) + 1
      BY <2>1, Closing
    <2>3. flushed' \in [Backups -> 0..committed]
      <3>1. flushed \in [Backups -> 0..committed] /\ committed \in 0..committed
        BY <1>0 DEF LogTypeOK
      <3>2. QED
        BY <1>7, <3>1 DEF Flush
    <2>4. LenBound'
      BY <1>0, <2>1, <2>2 DEF LenBound
    <2>5. Len(closed') <= MaxClosed + MaxBackups
      BY <1>0, <2>1, <2>2, <2>4 DEF LenBound, LogTypeOK
    <2>6. QED
      BY <1>0, <2>1, <2>2, <2>3, <2>4, <2>5, Grown DEF LogTypeOK
  <1>8. CASE List
    <2>1. oldest..Len(closed) \subseteq Logs
      BY <1>0 DEF LogTypeOK, Logs
    <2>2. QED
      BY <1>0, <1>8, <2>1 DEF List, LogTypeOK, LenBound
  <1>9. CASE ArchiveLog
    BY <1>0, <1>9 DEF ArchiveLog, LogTypeOK, LenBound
  <1>10. CASE WriteManifest
    BY <1>0, <1>10 DEF WriteManifest, LogTypeOK, LenBound
  <1>11. CASE Abandon
    BY <1>0, <1>11 DEF Abandon, LogTypeOK, LenBound
  <1>12. CASE UNCHANGED logVars
    BY <1>12 DEF logVars, LogTypeOK, LenBound
  <1>13. QED
    BY <1>1, <1>2, <1>3, <1>4, <1>5, <1>6, <1>7, <1>8, <1>9, <1>10, <1>11, <1>12 DEF LogStep

-----------------------------------------------------------------------------
(* A step that closes no log, and one that does.                           *)

\* The logs only change where the active one is closed.
LEMMA QuietLogs ==
  ASSUME LogTypeOK, ClosedInOrder, NoHoles, closed' = closed,
         committed' \in Nat, committed <= committed'
  PROVE  ClosedInOrder' /\ NoHoles'
  <1>1. ClosedInOrder'
    BY LogNumbers DEF ClosedInOrder, Before
  <1>2. NoHoles'
    BY DEF NoHoles, Before, InLog
  <1>3. QED
    BY <1>1, <1>2

LEMMA ClosingLogs ==
  ASSUME LogTypeOK, ClosedInOrder, NoHoles, closed' = Append(closed, committed),
         committed' = committed
  PROVE  ClosedInOrder' /\ NoHoles'
  <1>0. PICK n \in Nat : n = Len(closed) + 1
    BY LogNumbers
  <1>1. /\ n \in Nat \ {0} /\ n = Len(closed) + 1 /\ Len(closed') = n /\ closed'[n] = committed
        /\ \A l \in 1..Len(closed) : closed'[l] = closed[l]
        /\ \A l \in 1..Len(closed) : closed[l] \in Nat
        /\ committed \in Nat /\ Len(closed) \in Nat
    BY <1>0, LogNumbers, Closing
  <1>2. \A l \in 1..Len(closed) : Before(l)' = Before(l) /\ Before(l) \in Nat
    BY <1>1 DEF Before
  <1>3. Before(n)' <= committed /\ Before(n)' \in Nat
    BY <1>1 DEF Before, ClosedInOrder
  <1>4. \A l \in 1..n : l \in 1..Len(closed) \/ l = n
    BY <1>1
  <1>5. ClosedInOrder'
    <2>1. \A l \in 1..n : Before(l)' <= closed'[l] /\ closed'[l] <= committed
      BY <1>1, <1>2, <1>3, <1>4 DEF ClosedInOrder
    <2>2. \A k, l \in 1..n : k <= l => closed'[k] <= closed'[l]
      BY <1>1, <1>4 DEF ClosedInOrder
    <2>3. QED
      BY <1>1, <2>1, <2>2 DEF ClosedInOrder
  <1>6. NoHoles'
    <2> SUFFICES ASSUME NEW k \in 1..n, NEW l \in 1..n,
                        NEW t \in (Before(k)' + 1)..closed'[l]
                 PROVE  \E m \in k..l : t \in InLog(m)'
      BY <1>1 DEF NoHoles
    <2>1. \A m \in 1..n : InLog(m)' = (Before(m)' + 1)..closed'[m]
      BY DEF InLog, Before
    <2>2. \A m \in 1..Len(closed) : InLog(m)' = InLog(m)
      BY <1>1, <1>2, <2>1 DEF InLog, Before
    <2>3. CASE l # n /\ k # n
      <3>1. k \in 1..Len(closed) /\ l \in 1..Len(closed)
        BY <1>4, <2>3
      <3>2. t \in (Before(k) + 1)..closed[l]
        BY <1>1, <1>2, <3>1
      <3>3. PICK m \in k..l : t \in InLog(m)
        BY <3>1, <3>2 DEF NoHoles
      <3>4. m \in 1..Len(closed)
        BY <1>1, <3>1
      <3>5. QED
        BY <2>2, <3>3, <3>4
    <2>4. CASE k = n /\ l # n
      BY <1>1, <1>3, <1>4, <2>4 DEF ClosedInOrder, Before
    <2>5. CASE l = n /\ t > Before(n)'
      <3>1. t \in InLog(n)'
        BY <1>1, <1>2, <1>3, <1>4, <2>1, <2>5
      <3>2. n \in k..l
        BY <1>1, <2>5
      <3>3. QED
        BY <3>1, <3>2
    <2>6. CASE l = n /\ k # n /\ ~(t > Before(n)')
      <3>1. k \in 1..Len(closed) /\ Len(closed) # 0 /\ Before(n)' = closed[Len(closed)]
        BY <1>1, <1>4, <2>6 DEF Before
      <3>2. t \in (Before(k) + 1)..closed[Len(closed)]
        BY <1>1, <1>2, <1>3, <2>6, <3>1
      <3>3. PICK m \in k..Len(closed) : t \in InLog(m)
        BY <1>1, <3>1, <3>2 DEF NoHoles
      <3>4. m \in k..l /\ m \in 1..Len(closed)
        BY <1>1, <2>6, <3>1
      <3>5. QED
        BY <2>2, <3>3, <3>4
    <2>7. CASE l = n /\ k = n
      BY <1>1, <1>3, <2>5, <2>7
    <2>8. QED
      BY <2>3, <2>4, <2>5, <2>6, <2>7
  <1>7. QED
    BY <1>5, <1>6

\* A step that closes no log may write a baseline and a manifest.
LEMMA LogStepOrder ==
  ASSUME LogTypeOK, LogTypeOK', ClosedInOrder, NoHoles, LogStep
  PROVE  ClosedInOrder' /\ NoHoles'
  <1> USE DEF sourceVars, archiveVars
  <1>1. CASE Rotate
    BY <1>1, ClosingLogs DEF Rotate
  <1>2. CASE Flush
    BY <1>2, ClosingLogs DEF Flush
  <1>3. CASE ~Rotate /\ ~Flush
    <2>1. committed \in Nat /\ committed' \in Nat
      BY LogNumbers, ArchiveAssumption DEF LogTypeOK
    <2>2. closed' = closed /\ committed <= committed'
      BY <1>3, <2>1 DEF LogStep, Commit, Purge, RotLog, Begin, Store, List, ArchiveLog,
                   WriteManifest, Abandon, logVars
    <2>3. QED
      BY <2>1, <2>2, QuietLogs
  <1>4. QED
    BY <1>1, <1>2, <1>3

LEMMA LogStepBaseline ==
  ASSUME LogTypeOK, LogTypeOK', ClosedInOrder, BaselineFits, LogStep
  PROVE  BaselineFits'
  <1> USE LogNumbers DEF sourceVars, archiveVars, BaselineFits, Completed, Backups
  <1>1. ASSUME closed' = Append(closed, committed), baseline' = baseline
        PROVE  BaselineFits'
    <2> SUFFICES ASSUME NEW b \in Backups, baseline[b].log # 0
                 PROVE  /\ baseline[b].log > 1 =>
                             closed'[baseline[b].log - 1] <= baseline[b].count
                        /\ baseline[b].log <= Len(closed') =>
                             baseline[b].count <= closed'[baseline[b].log]
      BY <1>1
    <2>1. /\ Len(closed') = Len(closed) + 1
          /\ \A l \in 1..Len(closed) : closed'[l] = closed[l]
          /\ closed'[Len(closed) + 1] = committed
      BY <1>1, Closing
    <2>2. /\ baseline[b].log \in Nat /\ baseline[b].count <= committed
          /\ baseline[b].log <= Len(closed) + 1 /\ Len(closed) \in Nat
          /\ baseline[b].log > 1 => closed[baseline[b].log - 1] <= baseline[b].count
          /\ baseline[b].log <= Len(closed) =>
                baseline[b].count <= closed[baseline[b].log]
      BY DEF BaselineFits
    <2>3. baseline[b].log > 1 => closed'[baseline[b].log - 1] <= baseline[b].count
      <3>1. baseline[b].log > 1 => baseline[b].log - 1 \in 1..Len(closed)
        BY <2>2
      <3>2. QED
        BY <2>1, <2>2, <3>1
    <2>4. CASE baseline[b].log <= Len(closed)
      <3>1. baseline[b].log \in 1..Len(closed)
        BY <2>2, <2>4
      <3>2. QED
        BY <2>1, <2>2, <2>3, <2>4, <3>1
    <2>5. CASE baseline[b].log = Len(closed) + 1
      BY <2>1, <2>2, <2>3, <2>5
    <2>6. QED
      BY <2>2, <2>4, <2>5
  <1>2. CASE Rotate
    BY <1>1, <1>2 DEF Rotate
  <1>3. CASE Flush
    BY <1>1, <1>3 DEF Flush
  <1>4. CASE Store
    <2>1. UNCHANGED closed /\ \A b \in Backups :
             baseline'[b] = IF b = backups THEN [log |-> Len(closed) + 1, count |-> committed]
                            ELSE baseline[b]
      BY <1>4 DEF Store, LogTypeOK
    <2>2. Len(closed) \in Nat /\ (Len(closed) >= 1 => closed[Len(closed)] <= committed)
      BY DEF ClosedInOrder
    <2>3. ASSUME NEW b \in Backups, baseline'[b].log # 0
          PROVE  /\ baseline'[b].log > 1 =>
                      closed[baseline'[b].log - 1] <= baseline'[b].count
                 /\ baseline'[b].log <= Len(closed) =>
                      baseline'[b].count <= closed[baseline'[b].log]
      <3>1. CASE b = backups
        BY <2>1, <2>2, <3>1
      <3>2. CASE b # backups
        BY <2>1, <2>3, <3>2
      <3>3. QED
        BY <3>1, <3>2
    <2>4. QED
      BY <2>1, <2>3
  <1>5. CASE ~Rotate /\ ~Flush /\ ~Store
    <2>1. closed' = closed /\ baseline' = baseline
      BY <1>5 DEF LogStep, Commit, Purge, RotLog, Begin, List, ArchiveLog,
                   WriteManifest, Abandon, logVars
    <2>2. QED
      BY <2>1
  <1>6. QED
    BY <1>2, <1>3, <1>4, <1>5

\* What a manifest reaches it still reaches when more logs are closed.
LEMMA StillReaches ==
  ASSUME LogTypeOK, NEW b \in Backups, NEW logs, Reaches(logs, b),
         flushed'[b] = flushed[b],
         closed' = closed \/ closed' = Append(closed, committed)
  PROVE  logs # {} => \E first, last \in 1..Len(closed') :
            logs = first..last /\ first <= last /\ flushed'[b] <= closed'[last]
  <1> SUFFICES ASSUME logs # {}
               PROVE  \E first, last \in 1..Len(closed') :
                         logs = first..last /\ first <= last /\ flushed'[b] <= closed'[last]
    OBVIOUS
  <1>1. PICK first \in 1..Len(closed), last \in 1..Len(closed) :
           logs = first..last /\ first <= last /\ flushed[b] <= closed[last]
    BY DEF Reaches
  <1>2. first \in 1..Len(closed') /\ last \in 1..Len(closed') /\ closed'[last] = closed[last]
    BY Closing, LogNumbers
  <1>3. QED
    BY <1>1, <1>2

LEMMA LogStepManifests ==
  ASSUME LogTypeOK, LogTypeOK', LenBound, ClosedInOrder, Fresh, ManifestsReach, LogStep
  PROVE  ManifestsReach'
  <1> USE LogNumbers DEF sourceVars, archiveVars, ManifestsReach
  <1>1. backups >= 1 => backups \in Backups
    BY DEF LogTypeOK, Backups
  <1>2. CASE Flush
    <2>1. closed' = Append(closed, committed) /\ manifests' = manifests
          /\ backups' = backups /\ step = "stored" /\ step' = "flushed"
          /\ flushed' = [flushed EXCEPT ![backups] = committed]
      BY <1>2 DEF Flush
    <2>2. backups \in Backups /\ manifests[backups].logs = {}
      BY <1>1, <2>1 DEF LenBound, Fresh
    <2>3. ASSUME NEW b \in Backups PROVE Reaches(manifests[b].logs, b)'
      <3>1. CASE b = backups
        BY <2>1, <2>2, <3>1 DEF Reaches
      <3>2. CASE b # backups
        <4>1. flushed'[b] = flushed[b] /\ Reaches(manifests[b].logs, b)
          BY <2>1, <2>3, <3>2 DEF LogTypeOK
        <4>2. manifests[b].logs # {} => \E first, last \in 1..Len(closed') :
                 /\ manifests[b].logs = first..last /\ first <= last
                 /\ flushed'[b] <= closed'[last]
          BY <2>1, <4>1, StillReaches
        <4>3. QED
          BY <2>1, <4>2 DEF Reaches
      <3>3. QED
        BY <3>1, <3>2
    <2>4. flushed'[backups] <= closed'[Len(closed')] /\ Len(closed') # 0
      <3>1. Len(closed') = Len(closed) + 1 /\ closed'[Len(closed')] = committed
        BY <2>1 DEF LogTypeOK
      <3>2. flushed'[backups] = committed
        BY <2>1, <2>2 DEF LogTypeOK
      <3>3. committed \in Nat /\ Len(closed) \in Nat
        BY DEF LogTypeOK
      <3>4. QED
        BY <3>1, <3>2, <3>3
    <2>5. QED
      BY <2>1, <2>3, <2>4
  <1>3. CASE Rotate
    <2>1. closed' = Append(closed, committed)
          /\ UNCHANGED <<manifests, flushed, backups, step, listed>>
      BY <1>3 DEF Rotate, backupVars
    <2>2. \A b \in Backups : Reaches(manifests[b].logs, b)'
      BY <2>1, StillReaches DEF Reaches
    <2>3. step = "copying" => Reaches(listed, backups)'
      BY <1>1, <2>1, StillReaches DEF Reaches, LenBound
    <2>4. step = "flushed" => flushed[backups] <= committed
      BY <1>1 DEF LenBound
    <2>5. QED
      BY <2>1, <2>2, <2>3, <2>4, Closing
  <1>4. CASE List
    <2>1. step = "flushed" /\ step' = "copying" /\ listed' = oldest..Len(closed)
          /\ UNCHANGED <<closed, manifests, flushed, backups>>
      BY <1>4 DEF List
    <2>2. Reaches(listed, backups)'
      <3>1. oldest \in Nat /\ oldest >= 1 /\ Len(closed) \in Nat /\ Len(closed) # 0
        BY <2>1 DEF LogTypeOK
      <3>2. CASE oldest > Len(closed)
        BY <2>1, <3>1, <3>2 DEF Reaches
      <3>3. CASE oldest <= Len(closed)
        <4>1. oldest \in 1..Len(closed) /\ Len(closed) \in 1..Len(closed)
          BY <3>1, <3>3
        <4>2. flushed[backups] <= closed[Len(closed)]
          BY <2>1
        <4>3. QED
          BY <2>1, <3>3, <4>1, <4>2 DEF Reaches
      <3>4. QED
        BY <3>1, <3>2, <3>3
    <2>3. \A b \in Backups : Reaches(manifests[b].logs, b)'
      BY <2>1 DEF Reaches
    <2>4. QED
      BY <2>1, <2>2, <2>3
  <1>5. CASE WriteManifest
    <2>1. step = "copying" /\ step' = "archived" /\ UNCHANGED <<closed, flushed, backups>>
      BY <1>5 DEF WriteManifest
    <2>2. backups \in Backups
      BY <1>1, <2>1 DEF LenBound
    <2>3. \A b \in Backups :
             manifests'[b].logs = IF b = backups THEN listed ELSE manifests[b].logs
      BY <1>5 DEF WriteManifest, LogTypeOK
    <2>4. QED
      BY <2>1, <2>2, <2>3 DEF Reaches
  <1>6. CASE ~Flush /\ ~Rotate /\ ~List /\ ~WriteManifest
    <2>1. /\ UNCHANGED <<closed, manifests, flushed>>
          /\ step' \notin {"flushed", "copying"} \/ UNCHANGED <<step, listed, backups>>
      BY <1>6 DEF LogStep, Commit, Purge, RotLog, Begin, Store, ArchiveLog, Abandon,
                  backupVars, logVars
    <2>2. QED
      BY <2>1 DEF Reaches
  <1>7. QED
    BY <1>2, <1>3, <1>4, <1>5, <1>6

LEMMA LogStepFresh ==
  ASSUME LogTypeOK, LogTypeOK', LenBound, Fresh, LogStep
  PROVE  Fresh'
  <1> USE LogNumbers DEF sourceVars, archiveVars, backupVars, Fresh, Backups
  <1>1. CASE Begin
    BY <1>1 DEF Begin
  <1>2. CASE Store
    <2>1. \A b \in Backups : b # backups => baseline'[b] = baseline[b]
      BY <1>2 DEF Store, LogTypeOK
    <2>2. QED
      BY <1>2, <2>1 DEF Store
  <1>3. CASE WriteManifest
    <2>1. \A b \in Backups : b # backups => manifests'[b] = manifests[b]
      BY <1>3 DEF WriteManifest, LogTypeOK
    <2>2. QED
      BY <1>3, <2>1 DEF WriteManifest
  <1>4. CASE ~Begin /\ ~Store /\ ~WriteManifest
    <2>1. /\ UNCHANGED <<baseline, manifests, backups>>
          /\ step' \notin {"begun", "stored"} \/ UNCHANGED step
      BY <1>4 DEF LogStep, Commit, Rotate, Purge, RotLog, Flush, List, ArchiveLog,
                  Abandon, logVars
    <2>2. QED
      BY <2>1
  <1>5. QED
    BY <1>1, <1>2, <1>3, <1>4

LEMMA LogStepInv ==
  ASSUME LogTypeOK, LogInv, LogStep PROVE LogTypeOK' /\ LogInv'
  BY LogStepTypeOK, LogStepOrder, LogStepBaseline, LogStepManifests, LogStepFresh DEF LogInv

-----------------------------------------------------------------------------
(* What a replay recovers.                                                 *)

\* A replay r on top of backup b has no hole and reaches the flush of its run.
Recovers(r, b) ==
    r.done =>
        /\ b \in Completed
        /\ LET recovered == (1..baseline[b].count) \cup r.txns
           IN /\ 1..flushed[b] \subseteq recovered
              /\ \A t \in recovered : 1..t \subseteq recovered

LEMMA MaxOfInterval ==
  ASSUME NEW first \in Nat, NEW last \in Nat, first <= last
  PROVE  Max(first..last) = last
  <1>1. last \in first..last /\ \A y \in first..last : last >= y
    OBVIOUS
  <1>2. \A x \in first..last : (\A y \in first..last : x >= y) => x = last
    <2> SUFFICES ASSUME NEW x \in first..last, \A y \in first..last : x >= y
                 PROVE  x = last
      OBVIOUS
    <2>1. x >= last
      BY <1>1
    <2>2. QED
      BY <2>1
  <1>3. QED
    BY <1>1, <1>2 DEF Max

LEMMA ReplayRecovers ==
  ASSUME LogTypeOK, LogInv, NEW b \in Completed, Replayable(b)
  PROVE  Recovers([done |-> TRUE, txns |-> Replayed(b)], b)
  <1> DEFINE log == baseline[b].log
             count == baseline[b].count
  <1>1. b \in Backups /\ log \in Nat /\ log # 0 /\ count \in Nat /\ count <= committed
        /\ flushed[b] \in Nat /\ Len(closed) \in Nat /\ committed \in Nat
    BY LogNumbers DEF Completed
  <1>2. log \in manifests[b].logs
    BY DEF Replayable, ReplayedLogs
  <1>3. PICK first \in 1..Len(closed), last \in 1..Len(closed) :
           manifests[b].logs = first..last /\ first <= last /\ flushed[b] <= closed[last]
    BY <1>1, <1>2 DEF LogInv, ManifestsReach, Reaches
  <1>4. ReplayedLogs(b) = log..last /\ log \in 1..Len(closed) /\ log <= last
    BY <1>1, <1>2, <1>3, MaxOfInterval DEF ReplayedLogs
  <1>5. /\ closed[last] \in Nat /\ closed[last] <= committed /\ closed[log] \in Nat
        /\ closed[log] <= closed[last] /\ count <= closed[log] /\ Before(log) \in Nat
    <2>1. last \in 1..Len(closed) /\ log \in 1..Len(closed) /\ log <= last
      BY <1>3, <1>4
    <2>2. closed[last] \in Nat /\ closed[log] \in Nat
      BY <2>1, LogNumbers
    <2>3. closed[last] <= committed /\ closed[log] <= closed[last]
      BY <2>1 DEF LogInv, ClosedInOrder
    <2>4. count <= closed[log]
      BY <1>1, <2>1 DEF LogInv, BaselineFits
    <2>5. Before(log) \in Nat
      <3>1. log # 1 => log - 1 \in 1..Len(closed)
        BY <1>1, <2>1
      <3>2. QED
        BY <3>1, LogNumbers DEF Before
    <2>6. QED
      BY <2>2, <2>3, <2>4, <2>5
  <1>6. Before(log) <= count
    BY <1>1, <1>4 DEF LogInv, BaselineFits, Before
  <1>7. \A t \in Nat : t > count /\ t <= closed[last] => t \in Replayed(b)
    <2> SUFFICES ASSUME NEW t \in Nat, t > count, t <= closed[last]
                 PROVE  t \in Replayed(b)
      OBVIOUS
    <2>1. t \in (Before(log) + 1)..closed[last]
      BY <1>1, <1>5, <1>6
    <2>2. \E m \in log..last : t \in InLog(m)
      BY <1>3, <1>4, <2>1 DEF LogInv, NoHoles
    <2>3. committed \in 0..MaxTransactions /\ MaxTransactions \in Nat
      BY LogNumbers DEF LogTypeOK
    <2>4. t \in Transactions
      BY <1>1, <1>5, <2>3 DEF Transactions
    <2>5. QED
      BY <1>4, <2>2, <2>4 DEF Replayed
  <1>8. \A t \in Replayed(b) : t \in Nat /\ t > count /\ t <= closed[last]
    <2> SUFFICES ASSUME NEW t \in Replayed(b)
                 PROVE  t \in Nat /\ t > count /\ t <= closed[last]
      OBVIOUS
    <2>1. t \in Nat /\ t > count
      BY LogNumbers DEF Replayed, Transactions
    <2>2. PICK m \in log..last : t \in InLog(m)
      BY <1>4 DEF Replayed
    <2>3. m \in 1..Len(closed) /\ m <= last
      BY <1>3, <1>4, <2>2
    <2>4. t <= closed[m] /\ closed[m] <= closed[last] /\ closed[m] \in Nat
      BY <1>3, <2>2, <2>3, LogNumbers DEF InLog, LogInv, ClosedInOrder
    <2>5. QED
      BY <1>5, <2>1, <2>4
  <1>9. (1..count) \cup Replayed(b) = 1..closed[last]
    BY <1>1, <1>5, <1>7, <1>8
  <1>10. 1..flushed[b] \subseteq 1..closed[last]
         /\ \A t \in 1..closed[last] : 1..t \subseteq 1..closed[last]
    BY <1>1, <1>3, <1>5
  <1>11. QED
    BY <1>9, <1>10 DEF Recovers

-----------------------------------------------------------------------------
(* The types of the restore test.                                          *)

RestoreTypeOK ==
    /\ lock \in {"free", "backup", "restore"}
    /\ lock = "restore" <=> pc # "idle"
    /\ lock = "backup" <=> step # "idle"
    /\ status \in Status
    /\ content \in [Backups -> {"good", "rotten"}]
    /\ scratch \in Scratch
    /\ copies \in [Attempts -> Bytes]
    /\ units \in [Attempts -> {"none", "prepare", "copyback", "server"}]
    /\ foreign \subseteq Attempts
    /\ pc \in Body \cup Finally \cup {"idle", "record"}
    /\ attempt \in 0..MaxAttempts
    /\ target \in 0..MaxBackups
    /\ owned \in BOOLEAN /\ active \in BOOLEAN
    /\ seen \in Bytes /\ replay \in Replay
    /\ success \in BOOLEAN /\ disturbed \in BOOLEAN

\* The steps before the unit of a command is noted and after it is gone, and
\* those in which the test has its directories.
Unstarted == {"locked", "resolved", "stopped", "cleared", "made", "unowned", "named",
              "verified", "copied", "checked", "prepared", "restored",
              "removeScratch", "removeCopy"}
Owning == {"named", "verified", "copied", "checked", "preparing", "prepared",
           "restoring", "restored", "starting", "validated", "replayed"}
Making == Owning \cup {"made", "unowned"}
Resolved == Making \cup {"resolved", "stopped", "cleared"}

\* The present test is the last, and nobody has made anything for a later one.
Attempted ==
    /\ pc # "idle" => attempt \in Attempts /\ status.by < attempt
    /\ status.by <= attempt
    /\ scratch.by <= attempt
    /\ \A a \in Attempts : a > attempt => units[a] = "none" /\ copies[a] = "none"

\* A unit of the running test is in its active_units.
UnitIsNoted ==
    /\ pc # "idle" /\ ~active => units[attempt] = "none"
    /\ pc \in Unstarted \cup {"idle"} => ~active
    /\ pc = "record" /\ success => ~active

\* The scratch directory, and the pid file in it, are the test's that made it.
ScratchIsOwn ==
    /\ scratch.by = 0 => scratch = NoScratch
    /\ scratch.pid \in {0, scratch.by}
    /\ pc \in Making => scratch.by = attempt

\* The bytes the test works on are those it has verified.
BytesAreGood ==
    /\ pc \in {"checked", "preparing", "prepared", "restoring"} => copies[attempt] = "good"
    /\ pc \in {"restored", "starting"} => scratch.data = "good"
    /\ pc \in {"validated", "replayed"} => seen = "good"
    /\ pc \in Resolved => target \in Completed
    /\ pc \in Owning => owned

\* A test that is about to report success has earned it so far.
SuccessSoFar ==
    success =>
        /\ pc \in Finally \cup {"record"}
        /\ target \in Completed /\ seen = "good" /\ owned
        /\ pc \in {"removeCopy", "record"} => scratch.by # attempt
        /\ pc = "record" => copies[attempt] = "none"

\* A test that is not cut short knows what is left to remove.
CleanSoFar ==
    ~disturbed =>
        /\ \A a \in Attempts :
              pc = "idle" \/ a # attempt => copies[a] = "none" /\ units[a] = "none"
        /\ pc \in {"idle", "locked", "resolved", "stopped", "cleared", "removeCopy",
                  "record"} => scratch = NoScratch
        /\ scratch.by \in {0, attempt}
        /\ pc \in {"locked", "resolved", "stopped", "cleared", "made", "record"} =>
              copies[attempt] = "none"
        /\ pc # "idle" /\ copies[attempt] # "none" => owned \/ pc = "unowned"
        /\ pc = "record" => ~active

\* What SuccessIsEarned says, of a test that has a number.
StatusEarned == status.success => status.by \in Attempts /\ SuccessIsEarned

\* A replay, reported or not, is complete; the backup run that goes on is of
\* another backup than the report.
ReplaySoFar ==
    /\ Recovers(replay, target)
    /\ Recovers(status.replay, status.of)
    /\ status.replay.done /\ step # "idle" => status.of # backups
    /\ replay.done => pc \in Finally \cup {"replayed", "record"}

TestInv ==
    /\ Attempted /\ UnitIsNoted /\ ScratchIsOwn /\ BytesAreGood /\ SuccessSoFar
    /\ CleanSoFar /\ StatusEarned /\ ReplaySoFar

\* Every step is one of the logs or of none.
LEMMA NextLogStep == RestoreTypeOK /\ [Next]_vars => LogStep
  <1> SUFFICES ASSUME RestoreTypeOK, [Next]_vars PROVE LogStep
    OBVIOUS
  <1> USE DEF LogStep
  <1>1. CASE Source \/ BackupLock \/ BackupWorks
    BY <1>1 DEF Source, BackupLock, BackupWorks
  <1>2. CASE BackupEnds \/ BackupDies
    BY <1>2 DEF BackupEnds, BackupDies, Leave, Abandon
  <1>3. CASE RotBackup \/ RotArchive
    BY <1>3 DEF RotBackup, RotArchive
  <1>4. ASSUME NEW a \in Attempts,
               \/ ServerOpensSocket(a) \/ ServerWritesPid(a) \/ Expire(a)
               \/ ServerDies(a) \/ PidReused(a)
        PROVE  UNCHANGED logVars
    BY <1>4 DEF ServerOpensSocket, ServerWritesPid, Expire, ServerDies, PidReused
  <1>5. CASE Test
    <2>1. CASE Succeed \/ Fail \/ CleanupFails \/ Record
      BY <2>1 DEF Succeed, Fail, CleanupFails, Record
    <2>2. CASE \E from, to \in Body \cup Finally \cup {"record"} : Goto(from, to)
      BY <2>2 DEF Goto
    <2>3. QED
      BY <1>5, <2>1, <2>2 DEF Test, Body, Finally, Resolve, StopLeftover, RemoveLeftover,
         MakeScratch, MakeCopy, OwnCopy, Verify, CopyBackup, VerifyCopy, StartPrepare,
         Start, FinishPrepare, Finish, StartCopyBack, FinishCopyBack, StartServer,
         Validate, ReplayLogs, StopServer, StopUnit, RemoveScratch, RemoveCopy
  <1>6. CASE Lock \/ Signal \/ Crash
    BY <1>6 DEF Lock, Signal, Crash
  <1>7. CASE PowerFailure
    BY <1>7 DEF PowerFailure, Abandon
  <1>8. CASE UNCHANGED vars
    BY <1>8 DEF vars
  <1>9. QED
    BY <1>1, <1>2, <1>3, <1>4, <1>5, <1>6, <1>7, <1>8 DEF Next

LEMMA UnitEndsType ==
  ASSUME RestoreTypeOK, NEW a, UnitEnds(a)
  PROVE  /\ scratch' \in Scratch /\ scratch'.by = scratch.by /\ scratch'.data = scratch.data
         /\ scratch'.pid \in {0, scratch.pid}
         /\ units' \in [Attempts -> {"none", "prepare", "copyback", "server"}]
         /\ \A b \in Attempts : units'[b] \in {"none", units[b]}
         /\ a \in Attempts => units'[a] = "none" /\ (scratch.by = 0 => scratch' = scratch)
  <1>1. units' \in [Attempts -> {"none", "prepare", "copyback", "server"}]
        /\ (\A b \in Attempts : units'[b] \in {"none", units[b]})
        /\ (a \in Attempts => units'[a] = "none")
    BY DEF RestoreTypeOK, UnitEnds
  <1>2. MaxAttempts \in Nat /\ 0 \in 0..MaxAttempts
    BY RestoreAssumption
  <1>3. scratch' \in Scratch /\ scratch'.by = scratch.by /\ scratch'.data = scratch.data
        /\ scratch'.pid \in {0, scratch.pid}
    BY <1>2 DEF RestoreTypeOK, UnitEnds, Scratch
  <1>4. a \in Attempts /\ scratch.by = 0 => scratch' = scratch
    BY DEF UnitEnds, Serving, Attempts
  <1>5. QED
    BY <1>1, <1>3, <1>4

LEMMA ServerStoppedType ==
  ASSUME RestoreTypeOK, ServerStopped
  PROVE  /\ scratch' \in Scratch /\ scratch'.by = scratch.by /\ scratch'.data = scratch.data
         /\ scratch'.pid \in {0, scratch.pid} /\ foreign' = foreign
         /\ scratch.by = 0 => scratch' = scratch
         /\ units' \in [Attempts -> {"none", "prepare", "copyback", "server"}]
         /\ \A b \in Attempts : units'[b] \in {"none", units[b]}
  <1>1. CASE scratch.pid # 0 /\ UnitEnds(scratch.pid)
    <2>1. scratch.pid \in Attempts
      BY <1>1, RestoreAssumption DEF RestoreTypeOK, Scratch, Attempts
    <2>2. QED
      BY <1>1, <2>1, UnitEndsType DEF ServerStopped
  <1>2. CASE UNCHANGED <<units, scratch>>
    BY <1>2 DEF ServerStopped, RestoreTypeOK
  <1>3. QED
    BY <1>1, <1>2 DEF ServerStopped

\* A step inside the program moves pc between its phases.
LEMMA GotoType ==
  ASSUME RestoreTypeOK, NEW from \in Body \cup Finally, NEW to \in Body \cup Finally \cup {"record"},
         Goto(from, to)
  PROVE  /\ pc = from /\ pc' = to /\ pc' \in Body \cup Finally \cup {"idle", "record"}
         /\ pc # "idle" /\ pc' # "idle"
         /\ lock' \in {"free", "backup", "restore"}
         /\ lock' = "restore" <=> pc' # "idle"
         /\ lock' = "backup" <=> step' # "idle"
         /\ status' \in Status
         /\ attempt' \in 0..MaxAttempts /\ disturbed' \in BOOLEAN
         /\ UNCHANGED <<logVars, lock, status, attempt, disturbed>>
  BY DEF RestoreTypeOK, Goto, hostVars, logVars, backupVars, Body, Finally

LEMMA TestTypeOK ==
  ASSUME RestoreTypeOK, Attempted, BytesAreGood, Test PROVE RestoreTypeOK'
  <1>0. MaxAttempts \in Nat /\ 0 \in 0..MaxAttempts /\ MaxBackups \in Nat
        /\ 0 \in 0..MaxBackups /\ NoScratch \in Scratch /\ NoReplay \in Replay
    BY RestoreAssumption, ArchiveAssumption DEF NoScratch, Scratch, Bytes, NoReplay, Replay
  <1> USE <1>0 DEF RestoreTypeOK, fileVars, processVars, result, Body, Finally
  <1>1. CASE Resolve
    <2>1. target' \in 0..MaxBackups
      BY <1>1 DEF Resolve, Completed, Backups
    <2>2. QED
      BY <1>1, <2>1, GotoType DEF Resolve
  <1>2. CASE StopLeftover
    <2>1. scratch' \in Scratch /\ foreign' = foreign
          /\ units' \in [Attempts -> {"none", "prepare", "copyback", "server"}]
      BY <1>2, ServerStoppedType DEF StopLeftover
    <2>2. QED
      BY <1>2, <2>1, GotoType DEF StopLeftover
  <1>3. CASE RemoveLeftover \/ RemoveScratch
    BY <1>3, GotoType DEF RemoveLeftover, RemoveScratch
  <1>4. CASE MakeScratch
    <2>1. scratch' \in Scratch
      BY <1>4 DEF MakeScratch, Scratch, Bytes, NoScratch
    <2>2. QED
      BY <1>4, <2>1, GotoType DEF MakeScratch
  <1>5. CASE MakeCopy \/ CopyBackup \/ RemoveCopy
    <2>1. copies' \in [Attempts -> Bytes]
      <3>1. pc = "verified" => content[target] \in Bytes
        BY DEF BytesAreGood, Resolved, Making, Owning, Completed, Bytes
      <3>2. QED
        BY <1>5, <3>1 DEF MakeCopy, CopyBackup, RemoveCopy, Bytes, Goto
    <2>2. QED
      BY <1>5, <2>1, GotoType DEF MakeCopy, CopyBackup, RemoveCopy
  <1>6. CASE OwnCopy \/ Verify \/ VerifyCopy
    BY <1>6, GotoType DEF OwnCopy, Verify, VerifyCopy
  <1>7. CASE StartPrepare \/ StartCopyBack \/ StartServer
    BY <1>7, GotoType DEF StartPrepare, StartCopyBack, StartServer, Start
  <1>8. CASE FinishPrepare
    BY <1>8, GotoType DEF FinishPrepare, Finish
  <1>9. CASE FinishCopyBack
    <2>1. copies[attempt] \in Bytes
      BY <1>9 DEF FinishCopyBack, Finish, Goto, Attempted
    <2>2. scratch' = [scratch EXCEPT !.data = copies[attempt]]
      BY <1>9 DEF FinishCopyBack
    <2>3. scratch' \in Scratch
      BY <2>1, <2>2 DEF Scratch
    <2>4. QED
      BY <1>9, <2>3, GotoType DEF FinishCopyBack, Finish
  <1>10. CASE Validate
    BY <1>10, GotoType DEF Validate, Scratch
  <1>11. CASE ReplayLogs
    <2>1. replay' \in Replay
      BY <1>11 DEF ReplayLogs, Replay, Replayed
    <2>2. QED
      BY <1>11, <2>1, GotoType DEF ReplayLogs
  <1>12. CASE Succeed \/ Fail
    BY <1>12 DEF Succeed, Fail, hostVars, logVars, backupVars
  <1>13. CASE StopServer
    BY <1>13, ServerStoppedType, GotoType DEF StopServer
  <1>14. CASE StopUnit
    <2>1. scratch' \in Scratch
          /\ units' \in [Attempts -> {"none", "prepare", "copyback", "server"}]
      BY <1>14, UnitEndsType DEF StopUnit
    <2>2. QED
      BY <1>14, <2>1, GotoType DEF StopUnit
  <1>15. CASE CleanupFails
    BY <1>15 DEF CleanupFails, hostVars, logVars, backupVars
  <1>16. CASE Record
    <2>1. Written \in Status
      BY DEF Written, Status
    <2>2. QED
      BY <1>16, <2>1 DEF Record, Exit, logVars, backupVars, Bytes
  <1>17. QED
    BY <1>1, <1>2, <1>3, <1>4, <1>5, <1>6, <1>7, <1>8, <1>9, <1>10, <1>11, <1>12, <1>13,
       <1>14, <1>15, <1>16 DEF Test

LEMMA OthersTypeOK ==
  ASSUME LogTypeOK, RestoreTypeOK,
         \/ Source \/ BackupLock \/ BackupWorks \/ BackupEnds \/ BackupDies
         \/ RotBackup \/ RotArchive
         \/ \E a \in Attempts :
               ServerOpensSocket(a) \/ ServerWritesPid(a) \/ Expire(a) \/ ServerDies(a)
               \/ PidReused(a)
         \/ Lock \/ Signal \/ Crash \/ PowerFailure
  PROVE  RestoreTypeOK'
  <1>0. MaxAttempts \in Nat /\ 0 \in 0..MaxAttempts /\ MaxBackups \in Nat
        /\ 0 \in 0..MaxBackups /\ NoScratch \in Scratch /\ NoReplay \in Replay
    BY RestoreAssumption, ArchiveAssumption DEF NoScratch, Scratch, Bytes, NoReplay, Replay
  <1> USE <1>0 DEF RestoreTypeOK, hostVars, fileVars, processVars, result, testVars,
                   logVars, backupVars
  <1>1. CASE Source \/ RotArchive
    BY <1>1 DEF Source, RotArchive, RotLog, Commit, Rotate, Purge, restoreVars
  <1>2. CASE BackupWorks
    BY <1>2 DEF BackupWorks, Store, Flush, List, ArchiveLog, WriteManifest, restoreVars
  <1>3. CASE BackupLock
    BY <1>3 DEF BackupLock, Begin
  <1>4. CASE BackupEnds
    <2>1. backups \in 0..MaxBackups
      BY DEF LogTypeOK
    <2>2. [status EXCEPT !.path = backups, !.success = FALSE] \in Status
      BY <2>1 DEF Status
    <2>3. status' \in Status
      BY <1>4, <2>2 DEF BackupEnds
    <2>4. QED
      BY <1>4, <2>3 DEF BackupEnds, Leave
  <1>5. CASE BackupDies
    BY <1>5 DEF BackupDies, Leave
  <1>6. CASE RotBackup
    BY <1>6 DEF RotBackup
  <1>7. ASSUME NEW a \in Attempts, ServerOpensSocket(a) \/ ServerWritesPid(a)
        PROVE  RestoreTypeOK'
    <2>1. a \in 0..MaxAttempts
      BY DEF Attempts
    <2>2. [scratch EXCEPT !.sock = TRUE] \in Scratch /\ [scratch EXCEPT !.pid = a] \in Scratch
      BY <2>1 DEF Scratch
    <2>3. scratch' \in Scratch
      BY <1>7, <2>2 DEF ServerOpensSocket, ServerWritesPid
    <2>4. QED
      BY <1>7, <2>3 DEF ServerOpensSocket, ServerWritesPid
  <1>8. ASSUME NEW a \in Attempts, Expire(a) PROVE RestoreTypeOK'
    BY <1>8, UnitEndsType DEF Expire
  <1>9. ASSUME NEW a \in Attempts, ServerDies(a) PROVE RestoreTypeOK'
    <2>1. scratch' \in Scratch
      BY <1>9 DEF ServerDies, Scratch
    <2>2. QED
      BY <1>9, <2>1 DEF ServerDies
  <1>10. ASSUME NEW a \in Attempts, PidReused(a) PROVE RestoreTypeOK'
    BY <1>10 DEF PidReused
  <1>11. CASE Lock
    <2>1. attempt' \in 0..MaxAttempts
      <3>1. bounds.attempts \in 0..MaxAttempts
        BY RestoreAssumption DEF LogTypeOK
      <3>2. QED
        BY <1>11, <3>1 DEF Lock
    <2>2. QED
      BY <1>11, <2>1 DEF Lock, Body
  <1>12. CASE Signal
    BY <1>12 DEF Signal, Body, Finally
  <1>13. CASE Crash
    BY <1>13 DEF Crash, Exit, Bytes
  <1>14. CASE PowerFailure
    BY <1>14 DEF PowerFailure, Exit, Bytes
  <1>15. QED
    BY <1>1, <1>2, <1>3, <1>4, <1>5, <1>6, <1>7, <1>8, <1>9, <1>10, <1>11, <1>12, <1>13,
       <1>14

-----------------------------------------------------------------------------
(* Who made what: units, directories and what is left to remove.           *)

Ownership == Attempted /\ UnitIsNoted /\ ScratchIsOwn /\ CleanSoFar

\* The steps that take the test from one phase to the next.
LEMMA TestOwnership ==
  ASSUME RestoreTypeOK, Ownership, BytesAreGood, Test PROVE Ownership'
  <1>0. /\ MaxAttempts \in Nat /\ attempt \in Nat /\ scratch.by \in Nat /\ scratch.pid \in Nat
        /\ status.by \in Nat /\ NoScratch.by = 0 /\ NoScratch.pid = 0
    BY RestoreAssumption DEF RestoreTypeOK, Scratch, Status, NoScratch
  <1>1. attempt \in Attempts
    BY DEF Ownership, Attempted, Test, Resolve, StopLeftover, RemoveLeftover, MakeScratch,
       MakeCopy, OwnCopy, Verify, CopyBackup, VerifyCopy, StartPrepare, Start,
       FinishPrepare, Finish, StartCopyBack, FinishCopyBack, StartServer, Validate,
       ReplayLogs, Succeed, Fail, Body, StopServer, StopUnit, RemoveScratch, RemoveCopy,
       CleanupFails, Finally, Record, Goto
  <1> USE <1>0, <1>1 DEF Ownership, Attempted, UnitIsNoted, ScratchIsOwn, CleanSoFar,
          Unstarted, Owning, Making, Body, Finally, Goto, hostVars, fileVars, processVars,
          result, Attempts
  <1>2. CASE Resolve \/ Verify \/ VerifyCopy
    BY <1>2 DEF Resolve, Verify, VerifyCopy
  <1>3. CASE StopLeftover
    <2>1. /\ scratch'.by = scratch.by /\ scratch'.pid \in {0, scratch.pid}
          /\ scratch.by = 0 => scratch' = scratch
          /\ \A b \in Attempts : units'[b] \in {"none", units[b]}
      BY <1>3, ServerStoppedType DEF StopLeftover, RestoreTypeOK
    <2>2. UNCHANGED <<copies, owned, active, attempt, status, disturbed>>
          /\ pc = "resolved" /\ pc' = "stopped"
      BY <1>3 DEF StopLeftover
    <2>3. QED
      BY <2>1, <2>2
  <1>4. CASE RemoveLeftover
    BY <1>4 DEF RemoveLeftover
  <1>5. CASE MakeScratch
    <2>1. scratch'.by = attempt /\ scratch'.pid = 0
      BY <1>5 DEF MakeScratch, NoScratch
    <2>2. QED
      BY <1>5, <2>1 DEF MakeScratch
  <1>6. CASE MakeCopy
    BY <1>6 DEF MakeCopy, RestoreTypeOK
  <1>7. CASE OwnCopy
    BY <1>7 DEF OwnCopy
  <1>8. CASE CopyBackup
    BY <1>8 DEF CopyBackup, BytesAreGood, RestoreTypeOK
  <1>9. CASE StartPrepare \/ StartCopyBack \/ StartServer
    BY <1>9 DEF StartPrepare, StartCopyBack, StartServer, Start, RestoreTypeOK
  <1>10. CASE FinishPrepare
    BY <1>10 DEF FinishPrepare, Finish, RestoreTypeOK
  <1>11. CASE FinishCopyBack
    <2>1. scratch'.by = scratch.by /\ scratch'.pid = scratch.pid
      BY <1>11 DEF FinishCopyBack, RestoreTypeOK, Scratch
    <2>2. QED
      BY <1>11, <2>1 DEF FinishCopyBack, Finish, RestoreTypeOK
  <1>12. CASE Validate \/ ReplayLogs
    BY <1>12 DEF Validate, ReplayLogs
  <1>13. CASE Succeed \/ Fail
    BY <1>13 DEF Succeed, Fail
  <1>14. CASE StopServer
    <2>1. /\ scratch'.by = scratch.by /\ scratch'.pid \in {0, scratch.pid}
          /\ scratch.by = 0 => scratch' = scratch
          /\ \A b \in Attempts : units'[b] \in {"none", units[b]}
      BY <1>14, ServerStoppedType DEF StopServer
    <2>2. UNCHANGED <<copies, owned, active, attempt, status, disturbed>>
          /\ pc = "cleanup" /\ pc' = "stopUnit"
      BY <1>14 DEF StopServer
    <2>3. QED
      BY <2>1, <2>2
  <1>15. CASE StopUnit
    <2>1. /\ scratch'.by = scratch.by /\ scratch'.pid \in {0, scratch.pid}
          /\ scratch.by = 0 => scratch' = scratch
          /\ \A b \in Attempts : units'[b] \in {"none", units[b]}
          /\ active => units'[attempt] = "none"
      BY <1>15, UnitEndsType DEF StopUnit, RestoreTypeOK
    <2>2. UNCHANGED <<copies, owned, attempt, status, disturbed>> /\ active' = FALSE
          /\ pc = "stopUnit" /\ pc' = "removeScratch"
      BY <1>15 DEF StopUnit
    <2>3. QED
      BY <2>1, <2>2
  <1>16. CASE RemoveScratch
    BY <1>16 DEF RemoveScratch
  <1>17. CASE RemoveCopy
    BY <1>17 DEF RemoveCopy, RestoreTypeOK
  <1>18. CASE CleanupFails
    BY <1>18 DEF CleanupFails
  <1>19. CASE Record
    <2>1. status'.by \in {status.by, attempt}
      BY <1>19 DEF Record, Written
    <2>2. QED
      BY <1>19, <2>1 DEF Record, Exit
  <1>20. QED
    BY <1>2, <1>3, <1>4, <1>5, <1>6, <1>7, <1>8, <1>9, <1>10, <1>11, <1>12, <1>13, <1>14,
       <1>15, <1>16, <1>17, <1>18, <1>19 DEF Test

\* All others.
LEMMA OthersOwnership ==
  ASSUME LogTypeOK, RestoreTypeOK, Ownership,
         \/ Source \/ BackupLock \/ BackupWorks \/ BackupEnds \/ BackupDies
         \/ RotBackup \/ RotArchive
         \/ \E a \in Attempts :
               ServerOpensSocket(a) \/ ServerWritesPid(a) \/ Expire(a) \/ ServerDies(a)
               \/ PidReused(a)
         \/ Lock \/ Signal \/ Crash \/ PowerFailure \/ UNCHANGED vars
  PROVE  Ownership'
  <1>0. /\ MaxAttempts \in Nat /\ attempt \in Nat /\ scratch.by \in Nat /\ scratch.pid \in Nat
        /\ status.by \in Nat /\ NoScratch.by = 0 /\ NoScratch.pid = 0
    BY RestoreAssumption DEF RestoreTypeOK, Scratch, Status, NoScratch
  <1> USE <1>0 DEF Ownership, Attempted, UnitIsNoted, ScratchIsOwn, CleanSoFar,
          Unstarted, Owning, Making, Body, Finally, hostVars, fileVars, processVars,
          result, testVars, Attempts
  <1>1. CASE Source \/ BackupWorks \/ RotArchive \/ UNCHANGED vars
    BY <1>1 DEF Source, BackupWorks, RotArchive, restoreVars, vars
  <1>2. CASE BackupLock \/ BackupEnds \/ BackupDies
    <2>1. status'.by = status.by
      BY <1>2 DEF BackupLock, BackupEnds, BackupDies, RestoreTypeOK, Status
    <2>2. QED
      BY <1>2, <2>1 DEF BackupLock, BackupEnds, BackupDies
  <1>3. CASE RotBackup
    BY <1>3 DEF RotBackup
  <1>4. ASSUME NEW a \in Attempts, ServerOpensSocket(a) PROVE Ownership'
    <2>1. scratch'.by = scratch.by /\ scratch'.pid = scratch.pid /\ scratch.by = a
      BY <1>4 DEF ServerOpensSocket, Serving, RestoreTypeOK, Scratch
    <2>2. QED
      BY <1>4, <2>1 DEF ServerOpensSocket
  <1>5. ASSUME NEW a \in Attempts, ServerWritesPid(a) PROVE Ownership'
    <2>1. scratch'.by = scratch.by /\ scratch'.pid = a /\ scratch.by = a
      BY <1>5 DEF ServerWritesPid, Serving, RestoreTypeOK, Scratch
    <2>2. QED
      BY <1>5, <2>1 DEF ServerWritesPid
  <1>6. ASSUME NEW a \in Attempts, Expire(a) PROVE Ownership'
    <2>1. /\ scratch'.by = scratch.by /\ scratch'.pid \in {0, scratch.pid}
          /\ scratch.by = 0 => scratch' = scratch
          /\ \A b \in Attempts : units'[b] \in {"none", units[b]}
      BY <1>6, UnitEndsType DEF Expire
    <2>2. UNCHANGED <<pc, copies, owned, active, attempt, status, success, disturbed>>
      BY <1>6 DEF Expire
    <2>3. QED
      BY <2>1, <2>2
  <1>7. ASSUME NEW a \in Attempts, ServerDies(a) PROVE Ownership'
    <2>1. /\ scratch'.by = scratch.by /\ scratch'.pid \in {0, scratch.pid} /\ scratch.by = a
          /\ \A b \in Attempts : units'[b] \in {"none", units[b]}
      BY <1>7 DEF ServerDies, Serving, RestoreTypeOK, Scratch
    <2>2. UNCHANGED <<pc, copies, owned, active, attempt, status, success, disturbed>>
      BY <1>7 DEF ServerDies
    <2>3. QED
      BY <2>1, <2>2
  <1>8. ASSUME NEW a \in Attempts, PidReused(a) PROVE Ownership'
    BY <1>8 DEF PidReused
  <1>9. CASE Lock
    <2>1. attempt' \in Attempts /\ attempt' = attempt + 1
      <3>1. bounds.attempts \in 0..MaxAttempts
        BY RestoreAssumption DEF LogTypeOK
      <3>2. QED
        BY <1>9, <3>1 DEF Lock
    <2>2. QED
      BY <1>9, <2>1 DEF Lock
  <1>10. CASE Signal
    BY <1>10 DEF Signal
  <1>11. CASE Crash
    BY <1>11 DEF Crash, Exit
  <1>12. CASE PowerFailure
    BY <1>12 DEF PowerFailure, Exit
  <1>13. QED
    BY <1>1, <1>2, <1>3, <1>4, <1>5, <1>6, <1>7, <1>8, <1>9, <1>10, <1>11, <1>12

-----------------------------------------------------------------------------
(* What the bytes and the reports are worth.                               *)

Worth == BytesAreGood /\ SuccessSoFar /\ StatusEarned /\ ReplaySoFar

\* A completed backup stays one where it is; only the run that goes on moves.
LEMMA LogFrame ==
  ASSUME LogTypeOK, LogInv, LogStep
  PROVE  /\ \A b \in Completed :
               /\ b \in Completed' /\ baseline'[b] = baseline[b] /\ b <= backups
               /\ flushed'[b] = flushed[b] \/ (b = backups /\ step # "idle")
         /\ step' # "idle" => \/ step # "idle" /\ backups' = backups
                              \/ step = "idle" /\ backups' = backups + 1
  <1> USE DEF sourceVars, archiveVars, backupVars
  <1>0. \A b \in Completed : b <= backups
    BY LogNumbers DEF LogInv, Fresh, Completed, Backups
  <1>1. CASE Store
    <2>1. step = "begun" /\ step' = "stored" /\ flushed' = flushed /\ backups' = backups
      BY <1>1 DEF Store
    <2>2. \A b \in Completed : b # backups
      BY <2>1 DEF LogInv, Fresh, Completed
    <2>3. \A b \in Backups : b # backups => baseline'[b] = baseline[b]
      BY <1>1 DEF Store, LogTypeOK
    <2>4. QED
      BY <1>0, <2>1, <2>2, <2>3 DEF Completed
  <1>2. CASE Flush
    <2>1. step = "stored" /\ step' = "flushed" /\ baseline' = baseline /\ backups' = backups
      BY <1>2 DEF Flush
    <2>2. \A b \in Backups : b # backups => flushed'[b] = flushed[b]
      BY <1>2 DEF Flush, LogTypeOK
    <2>3. QED
      BY <1>0, <2>1, <2>2 DEF Completed
  <1>3. CASE Begin
    <2>1. UNCHANGED <<baseline, flushed>> /\ step = "idle" /\ backups' = backups + 1
      BY <1>3 DEF Begin
    <2>2. Completed' = Completed
      BY <2>1 DEF Completed
    <2>3. QED
      BY <1>0, <2>1, <2>2
  <1>4. CASE ~Store /\ ~Flush /\ ~Begin
    <2>1. UNCHANGED <<baseline, flushed, backups>> /\ (step = "idle" => step' = "idle")
      BY <1>4 DEF LogStep, Commit, Rotate, Purge, RotLog, List, ArchiveLog, WriteManifest,
                  Abandon, logVars
    <2>2. Completed' = Completed
      BY <2>1 DEF Completed
    <2>3. QED
      BY <1>0, <2>1, <2>2
  <1>5. QED
    BY <1>1, <1>2, <1>3, <1>4

LEMMA TestKeepsLogs == Test => UNCHANGED logVars
  BY DEF Test, Resolve, StopLeftover, RemoveLeftover, MakeScratch,
     MakeCopy, OwnCopy, Verify, CopyBackup, VerifyCopy, StartPrepare, Start,
     FinishPrepare, Finish, StartCopyBack, FinishCopyBack, StartServer, Validate,
     ReplayLogs, Succeed, Fail, StopServer, StopUnit, RemoveScratch, RemoveCopy,
     CleanupFails, Record, Goto

\* A report keeps its worth while the logs grow beyond it.
LEMMA StillRecovers ==
  ASSUME LogTypeOK, LogInv, LogStep, NEW r, NEW b, Recovers(r, b),
         r.done /\ step # "idle" => b # backups
  PROVE  /\ Recovers(r, b)'
         /\ r.done /\ step' # "idle" => b # backups'
  <1> SUFFICES ASSUME r.done
               PROVE  Recovers(r, b)' /\ (step' # "idle" => b # backups')
    BY DEF Recovers
  <1>1. b \in Completed
    BY DEF Recovers
  <1>2. b \in Completed' /\ baseline'[b] = baseline[b] /\ flushed'[b] = flushed[b]
    BY <1>1, LogFrame
  <1>3. Recovers(r, b)'
    BY <1>2 DEF Recovers
  <1>4. b <= backups /\ b \in Nat /\ backups \in Nat
    BY <1>1, LogFrame, LogNumbers DEF Completed, Backups
  <1>5. step' # "idle" => b # backups'
    BY <1>4, LogFrame
  <1>6. QED
    BY <1>3, <1>5

\* While a test runs no backup does, and it has a number.
LEMMA TestRuns ==
  ASSUME RestoreTypeOK, Attempted, Test
  PROVE  /\ pc # "idle" /\ step = "idle" /\ step' = "idle" /\ attempt \in Attempts
         /\ status.by < attempt /\ Completed' = Completed
         /\ \A r, b : Recovers(r, b) => Recovers(r, b)'
  <1>1. UNCHANGED logVars
    BY TestKeepsLogs
  <1>2. pc # "idle"
    BY DEF Test, Resolve, StopLeftover, RemoveLeftover, MakeScratch, MakeCopy, OwnCopy,
       Verify, CopyBackup, VerifyCopy, StartPrepare, Start, FinishPrepare, Finish,
       StartCopyBack, FinishCopyBack, StartServer, Validate, ReplayLogs, Succeed, Fail,
       Body, StopServer, StopUnit, RemoveScratch, RemoveCopy, CleanupFails, Finally,
       Record, Goto
  <1>3. step = "idle" /\ step' = "idle"
    BY <1>1, <1>2 DEF RestoreTypeOK, logVars, backupVars
  <1>4. UNCHANGED <<baseline, flushed>> /\ Completed' = Completed
    BY <1>1 DEF logVars, archiveVars, Completed
  <1>5. ASSUME NEW r, NEW b, Recovers(r, b) PROVE Recovers(r, b)'
    BY <1>4, <1>5 DEF Recovers
  <1>6. QED
    BY <1>2, <1>3, <1>4, <1>5 DEF Attempted

LEMMA TestBytes ==
  ASSUME RestoreTypeOK, Ownership, BytesAreGood, Test PROVE BytesAreGood'
  <1>0. attempt \in Attempts /\ Completed' = Completed
    BY TestRuns DEF Ownership
  <1> USE <1>0 DEF BytesAreGood, Resolved, Making, Owning, Body, Finally, Goto, fileVars,
          processVars, result
  <1>1. CASE Resolve \/ RemoveLeftover \/ MakeScratch \/ OwnCopy \/ Verify \/ VerifyCopy
    BY <1>1 DEF Resolve, RemoveLeftover, MakeScratch, OwnCopy, Verify, VerifyCopy
  <1>2. CASE StopLeftover
    BY <1>2 DEF StopLeftover
  <1>3. CASE MakeCopy \/ CopyBackup
    BY <1>3 DEF MakeCopy, CopyBackup
  <1>4. CASE StartPrepare \/ StartCopyBack \/ StartServer
    BY <1>4 DEF StartPrepare, StartCopyBack, StartServer, Start
  <1>5. CASE FinishPrepare
    BY <1>5 DEF FinishPrepare, Finish
  <1>6. CASE FinishCopyBack
    <2>1. scratch'.data = copies[attempt]
      BY <1>6 DEF FinishCopyBack, RestoreTypeOK, Scratch
    <2>2. QED
      BY <1>6, <2>1 DEF FinishCopyBack, Finish
  <1>7. CASE Validate \/ ReplayLogs
    BY <1>7 DEF Validate, ReplayLogs
  <1>8. CASE Succeed \/ Fail
    BY <1>8 DEF Succeed, Fail
  <1>9. CASE StopServer \/ StopUnit \/ RemoveScratch \/ RemoveCopy \/ CleanupFails
    BY <1>9 DEF StopServer, StopUnit, RemoveScratch, RemoveCopy, CleanupFails
  <1>10. CASE Record
    BY <1>10 DEF Record, Exit
  <1>11. QED
    BY <1>1, <1>2, <1>3, <1>4, <1>5, <1>6, <1>7, <1>8, <1>9, <1>10 DEF Test

LEMMA TestSuccess ==
  ASSUME RestoreTypeOK, Ownership, BytesAreGood, SuccessSoFar, Test PROVE SuccessSoFar'
  <1>0. attempt \in Attempts /\ attempt # 0 /\ Completed' = Completed
    BY TestRuns DEF Ownership, Attempts
  <1> USE <1>0 DEF SuccessSoFar, Body, Finally, Goto, fileVars, processVars, result
  <1>1. CASE Succeed
    BY <1>1 DEF Succeed, BytesAreGood, Resolved, Making, Owning
  <1>2. CASE Fail
    BY <1>2 DEF Fail
  <1>3. CASE StopServer \/ StopUnit
    BY <1>3 DEF StopServer, StopUnit
  <1>4. CASE RemoveScratch
    BY <1>4 DEF RemoveScratch, NoScratch
  <1>5. CASE RemoveCopy
    BY <1>5 DEF RemoveCopy, RestoreTypeOK
  <1>6. CASE CleanupFails
    BY <1>6 DEF CleanupFails
  <1>7. CASE Record
    BY <1>7 DEF Record, Exit
  <1>8. CASE pc \in Body /\ ~Succeed /\ ~Fail
    <2>1. ~success /\ success' = success
      BY <1>8 DEF Test, Resolve, StopLeftover, RemoveLeftover, MakeScratch, MakeCopy,
         OwnCopy, Verify, CopyBackup, VerifyCopy, StartPrepare, Start, FinishPrepare,
         Finish, StartCopyBack, FinishCopyBack, StartServer, Validate, ReplayLogs,
         StopServer, StopUnit, RemoveScratch, RemoveCopy, CleanupFails, Record
    <2>2. QED
      BY <2>1
  <1>9. pc \in Body \/ StopServer \/ StopUnit \/ RemoveScratch \/ RemoveCopy
        \/ CleanupFails \/ Record
    BY DEF Test, Resolve, StopLeftover, RemoveLeftover, MakeScratch, MakeCopy, OwnCopy,
       Verify, CopyBackup, VerifyCopy, StartPrepare, Start, FinishPrepare, Finish,
       StartCopyBack, FinishCopyBack, StartServer, Validate, ReplayLogs, Succeed, Fail
  <1>10. QED
    BY <1>1, <1>2, <1>3, <1>4, <1>5, <1>6, <1>7, <1>8, <1>9

\* What a step of the running test leaves alone: the reports and the leavings of
\* earlier tests.
LEMMA TestLeaves ==
  ASSUME RestoreTypeOK, Ownership, Test
  PROVE  /\ status' = status \/ Record
         /\ \A a \in Attempts : a # attempt =>
               /\ units[a] = "none" => units'[a] = "none"
               /\ copies'[a] = copies[a]
         /\ scratch'.by \in {0, attempt, scratch.by}
  <1> USE DEF RestoreTypeOK, Goto, hostVars, fileVars, processVars, result
  <1>1. CASE StopLeftover
    <2>1. scratch'.by = scratch.by /\ \A b \in Attempts : units'[b] \in {"none", units[b]}
      BY <1>1, ServerStoppedType DEF StopLeftover
    <2>2. QED
      BY <1>1, <2>1 DEF StopLeftover
  <1>2. CASE StopServer
    <2>1. scratch'.by = scratch.by /\ \A b \in Attempts : units'[b] \in {"none", units[b]}
      BY <1>2, ServerStoppedType DEF StopServer
    <2>2. QED
      BY <1>2, <2>1 DEF StopServer
  <1>3. CASE StopUnit
    <2>1. scratch'.by = scratch.by /\ \A b \in Attempts : units'[b] \in {"none", units[b]}
      BY <1>3, UnitEndsType DEF StopUnit
    <2>2. QED
      BY <1>3, <2>1 DEF StopUnit
  <1>4. CASE RemoveLeftover \/ RemoveScratch \/ MakeScratch
    <2>1. NoScratch.by = 0 /\ [NoScratch EXCEPT !.by = attempt, !.data = "empty"].by = attempt
      BY DEF NoScratch
    <2>2. QED
      BY <1>4, <2>1 DEF RemoveLeftover, RemoveScratch, MakeScratch
  <1>5. CASE MakeCopy \/ CopyBackup \/ RemoveCopy
    BY <1>5 DEF MakeCopy, CopyBackup, RemoveCopy
  <1>6. CASE StartPrepare \/ StartCopyBack \/ StartServer
    BY <1>6 DEF StartPrepare, StartCopyBack, StartServer, Start
  <1>7. CASE FinishPrepare \/ FinishCopyBack
    BY <1>7 DEF FinishPrepare, FinishCopyBack, Finish, Scratch
  <1>8. CASE Resolve \/ OwnCopy \/ Verify \/ VerifyCopy \/ Validate \/ ReplayLogs
    BY <1>8 DEF Resolve, OwnCopy, Verify, VerifyCopy, Validate, ReplayLogs
  <1>9. CASE Succeed \/ Fail \/ CleanupFails
    BY <1>9 DEF Succeed, Fail, CleanupFails
  <1>10. CASE Record
    BY <1>10 DEF Record
  <1>11. QED
    BY <1>1, <1>2, <1>3, <1>4, <1>5, <1>6, <1>7, <1>8, <1>9, <1>10 DEF Test

LEMMA TestStatus ==
  ASSUME RestoreTypeOK, Ownership, SuccessSoFar, StatusEarned, Test PROVE StatusEarned'
  <1>0. /\ attempt \in Attempts /\ status.by < attempt /\ Completed' = Completed
        /\ pc # "idle" /\ attempt \in Nat /\ status.by \in Nat
    BY TestRuns, RestoreAssumption DEF Ownership, RestoreTypeOK, Status, Attempts
  <1>1. CASE status' = status
    <2> SUFFICES ASSUME status.success
                 PROVE  status.by \in Attempts /\ SuccessIsEarned'
      BY <1>1 DEF StatusEarned
    <2>1. status.by \in Attempts /\ status.by # attempt /\ SuccessIsEarned
      BY <1>0 DEF StatusEarned
    <2>2. status.by # 0
      BY <2>1 DEF Attempts
    <2>3. units'[status.by] = "none" /\ copies'[status.by] = "none" /\ scratch'.by # status.by
      BY <2>1, <2>2, TestLeaves DEF SuccessIsEarned
    <2>4. QED
      BY <1>0, <1>1, <2>1, <2>3 DEF SuccessIsEarned
  <1>2. CASE Record /\ status' = Written
    <2>1. /\ status'.success = success /\ status'.of = target /\ status'.seen = seen
          /\ status'.by = attempt /\ status'.beside = status'.path
      BY <1>2 DEF Written
    <2>2. UNCHANGED <<units, copies, scratch>> /\ pc = "record"
      BY <1>2 DEF Record, fileVars, processVars
    <2>3. success => /\ target \in Completed /\ seen = "good" /\ scratch.by # attempt
                     /\ copies[attempt] = "none" /\ units[attempt] = "none"
      BY <2>2 DEF SuccessSoFar, Ownership, UnitIsNoted
    <2>4. QED
      BY <1>0, <2>1, <2>2, <2>3 DEF StatusEarned, SuccessIsEarned
  <1>3. QED
    BY <1>1, <1>2, TestLeaves DEF Record

LEMMA TestReplay ==
  ASSUME LogTypeOK, LogInv, RestoreTypeOK, Ownership, BytesAreGood, ReplaySoFar, Test
  PROVE  ReplaySoFar'
  <1>0. /\ pc # "idle" /\ step = "idle" /\ step' = "idle"
        /\ \A r, b : Recovers(r, b) => Recovers(r, b)'
    BY TestRuns DEF Ownership
  <1>1. ASSUME UNCHANGED <<status, target, replay>>,
               pc' \in Finally \cup {"replayed", "record"} \/ ~replay.done
        PROVE  ReplaySoFar'
    BY <1>0, <1>1 DEF ReplaySoFar, Recovers
  <1>2. CASE Resolve
    <2>1. ~replay.done /\ UNCHANGED <<status, replay>>
      BY <1>2 DEF Resolve, Goto, ReplaySoFar, Finally, result, hostVars
    <2>2. QED
      BY <1>0, <2>1 DEF ReplaySoFar, Recovers
  <1>3. CASE ReplayLogs
    <2>1. /\ replay' = [done |-> TRUE, txns |-> Replayed(target)] /\ Replayable(target)
          /\ UNCHANGED <<status, target>> /\ pc = "validated" /\ pc' = "replayed"
      BY <1>3 DEF ReplayLogs, Goto, hostVars
    <2>2. target \in Completed
      BY <2>1 DEF BytesAreGood, Resolved, Making, Owning
    <2>3. Recovers([done |-> TRUE, txns |-> Replayed(target)], target)
      BY <2>1, <2>2, ReplayRecovers
    <2>4. PICK r, b : r = [done |-> TRUE, txns |-> Replayed(target)] /\ b = target
      OBVIOUS
    <2>5. Recovers(r, b)' /\ replay' = r /\ target' = b
      BY <1>0, <2>1, <2>3, <2>4
    <2>6. Recovers(replay, target)'
      BY <2>5 DEF Recovers
    <2>7. Recovers(status.replay, status.of)'
      BY <1>0, <2>1 DEF ReplaySoFar, Recovers
    <2>8. QED
      BY <1>0, <2>1, <2>6, <2>7 DEF ReplaySoFar
  <1>4. CASE Record
    <2>1. replay' = NoReplay /\ pc' = "idle" /\ status' \in {status, Written}
      BY <1>4 DEF Record, Exit
    <2>2. Recovers(status.replay, status.of)'
      <3>1. CASE status' = status
        BY <1>0, <3>1 DEF ReplaySoFar, Recovers
      <3>2. CASE status' = Written
        <4>1. status'.replay = replay /\ status'.of = target
          BY <3>2 DEF Written
        <4>2. QED
          BY <1>0, <4>1 DEF ReplaySoFar, Recovers
      <3>3. QED
        BY <2>1, <3>1, <3>2
    <2>3. QED
      BY <1>0, <2>1, <2>2 DEF ReplaySoFar, Recovers, NoReplay
  <1>5. CASE StopServer \/ StopUnit \/ RemoveScratch \/ RemoveCopy \/ CleanupFails
             \/ Succeed \/ Fail
    BY <1>1, <1>5 DEF StopServer, StopUnit, RemoveScratch, RemoveCopy, CleanupFails,
       Succeed, Fail, Goto, Finally, result, hostVars
  <1>6. CASE /\ ~Resolve /\ ~ReplayLogs /\ ~Record
             /\ ~(StopServer \/ StopUnit \/ RemoveScratch \/ RemoveCopy \/ CleanupFails
                  \/ Succeed \/ Fail)
    <2>1. UNCHANGED <<status, target, replay>> /\ pc \notin Finally \cup {"replayed", "record"}
      BY <1>6 DEF Test, StopLeftover, RemoveLeftover, MakeScratch, MakeCopy, OwnCopy,
         Verify, CopyBackup, VerifyCopy, StartPrepare, Start, FinishPrepare, Finish,
         StartCopyBack, FinishCopyBack, StartServer, Validate, Goto, Finally, result,
         hostVars
    <2>2. QED
      BY <1>1, <2>1 DEF ReplaySoFar
  <1>7. QED
    BY <1>2, <1>3, <1>4, <1>5, <1>6

LEMMA TestWorth ==
  ASSUME LogTypeOK, LogInv, RestoreTypeOK, Ownership, Worth, Test PROVE Worth'
  BY TestBytes, TestSuccess, TestStatus, TestReplay DEF Worth

\* Steps that take nothing away from a report: they add logs and backups, end
\* units, and change a directory's socket and pid.
LEMMA OthersKeepWorth ==
  ASSUME LogTypeOK, LogInv, LogStep, RestoreTypeOK, Ownership, Worth,
         UNCHANGED <<copies, pc, attempt, target, owned, seen, replay, success>>,
         scratch'.by = scratch.by, scratch'.data = scratch.data,
         \A a \in Attempts : units[a] = "none" => units'[a] = "none",
         /\ status'.replay = status.replay /\ status'.of = status.of
         /\ status' = status \/ ~status'.success
  PROVE  Worth'
  <1>1. \A b \in Completed : b \in Completed'
    BY LogFrame
  <1>2. BytesAreGood'
    BY <1>1 DEF Worth, BytesAreGood
  <1>3. SuccessSoFar'
    BY <1>1 DEF Worth, SuccessSoFar
  <1>4. StatusEarned'
    BY <1>1 DEF Worth, StatusEarned, SuccessIsEarned
  <1>5. ReplaySoFar'
    <2>1. replay.done => step = "idle"
      BY DEF Worth, ReplaySoFar, RestoreTypeOK, Finally
    <2>2. PICK r, b, sr, sb : r = replay /\ b = target /\ sr = status.replay /\ sb = status.of
      OBVIOUS
    <2>3. Recovers(r, b)'
      BY <2>1, <2>2, StillRecovers DEF Worth, ReplaySoFar
    <2>4. Recovers(sr, sb)' /\ (sr.done /\ step' # "idle" => sb # backups')
      BY <2>2, StillRecovers DEF Worth, ReplaySoFar
    <2>5. replay' = r /\ target' = b /\ status'.replay = sr /\ status'.of = sb
      BY <2>2
    <2>6. Recovers(replay, target)' /\ Recovers(status.replay, status.of)'
      BY <2>3, <2>4, <2>5 DEF Recovers
    <2>7. QED
      BY <2>4, <2>5, <2>6 DEF Worth, ReplaySoFar
  <1>6. QED
    BY <1>2, <1>3, <1>4, <1>5 DEF Worth

\* A signal, a kill and a power failure: the test goes to its cleanup, to its
\* report of a failure, or away.
LEMMA InterruptionsKeepWorth ==
  ASSUME LogTypeOK, LogInv, LogStep, RestoreTypeOK, Ownership, Worth,
         Signal \/ Crash \/ PowerFailure
  PROVE  Worth'
  <1>1. /\ UNCHANGED <<status, copies, scratch, baseline, flushed, backups>>
        /\ \A a \in Attempts : units[a] = "none" => units'[a] = "none"
        /\ Completed' = Completed
    BY DEF Signal, Crash, PowerFailure, hostVars, fileVars, processVars, logVars,
       archiveVars, backupVars, Completed
  <1>2. step' # "idle" => step' = step
    BY DEF Signal, Crash, PowerFailure, logVars, backupVars
  <1>3. StatusEarned'
    BY <1>1 DEF Worth, StatusEarned, SuccessIsEarned
  <1>4. CASE Signal
    <2>1. /\ UNCHANGED <<attempt, target, owned, seen, replay>>
          /\ \/ pc \in Body /\ pc' = "cleanup" /\ success' = success
             \/ pc \in Finally /\ pc' = "record" /\ success' = FALSE
      BY <1>4 DEF Signal
    <2>2. BytesAreGood'
      BY <2>1 DEF BytesAreGood, Resolved, Making, Owning
    <2>3. SuccessSoFar'
      BY <2>1 DEF Worth, SuccessSoFar, Body, Finally
    <2>4. ReplaySoFar'
      BY <1>1, <1>2, <2>1 DEF Worth, ReplaySoFar, Recovers, Body, Finally
    <2>5. QED
      BY <1>3, <2>2, <2>3, <2>4 DEF Worth
  <1>5. CASE Crash \/ PowerFailure
    <2>1. pc' = "idle" /\ success' = FALSE /\ replay' = NoReplay
      BY <1>5 DEF Crash, PowerFailure, Exit
    <2>2. BytesAreGood' /\ SuccessSoFar'
      BY <2>1 DEF BytesAreGood, Resolved, Making, Owning, SuccessSoFar
    <2>3. ReplaySoFar'
      BY <1>1, <1>2, <2>1 DEF Worth, ReplaySoFar, Recovers, NoReplay
    <2>4. QED
      BY <1>3, <2>2, <2>3 DEF Worth
  <1>6. QED
    BY <1>4, <1>5

LEMMA OthersWorth ==
  ASSUME LogTypeOK, LogInv, LogStep, RestoreTypeOK, Ownership, Worth,
         \/ Source \/ BackupLock \/ BackupWorks \/ BackupEnds \/ BackupDies
         \/ RotBackup \/ RotArchive
         \/ \E a \in Attempts :
               ServerOpensSocket(a) \/ ServerWritesPid(a) \/ Expire(a) \/ ServerDies(a)
               \/ PidReused(a)
         \/ Lock \/ Signal \/ Crash \/ PowerFailure \/ UNCHANGED vars
  PROVE  Worth' /\ scratch'.by = scratch.by
  <1> USE DEF hostVars, fileVars, processVars, testVars, result
  <1>1. CASE Source \/ BackupWorks \/ RotArchive \/ UNCHANGED vars
    BY <1>1, OthersKeepWorth DEF Source, BackupWorks, RotArchive, restoreVars, vars
  <1>2. CASE BackupLock \/ BackupDies \/ RotBackup
    BY <1>2, OthersKeepWorth DEF BackupLock, BackupDies, RotBackup
  <1>3. CASE BackupEnds
    <2>1. /\ status'.replay = status.replay /\ status'.of = status.of
          /\ status' = status \/ ~status'.success
      BY <1>3 DEF BackupEnds, RestoreTypeOK, Status
    <2>2. QED
      BY <1>3, <2>1, OthersKeepWorth DEF BackupEnds
  <1>4. ASSUME NEW a \in Attempts, ServerOpensSocket(a) \/ ServerWritesPid(a)
        PROVE  Worth' /\ scratch'.by = scratch.by
    <2>1. scratch'.by = scratch.by /\ scratch'.data = scratch.data
      BY <1>4 DEF ServerOpensSocket, ServerWritesPid, RestoreTypeOK, Scratch
    <2>2. QED
      BY <1>4, <2>1, OthersKeepWorth DEF ServerOpensSocket, ServerWritesPid
  <1>5. ASSUME NEW a \in Attempts, Expire(a) PROVE Worth' /\ scratch'.by = scratch.by
    <2>1. /\ scratch'.by = scratch.by /\ scratch'.data = scratch.data
          /\ \A b \in Attempts : units'[b] \in {"none", units[b]}
      BY <1>5, UnitEndsType DEF Expire
    <2>2. QED
      BY <1>5, <2>1, OthersKeepWorth DEF Expire
  <1>6. ASSUME NEW a \in Attempts, ServerDies(a) PROVE Worth' /\ scratch'.by = scratch.by
    <2>1. /\ scratch'.by = scratch.by /\ scratch'.data = scratch.data
          /\ \A b \in Attempts : units'[b] \in {"none", units[b]}
      BY <1>6 DEF ServerDies, RestoreTypeOK, Scratch
    <2>2. QED
      BY <1>6, <2>1, OthersKeepWorth DEF ServerDies
  <1>7. ASSUME NEW a \in Attempts, PidReused(a) PROVE Worth' /\ scratch'.by = scratch.by
    BY <1>7, OthersKeepWorth DEF PidReused
  <1>8. CASE Lock
    <2>1. /\ pc = "idle" /\ pc' = "locked"
          /\ UNCHANGED <<logVars, status, scratch, copies, units, success, replay, target>>
      BY <1>8 DEF Lock
    <2>2. UNCHANGED <<baseline, flushed, backups, step>> /\ Completed' = Completed
      BY <2>1 DEF logVars, archiveVars, backupVars, Completed
    <2>3. BytesAreGood' /\ SuccessSoFar'
      BY <2>1 DEF Worth, BytesAreGood, Resolved, Making, Owning, SuccessSoFar, Finally
    <2>4. StatusEarned'
      BY <2>1, <2>2 DEF Worth, StatusEarned, SuccessIsEarned
    <2>5. ReplaySoFar'
      BY <2>1, <2>2 DEF Worth, ReplaySoFar, Recovers, Finally
    <2>6. QED
      BY <2>1, <2>3, <2>4, <2>5 DEF Worth
  <1>9. CASE Signal \/ Crash \/ PowerFailure
    <2>1. scratch' = scratch
      BY <1>9 DEF Signal, Crash, PowerFailure
    <2>2. QED
      BY <1>9, <2>1, InterruptionsKeepWorth
  <1>10. QED
    BY <1>1, <1>2, <1>3, <1>4, <1>5, <1>6, <1>7, <1>8, <1>9

\* A test changes its directory while no unit of its own can be at work in it.
LEMMA TestOutlives ==
  ASSUME RestoreTypeOK, Ownership, Test
  PROVE  scratch'.by = scratch.by \/ units[attempt] = "none"
  <1> USE DEF Goto, fileVars
  <1>1. CASE StopLeftover \/ StopServer
    BY <1>1, ServerStoppedType DEF StopLeftover, StopServer
  <1>2. CASE StopUnit
    BY <1>2, UnitEndsType DEF StopUnit
  <1>3. CASE RemoveLeftover \/ MakeScratch \/ RemoveScratch
    BY <1>3 DEF RemoveLeftover, MakeScratch, RemoveScratch, Ownership, UnitIsNoted,
       Unstarted
  <1>4. CASE FinishCopyBack
    BY <1>4 DEF FinishCopyBack, RestoreTypeOK, Scratch
  <1>5. CASE ~StopLeftover /\ ~StopServer /\ ~StopUnit /\ ~RemoveLeftover /\ ~MakeScratch
             /\ ~RemoveScratch /\ ~FinishCopyBack
    BY <1>5 DEF Test, Resolve, MakeCopy, OwnCopy, Verify, CopyBackup, VerifyCopy,
       StartPrepare, StartCopyBack, StartServer, Start, FinishPrepare, Finish, Validate,
       ReplayLogs, Succeed, Fail, RemoveCopy, CleanupFails, Record
  <1>6. QED
    BY <1>1, <1>2, <1>3, <1>4, <1>5

\* A test removes its copy, and no other, when its unit is gone.
CopiesOutlive ==
    \A a \in Attempts : copies[a] # "none" /\ copies'[a] = "none" => units[a] = "none"

LEMMA TestOutlivesCopies ==
  ASSUME RestoreTypeOK, Ownership, Worth, Test
  PROVE  CopiesOutlive
  <1> USE DEF Goto, CopiesOutlive
  <1>1. CASE RemoveCopy
    <2>1. units[attempt] = "none"
      BY <1>1 DEF RemoveCopy, Ownership, UnitIsNoted, Unstarted
    <2>2. \A a \in Attempts \ {attempt} : copies'[a] = copies[a]
      BY <1>1 DEF RemoveCopy, RestoreTypeOK
    <2>3. QED
      BY <2>1, <2>2
  <1>2. CASE MakeCopy
    BY <1>2 DEF MakeCopy, RestoreTypeOK
  <1>3. CASE CopyBackup
    <2>1. content[target] \in {"good", "rotten"}
      BY <1>3 DEF CopyBackup, RestoreTypeOK, Worth, BytesAreGood, Resolved, Making, Owning,
         Completed
    <2>2. QED
      BY <1>3, <2>1 DEF CopyBackup, RestoreTypeOK
  <1>4. CASE ~RemoveCopy /\ ~MakeCopy /\ ~CopyBackup
    BY <1>4 DEF Test, Resolve, StopLeftover, RemoveLeftover, MakeScratch, OwnCopy, Verify,
       VerifyCopy, StartPrepare, StartCopyBack, StartServer, Start, FinishPrepare,
       FinishCopyBack, Finish, Validate, ReplayLogs, Succeed, Fail, StopServer, StopUnit,
       RemoveScratch, CleanupFails, Record, fileVars
  <1>5. QED
    BY <1>1, <1>2, <1>3, <1>4

-----------------------------------------------------------------------------
(* The theorems.                                                           *)

RestoreInv == LogTypeOK /\ LogInv /\ RestoreTypeOK /\ Ownership /\ Worth

LEMMA RestoreInitInv == Init => RestoreInv
  <1> SUFFICES ASSUME Init PROVE RestoreInv
    OBVIOUS
  <1>0. MaxAttempts \in Nat /\ MaxBackups \in Nat /\ 0 \in 0..MaxAttempts
        /\ 0 \in 0..MaxBackups
    BY RestoreAssumption, ArchiveAssumption
  <1>1. LogTypeOK /\ LogInv /\ step = "idle"
    BY LogInitInv DEF Init, LogInit
  <1>2. NoScratch \in Scratch /\ NoReplay \in Replay
    BY <1>0 DEF NoScratch, Scratch, Bytes, NoReplay, Replay
  <1>3. NoStatus \in Status
    BY <1>0, <1>2 DEF NoStatus, Status, Bytes
  <1>4. RestoreTypeOK
    BY <1>0, <1>1, <1>2, <1>3 DEF RestoreTypeOK, Init, Bytes
  <1>5. Ownership
    BY <1>0 DEF Ownership, Attempted, UnitIsNoted, ScratchIsOwn, CleanSoFar, Unstarted,
       Owning, Making, Init, NoScratch, NoStatus, Attempts
  <1>6. Worth
    BY DEF Worth, BytesAreGood, SuccessSoFar, StatusEarned, ReplaySoFar, Recovers, Resolved,
       Making, Owning, Init, NoReplay, NoStatus
  <1>7. QED
    BY <1>1, <1>4, <1>5, <1>6 DEF RestoreInv

LEMMA RestoreStepInv ==
  ASSUME RestoreInv, [Next]_vars
  PROVE  /\ RestoreInv'
         /\ scratch'.by = scratch.by \/ units[attempt] = "none"
         /\ CopiesOutlive
  <1> USE DEF RestoreInv
  <1>1. LogStep /\ LogTypeOK' /\ LogInv'
    BY NextLogStep, LogStepInv
  <1>2. CASE Test
    BY <1>1, <1>2, TestTypeOK, TestOwnership, TestWorth, TestOutlives, TestOutlivesCopies
    DEF Ownership, Worth
  <1>3. CASE ~Test
    <2>1. \/ Source \/ BackupLock \/ BackupWorks \/ BackupEnds \/ BackupDies
          \/ RotBackup \/ RotArchive
          \/ \E a \in Attempts :
                ServerOpensSocket(a) \/ ServerWritesPid(a) \/ Expire(a) \/ ServerDies(a)
                \/ PidReused(a)
          \/ Lock \/ Signal \/ Crash \/ PowerFailure \/ UNCHANGED vars
      BY <1>3 DEF Next
    <2>2. Ownership' /\ Worth' /\ scratch'.by = scratch.by
      BY <1>1, <2>1, OthersOwnership, OthersWorth
    <2>3. RestoreTypeOK'
      <3>1. CASE UNCHANGED vars
        BY <3>1 DEF vars, logVars, backupVars, restoreVars, hostVars, fileVars,
           processVars, testVars, result, RestoreTypeOK
      <3>2. CASE ~UNCHANGED vars
        BY <2>1, <3>2, OthersTypeOK
      <3>3. QED
        BY <3>1, <3>2
    <2>4. copies' = copies
      BY <2>1 DEF Source, BackupLock, BackupWorks, BackupEnds, BackupDies, RotBackup,
         RotArchive, ServerOpensSocket, ServerWritesPid, Expire, ServerDies, PidReused,
         Lock, Signal, Crash, PowerFailure, vars, restoreVars, fileVars
    <2>5. QED
      BY <1>1, <2>2, <2>3, <2>4 DEF CopiesOutlive
  <1>4. QED
    BY <1>2, <1>3

\* The invariant of the two programs, of the logs and of the units.
THEOREM RestoreInvCorrect == Spec => []RestoreInv
  BY RestoreInitInv, RestoreStepInv, PTL DEF Spec

\* Every variable keeps its type (RT:211-345 of mysql-restore-test.py, and the
\* backup program's part of log archive and status file).
THEOREM RestoreTypeCorrect == Spec => []TypeOK
  <1>1. RestoreInv => TypeOK
    BY DEF RestoreInv, RestoreTypeOK, TypeOK
  <1>2. QED
    BY <1>1, RestoreInvCorrect, PTL

\* A success in the status file was earned, for any number of tests and backups.
THEOREM EarnedCorrect == Spec => []SuccessIsEarned
  <1>1. RestoreInv => SuccessIsEarned
    BY DEF RestoreInv, Worth, StatusEarned, SuccessIsEarned
  <1>2. QED
    BY <1>1, RestoreInvCorrect, PTL

\* A reported replay has no hole and reaches the flush of its backup run, for any
\* number of logs and transactions, however they are rotated and purged.
THEOREM CompleteCorrect == Spec => []ReplayIsComplete
  <1>1. RestoreInv => ReplayIsComplete
    BY DEF RestoreInv, Worth, ReplaySoFar, Recovers, ReplayIsComplete
  <1>2. QED
    BY <1>1, RestoreInvCorrect, PTL

\* A test that is not cut short leaves neither unit nor directory behind.
THEOREM LeavesNothing == Spec => []ErrorsLeaveNothing
  <1>1. RestoreInv => ErrorsLeaveNothing
    BY DEF RestoreInv, Ownership, CleanSoFar, ErrorsLeaveNothing
  <1>2. QED
    BY <1>1, RestoreInvCorrect, PTL

\* No test removes its directory, nor the copy of any test, under a live unit
\* of the test whose it is.
THEOREM OutlivesUnit == Spec => FilesOutliveUnit
  <1>1. RestoreInv /\ [Next]_vars =>
           [/\ scratch.by = attempt /\ scratch'.by # attempt => units[attempt] = "none"
            /\ \A a \in Attempts :
                  copies[a] # "none" /\ copies'[a] = "none" => units[a] = "none"]_vars
    BY RestoreStepInv DEF CopiesOutlive
  <1>2. QED
    BY <1>1, RestoreInvCorrect, PTL DEF Spec, FilesOutliveUnit

=============================================================================
