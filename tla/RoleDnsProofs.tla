---------------------------- MODULE RoleDnsProofs ---------------------------
(***************************************************************************)
(* Theorems about RoleDns.  The arithmetic of serials and the types come   *)
(* first, then five invariants, each proved with those before it: what a   *)
(* writer is about to write is newer than what is there (WriterInv); no    *)
(* serial is further from the first one than there were runs (Bounded), so *)
(* that the order of RFC 1982 is that of ages; what the notes, the files   *)
(* and NSD have to do with each other (NoteInv); what the one play at work may *)
(* rely on when playbooks do not overlap (AloneInv); and what plays that   *)
(* do overlap still owe to the servers (AgreeInv).                         *)
(***************************************************************************)
EXTENDS RoleDns, FiniteSets, TLAPS, FiniteSetTheorems

-----------------------------------------------------------------------------
(* Serials.                                                                *)

\* A remainder of the one kind the code takes: the dividend is less than one
\* modulus away from the serials.
LEMMA RemainderValue ==
    ASSUME NEW x \in Int, -Modulus < x, x < 2 * Modulus
    PROVE  x % Modulus = IF x < 0 THEN x + Modulus
                         ELSE IF x < Modulus THEN x ELSE x - Modulus
  <1>1. Modulus \in Int /\ Modulus > 0
    BY ModulusAssumption, SMT DEF HalfRange
  <1>2. QED
    BY <1>1, SMT

LEMMA DistanceValue ==
    ASSUME NEW a \in Serials, NEW b \in Serials
    PROVE  Distance(a, b) = IF a <= b THEN b - a ELSE b - a + Modulus
  <1>1. Modulus \in Int /\ Modulus > 0
    BY ModulusAssumption, SMT DEF HalfRange
  <1>2. b - a \in Int /\ -Modulus < b - a /\ b - a < Modulus /\ b - a < 2 * Modulus
    BY <1>1, SMT DEF Serials
  <1>3. QED
    BY <1>1, <1>2, RemainderValue, SMT DEF Serials, Distance

LEMMA FollowingValue ==
    ASSUME NEW a \in Serials
    PROVE  Following(a) = IF a = Modulus - 1 THEN 0 ELSE a + 1
  <1>1. Modulus \in Int /\ Modulus > 0
    BY ModulusAssumption, SMT DEF HalfRange
  <1>2. a + 1 \in Int /\ -Modulus < a + 1 /\ a + 1 < 2 * Modulus
    BY <1>1, SMT DEF Serials
  <1>3. QED
    BY <1>1, <1>2, RemainderValue, SMT DEF Serials, Following

\* One step after a serial is a newer serial, and still a serial.
LEMMA FollowingIsNewer ==
    ASSUME NEW a \in Serials
    PROVE  Following(a) \in Serials /\ Newer(a, Following(a))
  <1>1. HalfRange \in Int /\ HalfRange > 1 /\ Modulus = 2 * HalfRange
    BY ModulusAssumption DEF HalfRange
  <1>2. Following(a) \in Serials
    BY <1>1, FollowingValue, SMT DEF Serials
  <1>3. Distance(a, Following(a)) = 1
    BY <1>1, <1>2, FollowingValue, DistanceValue, SMT DEF Serials
  <1>4. QED
    BY <1>1, <1>2, <1>3, SMT DEF Newer

\* mysql_role_dns_converged_serial:26, "Choose one advancing serial for the two
\* authoritative DNS servers": for two different serials the choice is newer
\* than both, unless they are half the space or one less apart.
THEOREM ConvergedIsNewer ==
    ASSUME NEW a \in Serials, NEW b \in Serials, NEW need \in BOOLEAN,
           a # b, ~Ambiguous(a, b),
           Distance(a, b) # HalfRange - 1, Distance(b, a) # HalfRange - 1
    PROVE  /\ ConvergedSerial(a, b, need) \in Serials
           /\ Newer(a, ConvergedSerial(a, b, need))
           /\ Newer(b, ConvergedSerial(a, b, need))
  <1>1. HalfRange \in Int /\ HalfRange > 1 /\ Modulus = 2 * HalfRange
    BY ModulusAssumption DEF HalfRange
  <1>2. ASSUME NEW x \in Serials, NEW y \in Serials, x # y,
               Distance(x, y) < HalfRange - 1
        PROVE  Newer(x, Following(y))
    <2>1. Following(y) \in Serials
      BY FollowingIsNewer
    <2>2. Distance(x, Following(y)) = Distance(x, y) + 1
      BY <1>1, <1>2, <2>1, FollowingValue, DistanceValue, SMT DEF Serials
    <2>3. Distance(x, y) \in Int /\ Distance(x, y) >= 0
      BY <1>1, DistanceValue, SMT DEF Serials
    <2>4. QED
      BY <1>1, <1>2, <2>2, <2>3, SMT DEF Newer
  <1>3. /\ Distance(a, b) \in Int /\ Distance(b, a) \in Int
        /\ Distance(a, b) + Distance(b, a) = Modulus
    <2>1. Distance(a, b) = IF a <= b THEN b - a ELSE b - a + Modulus
      BY DistanceValue
    <2>2. Distance(b, a) = IF b <= a THEN a - b ELSE a - b + Modulus
      BY DistanceValue
    <2>3. a \in Int /\ b \in Int /\ a # b
      BY <1>1, SMT DEF Serials
    <2>4. QED
      BY <1>1, <2>1, <2>2, <2>3, SMT
  <1>4. CASE Distance(a, b) < HalfRange
    <2>1. ConvergedSerial(a, b, need) = Following(b)
      BY <1>4 DEF ConvergedSerial
    <2>2. Distance(a, b) < HalfRange - 1
      BY <1>1, <1>3, <1>4, SMT
    <2>3. QED
      BY <1>2, <2>1, <2>2, FollowingIsNewer
  <1>5. CASE ~(Distance(a, b) < HalfRange)
    <2>1. ConvergedSerial(a, b, need) = Following(a)
      BY <1>5 DEF ConvergedSerial
    <2>2. Distance(b, a) < HalfRange - 1
      BY <1>1, <1>3, <1>5, SMT DEF Ambiguous
    <2>3. QED
      BY <1>2, <2>1, <2>2, FollowingIsNewer
  <1>6. QED
    BY <1>4, <1>5

\* serial.py:38, at the boundary: serials one less than half the space apart
\* pass the filter's test for ambiguity, and the updater of the older one then
\* refuses what the filter chooses.
THEOREM ChoiceRefusedAtBoundary ==
    ASSUME NEW a \in Serials, NEW b \in Serials, NEW need \in BOOLEAN,
           Distance(a, b) = HalfRange - 1
    PROVE  ~Ambiguous(a, b) /\ ~Newer(a, ConvergedSerial(a, b, need))
  <1>1. HalfRange \in Int /\ HalfRange > 1 /\ Modulus = 2 * HalfRange
    BY ModulusAssumption DEF HalfRange
  <1>2. /\ Distance(a, b) = IF a <= b THEN b - a ELSE b - a + Modulus
        /\ Following(b) = IF b = Modulus - 1 THEN 0 ELSE b + 1
        /\ a \in Int /\ b \in Int /\ 0 <= a /\ a < Modulus /\ 0 <= b /\ b < Modulus
    BY <1>1, DistanceValue, FollowingValue, SMT DEF Serials
  <1>3. a # b /\ Distance(a, b) < HalfRange
    BY <1>1, <1>2, SMT
  <1>4. ConvergedSerial(a, b, need) = Following(b)
    BY <1>3 DEF ConvergedSerial
  <1>5. Distance(a, Following(b)) = HalfRange
    <2>1. Distance(a, Following(b)) =
              IF a <= Following(b) THEN Following(b) - a ELSE Following(b) - a + Modulus
      BY FollowingIsNewer, DistanceValue
    <2>2. QED
      BY <1>1, <1>2, <2>1, SMT
  <1>6. QED
    BY <1>1, <1>4, <1>5, SMT DEF Ambiguous, Newer

-----------------------------------------------------------------------------
(* Types.                                                                  *)

Phases == Active \cup {"idle", "done", "failed"}

LEMMA EndedType ==
    ASSUME NEW ph \in Phases, Bodies # {}
    PROVE  Ended(ph) \in Play /\ Idle \in Conv
  <1>1. (CHOOSE b \in Bodies : TRUE) \in Bodies
    OBVIOUS
  <1>2. QED
    BY <1>1, RoleDnsAssumption DEF Ended, Play, Idle, Conv, Records, Phases, Active

\* The two servers that the choice of a serial compares.
LEMMA ChosenType ==
    ASSUME NEW r \in Play
    PROVE  Chosen(r) \in Serials
  <1> DEFINE s == CHOOSE x \in Servers : TRUE
             t == CHOOSE x \in Servers : x # s
  <1>1. s \in Servers /\ t \in Servers
    BY RoleDnsAssumption
  <1>2. r.seen[s] \in Serials /\ r.seen[t] \in Serials /\ r.stale \in BOOLEAN
    BY <1>1 DEF Play
  <1>3. ASSUME NEW a \in Serials, NEW b \in Serials, NEW need \in BOOLEAN
        PROVE  ConvergedSerial(a, b, need) \in Serials
    BY FollowingIsNewer DEF ConvergedSerial
  <1>4. QED
    BY <1>1, <1>2, <1>3 DEF Chosen

\* One play is replaced, and by a play.
LEMMA PlayType ==
    ASSUME TypeOK, NEW p \in Plays, NEW r \in Play, play' = [play EXCEPT ![p] = r]
    PROVE  play' \in [Plays -> Play]
  BY DEF TypeOK

LEMMA FinishedType ==
    ASSUME TypeOK, NEW p \in Plays, NEW s \in Servers, NEW ok \in BOOLEAN,
           NEW reload \in BOOLEAN, Finished(p, s, ok, reload)
    PROVE  play' \in [Plays -> Play]
  <1>1. play[p] \in Play
    BY DEF TypeOK
  <1>2. [play[p] EXCEPT !.done = play[p].done \cup {s}, !.erred = play[p].erred \/ ~ok,
                        !.reload = play[p].reload \cup (IF reload THEN {s} ELSE {}),
                        !.at = Nowhere, !.written = FALSE] \in Play
    BY <1>1 DEF Play
  <1>3. QED
    BY <1>2, PlayType DEF Finished

LEMMA TypeInit == Init => TypeOK
  <1> SUFFICES ASSUME Init PROVE TypeOK
    OBVIOUS
  <1>1. Ended("idle") \in Play /\ Idle \in Conv
    BY EndedType DEF Init, Phases
  <1>2. QED
    BY <1>1, RoleDnsAssumption DEF Init, TypeOK, Zone, State, Records

LEMMA TypeNext == TypeOK /\ [Next]_vars => TypeOK'
  <1> SUFFICES ASSUME TypeOK, [Next]_vars PROVE TypeOK'
    OBVIOUS
  <1>0. /\ \A ph \in Phases : Ended(ph) \in Play
        /\ Idle \in Conv
    BY EndedType DEF TypeOK, Phases
  <1>1. ASSUME NEW p \in Plays, NEW node \in Nodes, Start(p, node), primary' \in Nodes
        PROVE  TypeOK'
    <2>1. [Ended("inspect") EXCEPT !.wanted = node] \in Play
      BY <1>0 DEF Play, Records, Phases, Active
    <2>2. play' \in [Plays -> Play]
      BY <1>1, <2>1, PlayType DEF Start
    <2>3. runs' \in 0..MaxRuns
      BY <1>1, RoleDnsAssumption, SMT DEF Start, MayStart, TypeOK
    <2>4. QED
      BY <1>1, <2>2, <2>3 DEF Start, TypeOK
  <1>2. ASSUME NEW p \in Plays, Converge(p) PROVE TypeOK'
    BY <1>1, <1>2 DEF Converge, TypeOK
  <1>3. ASSUME NEW p \in Plays, NEW node \in Nodes, ChangePrimary(p, node)
        PROVE  TypeOK'
    BY <1>1, <1>3 DEF ChangePrimary
  <1>4. ASSUME NEW p \in Plays, Choose(p) PROVE TypeOK'
    <2>0. play[p] \in Play /\ Chosen(play[p]) \in Serials
      BY ChosenType DEF TypeOK
    <2>1. [play[p] EXCEPT !.phase = "update", !.done = {}, !.target = Chosen(play[p])]
             \in Play
      BY <2>0 DEF Play, Active
    <2>2. Ended("failed") \in Play
      BY <1>0 DEF Phases
    <2>3. QED
      BY <1>4, <2>1, <2>2 DEF Choose, TypeOK
  <1>5. ASSUME NEW p \in Plays, NextTask(p) PROVE TypeOK'
    <2>1. [play[p] EXCEPT !.phase = NextOf[play[p].phase], !.done = {}] \in Play
      <3>1. play[p] \in Play /\ play[p].phase \in Active
        BY <1>5 DEF NextTask, TypeOK, Active
      <3>2. NextOf[play[p].phase] \in Phases
        BY <3>1 DEF NextOf, Phases, Active
      <3>3. QED
        BY <3>1, <3>2 DEF Play, Phases
    <2>2. Ended("failed") \in Play /\ Ended("done") \in Play
      BY <1>0 DEF Phases
    <2>3. QED
      BY <1>5, <2>1, <2>2 DEF NextTask, TypeOK
  <1>6. ASSUME NEW p \in Plays, Abort(p) PROVE TypeOK'
    BY <1>0, <1>6 DEF Abort, TypeOK, Phases
  <1>7. ASSUME NEW p \in Plays, NEW s \in Servers, Inspect(p, s) PROVE TypeOK'
    <2>1. play[p] \in Play /\ files[s].serial \in Serials
      BY DEF TypeOK, Zone
    <2>2. [play[p].seen EXCEPT ![s] = files[s].serial] \in [Servers -> Serials]
      BY <2>1 DEF Play
    <2>3. [play[p] EXCEPT !.done = play[p].done \cup {s},
                          !.seen = [play[p].seen EXCEPT ![s] = files[s].serial],
                          !.stale = play[p].stale \/ files[s].records # play[p].wanted]
             \in Play
      BY <2>1, <2>2 DEF Play
    <2>4. QED
      BY <1>7, <2>3 DEF Inspect, TypeOK
  <1>8. ASSUME NEW p \in Plays, NEW s \in Servers,
               LeaveAlone(p, s) \/ Refuse(p, s) \/ UpdateFails(p, s)
        PROVE  TypeOK'
    <2>1. play' \in [Plays -> Play]
      BY <1>8, FinishedType DEF LeaveAlone, Refuse, UpdateFails, Applied
    <2>2. QED
      BY <1>8, <2>1 DEF LeaveAlone, Refuse, UpdateFails, TypeOK
  <1>9. ASSUME NEW p \in Plays, NEW s \in Servers, ReadZone(p, s) PROVE TypeOK'
    <2>1. play[p] \in Play /\ files[s].body \in Bodies
      BY DEF TypeOK, Zone
    <2>2. [play[p] EXCEPT !.at = s, !.copy = files[s].body] \in Play
      BY <2>1 DEF Play
    <2>3. QED
      BY <1>9, <2>2 DEF ReadZone, TypeOK
  <1>10. ASSUME NEW p \in Plays, NEW s \in Servers, WriteZone(p, s) PROVE TypeOK'
    <2>1. play[p] \in Play /\ files[s] \in Zone
      BY DEF TypeOK
    <2>2. [play[p] EXCEPT !.written = TRUE] \in Play
      BY <2>1 DEF Play
    <2>3. [files[s] EXCEPT !.serial = play[p].target, !.body = play[p].copy] \in Zone
      BY <2>1 DEF Play, Zone
    <2>4. QED
      BY <1>10, <2>2, <2>3 DEF WriteZone, TypeOK
  <1>11. ASSUME NEW p \in Plays, NEW s \in Servers, NEW ok \in BOOLEAN,
                WriteRecords(p, s, ok)
         PROVE  TypeOK'
    <2>1. play' \in [Plays -> Play]
      BY <1>11, FinishedType DEF WriteRecords
    <2>2. files' \in [Servers -> Zone]
      <3>1. play[p] \in Play /\ files[s] \in Zone
        BY DEF TypeOK
      <3>2. [files[s] EXCEPT !.records = play[p].wanted] \in Zone
        BY <3>1 DEF Play, Zone
      <3>3. QED
        BY <1>11, <3>2 DEF WriteRecords, TypeOK
    <2>3. QED
      BY <1>11, <2>1, <2>2 DEF WriteRecords, TypeOK
  <1>12. ASSUME NEW p \in Plays, NEW s \in Servers, NEW ok \in BOOLEAN,
                Reload(p, s, ok)
         PROVE  TypeOK'
    <2>1. play[p] \in Play
      BY DEF TypeOK
    <2>2. [play[p] EXCEPT !.done = play[p].done \cup {s}, !.erred = play[p].erred \/ ~ok]
             \in Play
      BY <2>1 DEF Play
    <2>3. QED
      BY <1>12, <2>2 DEF Reload, TypeOK
  <1>13. ASSUME NEW p \in Plays, NEW s \in Servers, Record(p, s) PROVE TypeOK'
    <2>1. play[p] \in Play
      BY DEF TypeOK
    <2>2. [play[p] EXCEPT !.done = play[p].done \cup {s}] \in Play
      BY <2>1 DEF Play
    <2>3. [serial |-> play[p].target, records |-> play[p].wanted] \in State
      BY <2>1 DEF Play, State
    <2>4. QED
      BY <1>13, <2>2, <2>3 DEF Record, TypeOK
  <1>14. ASSUME NEW body \in Bodies, Declare(body) PROVE TypeOK'
    BY <1>14 DEF Declare, TypeOK
  <1>15. ASSUME NEW H \in (SUBSET Converging) \ {{}}, Render(H) PROVE TypeOK'
    <2>1. ASSUME NEW s \in Servers
          PROVE  ZoneSerial(files[s].serial, files[s].body = declared) \in Serials
      BY FollowingIsNewer DEF ZoneSerial, TypeOK, Zone
    <2>2. conv' \in [Servers -> Conv]
      BY <1>15, <2>1 DEF Render, TypeOK, Conv
    <2>3. runs' \in 0..MaxRuns
      BY <1>15, RoleDnsAssumption, SMT DEF Render, MayStart, TypeOK
    <2>4. QED
      BY <1>15, <2>2, <2>3 DEF Render, TypeOK
  <1>16. ASSUME NEW s \in Servers, WriteTemplate(s) PROVE TypeOK'
    <2>1. files[s] \in Zone /\ conv[s] \in Conv
      BY DEF TypeOK
    <2>2. [files[s] EXCEPT !.serial = conv[s].serial, !.body = conv[s].body] \in Zone
      BY <2>1 DEF Zone, Conv
    <2>3. [conv[s] EXCEPT !.phase = "notified"] \in Conv
      BY <2>1 DEF Conv
    <2>4. QED
      BY <1>0, <1>16, <2>2, <2>3 DEF WriteTemplate, TypeOK
  <1>17. ASSUME NEW s \in Servers, RestartNsd(s) PROVE TypeOK'
    BY <1>0, <1>17 DEF RestartNsd, TypeOK
  <1>18. ASSUME NEW s \in Servers, ConvergenceFails(s) PROVE TypeOK'
    BY <1>0, <1>18 DEF ConvergenceFails, TypeOK
  <1>19. ASSUME NEW s \in Servers, Reboot(s) PROVE TypeOK'
    <2>1. ASSUME NEW p \in Plays
          PROVE  [play[p] EXCEPT !.done = play[p].done \cup {s}, !.erred = TRUE,
                                 !.at = Nowhere, !.written = FALSE] \in Play
      <3>1. play[p] \in Play
        BY DEF TypeOK
      <3>2. QED
        BY <3>1 DEF Play
    <2>2. play' \in [Plays -> Play]
      BY <1>19, <2>1 DEF Reboot, TypeOK
    <2>3. QED
      BY <1>19, <2>2 DEF Reboot, TypeOK
  <1>20. CASE UNCHANGED vars
    BY <1>20 DEF vars, TypeOK
  <1>21. QED
    BY <1>2, <1>3, <1>4, <1>5, <1>6, <1>7, <1>8, <1>9, <1>10, <1>11, <1>12, <1>13,
       <1>14, <1>15, <1>16, <1>17, <1>18, <1>19, <1>20 DEF Next

\* Serials stay within their width, and the variables of plays, convergence and
\* servers keep their types, for any servers, nodes, contents and modulus.
THEOREM TypeCorrect == Spec => []TypeOK
  BY TypeInit, TypeNext, PTL DEF Spec

-----------------------------------------------------------------------------
(* Writers of the zone files.                                              *)

\* What the updater of one play needs in the new state.
PlayAdvances(p) ==
    play[p].at # Nowhere =>
        /\ Pending(p, play[p].at)
        /\ ~play[p].written => Newer(files[play[p].at].serial, play[p].target)

\* One play goes on, and touches no serial but that of the server it has locked.
LEMMA PlayKeeps ==
    ASSUME TypeOK, WriterInv, NEW p \in Plays,
           \A s \in Servers : conv[s].phase = "idle", conv' = conv,
           NEW r, play' = [play EXCEPT ![p] = r], PlayAdvances(p)',
           \A s \in Servers : files'[s].serial = files[s].serial \/ play[p].at = s,
           \A q \in Plays : q # p /\ play'[p].at # Nowhere => play[q].at # play'[p].at
    PROVE  WriterInv'
  <1>1. \A q \in Plays : q # p => play'[q] = play[q]
    BY DEF TypeOK
  <1>2. OneWriter'
    BY <1>1 DEF WriterInv, OneWriter
  <1>3. ASSUME NEW q \in Plays, q # p, play[q].at # Nowhere
        PROVE  PlayAdvances(q)'
    <2>1. play[q].at \in Servers /\ play[p].at # play[q].at
      BY <1>3 DEF TypeOK, Play, WriterInv, OneWriter
    <2>2. files'[play[q].at].serial = files[play[q].at].serial
      BY <2>1
    <2>3. QED
      BY <1>1, <1>3, <2>2 DEF PlayAdvances, WriterInv, UpdaterAdvances, Pending
  <1>4. UpdaterAdvances'
    BY <1>1, <1>3 DEF UpdaterAdvances, PlayAdvances
  <1>5. RenderedAdvances'
    BY DEF RenderedAdvances
  <1>6. QED
    BY <1>2, <1>4, <1>5 DEF WriterInv

\* The case of a play whose updater is not, or no more, at work.
LEMMA RestingKeeps ==
    ASSUME TypeOK, WriterInv, NEW p \in Plays,
           \A s \in Servers : conv[s].phase = "idle", conv' = conv,
           NEW r, play' = [play EXCEPT ![p] = r], play'[p].at = Nowhere,
           \A s \in Servers : files'[s].serial = files[s].serial
    PROVE  WriterInv'
  BY PlayKeeps DEF PlayAdvances

\* Where a play is at work no zone is being converged.
LEMMA NoConvergence ==
    ASSUME WriterInv, NEW p \in Plays, AtWork(p)
    PROVE  \A s \in Servers : conv[s].phase = "idle"
  BY DEF WriterInv, OneWriter

\* Between runs nothing is at work on any server.
LEMMA NobodyWorks ==
    ASSUME WriterInv, \A p \in Plays : ~AtWork(p)
    PROVE  \A p \in Plays : play[p].at = Nowhere
  BY DEF WriterInv, UpdaterAdvances, Pending, AtWork, Active

\* Nobody is at work where a zone is being converged.
LEMMA ConvergingAlone ==
    ASSUME WriterInv, NEW s \in Servers, conv[s].phase # "idle"
    PROVE  \A p \in Plays : ~AtWork(p) /\ play[p].at = Nowhere
  BY NobodyWorks DEF WriterInv, OneWriter

LEMMA EndedRests == \A ph : Ended(ph).at = Nowhere /\ Ended(ph).phase = ph
  BY DEF Ended

LEMMA WriterInit == Init => WriterInv
  <1> SUFFICES ASSUME Init PROVE WriterInv
    OBVIOUS
  <1>1. \A p \in Plays : play[p].at = Nowhere /\ play[p].phase = "idle"
    BY EndedRests DEF Init
  <1>2. \A s \in Servers : conv[s].phase = "idle"
    BY DEF Init, Idle
  <1>3. QED
    BY <1>1, <1>2 DEF WriterInv, OneWriter, UpdaterAdvances, RenderedAdvances, AtWork, Active

LEMMA FinishedKeeps ==
    ASSUME TypeOK, WriterInv, NEW p \in Plays, NEW s, NEW ok, NEW reload,
           AtWork(p), conv' = conv, Finished(p, s, ok, reload),
           \A t \in Servers : files'[t].serial = files[t].serial
    PROVE  WriterInv'
  <1>1. play'[p].at = Nowhere
    BY DEF Finished, TypeOK, Play
  <1>2. QED
    BY <1>1, NoConvergence, RestingKeeps DEF Finished

LEMMA WriterNext ==
    ASSUME Serialized \/ Converging = {}
    PROVE  TypeOK /\ WriterInv /\ [Next]_vars => WriterInv'
  <1> SUFFICES ASSUME TypeOK, WriterInv, [Next]_vars PROVE WriterInv'
    OBVIOUS
  <1>1. ASSUME NEW p \in Plays, NEW node \in Nodes, Start(p, node) PROVE WriterInv'
    <2>1. \A s \in Servers : conv[s].phase = "idle"
      BY <1>1 DEF Start, MayStart, WriterInv, OneWriter
    <2>2. play'[p].at = Nowhere
      BY <1>1, EndedRests DEF Start, TypeOK, Ended
    <2>3. conv' = conv /\ files' = files
      BY <1>1 DEF Start
    <2>4. QED
      BY <1>1, <2>1, <2>2, <2>3, RestingKeeps DEF Start
  <1>2. ASSUME NEW p \in Plays,
               Converge(p) \/ \E node \in Nodes : ChangePrimary(p, node)
        PROVE  WriterInv'
    BY <1>1, <1>2 DEF Converge, ChangePrimary, TypeOK
  <1>3. ASSUME NEW p \in Plays, Choose(p) PROVE WriterInv'
    <2>1. play[p].at = Nowhere /\ AtWork(p) /\ conv' = conv
      BY <1>3 DEF Choose, WriterInv, UpdaterAdvances, Pending, AtWork, Active
    <2>2. play'[p].at = Nowhere
      BY <1>3, <2>1, EndedRests DEF Choose, TypeOK, Play
    <2>3. QED
      BY <1>3, <2>1, <2>2, NoConvergence, RestingKeeps DEF Choose
  <1>4. ASSUME NEW p \in Plays, NextTask(p) PROVE WriterInv'
    <2>1. play[p].at = Nowhere
      BY <1>4 DEF NextTask, WriterInv, UpdaterAdvances, Pending, TypeOK, Play
    <2>2. AtWork(p) /\ conv' = conv
      BY <1>4 DEF NextTask, AtWork, Active
    <2>3. play'[p].at = Nowhere
      BY <1>4, <2>1, EndedRests DEF NextTask, TypeOK, Play
    <2>4. QED
      BY <1>4, <2>2, <2>3, NoConvergence, RestingKeeps DEF NextTask
  <1>5. ASSUME NEW p \in Plays, Abort(p) PROVE WriterInv'
    <2>1. play'[p].at = Nowhere
      BY <1>5, EndedRests DEF Abort, TypeOK
    <2>2. QED
      BY <1>5, <2>1, NoConvergence, RestingKeeps DEF Abort
  <1>6. ASSUME NEW p \in Plays, NEW s \in Servers,
               Inspect(p, s) \/ Record(p, s) \/ \E ok \in BOOLEAN : Reload(p, s, ok)
        PROVE  WriterInv'
    <2>1. play[p].at = Nowhere /\ AtWork(p) /\ conv' = conv
      BY <1>6 DEF Inspect, Record, Reload, WriterInv, UpdaterAdvances, Pending, AtWork, Active
    <2>2. play[p] \in Play
      BY DEF TypeOK
    <2>3. CASE Inspect(p, s)
      <3>1. play'[p].at = Nowhere
        BY <2>1, <2>2, <2>3 DEF Inspect, TypeOK, Play
      <3>2. QED
        BY <2>1, <2>3, <3>1, NoConvergence, RestingKeeps DEF Inspect
    <2>4. CASE Record(p, s)
      <3>1. play'[p].at = Nowhere
        BY <2>1, <2>2, <2>4 DEF Record, TypeOK, Play
      <3>2. QED
        BY <2>1, <2>4, <3>1, NoConvergence, RestingKeeps DEF Record
    <2>5. CASE \E ok \in BOOLEAN : Reload(p, s, ok)
      <3>1. play'[p].at = Nowhere
        BY <2>1, <2>2, <2>5 DEF Reload, TypeOK, Play
      <3>2. QED
        BY <2>1, <2>5, <3>1, NoConvergence, RestingKeeps DEF Reload
    <2>6. QED
      BY <1>6, <2>3, <2>4, <2>5
  <1>7. ASSUME NEW p \in Plays, NEW s \in Servers,
               \/ LeaveAlone(p, s) \/ Refuse(p, s) \/ UpdateFails(p, s)
               \/ \E ok \in BOOLEAN : WriteRecords(p, s, ok)
        PROVE  WriterInv'
    <2>1. AtWork(p) /\ conv' = conv
      BY <1>7 DEF LeaveAlone, Refuse, UpdateFails, WriteRecords, WriterInv,
                  UpdaterAdvances, Pending, AtWork, Active
    <2>2. CASE LeaveAlone(p, s) \/ Refuse(p, s) \/ UpdateFails(p, s)
      BY <2>1, <2>2, FinishedKeeps DEF LeaveAlone, Refuse, UpdateFails
    <2>3. ASSUME NEW ok \in BOOLEAN, WriteRecords(p, s, ok)
          PROVE  WriterInv'
      <3>1. \A t \in Servers : files'[t].serial = files[t].serial
        BY <2>3 DEF WriteRecords, TypeOK, Zone
      <3>2. QED
        BY <2>1, <2>3, <3>1, FinishedKeeps DEF WriteRecords
    <2>4. QED
      BY <1>7, <2>2, <2>3
  <1>8. ASSUME NEW p \in Plays, NEW s \in Servers, ReadZone(p, s) PROVE WriterInv'
    <2>1. AtWork(p) /\ conv' = conv /\ files' = files
      BY <1>8 DEF ReadZone, Pending, AtWork, Active
    <2>2. /\ play'[p].at = s /\ play'[p].phase = play[p].phase
          /\ play'[p].done = play[p].done /\ play'[p].target = play[p].target
      BY <1>8 DEF ReadZone, TypeOK, Play
    <2>3. PlayAdvances(p)'
      BY <1>8, <2>1, <2>2 DEF ReadZone, Pending, PlayAdvances
    <2>4. QED
      BY <1>8, <2>1, <2>2, <2>3, NoConvergence, PlayKeeps DEF ReadZone, FlockFree
  <1>9. ASSUME NEW p \in Plays, NEW s \in Servers, WriteZone(p, s) PROVE WriterInv'
    <2>1. Pending(p, s) /\ AtWork(p) /\ conv' = conv
      BY <1>9 DEF WriteZone, WriterInv, UpdaterAdvances, Pending, AtWork, Active
    <2>2. /\ play'[p].at = s /\ play'[p].phase = play[p].phase
          /\ play'[p].done = play[p].done /\ play'[p].written
      BY <1>9 DEF WriteZone, TypeOK, Play
    <2>3. PlayAdvances(p)'
      BY <2>1, <2>2 DEF Pending, PlayAdvances
    <2>4. \A t \in Servers : files'[t].serial = files[t].serial \/ play[p].at = t
      BY <1>9 DEF WriteZone, TypeOK
    <2>5. \A q \in Plays : q # p => play[q].at # s
      BY <1>9 DEF WriteZone, WriterInv, OneWriter
    <2>6. QED
      BY <1>9, <2>1, <2>2, <2>3, <2>4, <2>5, NoConvergence, PlayKeeps DEF WriteZone
  <1>10. ASSUME NEW body \in Bodies, Declare(body) PROVE WriterInv'
    BY <1>10 DEF Declare, WriterInv, OneWriter, UpdaterAdvances, RenderedAdvances,
                 AtWork, Pending
  <1>11. ASSUME NEW H \in (SUBSET Converging) \ {{}}, Render(H) PROVE WriterInv'
    <2>0. Serialized
      <3>1. Converging # {}
        BY <1>11
      <3>2. QED
        BY <3>1
    <2>1. /\ \A q \in Plays : ~AtWork(q) /\ play[q].at = Nowhere
          /\ \A s \in Servers : conv[s].phase = "idle"
      BY <1>11, <2>0, NobodyWorks DEF Render, MayStart
    <2>2. play' = play /\ files' = files /\ H \subseteq Converging
      BY <1>11 DEF Render
    <2>3. \A s \in Servers :
             /\ s \notin H => conv'[s].phase = "idle"
             /\ s \in H => conv'[s].serial =
                              ZoneSerial(files[s].serial, files[s].body = declared)
      BY <1>11, <2>1 DEF Render
    <2>4. OneWriter'
      BY <2>1, <2>2, <2>3 DEF OneWriter, AtWork
    <2>5. RenderedAdvances'
      BY <2>2, <2>3 DEF RenderedAdvances, ZoneSerial
    <2>6. UpdaterAdvances'
      BY <2>1, <2>2 DEF UpdaterAdvances
    <2>7. QED
      BY <2>4, <2>5, <2>6 DEF WriterInv
  <1>12. ASSUME NEW s \in Servers,
                WriteTemplate(s) \/ RestartNsd(s) \/ ConvergenceFails(s)
         PROVE  WriterInv'
    <2>1. conv[s].phase # "idle" /\ play' = play
      BY <1>12 DEF WriteTemplate, RestartNsd, ConvergenceFails
    <2>2. \A q \in Plays : ~AtWork(q) /\ play[q].at = Nowhere
      BY <2>1, ConvergingAlone
    <2>3. conv'[s].phase # "rendered"
      BY <1>12 DEF WriteTemplate, RestartNsd, ConvergenceFails, Idle, TypeOK, Conv
    <2>4. \A t \in Servers : t # s => conv'[t] = conv[t] /\ files'[t] = files[t]
      BY <1>12 DEF WriteTemplate, RestartNsd, ConvergenceFails, TypeOK
    <2>5. RenderedAdvances'
      BY <2>3, <2>4 DEF WriterInv, RenderedAdvances
    <2>6. QED
      BY <2>1, <2>2, <2>4, <2>5 DEF WriterInv, OneWriter, UpdaterAdvances, AtWork
  <1>13. ASSUME NEW s \in Servers, Reboot(s) PROVE WriterInv'
    <2>1. \A p \in Plays :
             /\ play'[p].phase = play[p].phase
             /\ play'[p] = play[p] \/ play'[p].at = Nowhere
      BY <1>13 DEF Reboot, TypeOK, Play
    <2>2. conv' = conv /\ files' = files
      BY <1>13 DEF Reboot
    <2>3. OneWriter'
      BY <2>1, <2>2 DEF WriterInv, OneWriter, AtWork
    <2>4. UpdaterAdvances'
      BY <2>1, <2>2 DEF WriterInv, UpdaterAdvances, Pending
    <2>5. RenderedAdvances'
      BY <2>2 DEF WriterInv, RenderedAdvances
    <2>6. QED
      BY <2>3, <2>4, <2>5 DEF WriterInv
  <1>14. CASE UNCHANGED vars
    BY <1>14 DEF vars, WriterInv, OneWriter, UpdaterAdvances, RenderedAdvances, AtWork, Pending
  <1>15. QED
    BY <1>2, <1>3, <1>4, <1>5, <1>6, <1>7, <1>8, <1>9, <1>10, <1>11, <1>12, <1>13,
       <1>14 DEF Next

\* mysql-switchover.yml and the convergence playbooks are started by people: as
\* long as they run one at a time, or no zone is converged beside the plays that
\* update role DNS, what a writer is about to write is newer than what is there.
THEOREM WritersAdvance ==
    Serialized \/ Converging = {} => (Spec => []WriterInv)
  <1> SUFFICES ASSUME Serialized \/ Converging = {} PROVE Spec => []WriterInv
    OBVIOUS
  <1>1. Spec => []TypeOK
    BY TypeCorrect
  <1>2. QED
    BY <1>1, WriterInit, WriterNext, PTL DEF Spec

LEMMA SerialStep ==
    ASSUME TypeOK, WriterInv, [Next]_vars, NEW s \in Servers,
           files'[s].serial # files[s].serial
    PROVE  Newer(files[s].serial, files'[s].serial)
  <1>1. ASSUME NEW p \in Plays, NEW t \in Servers, WriteZone(p, t)
        PROVE  Newer(files[s].serial, files'[s].serial)
    <2>1. files'[s].serial = IF s = t THEN play[p].target ELSE files[s].serial
      BY <1>1 DEF WriteZone, TypeOK, Zone
    <2>2. Newer(files[t].serial, play[p].target)
      BY <1>1 DEF WriteZone, WriterInv, UpdaterAdvances
    <2>3. QED
      BY <2>1, <2>2
  <1>2. ASSUME NEW t \in Servers, WriteTemplate(t)
        PROVE  Newer(files[s].serial, files'[s].serial)
    <2>1. files'[s].serial = IF s = t THEN conv[t].serial ELSE files[s].serial
      BY <1>2 DEF WriteTemplate, TypeOK, Zone
    <2>2. conv[t].serial \in {files[t].serial, Following(files[t].serial)}
      BY <1>2 DEF WriteTemplate, WriterInv, RenderedAdvances
    <2>3. files[s].serial \in Serials
      BY DEF TypeOK, Zone
    <2>4. QED
      BY <2>1, <2>2, <2>3, FollowingIsNewer
  <1>3. ASSUME NEW p \in Plays, NEW t \in Servers, NEW ok \in BOOLEAN,
               WriteRecords(p, t, ok)
        PROVE  FALSE
    BY <1>3 DEF WriteRecords, TypeOK, Zone
  <1>4. CASE files' = files
    BY <1>4
  <1>5. ASSUME NEW p \in Plays, NEW t \in Servers, NEW ok \in BOOLEAN,
               Inspect(p, t) \/ LeaveAlone(p, t) \/ Refuse(p, t) \/ ReadZone(p, t)
                 \/ UpdateFails(p, t) \/ Record(p, t) \/ Reload(p, t, ok)
        PROVE  files' = files
    BY <1>5 DEF Inspect, LeaveAlone, Refuse, ReadZone, UpdateFails, Record, Reload
  <1>6. ASSUME NEW p \in Plays, NEW node \in Nodes,
               Converge(p) \/ ChangePrimary(p, node) \/ Choose(p) \/ NextTask(p) \/ Abort(p)
        PROVE  files' = files
    BY <1>6 DEF Converge, ChangePrimary, Start, Choose, NextTask, Abort
  <1>7. ASSUME NEW t \in Servers, RestartNsd(t) \/ ConvergenceFails(t) \/ Reboot(t)
        PROVE  files' = files
    BY <1>7 DEF RestartNsd, ConvergenceFails, Reboot
  <1>8. ASSUME NEW body, NEW H, Declare(body) \/ Render(H)
        PROVE  files' = files
    BY <1>8 DEF Declare, Render
  <1>9. CASE UNCHANGED vars
    BY <1>9 DEF vars
  <1>10. Nodes # {}
    BY DEF TypeOK
  <1>11. QED
    BY <1>1, <1>2, <1>3, <1>4, <1>5, <1>6, <1>7, <1>8, <1>9, <1>10 DEF Next

\* docs/dns.md:132, dns_authoritative_soa_serial and serial_is_newer: the serial
\* of a zone file only advances in the order of RFC 1982, through both writers
\* and through failures and reboots anywhere, for serials of any width.
THEOREM SerialsAdvance ==
    Serialized \/ Converging = {} => (Spec => SerialsOnlyAdvance)
  <1> SUFFICES ASSUME Serialized \/ Converging = {} PROVE Spec => SerialsOnlyAdvance
    OBVIOUS
  <1>1. Spec => []TypeOK
    BY TypeCorrect
  <1>2. Spec => []WriterInv
    BY WritersAdvance
  <1>3. TypeOK /\ WriterInv /\ [Next]_vars =>
          [\A s \in Servers :
              files'[s].serial # files[s].serial
                  => Newer(files[s].serial, files'[s].serial)]_vars
    BY SerialStep
  <1>4. QED
    BY <1>1, <1>2, <1>3, PTL DEF Spec, SerialsOnlyAdvance

-----------------------------------------------------------------------------
(* Serials on the arc that starts at the first one.  The bound on runs     *)
(* keeps every serial less than half the space from FirstSerial; there the *)
(* order of RFC 1982 is the order of ages.                                 *)

\* How far a serial is from the one that both zones began with.
Age(x) == Distance(FirstSerial, x)

LEMMA AgeValue ==
    ASSUME NEW x \in Serials
    PROVE  /\ Age(x) = IF FirstSerial <= x THEN x - FirstSerial
                       ELSE x - FirstSerial + Modulus
           /\ Age(x) \in Nat /\ Age(x) < Modulus
           /\ FirstSerial \in 0..(Modulus - 1) /\ x \in 0..(Modulus - 1)
           /\ Modulus \in Nat /\ HalfRange \in Nat /\ HalfRange > 1
           /\ Modulus = 2 * HalfRange
  <1>1. Modulus \in Nat /\ HalfRange \in Int /\ HalfRange > 1 /\ Modulus = 2 * HalfRange
    BY ModulusAssumption, SMT DEF HalfRange
  <1>2. FirstSerial \in 0..(Modulus - 1) /\ x \in 0..(Modulus - 1)
    BY RoleDnsAssumption DEF Serials
  <1>3. Age(x) = IF FirstSerial <= x THEN x - FirstSerial
                 ELSE x - FirstSerial + Modulus
    BY DistanceValue, RoleDnsAssumption DEF Age
  <1>4. QED
    BY <1>1, <1>2, <1>3, SMT

\* The age tells serials apart, and the first serial is the oldest.
LEMMA AgeTells ==
    ASSUME NEW x \in Serials, NEW y \in Serials
    PROVE  Age(x) = Age(y) => x = y
  BY AgeValue, SMT

LEMMA FirstAge == Age(FirstSerial) = 0
  BY AgeValue, RoleDnsAssumption, SMT

LEMMA AgeFollowing ==
    ASSUME NEW x \in Serials
    PROVE  /\ Age(Following(x)) <= Age(x) + 1
           /\ Age(x) + 1 < Modulus => Age(Following(x)) = Age(x) + 1
  <1>1. Following(x) \in Serials
    BY FollowingIsNewer
  <1>2. Following(x) = IF x = Modulus - 1 THEN 0 ELSE x + 1
    BY FollowingValue
  <1>3. QED
    BY <1>1, <1>2, AgeValue, SMT

\* On half of the space the order of RFC 1982 is total.
LEMMA AgeOrder ==
    ASSUME NEW x \in Serials, NEW y \in Serials,
           Age(x) < HalfRange, Age(y) < HalfRange
    PROVE  /\ Newer(x, y) <=> Age(x) < Age(y)
           /\ ~Ambiguous(x, y)
           /\ x # y => (Distance(x, y) < HalfRange <=> Age(x) < Age(y))
  <1>1. Distance(x, y) = IF x <= y THEN y - x ELSE y - x + Modulus
    BY DistanceValue
  <1>2. Distance(x, y) = IF Age(x) <= Age(y) THEN Age(y) - Age(x)
                         ELSE Age(y) - Age(x) + Modulus
    BY <1>1, AgeValue, SMT
  <1>3. /\ Age(x) \in Nat /\ Age(y) \in Nat /\ HalfRange \in Nat
        /\ Modulus = 2 * HalfRange
    BY AgeValue
  <1>4. x # y => Age(x) # Age(y)
    BY AgeTells
  <1>5. Newer(x, y) <=> Age(x) < Age(y)
    BY <1>2, <1>3, SMT DEF Newer
  <1>6. ~Ambiguous(x, y)
    BY <1>2, <1>3, SMT DEF Ambiguous
  <1>7. x # y => (Distance(x, y) < HalfRange <=> Age(x) < Age(y))
    BY <1>2, <1>3, <1>4, SMT
  <1>8. QED
    BY <1>5, <1>6, <1>7

\* The choice for two serials is at most one step beyond the newer one.
LEMMA ConvergedAge ==
    ASSUME NEW x \in Serials, NEW y \in Serials, NEW need \in BOOLEAN,
           NEW n \in Nat, Age(x) <= n, Age(y) <= n
    PROVE  Age(ConvergedSerial(x, y, need)) <= n + 1
  <1>1. ASSUME NEW z \in Serials, Age(z) <= n
        PROVE  Age(z) <= n + 1 /\ Age(Following(z)) <= n + 1
    <2>1. Age(z) \in Nat /\ Age(Following(z)) <= Age(z) + 1 /\ Age(Following(z)) \in Nat
      BY AgeValue, AgeFollowing, FollowingIsNewer
    <2>2. QED
      BY <1>1, <2>1, SMT
  <1>2. QED
    BY <1>1 DEF ConvergedSerial

\* For serials less than half the space old it is newer than both, or the same
\* where they are equal and nothing is to be changed.
LEMMA ConvergedAdvances ==
    ASSUME NEW x \in Serials, NEW y \in Serials, NEW need \in BOOLEAN,
           Age(x) + 1 < HalfRange, Age(y) + 1 < HalfRange
    PROVE  /\ x = y /\ ~need => ConvergedSerial(x, y, need) = x
           /\ ~(x = y /\ ~need) => /\ Newer(x, ConvergedSerial(x, y, need))
                                   /\ Newer(y, ConvergedSerial(x, y, need))
  <1>1. x = y /\ ~need => ConvergedSerial(x, y, need) = x
    BY DEF ConvergedSerial
  <1>2. CASE x = y /\ need
    BY <1>2, FollowingIsNewer DEF ConvergedSerial
  <1>3. ASSUME NEW u \in Serials, NEW v \in Serials, Age(u) < Age(v),
               Age(v) + 1 < HalfRange
        PROVE  Newer(u, Following(v)) /\ Newer(v, Following(v))
    <2>1. Following(v) \in Serials /\ Newer(v, Following(v))
      BY FollowingIsNewer
    <2>2. /\ Age(u) \in Nat /\ Age(v) \in Nat /\ HalfRange \in Nat
          /\ Modulus = 2 * HalfRange
      BY AgeValue
    <2>3. Age(Following(v)) = Age(v) + 1
      BY <1>3, <2>2, AgeFollowing, SMT
    <2>4. Age(u) < HalfRange /\ Age(Following(v)) < HalfRange
             /\ Age(u) < Age(Following(v))
      BY <1>3, <2>2, <2>3, SMT
    <2>5. QED
      BY <2>1, <2>4, AgeOrder
  <1>4. CASE x # y
    <2>1. /\ Age(x) \in Nat /\ Age(y) \in Nat /\ HalfRange \in Nat
          /\ Age(x) # Age(y)
      BY <1>4, AgeValue, AgeTells
    <2>2. Age(x) < HalfRange /\ Age(y) < HalfRange
      BY <2>1, SMT
    <2>3. CASE Age(x) < Age(y)
      <3>1. ConvergedSerial(x, y, need) = Following(y)
        BY <1>4, <2>2, <2>3, AgeOrder DEF ConvergedSerial
      <3>2. QED
        BY <1>3, <1>4, <2>3, <3>1
    <2>4. CASE Age(y) < Age(x)
      <3>0. ~(Age(x) < Age(y))
        BY <2>1, <2>4, SMT
      <3>1. ConvergedSerial(x, y, need) = Following(x)
        BY <1>4, <2>2, <3>0, AgeOrder DEF ConvergedSerial
      <3>2. QED
        BY <1>3, <1>4, <2>4, <3>1
    <2>5. QED
      BY <2>1, <2>3, <2>4, SMT
  <1>5. QED
    BY <1>1, <1>2, <1>4

-----------------------------------------------------------------------------
(* How far serials get.                                                    *)

Inspecting == {p \in Plays : play[p].phase = "inspect"}

\* The runs that have chosen their serial, or ended without choosing one.
Room == runs - Cardinality(Inspecting)

Young(x) == x \in Serials /\ Age(x) <= Room

\* Every run that is past its inspection has taken a serial at most one step
\* further: no serial anywhere is older than the runs that could have moved it.
Bounded ==
    /\ IsFiniteSet(Inspecting)
    /\ \A s \in Servers : /\ Young(files[s].serial) /\ Young(loaded[s].serial)
                          /\ Young(applied[s].serial) /\ Young(conv[s].serial)
    /\ \A p \in Plays : Young(play[p].target) /\ \A s \in Servers : Young(play[p].seen[s])

LEMMA RoomType ==
    ASSUME TypeOK, Bounded
    PROVE  Room \in Nat /\ Room <= runs /\ runs <= MaxRuns /\ Young(FirstSerial)
  <1>1. Cardinality(Inspecting) \in Nat
    BY FS_CardinalityType DEF Bounded
  <1>2. runs \in Nat /\ runs <= MaxRuns
    BY RoleDnsAssumption, SMT DEF TypeOK
  <1>3. PICK s \in Servers : TRUE
    BY RoleDnsAssumption
  <1>4. files[s].serial \in Serials /\ Age(files[s].serial) <= Room
    BY DEF Bounded, Young
  <1>5. Age(files[s].serial) \in Nat
    BY <1>4, AgeValue
  <1>6. Room \in Nat /\ Room <= runs
    BY <1>1, <1>2, <1>4, <1>5, SMT DEF Room
  <1>7. FirstSerial \in Serials
    BY RoleDnsAssumption
  <1>8. Young(FirstSerial)
    BY <1>6, <1>7, FirstAge, SMT DEF Young
  <1>9. QED
    BY <1>2, <1>6, <1>8

\* Any serial can take two more steps within half the space.
LEMMA Far ==
    ASSUME TypeOK, Bounded, NEW x, Young(x)
    PROVE  x \in Serials /\ Age(x) \in Nat /\ Age(x) + 1 < HalfRange
  <1>1. Room \in Nat /\ Room <= runs /\ runs <= MaxRuns /\ runs \in Int
    BY RoomType, RoleDnsAssumption, SMT DEF TypeOK
  <1>2. x \in Serials /\ Age(x) <= Room
    BY DEF Young
  <1>3. Age(x) \in Nat /\ HalfRange \in Nat
    BY <1>2, AgeValue
  <1>4. MaxRuns \in Nat /\ MaxRuns + 1 < HalfRange
    BY RoleDnsAssumption
  <1>5. QED
    BY <1>1, <1>2, <1>3, <1>4, SMT

LEMMA YoungStays ==
    ASSUME TypeOK, Bounded, Room' \in Int, Room' >= Room, NEW x, Young(x)
    PROVE  x \in Serials /\ Age(x) <= Room'
  <1>1. x \in Serials /\ Age(x) <= Room
    BY DEF Young
  <1>2. Age(x) \in Nat /\ Room \in Nat
    BY <1>1, AgeValue, RoomType
  <1>3. QED
    BY <1>1, <1>2, SMT

\* A step with no serial that was not there before.
LEMMA NothingNew ==
    ASSUME TypeOK, Bounded, IsFiniteSet(Inspecting'), Room' \in Int, Room' >= Room,
           \A s \in Servers : /\ Young(files'[s].serial) /\ Young(loaded'[s].serial)
                              /\ Young(applied'[s].serial) /\ Young(conv'[s].serial),
           \A p \in Plays : /\ Young(play'[p].target)
                            /\ \A s \in Servers : Young(play'[p].seen[s])
    PROVE  Bounded'
  <1>1. ASSUME NEW x, Young(x) PROVE x \in Serials /\ Age(x) <= Room'
    BY <1>1, YoungStays
  <1>2. \A s \in Servers :
           /\ Young(files[s].serial)' /\ Young(loaded[s].serial)'
           /\ Young(applied[s].serial)' /\ Young(conv[s].serial)'
    BY <1>1 DEF Young
  <1>3. \A p \in Plays : Young(play[p].target)' /\ \A s \in Servers : Young(play[p].seen[s])'
    BY <1>1 DEF Young
  <1>4. QED
    BY <1>2, <1>3 DEF Bounded

\* One play is replaced: it does not begin to inspect, and may stop to.
LEMMA RoomOfPlay ==
    ASSUME TypeOK, Bounded, runs' = runs, NEW p \in Plays, NEW r,
           play' = [play EXCEPT ![p] = r],
           r.phase = "inspect" => play[p].phase = "inspect"
    PROVE  /\ IsFiniteSet(Inspecting') /\ Room' \in Int /\ Room' >= Room
           /\ play[p].phase = "inspect" /\ r.phase # "inspect" => Room' = Room + 1
  <1>a. IsFiniteSet(Inspecting) /\ Cardinality(Inspecting) \in Nat /\ runs \in Int
    BY FS_CardinalityType, RoleDnsAssumption, SMT DEF Bounded, TypeOK
  <1>1. \A q \in Plays : play'[q] = IF q = p THEN r ELSE play[q]
    BY DEF TypeOK
  <1>2. CASE r.phase = "inspect" \/ play[p].phase # "inspect"
    <2>1. Inspecting' = Inspecting
      BY <1>1, <1>2 DEF Inspecting
    <2>2. QED
      BY <1>a, <1>2, <2>1, SMT DEF Room
  <1>3. CASE r.phase # "inspect" /\ play[p].phase = "inspect"
    <2>1. Inspecting' = Inspecting \ {p} /\ p \in Inspecting
      BY <1>1, <1>3 DEF Inspecting
    <2>2. IsFiniteSet(Inspecting') /\ Cardinality(Inspecting') = Cardinality(Inspecting) - 1
      BY <1>a, <2>1, FS_RemoveElement
    <2>3. QED
      BY <1>a, <2>2, SMT DEF Room
  <1>4. QED
    BY <1>2, <1>3

LEMMA RoomSame ==
    ASSUME TypeOK, Bounded, runs' = runs,
           \A q \in Plays : play'[q].phase = play[q].phase
    PROVE  IsFiniteSet(Inspecting') /\ Room' \in Int /\ Room' >= Room
  <1>1. Inspecting' = Inspecting
    BY DEF Inspecting
  <1>2. Room' = Room
    BY <1>1 DEF Room
  <1>3. QED
    BY <1>1, <1>2, RoomType, SMT DEF Bounded

\* One play goes on with serials that it has, or that were there.
LEMMA PlayGoesOn ==
    ASSUME TypeOK, Bounded, runs' = runs, NEW p \in Plays, NEW r,
           play' = [play EXCEPT ![p] = r],
           r.phase = "inspect" => play[p].phase = "inspect",
           Young(r.target), \A s \in Servers : Young(r.seen[s]),
           \A s \in Servers : /\ Young(files'[s].serial) /\ Young(loaded'[s].serial)
                              /\ Young(applied'[s].serial) /\ Young(conv'[s].serial)
    PROVE  Bounded'
  <1>1. \A q \in Plays : play'[q] = IF q = p THEN r ELSE play[q]
    BY DEF TypeOK
  <1>2. \A q \in Plays : /\ Young(play'[q].target)
                         /\ \A s \in Servers : Young(play'[q].seen[s])
    BY <1>1 DEF Bounded
  <1>3. IsFiniteSet(Inspecting') /\ Room' \in Int /\ Room' >= Room
    BY RoomOfPlay
  <1>4. QED
    BY <1>2, <1>3, NothingNew

LEMMA EndedYoung ==
    ASSUME TypeOK, Bounded, NEW ph
    PROVE  Young(Ended(ph).target) /\ \A s \in Servers : Young(Ended(ph).seen[s])
  BY RoomType DEF Ended

LEMMA BoundedInit == Init => Bounded
  <1> SUFFICES ASSUME Init PROVE Bounded
    OBVIOUS
  <1>1. \A p \in Plays : play[p].phase = "idle"
    BY EndedRests DEF Init
  <1>2. Inspecting = {}
    BY <1>1 DEF Inspecting
  <1>3. IsFiniteSet(Inspecting) /\ Cardinality(Inspecting) = 0
    BY <1>2, FS_EmptySet
  <1>4. Room = 0
    BY <1>3, SMT DEF Room, Init
  <1>5. Young(FirstSerial)
    BY <1>4, FirstAge, RoleDnsAssumption, SMT DEF Young
  <1>6. \A p \in Plays : /\ play[p].target = FirstSerial
                         /\ \A s \in Servers : play[p].seen[s] = FirstSerial
    BY DEF Init, Ended
  <1>7. QED
    BY <1>3, <1>5, <1>6 DEF Bounded, Init, Idle

LEMMA BoundedNext == TypeOK /\ Bounded /\ [Next]_vars => Bounded'
  <1> SUFFICES ASSUME TypeOK, Bounded, [Next]_vars PROVE Bounded'
    OBVIOUS
  <1>a. /\ \A s \in Servers : /\ Young(files[s].serial) /\ Young(loaded[s].serial)
                              /\ Young(applied[s].serial) /\ Young(conv[s].serial)
        /\ \A p \in Plays : /\ Young(play[p].target)
                            /\ \A s \in Servers : Young(play[p].seen[s])
    BY DEF Bounded
  <1>b. Young(FirstSerial) /\ Room \in Nat /\ runs \in Int
    BY RoomType, RoleDnsAssumption, SMT DEF TypeOK
  <1>1. ASSUME NEW p \in Plays, NEW node \in Nodes, Start(p, node) PROVE Bounded'
    <2> DEFINE r == [Ended("inspect") EXCEPT !.wanted = node]
    <2>1. \A q \in Plays : play'[q] = IF q = p THEN r ELSE play[q]
      BY <1>1 DEF Start, TypeOK
    <2>2. /\ r.phase = "inspect" /\ r.target = FirstSerial
          /\ \A s \in Servers : r.seen[s] = FirstSerial
      BY DEF Ended
    <2>3. play[p].phase # "inspect"
      BY <1>1 DEF Start, AtWork, Active
    <2> HIDE DEF r
    <2>4. Inspecting' = Inspecting \cup {p} /\ p \notin Inspecting
      BY <2>1, <2>2, <2>3 DEF Inspecting
    <2>5. /\ IsFiniteSet(Inspecting') /\ Cardinality(Inspecting) \in Nat
          /\ Cardinality(Inspecting') = Cardinality(Inspecting) + 1
      BY <2>4, FS_AddElement, FS_CardinalityType DEF Bounded
    <2>6. runs' = runs + 1
      BY <1>1 DEF Start
    <2>7. Room' \in Int /\ Room' >= Room
      BY <1>b, <2>5, <2>6, SMT DEF Room
    <2>8. \A q \in Plays : /\ Young(play'[q].target)
                           /\ \A s \in Servers : Young(play'[q].seen[s])
      BY <1>a, <1>b, <2>1, <2>2
    <2>9. QED
      BY <1>a, <1>1, <2>5, <2>7, <2>8, NothingNew DEF Start
  <1>2. ASSUME NEW p \in Plays,
               Converge(p) \/ \E node \in Nodes : ChangePrimary(p, node)
        PROVE  Bounded'
    BY <1>1, <1>2 DEF Converge, ChangePrimary, TypeOK
  <1>3. ASSUME NEW p \in Plays, Choose(p) PROVE Bounded'
    <2>1. CASE play' = [play EXCEPT ![p] = Ended("failed")]
      BY <1>a, <1>3, <2>1, EndedYoung, EndedRests, PlayGoesOn DEF Choose
    <2>2. CASE play' = [play EXCEPT ![p] = [play[p] EXCEPT !.phase = "update", !.done = {},
                                                           !.target = Chosen(play[p])]]
      <3> DEFINE r == [play[p] EXCEPT !.phase = "update", !.done = {},
                                      !.target = Chosen(play[p])]
      <3>1. play[p] \in Play /\ Chosen(play[p]) \in Serials
        BY ChosenType DEF TypeOK
      <3>2. r.phase = "update" /\ r.target = Chosen(play[p]) /\ r.seen = play[p].seen
        BY <3>1 DEF Play
      <3>3. Age(Chosen(play[p])) <= Room + 1
        <4> DEFINE s == CHOOSE x \in Servers : TRUE
                   t == CHOOSE x \in Servers : x # s
        <4>1. s \in Servers /\ t \in Servers
          BY RoleDnsAssumption
        <4>2. Young(play[p].seen[s]) /\ Young(play[p].seen[t]) /\ play[p].stale \in BOOLEAN
          BY <1>a, <3>1, <4>1 DEF Play
        <4>3. Chosen(play[p]) = ConvergedSerial(play[p].seen[s], play[p].seen[t], play[p].stale)
          BY DEF Chosen
        <4> HIDE DEF s, t
        <4>4. QED
          BY <1>b, <4>2, <4>3, ConvergedAge DEF Young
      <3> HIDE DEF r
      <3>4. play[p].phase = "inspect" /\ runs' = runs /\ play' = [play EXCEPT ![p] = r]
        BY <1>3, <2>2 DEF Choose, r
      <3>5. IsFiniteSet(Inspecting') /\ Room' = Room + 1
        BY <3>2, <3>4, RoomOfPlay
      <3>6. \A x : Young(x) => x \in Serials /\ Age(x) <= Room'
        <4>1. Room' \in Int /\ Room' >= Room
          BY <1>b, <3>5, SMT
        <4>2. QED
          BY <4>1, YoungStays
      <3>7. Chosen(play[p]) \in Serials /\ Age(Chosen(play[p])) <= Room'
        BY <3>1, <3>3, <3>5
      <3>8. \A q \in Plays : play'[q] = IF q = p THEN r ELSE play[q]
        BY <3>4 DEF TypeOK
      <3>9. \A q \in Plays : /\ Young(play[q].target)'
                             /\ \A s \in Servers : Young(play[q].seen[s])'
        BY <1>a, <3>2, <3>6, <3>7, <3>8 DEF Young
      <3>10. \A s \in Servers : /\ Young(files[s].serial)' /\ Young(loaded[s].serial)'
                                /\ Young(applied[s].serial)' /\ Young(conv[s].serial)'
        BY <1>a, <1>3, <3>6 DEF Young, Choose
      <3>11. QED
        BY <3>5, <3>9, <3>10 DEF Bounded
    <2>3. QED
      BY <1>3, <2>1, <2>2 DEF Choose
  <1>4. ASSUME NEW p \in Plays, NextTask(p) PROVE Bounded'
    <2>1. ASSUME NEW ph, play' = [play EXCEPT ![p] = Ended(ph)], ph # "inspect"
          PROVE  Bounded'
      <3>1. UNCHANGED <<files, loaded, applied, conv, runs>>
        BY <1>4 DEF NextTask
      <3>2. Ended(ph).phase # "inspect"
        BY <2>1, EndedRests
      <3>3. Young(Ended(ph).target) /\ \A s \in Servers : Young(Ended(ph).seen[s])
        BY EndedYoung
      <3>4. QED
        BY <1>a, <2>1, <3>1, <3>2, <3>3, PlayGoesOn
    <2>2. CASE play' = [play EXCEPT ![p] = [play[p] EXCEPT
                          !.phase = NextOf[play[p].phase], !.done = {}]]
      <3> DEFINE r == [play[p] EXCEPT !.phase = NextOf[play[p].phase], !.done = {}]
      <3>1. play[p] \in Play /\ play[p].phase \in {"update", "reload", "record"}
        BY <1>4 DEF TypeOK, NextTask
      <3>2. r.phase # "inspect" /\ r.target = play[p].target /\ r.seen = play[p].seen
        BY <3>1 DEF Play, NextOf
      <3> HIDE DEF r
      <3>3. runs' = runs /\ play' = [play EXCEPT ![p] = r]
        BY <1>4, <2>2 DEF NextTask, r
      <3>4. QED
        BY <1>a, <1>4, <3>2, <3>3, PlayGoesOn DEF NextTask
    <2>3. QED
      BY <1>4, <2>1, <2>2 DEF NextTask
  <1>5. ASSUME NEW p \in Plays, Abort(p) PROVE Bounded'
    <2>1. /\ UNCHANGED <<files, loaded, applied, conv, runs>>
          /\ play' = [play EXCEPT ![p] = Ended("failed")]
      BY <1>5 DEF Abort
    <2>2. Ended("failed").phase # "inspect"
      BY EndedRests
    <2>3. Young(Ended("failed").target) /\ \A s \in Servers : Young(Ended("failed").seen[s])
      BY EndedYoung
    <2>4. QED
      BY <1>a, <2>1, <2>2, <2>3, PlayGoesOn
  <1>6. ASSUME NEW p \in Plays, NEW s \in Servers, Inspect(p, s) PROVE Bounded'
    <2> DEFINE r == [play[p] EXCEPT
                       !.done = play[p].done \cup {s},
                       !.seen = [play[p].seen EXCEPT ![s] = files[s].serial],
                       !.stale = play[p].stale \/ files[s].records # play[p].wanted]
    <2>1. play[p] \in Play /\ play[p].seen \in [Servers -> Serials]
      BY DEF TypeOK, Play
    <2>2. /\ r.phase = play[p].phase /\ r.target = play[p].target
          /\ \A t \in Servers : r.seen[t] = IF t = s THEN files[s].serial ELSE play[p].seen[t]
      BY <2>1 DEF Play
    <2> HIDE DEF r
    <2>3. play' = [play EXCEPT ![p] = r]
      BY <1>6 DEF Inspect, r
    <2>4. Young(r.target) /\ \A t \in Servers : Young(r.seen[t])
      BY <1>a, <2>2
    <2>5. UNCHANGED <<files, loaded, applied, conv, runs>>
      BY <1>6 DEF Inspect
    <2>6. QED
      BY <1>a, <2>2, <2>3, <2>4, <2>5, PlayGoesOn
  <1>7. ASSUME NEW p \in Plays, NEW r,
               play' = [play EXCEPT ![p] = r],
               r.phase = play[p].phase, r.target = play[p].target, r.seen = play[p].seen,
               runs' = runs, conv' = conv,
               \A s \in Servers : /\ Young(files'[s].serial) /\ Young(loaded'[s].serial)
                                  /\ Young(applied'[s].serial)
        PROVE  Bounded'
    BY <1>a, <1>7, PlayGoesOn
  <1>8. ASSUME NEW p \in Plays, NEW s \in Servers, NEW ok, NEW reload,
               Finished(p, s, ok, reload), runs' = runs, conv' = conv,
               loaded' = loaded, applied' = applied,
               \A t \in Servers : files'[t].serial = files[t].serial
        PROVE  Bounded'
    <2> DEFINE r == [play[p] EXCEPT
                       !.done = play[p].done \cup {s}, !.erred = play[p].erred \/ ~ok,
                       !.reload = play[p].reload \cup (IF reload THEN {s} ELSE {}),
                       !.at = Nowhere, !.written = FALSE]
    <2>1. r.phase = play[p].phase /\ r.target = play[p].target /\ r.seen = play[p].seen
      BY DEF TypeOK, Play
    <2>2. play' = [play EXCEPT ![p] = r]
      BY <1>8 DEF Finished
    <2> HIDE DEF r
    <2>3. QED
      BY <1>a, <1>7, <1>8, <2>1, <2>2
  <1>9. ASSUME NEW p \in Plays, NEW s \in Servers,
               LeaveAlone(p, s) \/ Refuse(p, s) \/ UpdateFails(p, s)
        PROVE  Bounded'
    BY <1>8, <1>9 DEF LeaveAlone, Refuse, UpdateFails
  <1>10. ASSUME NEW p \in Plays, NEW s \in Servers, NEW ok \in BOOLEAN,
                WriteRecords(p, s, ok)
         PROVE  Bounded'
    <2>1. \A t \in Servers : files'[t].serial = files[t].serial
      BY <1>10 DEF WriteRecords, TypeOK, Zone
    <2>2. QED
      BY <1>8, <1>10, <2>1 DEF WriteRecords
  <1>11. ASSUME NEW p \in Plays, NEW s \in Servers, ReadZone(p, s) PROVE Bounded'
    <2> DEFINE r == [play[p] EXCEPT !.at = s, !.copy = files[s].body]
    <2>1. r.phase = play[p].phase /\ r.target = play[p].target /\ r.seen = play[p].seen
      BY DEF TypeOK, Play
    <2>2. play' = [play EXCEPT ![p] = r]
      BY <1>11 DEF ReadZone
    <2> HIDE DEF r
    <2>3. QED
      BY <1>a, <1>7, <1>11, <2>1, <2>2 DEF ReadZone
  <1>12. ASSUME NEW p \in Plays, NEW s \in Servers, WriteZone(p, s) PROVE Bounded'
    <2> DEFINE r == [play[p] EXCEPT !.written = TRUE]
    <2>1. r.phase = play[p].phase /\ r.target = play[p].target /\ r.seen = play[p].seen
      BY DEF TypeOK, Play
    <2>2. play' = [play EXCEPT ![p] = r]
      BY <1>12 DEF WriteZone
    <2> HIDE DEF r
    <2>3. \A t \in Servers : files'[t].serial = IF t = s THEN play[p].target
                                                ELSE files[t].serial
      BY <1>12 DEF WriteZone, TypeOK, Zone
    <2>4. \A t \in Servers : Young(files'[t].serial)
      BY <1>a, <2>3
    <2>5. QED
      BY <1>a, <1>7, <1>12, <2>1, <2>2, <2>4 DEF WriteZone
  <1>13. ASSUME NEW p \in Plays, NEW s \in Servers, NEW ok \in BOOLEAN, Reload(p, s, ok)
         PROVE  Bounded'
    <2> DEFINE r == [play[p] EXCEPT !.done = play[p].done \cup {s},
                                    !.erred = play[p].erred \/ ~ok]
    <2>1. r.phase = play[p].phase /\ r.target = play[p].target /\ r.seen = play[p].seen
      BY DEF TypeOK, Play
    <2>2. play' = [play EXCEPT ![p] = r]
      BY <1>13 DEF Reload
    <2> HIDE DEF r
    <2>3. \A t \in Servers : loaded'[t] \in {loaded[t], files[t]}
      BY <1>13 DEF Reload, TypeOK
    <2>4. \A t \in Servers : Young(loaded'[t].serial)
      BY <1>a, <2>3
    <2>5. QED
      BY <1>a, <1>7, <1>13, <2>1, <2>2, <2>4 DEF Reload
  <1>14. ASSUME NEW p \in Plays, NEW s \in Servers, Record(p, s) PROVE Bounded'
    <2> DEFINE r == [play[p] EXCEPT !.done = play[p].done \cup {s}]
    <2>1. r.phase = play[p].phase /\ r.target = play[p].target /\ r.seen = play[p].seen
      BY DEF TypeOK, Play
    <2>2. play' = [play EXCEPT ![p] = r]
      BY <1>14 DEF Record
    <2> HIDE DEF r
    <2>3. \A t \in Servers : applied'[t].serial \in {applied[t].serial, play[p].target}
      BY <1>14 DEF Record, TypeOK
    <2>4. \A t \in Servers : Young(applied'[t].serial)
      BY <1>a, <2>3
    <2>5. QED
      BY <1>a, <1>7, <1>14, <2>1, <2>2, <2>4 DEF Record
  <1>15. ASSUME NEW body \in Bodies, Declare(body) PROVE Bounded'
    BY <1>a, <1>15, RoomSame, NothingNew DEF Declare
  <1>16. ASSUME NEW H \in (SUBSET Converging) \ {{}}, Render(H) PROVE Bounded'
    <2>1. Inspecting' = Inspecting /\ runs' = runs + 1 /\ Cardinality(Inspecting) \in Nat
      BY <1>16, FS_CardinalityType DEF Render, Inspecting, Bounded
    <2>2. Room' = Room + 1
      BY <1>b, <2>1, SMT DEF Room
    <2>3. \A x : Young(x) => x \in Serials /\ Age(x) <= Room'
      <3>1. Room' \in Int /\ Room' >= Room
        BY <1>b, <2>2, SMT
      <3>2. QED
        BY <3>1, YoungStays
    <2>4. ASSUME NEW s \in Servers PROVE Young(conv[s].serial)'
      <3>1. CASE conv'[s].serial \in {conv[s].serial, files[s].serial}
        BY <1>a, <2>3, <3>1 DEF Young
      <3>2. CASE conv'[s].serial = Following(files[s].serial)
        <4>1. files[s].serial \in Serials /\ Age(files[s].serial) <= Room
          BY <1>a DEF Young
        <4>2. /\ Following(files[s].serial) \in Serials
              /\ Age(Following(files[s].serial)) <= Age(files[s].serial) + 1
              /\ Age(Following(files[s].serial)) \in Nat /\ Age(files[s].serial) \in Nat
          BY <4>1, FollowingIsNewer, AgeFollowing, AgeValue
        <4>3. Age(Following(files[s].serial)) <= Room'
          BY <1>b, <2>2, <4>1, <4>2, SMT
        <4>4. QED
          BY <3>2, <4>2, <4>3 DEF Young
      <3>3. QED
        BY <1>16, <3>1, <3>2 DEF Render, ZoneSerial
    <2>5. \A s \in Servers : /\ Young(files[s].serial)' /\ Young(loaded[s].serial)'
                             /\ Young(applied[s].serial)'
      BY <1>a, <1>16, <2>3 DEF Young, Render
    <2>6. \A p \in Plays : /\ Young(play[p].target)'
                           /\ \A s \in Servers : Young(play[p].seen[s])'
      BY <1>a, <1>16, <2>3 DEF Young, Render
    <2>7. QED
      BY <2>1, <2>4, <2>5, <2>6 DEF Bounded
  <1>17. ASSUME NEW s \in Servers,
                WriteTemplate(s) \/ RestartNsd(s) \/ ConvergenceFails(s)
         PROVE  Bounded'
    <2>1. play' = play /\ runs' = runs /\ applied' = applied
      BY <1>17 DEF WriteTemplate, RestartNsd, ConvergenceFails
    <2>2. \A t \in Servers : conv'[t].serial \in {conv[t].serial, FirstSerial}
      BY <1>17 DEF WriteTemplate, RestartNsd, ConvergenceFails, Idle, TypeOK, Conv
    <2>3. \A t \in Servers : files'[t].serial \in {files[t].serial, conv[t].serial}
      <3>1. CASE WriteTemplate(s)
        <4>1. files' = [files EXCEPT ![s] = [files[s] EXCEPT !.serial = conv[s].serial,
                                                             !.body = conv[s].body]]
          BY <3>1 DEF WriteTemplate
        <4>2. QED
          BY <4>1 DEF TypeOK, Zone
      <3>2. CASE files' = files
        BY <3>2
      <3>3. QED
        BY <1>17, <3>1, <3>2 DEF RestartNsd, ConvergenceFails
    <2>4. \A t \in Servers : loaded'[t] \in {loaded[t], files[t]}
      BY <1>17 DEF WriteTemplate, RestartNsd, ConvergenceFails, TypeOK
    <2>5. \A t \in Servers : /\ Young(files'[t].serial) /\ Young(loaded'[t].serial)
                             /\ Young(applied'[t].serial) /\ Young(conv'[t].serial)
      BY <1>a, <1>b, <2>1, <2>2, <2>3, <2>4
    <2>6. QED
      BY <1>a, <2>1, <2>5, RoomSame, NothingNew
  <1>18. ASSUME NEW s \in Servers, Reboot(s) PROVE Bounded'
    <2>1. \A p \in Plays : /\ play'[p].phase = play[p].phase
                           /\ play'[p].target = play[p].target
                           /\ play'[p].seen = play[p].seen
      BY <1>18 DEF Reboot, TypeOK, Play
    <2>2. \A t \in Servers : loaded'[t] \in {loaded[t], files[t]}
      BY <1>18 DEF Reboot, TypeOK
    <2>3. \A t \in Servers : Young(loaded'[t].serial)
      BY <1>a, <2>2
    <2>4. \A p \in Plays : /\ Young(play'[p].target)
                           /\ \A t \in Servers : Young(play'[p].seen[t])
      BY <1>a, <2>1
    <2>5. QED
      BY <1>a, <1>18, <2>1, <2>3, <2>4, RoomSame, NothingNew DEF Reboot
  <1>19. CASE UNCHANGED vars
    BY <1>a, <1>19, RoomSame, NothingNew DEF vars
  <1>20. QED
    BY <1>2, <1>3, <1>4, <1>5, <1>6, <1>9, <1>10, <1>11, <1>12, <1>13, <1>14, <1>15,
       <1>16, <1>17, <1>18, <1>19 DEF Next

\* Whatever plays and convergence do beside each other, no serial is further from
\* the first one than there were runs.
THEOREM SerialsStayClose == Spec => []Bounded
  <1>1. Spec => []TypeOK
    BY TypeCorrect
  <1>2. QED
    BY <1>1, BoundedInit, BoundedNext, PTL DEF Spec

-----------------------------------------------------------------------------
(* The note of what NSD was told to load.                                  *)

\* The new zone is in place on s, the new records are not yet.
Writing(p, s) == play[p].at = s /\ play[p].written

\* Play p counts on its records and serial being, or having been, in the files of s.
Updated(p, s) ==
    \/ play[p].phase \in {"reload", "record"}
    \/ play[p].phase = "update" /\ ~play[p].erred /\ s \in play[p].done

\* Play p also counts on NSD having loaded them.
Served(p, s) ==
    \/ play[p].phase = "record"
    \/ /\ play[p].phase = "reload" /\ ~play[p].erred
       /\ s \in play[p].done \/ s \notin play[p].reload
    \/ /\ play[p].phase = "update" /\ ~play[p].erred
       /\ s \in play[p].done \ play[p].reload

\* The first write of an updater has put the play's serial there, which no note
\* can have.
WrittenIsTarget ==
    \A p \in Plays :
        /\ play[p].at = Nowhere => ~play[p].written
        /\ \A s \in Servers : Writing(p, s) =>
              /\ files[s].serial = play[p].target
              /\ Age(applied[s].serial) < Age(files[s].serial)

\* As long as no newer serial has replaced it, what a play wrote stays, and no
\* updater is between its two writes.
UpdatedStays ==
    \A p \in Plays, s \in Servers : Updated(p, s) =>
        /\ Age(play[p].target) <= Age(files[s].serial)
        /\ play[p].target = files[s].serial =>
              /\ files[s].records = play[p].wanted
              /\ \A q \in Plays : ~Writing(q, s)

\* Likewise what it had loaded.
ServedStays ==
    \A p \in Plays, s \in Servers :
        Served(p, s) /\ play[p].target = files[s].serial => loaded[s] = files[s]

\* No note is ahead of the zone file, and a rendered zone with the serial of the
\* file has its content.
NotedBefore ==
    \A s \in Servers :
        /\ Age(applied[s].serial) <= Age(files[s].serial)
        /\ conv[s].phase = "rendered" =>
              \/ conv[s].serial = files[s].serial /\ conv[s].body = files[s].body
              \/ conv[s].serial = Following(files[s].serial)

NoteInv == NoteIsTrue /\ WrittenIsTarget /\ UpdatedStays /\ ServedStays /\ NotedBefore

LEMMA ServedIsUpdated ==
    ASSUME NEW p, NEW s, Served(p, s)
    PROVE  Updated(p, s)
  BY DEF Served, Updated

\* The parts of the invariant that are about one play.
PlayNotes(p) ==
    /\ play[p].at = Nowhere => ~play[p].written
    /\ \A s \in Servers :
          /\ Writing(p, s) => /\ files[s].serial = play[p].target
                              /\ Age(applied[s].serial) < Age(files[s].serial)
          /\ Updated(p, s) =>
                /\ Age(play[p].target) <= Age(files[s].serial)
                /\ play[p].target = files[s].serial => files[s].records = play[p].wanted
          /\ Served(p, s) /\ play[p].target = files[s].serial => loaded[s] = files[s]

\* One play is replaced and NSD may have loaded what is there.
LEMMA PlayNotesKept ==
    ASSUME TypeOK, NoteInv, NEW p \in Plays, NEW r, play' = [play EXCEPT ![p] = r],
           files' = files, applied' = applied, conv' = conv,
           \A s \in Servers : loaded'[s] \in {loaded[s], files[s]},
           PlayNotes(p)',
           \A s \in Servers : Writing(p, s)' => Writing(p, s),
           \A s \in Servers : Updated(p, s)' =>
               \/ Updated(p, s) /\ r.target = play[p].target
               \/ \A q \in Plays : ~Writing(q, s)
    PROVE  NoteInv'
  <1>1. play'[p] = r /\ \A q \in Plays : q # p => play'[q] = play[q]
    BY DEF TypeOK
  <1>2. NoteIsTrue'
    BY DEF NoteInv, NoteIsTrue
  <1>3. NotedBefore'
    BY DEF NoteInv, NotedBefore
  <1>4. WrittenIsTarget'
    BY <1>1 DEF NoteInv, WrittenIsTarget, PlayNotes, Writing
  <1>5. ServedStays'
    <2>1. ASSUME NEW q \in Plays, NEW s \in Servers, q # p, Served(q, s)',
                 play'[q].target = files[s].serial
          PROVE  loaded'[s] = files[s]
      <3>1. Served(q, s) /\ play[q].target = files[s].serial
        BY <1>1, <2>1 DEF Served
      <3>2. QED
        BY <3>1 DEF NoteInv, ServedStays
    <2>2. QED
      BY <2>1 DEF ServedStays, PlayNotes
  <1>6. UpdatedStays'
    <2>1. ASSUME NEW q \in Plays, NEW s \in Servers PROVE Writing(q, s)' => Writing(q, s)
      BY <1>1 DEF Writing
    <2>2. ASSUME NEW q \in Plays, NEW s \in Servers, q # p, Updated(q, s)'
          PROVE  /\ Age(play'[q].target) <= Age(files'[s].serial)
                 /\ play'[q].target = files'[s].serial =>
                       /\ files'[s].records = play'[q].wanted
                       /\ \A x \in Plays : ~Writing(x, s)'
      <3>1. Updated(q, s) /\ play'[q] = play[q]
        BY <1>1, <2>2 DEF Updated
      <3>2. QED
        BY <2>1, <3>1 DEF NoteInv, UpdatedStays
    <2>3. ASSUME NEW s \in Servers, Updated(p, s)', play'[p].target = files'[s].serial
          PROVE  \A x \in Plays : ~Writing(x, s)'
      BY <1>1, <2>1, <2>3 DEF NoteInv, UpdatedStays
    <2>4. QED
      BY <2>2, <2>3 DEF UpdatedStays, PlayNotes
  <1>7. QED
    BY <1>2, <1>3, <1>4, <1>5, <1>6 DEF NoteInv

\* A play that counts on nothing yet, or that will fail.
LEMMA QuietPlay ==
    ASSUME TypeOK, NoteInv, NEW p \in Plays, NEW r, play' = [play EXCEPT ![p] = r],
           files' = files, applied' = applied, loaded' = loaded, conv' = conv,
           ~r.written,
           \/ r.phase \in {"idle", "inspect", "done", "failed"}
           \/ r.phase = "update" /\ (r.erred \/ r.done = {})
    PROVE  NoteInv'
  <1>1. play'[p] = r
    BY DEF TypeOK
  <1>2. \A s : ~Writing(p, s)' /\ ~Updated(p, s)' /\ ~Served(p, s)'
    BY <1>1 DEF Writing, Updated, Served
  <1>3. PlayNotes(p)'
    BY <1>1, <1>2 DEF PlayNotes
  <1>4. QED
    BY <1>2, <1>3, PlayNotesKept

LEMMA EndedQuiet == \A ph : ~Ended(ph).written /\ Ended(ph).phase = ph /\ Ended(ph).at = Nowhere
  BY DEF Ended

LEMMA NoteInit == Init => NoteInv
  <1> SUFFICES ASSUME Init PROVE NoteInv
    OBVIOUS
  <1>1. \A p \in Plays : play[p].at = Nowhere /\ play[p].phase = "idle" /\ ~play[p].written
    BY EndedQuiet DEF Init
  <1>2. \A p \in Plays, s \in Servers : ~Writing(p, s) /\ ~Updated(p, s) /\ ~Served(p, s)
    BY <1>1 DEF Writing, Updated, Served
  <1>3. \A s \in Servers : /\ applied[s].serial = FirstSerial /\ files[s].serial = FirstSerial
                           /\ loaded[s] = files[s] /\ conv[s].phase = "idle"
    BY DEF Init, Idle
  <1>4. Age(FirstSerial) <= Age(FirstSerial)
    BY FirstAge, SMT
  <1>5. QED
    BY <1>1, <1>2, <1>3, <1>4
       DEF NoteInv, NoteIsTrue, WrittenIsTarget, UpdatedStays, ServedStays, NotedBefore

\* What the writer of a server knows: nobody else writes it, and its new serial
\* is older than nothing there.
LEMMA WriterAlone ==
    ASSUME TypeOK, WriterInv, Bounded, NEW p \in Plays, NEW s \in Servers, play[p].at = s
    PROVE  /\ Pending(p, s) /\ AtWork(p)
           /\ \A t \in Servers : conv[t].phase = "idle"
           /\ \A q \in Plays : q # p => play[q].at # s
           /\ ~play[p].written => Age(files[s].serial) < Age(play[p].target)
  <1>1. s # Nowhere
    BY RoleDnsAssumption
  <1>2. Pending(p, s) /\ AtWork(p)
    BY <1>1 DEF WriterInv, UpdaterAdvances, Pending, AtWork, Active
  <1>3. \A t \in Servers : conv[t].phase = "idle"
    BY <1>2 DEF WriterInv, OneWriter
  <1>4. \A q \in Plays : q # p => play[q].at # s
    BY <1>1 DEF WriterInv, OneWriter
  <1>5. ASSUME ~play[p].written
        PROVE  Age(files[s].serial) < Age(play[p].target)
    <2>1. Newer(files[s].serial, play[p].target)
      BY <1>1, <1>5 DEF WriterInv, UpdaterAdvances
    <2>2. Young(files[s].serial) /\ Young(play[p].target)
      BY DEF Bounded
    <2>3. /\ files[s].serial \in Serials /\ play[p].target \in Serials
          /\ Age(files[s].serial) \in Nat /\ Age(play[p].target) \in Nat
          /\ HalfRange \in Nat
          /\ Age(files[s].serial) + 1 < HalfRange /\ Age(play[p].target) + 1 < HalfRange
      BY <2>2, Far, AgeValue
    <2>4. Age(files[s].serial) < HalfRange /\ Age(play[p].target) < HalfRange
      BY <2>3, SMT
    <2>5. QED
      BY <2>1, <2>3, <2>4, AgeOrder
  <1>6. QED
    BY <1>2, <1>3, <1>4, <1>5

\* A play that is not in its update has no updater at work.
LEMMA NoUpdater ==
    ASSUME TypeOK, WriterInv, NoteInv, NEW p \in Plays,
           play[p].phase # "update" \/ play[p].done = Servers
    PROVE  play[p].at = Nowhere /\ ~play[p].written
  <1>1. play[p].at = Nowhere
    BY DEF WriterInv, UpdaterAdvances, Pending, TypeOK, Play
  <1>2. QED
    BY <1>1 DEF NoteInv, WrittenIsTarget

\* An updater that ends with no zone of its own in place.
LEMMA FinishedNotes ==
    ASSUME TypeOK, NoteInv, NEW p \in Plays, NEW s \in Servers, NEW ok \in BOOLEAN,
           Finished(p, s, ok, FALSE), ~ok,
           Pending(p, s),
           files' = files, applied' = applied, loaded' = loaded, conv' = conv
    PROVE  NoteInv'
  <1> DEFINE r == [play[p] EXCEPT
                     !.done = play[p].done \cup {s}, !.erred = play[p].erred \/ ~ok,
                     !.reload = play[p].reload \cup (IF FALSE THEN {s} ELSE {}),
                     !.at = Nowhere, !.written = FALSE]
  <1>1. play[p] \in Play
    BY DEF TypeOK
  <1>2. r.phase = "update" /\ r.erred /\ ~r.written
    BY <1>1 DEF Play, Pending
  <1>3. play' = [play EXCEPT ![p] = r]
    BY DEF Finished
  <1> HIDE DEF r
  <1>4. QED
    BY <1>2, <1>3, QuietPlay

LEMMA LeaveAloneNotes ==
    ASSUME TypeOK, NoteInv, NEW p \in Plays, NEW s \in Servers, LeaveAlone(p, s)
    PROVE  NoteInv'
  <1> DEFINE reload == ~Applied(p, s)
             r == [play[p] EXCEPT
                     !.done = play[p].done \cup {s}, !.erred = play[p].erred \/ ~TRUE,
                     !.reload = play[p].reload \cup (IF reload THEN {s} ELSE {}),
                     !.at = Nowhere, !.written = FALSE]
  <1>1. play[p] \in Play /\ play[p].phase = "update" /\ s \notin play[p].done
    BY DEF TypeOK, LeaveAlone, Pending
  <1>2. /\ r.phase = "update" /\ r.target = play[p].target /\ r.wanted = play[p].wanted
        /\ r.done = play[p].done \cup {s} /\ r.erred = play[p].erred
        /\ r.reload = play[p].reload \cup (IF reload THEN {s} ELSE {})
        /\ r.at = Nowhere /\ ~r.written
    BY <1>1 DEF Play
  <1>3. play' = [play EXCEPT ![p] = r] /\ UNCHANGED <<files, loaded, applied, conv>>
    BY DEF LeaveAlone, Finished
  <1> HIDE DEF r
  <1>4. play'[p] = r
    BY <1>3 DEF TypeOK
  <1>5. files[s].serial = play[p].target /\ files[s].records = play[p].wanted
    BY DEF LeaveAlone, ZoneChanges, RecordsChange
  <1>6. \A q \in Plays : ~Writing(q, s)
    BY DEF LeaveAlone, FlockFree, Writing
  <1>7. ~reload => loaded[s] = files[s]
    BY <1>5 DEF Applied, NoteInv, NoteIsTrue
  <1> HIDE DEF reload
  <1>8. \A t \in Servers : ~Writing(p, t)'
    BY <1>2, <1>4 DEF Writing
  <1>9. ASSUME NEW t \in Servers, Updated(p, t)'
        PROVE  Updated(p, t) \/ t = s
    BY <1>1, <1>2, <1>4, <1>9 DEF Updated
  <1>10. ASSUME NEW t \in Servers, Served(p, t)'
         PROVE  Served(p, t) \/ (t = s /\ ~reload)
    <2>1. ~play[p].erred /\ t \in play[p].done \cup {s} /\ t \notin r.reload
      BY <1>2, <1>4, <1>10 DEF Served
    <2>2. t \notin play[p].reload /\ ~(t = s /\ reload)
      BY <1>2, <2>1
    <2>3. CASE t = s
      BY <2>2, <2>3
    <2>4. CASE t # s
      <3>1. t \in play[p].done \ play[p].reload
        BY <2>1, <2>2, <2>4
      <3>2. QED
        BY <1>1, <2>1, <3>1 DEF Served
    <2>5. QED
      BY <2>3, <2>4
  <1>11. Age(files[s].serial) <= Age(files[s].serial)
    BY AgeValue, SMT DEF TypeOK, Zone
  <1>12. PlayNotes(p)'
    <2>1. ASSUME NEW t \in Servers, Updated(p, t)'
          PROVE  /\ Age(r.target) <= Age(files[t].serial)
                 /\ r.target = files[t].serial => files[t].records = r.wanted
      BY <1>2, <1>5, <1>9, <1>11, <2>1 DEF NoteInv, UpdatedStays
    <2>2. ASSUME NEW t \in Servers, Served(p, t)', r.target = files[t].serial
          PROVE  loaded[t] = files[t]
      BY <1>2, <1>7, <1>10, <2>2 DEF NoteInv, ServedStays
    <2>3. QED
      BY <1>2, <1>3, <1>4, <1>8, <2>1, <2>2 DEF PlayNotes
  <1>13. QED
    BY <1>2, <1>3, <1>6, <1>8, <1>9, <1>12, PlayNotesKept

LEMMA WriteZoneNotes ==
    ASSUME TypeOK, WriterInv, Bounded, NoteInv, NEW p \in Plays, NEW s \in Servers,
           WriteZone(p, s)
    PROVE  NoteInv'
  <1> DEFINE new == files[s].serial
  <1>1. /\ ~play[p].written /\ play[p].at = s
        /\ UNCHANGED <<loaded, applied, conv>>
    BY DEF WriteZone
  <1>2. /\ Pending(p, s) /\ \A t \in Servers : conv[t].phase = "idle"
        /\ \A q \in Plays : q # p => play[q].at # s
        /\ Age(files[s].serial) < Age(play[p].target)
    BY <1>1, WriterAlone
  <1>3. /\ files'[s].serial = play[p].target
        /\ \A t \in Servers : t # s => files'[t] = files[t]
    BY DEF WriteZone, TypeOK, Zone
  <1>4. /\ \A q \in Plays : q # p => play'[q] = play[q]
        /\ play'[p].phase = play[p].phase /\ play'[p].target = play[p].target
        /\ play'[p].wanted = play[p].wanted /\ play'[p].done = play[p].done
        /\ play'[p].reload = play[p].reload /\ play'[p].erred = play[p].erred
        /\ play'[p].at = s
    BY <1>1 DEF WriteZone, TypeOK, Play
  <1>5. ASSUME NEW q \in Plays, NEW t \in Servers
        PROVE  /\ Updated(q, t)' <=> Updated(q, t)
               /\ Served(q, t)' <=> Served(q, t)
               /\ play'[q].target = play[q].target /\ play'[q].wanted = play[q].wanted
               /\ Writing(q, t)' => Writing(q, t) \/ (q = p /\ t = s)
    <2>1. /\ play'[q].phase = play[q].phase /\ play'[q].target = play[q].target
          /\ play'[q].wanted = play[q].wanted /\ play'[q].done = play[q].done
          /\ play'[q].reload = play[q].reload /\ play'[q].erred = play[q].erred
      BY <1>4
    <2>2. Writing(q, t)' => Writing(q, t) \/ (q = p /\ t = s)
      <3>1. CASE q = p
        BY <1>4, <3>1 DEF Writing
      <3>2. CASE q # p
        BY <1>4, <3>2 DEF Writing
      <3>3. QED
        BY <3>1, <3>2
    <2>3. Updated(q, t)' <=> Updated(q, t)
      BY <2>1 DEF Updated
    <2>4. Served(q, t)' <=> Served(q, t)
      BY <2>1 DEF Served
    <2>5. QED
      BY <2>1, <2>2, <2>3, <2>4
  <1>6. /\ \A t \in Servers : Age(files[t].serial) \in Nat /\ Age(applied[t].serial) \in Nat
        /\ \A q \in Plays : Age(play[q].target) \in Nat
    BY AgeValue DEF TypeOK, Zone, State, Play
  <1>7. Age(applied[s].serial) < Age(files'[s].serial)
    BY <1>2, <1>3, <1>6, SMT DEF NoteInv, NotedBefore
  <1>8. NoteIsTrue'
    BY <1>1, <1>3, <1>6, <1>7, SMT DEF NoteInv, NoteIsTrue
  <1>9. NotedBefore'
    <2>1. \A t \in Servers : Age(applied[t].serial) <= Age(files'[t].serial)
      <3>1. Age(applied[s].serial) <= Age(files'[s].serial)
        BY <1>3, <1>6, <1>7, SMT
      <3>2. QED
        BY <1>3, <3>1 DEF NoteInv, NotedBefore
    <2>2. QED
      BY <1>1, <1>2, <2>1 DEF NotedBefore
  <1>10. WrittenIsTarget'
    <2>1. ASSUME NEW q \in Plays, NEW t \in Servers, Writing(q, t)'
          PROVE  files'[t].serial = play'[q].target
                    /\ Age(applied[t].serial) < Age(files'[t].serial)
      <3>1. CASE q = p /\ t = s
        BY <1>3, <1>4, <1>7, <3>1
      <3>2. CASE ~(q = p /\ t = s)
        <4>1. Writing(q, t)
          BY <1>5, <2>1, <3>2
        <4>2. t # s
          BY <1>1, <1>2, <3>2, <4>1 DEF Writing
        <4>3. QED
          BY <1>3, <1>5, <4>1, <4>2 DEF NoteInv, WrittenIsTarget
      <3>3. QED
        BY <3>1, <3>2
    <2>2. \A q \in Plays : play'[q].at = Nowhere => ~play'[q].written
      BY <1>4, RoleDnsAssumption DEF NoteInv, WrittenIsTarget
    <2>3. QED
      BY <1>1, <2>1, <2>2 DEF WrittenIsTarget
  <1>11. ASSUME NEW q \in Plays, Updated(q, s)
         PROVE  Age(play[q].target) < Age(files'[s].serial)
    BY <1>2, <1>3, <1>6, <1>11, SMT DEF NoteInv, UpdatedStays
  <1>12. UpdatedStays'
    <2>1. ASSUME NEW q \in Plays, NEW t \in Servers, Updated(q, t)'
          PROVE  /\ Age(play[q].target) <= Age(files'[t].serial)
                 /\ play[q].target = files'[t].serial =>
                       /\ files'[t].records = play[q].wanted
                       /\ \A x \in Plays : ~Writing(x, t)'
      <3>1. Updated(q, t)
        BY <1>5, <2>1
      <3>2. CASE t = s
        <4>1. Age(play[q].target) < Age(files'[s].serial)
          BY <1>11, <3>1, <3>2
        <4>2. /\ Age(play[q].target) <= Age(files'[s].serial)
              /\ play[q].target # files'[s].serial
          BY <1>3, <1>6, <4>1, SMT
        <4>3. QED
          BY <3>2, <4>2
      <3>3. CASE t # s
        BY <1>3, <1>5, <3>1, <3>3 DEF NoteInv, UpdatedStays
      <3>4. QED
        BY <3>2, <3>3
    <2>2. QED
      BY <1>5, <2>1 DEF UpdatedStays
  <1>13. ServedStays'
    <2>1. ASSUME NEW q \in Plays, NEW t \in Servers, Served(q, t)',
                 play'[q].target = files'[t].serial
          PROVE  loaded[t] = files'[t]
      <3>1. Served(q, t) /\ Updated(q, t) /\ play[q].target = files'[t].serial
        BY <1>5, <2>1, ServedIsUpdated
      <3>2. t # s
        <4>1. t = s => Age(play[q].target) < Age(play[q].target)
          BY <1>11, <3>1
        <4>2. QED
          BY <1>6, <4>1, SMT
      <3>3. QED
        BY <1>3, <3>1, <3>2 DEF NoteInv, ServedStays
    <2>2. QED
      BY <1>1, <2>1 DEF ServedStays
  <1>14. QED
    BY <1>8, <1>9, <1>10, <1>12, <1>13 DEF NoteInv

LEMMA WriteRecordsNotes ==
    ASSUME TypeOK, WriterInv, Bounded, NoteInv, NEW p \in Plays, NEW s \in Servers,
           NEW ok \in BOOLEAN, WriteRecords(p, s, ok)
    PROVE  NoteInv'
  <1> DEFINE r == [play[p] EXCEPT
                     !.done = play[p].done \cup {s}, !.erred = play[p].erred \/ ~ok,
                     !.reload = play[p].reload \cup (IF TRUE THEN {s} ELSE {}),
                     !.at = Nowhere, !.written = FALSE]
  <1>1. /\ play[p].written /\ play[p].at = s
        /\ UNCHANGED <<loaded, applied, conv>>
        /\ play' = [play EXCEPT ![p] = r]
    BY DEF WriteRecords, Finished
  <1>2. /\ Pending(p, s) /\ \A t \in Servers : conv[t].phase = "idle"
        /\ \A q \in Plays : q # p => play[q].at # s
    BY <1>1, WriterAlone
  <1>3. /\ \A t \in Servers : files'[t].serial = files[t].serial
        /\ files'[s].records = play[p].wanted
        /\ \A t \in Servers : t # s => files'[t] = files[t]
    BY DEF WriteRecords, TypeOK, Zone
  <1>4. /\ r.phase = play[p].phase /\ r.target = play[p].target
        /\ r.wanted = play[p].wanted /\ r.done = play[p].done \cup {s}
        /\ r.reload = play[p].reload \cup {s} /\ r.erred = (play[p].erred \/ ~ok)
        /\ r.at = Nowhere /\ ~r.written
    BY DEF TypeOK, Play
  <1> HIDE DEF r
  <1>5. play'[p] = r /\ \A q \in Plays : q # p => play'[q] = play[q]
    BY <1>1 DEF TypeOK
  <1>6. ASSUME NEW q \in Plays, NEW t \in Servers
        PROVE  /\ Updated(q, t)' => Updated(q, t) \/ (q = p /\ t = s)
               /\ Served(q, t)' => Served(q, t) /\ ~(q = p /\ t = s)
               /\ play'[q].target = play[q].target /\ play'[q].wanted = play[q].wanted
               /\ Writing(q, t)' => Writing(q, t) /\ t # s
    <2>1. CASE q = p
      <3>1. play[p].phase = "update"
        BY <1>2 DEF Pending
      <3>2. ~Writing(p, t)'
        BY <1>4, <1>5, RoleDnsAssumption DEF Writing
      <3>3. Updated(p, t)' => Updated(p, t) \/ t = s
        BY <1>4, <1>5, <3>1 DEF Updated
      <3>4. Served(p, t)' => Served(p, t) /\ t # s
        <4>1. Served(p, t)' => /\ ~play[p].erred /\ t \in play[p].done \cup {s}
                               /\ t \notin play[p].reload /\ t # s
          BY <1>4, <1>5, <3>1 DEF Served
        <4>2. QED
          BY <3>1, <4>1 DEF Served
      <3>5. play'[p].target = play[p].target /\ play'[p].wanted = play[p].wanted
        BY <1>4, <1>5
      <3>6. QED
        BY <2>1, <3>2, <3>3, <3>4, <3>5
    <2>2. CASE q # p
      <3>1. play'[q] = play[q]
        BY <1>5, <2>2
      <3>2. Writing(q, t)' => Writing(q, t) /\ t # s
        BY <1>2, <2>2, <3>1 DEF Writing
      <3>3. Updated(q, t)' => Updated(q, t)
        BY <3>1 DEF Updated
      <3>4. Served(q, t)' => Served(q, t)
        BY <3>1 DEF Served
      <3>5. QED
        BY <2>2, <3>1, <3>2, <3>3, <3>4
    <2>3. QED
      BY <2>1, <2>2
  <1>7. /\ Writing(p, s) /\ files[s].serial = play[p].target
        /\ Age(applied[s].serial) < Age(files[s].serial)
        /\ Age(applied[s].serial) \in Nat
        /\ Age(play[p].target) <= Age(files[s].serial)
    <2>1. /\ Writing(p, s) /\ files[s].serial = play[p].target
          /\ Age(applied[s].serial) < Age(files[s].serial)
      BY <1>1 DEF Writing, NoteInv, WrittenIsTarget
    <2>2. Age(applied[s].serial) \in Nat /\ Age(files[s].serial) \in Nat
      BY AgeValue DEF TypeOK, Zone, State
    <2>3. QED
      BY <2>1, <2>2, SMT
  <1>8. NoteIsTrue'
    BY <1>1, <1>3, <1>7, SMT DEF NoteInv, NoteIsTrue
  <1>9. NotedBefore'
    BY <1>1, <1>2, <1>3 DEF NoteInv, NotedBefore
  <1>10. WrittenIsTarget'
    BY <1>1, <1>3, <1>4, <1>5, <1>6 DEF NoteInv, WrittenIsTarget
  <1>11. ASSUME NEW q \in Plays, Updated(q, s)
         PROVE  play[q].target # files[s].serial
    BY <1>7, <1>11 DEF NoteInv, UpdatedStays
  <1>12. UpdatedStays'
    <2>1. ASSUME NEW q \in Plays, NEW t \in Servers, Updated(q, t)'
          PROVE  /\ Age(play[q].target) <= Age(files[t].serial)
                 /\ play[q].target = files[t].serial =>
                       /\ files'[t].records = play[q].wanted
                       /\ \A x \in Plays : ~Writing(x, t)'
      <3>1. CASE q = p /\ t = s
        BY <1>3, <1>6, <1>7, <3>1
      <3>2. CASE ~(q = p /\ t = s)
        <4>1. Updated(q, t)
          BY <1>6, <2>1, <3>2
        <4>2. CASE t = s
          BY <1>11, <4>1, <4>2 DEF NoteInv, UpdatedStays
        <4>3. CASE t # s
          BY <1>3, <1>6, <4>1, <4>3 DEF NoteInv, UpdatedStays
        <4>4. QED
          BY <4>2, <4>3
      <3>3. QED
        BY <3>1, <3>2
    <2>2. QED
      BY <1>3, <1>6, <2>1 DEF UpdatedStays
  <1>13. ServedStays'
    <2>1. ASSUME NEW q \in Plays, NEW t \in Servers, Served(q, t)',
                 play'[q].target = files'[t].serial
          PROVE  loaded[t] = files'[t]
      <3>1. Served(q, t) /\ Updated(q, t) /\ play[q].target = files[t].serial
        BY <1>3, <1>6, <2>1, ServedIsUpdated
      <3>2. t # s
        BY <1>11, <3>1
      <3>3. QED
        BY <1>3, <3>1, <3>2 DEF NoteInv, ServedStays
    <2>2. QED
      BY <1>1, <2>1 DEF ServedStays
  <1>14. QED
    BY <1>8, <1>9, <1>10, <1>12, <1>13 DEF NoteInv

LEMMA ReloadNotes ==
    ASSUME TypeOK, NoteInv, NEW p \in Plays, NEW s \in Servers, NEW ok \in BOOLEAN,
           Reload(p, s, ok)
    PROVE  NoteInv'
  <1> DEFINE r == [play[p] EXCEPT !.done = play[p].done \cup {s},
                                  !.erred = play[p].erred \/ ~ok]
  <1>1. /\ play[p].phase = "reload" /\ UNCHANGED <<files, applied, conv>>
        /\ play' = [play EXCEPT ![p] = r]
    BY DEF Reload
  <1>2. /\ r.phase = "reload" /\ r.target = play[p].target
        /\ r.wanted = play[p].wanted /\ r.done = play[p].done \cup {s}
        /\ r.reload = play[p].reload /\ r.erred = (play[p].erred \/ ~ok)
        /\ r.at = play[p].at /\ r.written = play[p].written
    BY <1>1 DEF TypeOK, Play
  <1>3. /\ \A t \in Servers : loaded'[t] \in {loaded[t], files[t]}
        /\ ok => loaded'[s] = files[s]
    BY DEF Reload, TypeOK
  <1> HIDE DEF r
  <1>4. play'[p] = r
    BY <1>1 DEF TypeOK
  <1>5. ASSUME NEW t \in Servers
        PROVE  /\ Updated(p, t)' => Updated(p, t)
               /\ Served(p, t)' => Served(p, t) \/ (t = s /\ ok)
               /\ Writing(p, t)' <=> Writing(p, t)
    BY <1>1, <1>2, <1>4 DEF Updated, Served, Writing
  <1>6. PlayNotes(p)'
    <2>1. ASSUME NEW t \in Servers, Served(p, t)', r.target = files[t].serial
          PROVE  loaded'[t] = files[t]
      BY <1>2, <1>3, <1>5, <2>1 DEF NoteInv, ServedStays
    <2>2. \A t \in Servers : Updated(p, t) =>
             /\ Age(play[p].target) <= Age(files[t].serial)
             /\ play[p].target = files[t].serial => files[t].records = play[p].wanted
      BY DEF NoteInv, UpdatedStays
    <2>3. /\ play[p].at = Nowhere => ~play[p].written
          /\ \A t \in Servers : Writing(p, t) =>
                /\ files[t].serial = play[p].target
                /\ Age(applied[t].serial) < Age(files[t].serial)
      BY DEF NoteInv, WrittenIsTarget
    <2>4. QED
      BY <1>1, <1>2, <1>4, <1>5, <2>1, <2>2, <2>3 DEF PlayNotes
  <1>7. QED
    BY <1>1, <1>2, <1>3, <1>5, <1>6, PlayNotesKept

LEMMA RecordNotes ==
    ASSUME TypeOK, NoteInv, NEW p \in Plays, NEW s \in Servers, Record(p, s)
    PROVE  NoteInv'
  <1>1. /\ play[p].phase = "record" /\ UNCHANGED <<files, loaded, conv>>
        /\ \A t \in Servers : applied'[t] =
              IF t = s THEN [serial |-> play[p].target, records |-> play[p].wanted]
              ELSE applied[t]
    BY DEF Record, TypeOK
  <1>2. \A q \in Plays :
           /\ play'[q].phase = play[q].phase /\ play'[q].target = play[q].target
           /\ play'[q].wanted = play[q].wanted /\ play'[q].reload = play[q].reload
           /\ play'[q].erred = play[q].erred /\ play'[q].at = play[q].at
           /\ play'[q].written = play[q].written
           /\ play'[q].done = play[q].done \/ play[q].phase = "record"
    BY <1>1 DEF Record, TypeOK, Play
  <1>3. \A q \in Plays, t \in Servers :
           /\ Updated(q, t)' <=> Updated(q, t)
           /\ Served(q, t)' <=> Served(q, t)
           /\ Writing(q, t)' <=> Writing(q, t)
    BY <1>2 DEF Updated, Served, Writing
  <1>4. /\ Updated(p, s) /\ Served(p, s)
        /\ Age(play[p].target) <= Age(files[s].serial)
        /\ play[p].target = files[s].serial =>
              /\ files[s].records = play[p].wanted
              /\ loaded[s] = files[s]
              /\ \A q \in Plays : ~Writing(q, s)
    BY <1>1 DEF Updated, Served, NoteInv, UpdatedStays, ServedStays
  <1>5. \A q \in Plays : Writing(q, s) => Age(play[p].target) < Age(files[s].serial)
    <2>1. play[p].target # files[s].serial => Age(play[p].target) < Age(files[s].serial)
      <3>1. play[p].target \in Serials /\ files[s].serial \in Serials
        BY DEF TypeOK, Play, Zone
      <3>2. /\ Age(play[p].target) \in Nat /\ Age(files[s].serial) \in Nat
            /\ play[p].target # files[s].serial => Age(play[p].target) # Age(files[s].serial)
        BY <3>1, AgeValue, AgeTells
      <3>3. QED
        BY <1>4, <3>2, SMT
    <2>2. QED
      BY <1>4, <2>1
  <1>6. NoteIsTrue'
    BY <1>1, <1>4 DEF NoteInv, NoteIsTrue
  <1>7. NotedBefore'
    BY <1>1, <1>4 DEF NoteInv, NotedBefore
  <1>8. WrittenIsTarget'
    BY <1>1, <1>2, <1>3, <1>5 DEF NoteInv, WrittenIsTarget
  <1>9. UpdatedStays'
    BY <1>1, <1>2, <1>3 DEF NoteInv, UpdatedStays
  <1>10. ServedStays'
    BY <1>1, <1>2, <1>3 DEF NoteInv, ServedStays
  <1>11. QED
    BY <1>6, <1>7, <1>8, <1>9, <1>10 DEF NoteInv

LEMMA NextTaskNotes ==
    ASSUME TypeOK, WriterInv, NoteInv, NEW p \in Plays, NextTask(p)
    PROVE  NoteInv'
  <1>1. /\ play[p].phase \in {"update", "reload", "record"}
        /\ play[p].phase \in {"update", "record"} => play[p].done = Servers
        /\ play[p].phase = "reload" => play[p].done = play[p].reload
        /\ UNCHANGED <<files, loaded, applied, conv>>
    BY DEF NextTask
  <1>2. play[p].at = Nowhere /\ ~play[p].written
    BY <1>1, NoUpdater
  <1>3. ASSUME NEW ph \in {"failed", "done"}, play' = [play EXCEPT ![p] = Ended(ph)]
        PROVE  NoteInv'
    BY <1>1, <1>3, EndedQuiet, QuietPlay
  <1>4. CASE play[p].erred \/ play[p].phase = "record"
    BY <1>3, <1>4 DEF NextTask
  <1>5. CASE ~play[p].erred /\ play[p].phase # "record"
    <2> DEFINE r == [play[p] EXCEPT !.phase = NextOf[play[p].phase], !.done = {}]
    <2>1. play' = [play EXCEPT ![p] = r]
      BY <1>5 DEF NextTask
    <2>2. /\ r.phase = IF play[p].phase = "update" THEN "reload" ELSE "record"
          /\ r.target = play[p].target /\ r.wanted = play[p].wanted /\ r.done = {}
          /\ r.reload = play[p].reload /\ r.at = play[p].at /\ r.written = play[p].written
      BY <1>1, <1>5 DEF TypeOK, Play, NextOf
    <2> HIDE DEF r
    <2>3. play'[p] = r
      BY <2>1 DEF TypeOK
    <2>4. ASSUME NEW t \in Servers
          PROVE  /\ Updated(p, t) /\ ~Writing(p, t)'
                 /\ Served(p, t)' => Served(p, t)
      BY <1>1, <1>2, <1>5, <2>2, <2>3 DEF Updated, Served, Writing
    <2>5. PlayNotes(p)'
      <3>1. \A t \in Servers :
               /\ Age(r.target) <= Age(files[t].serial)
               /\ r.target = files[t].serial => files[t].records = r.wanted
        BY <2>2, <2>4 DEF NoteInv, UpdatedStays
      <3>2. \A t \in Servers : Served(p, t)' /\ r.target = files[t].serial
               => loaded[t] = files[t]
        BY <2>2, <2>4 DEF NoteInv, ServedStays
      <3>3. QED
        BY <1>1, <1>2, <2>2, <2>3, <2>4, <3>1, <3>2 DEF PlayNotes
    <2>6. QED
      BY <1>1, <2>1, <2>2, <2>4, <2>5, PlayNotesKept
  <1>6. QED
    BY <1>4, <1>5

\* A template that is written puts a newer serial there, or nothing new.
LEMMA TemplateStep ==
    ASSUME TypeOK, WriterInv, Bounded, NoteInv, NEW s \in Servers, WriteTemplate(s)
    PROVE  /\ \A p \in Plays : ~AtWork(p) /\ play[p].at = Nowhere
           /\ UNCHANGED <<primary, loaded, applied, play>>
           /\ \A t \in Servers : t # s => files'[t] = files[t] /\ conv'[t] = conv[t]
           /\ files'[s].records = files[s].records /\ conv'[s].phase # "rendered"
           /\ \/ files'[s] = files[s]
              \/ Age(files[s].serial) < Age(files'[s].serial)
  <1>1. conv[s].phase = "rendered" /\ UNCHANGED <<primary, loaded, applied, play>>
    BY DEF WriteTemplate
  <1>2. \A p \in Plays : ~AtWork(p) /\ play[p].at = Nowhere
    BY <1>1, ConvergingAlone
  <1>3. \A t \in Servers : t # s => files'[t] = files[t] /\ conv'[t] = conv[t]
    BY DEF WriteTemplate, TypeOK
  <1>4. /\ files'[s] = [files[s] EXCEPT !.serial = conv[s].serial, !.body = conv[s].body]
        /\ files'[s].serial = conv[s].serial /\ conv'[s].phase # "rendered"
        /\ files'[s].records = files[s].records
    BY DEF WriteTemplate, TypeOK, Zone, Conv, Idle
  <1>5. CASE conv[s].serial = files[s].serial /\ conv[s].body = files[s].body
    <2>1. files'[s] = files[s]
      BY <1>4, <1>5 DEF TypeOK, Zone
    <2>2. QED
      BY <1>1, <1>2, <1>3, <1>4, <2>1
  <1>6. CASE conv[s].serial = Following(files[s].serial)
    <2>1. /\ files[s].serial \in Serials /\ Age(files[s].serial) + 1 < HalfRange
          /\ Age(files[s].serial) \in Nat
      BY Far DEF Bounded
    <2>2. Age(files[s].serial) + 1 < Modulus
      BY <2>1, AgeValue, SMT
    <2>3. Age(files'[s].serial) = Age(files[s].serial) + 1
      BY <1>4, <1>6, <2>1, <2>2, AgeFollowing
    <2>4. Age(files[s].serial) < Age(files'[s].serial)
      BY <2>1, <2>3, SMT
    <2>5. QED
      BY <1>1, <1>2, <1>3, <1>4, <2>4
  <1>7. QED
    BY <1>1, <1>5, <1>6 DEF NoteInv, NotedBefore

LEMMA WriteTemplateNotes ==
    ASSUME TypeOK, WriterInv, Bounded, NoteInv, NEW s \in Servers, WriteTemplate(s)
    PROVE  NoteInv'
  <1>1. /\ \A p \in Plays : ~AtWork(p) /\ play[p].at = Nowhere
        /\ UNCHANGED <<loaded, applied, play>>
        /\ \A t \in Servers : t # s => files'[t] = files[t] /\ conv'[t] = conv[t]
        /\ conv'[s].phase # "rendered"
        /\ files'[s] = files[s] \/ Age(files[s].serial) < Age(files'[s].serial)
    BY TemplateStep
  <1>2. \A p \in Plays, t \in Servers : ~Writing(p, t)' /\ ~Updated(p, t)' /\ ~Served(p, t)'
    BY <1>1, RoleDnsAssumption DEF Writing, Updated, Served, AtWork, Active
  <1>3. /\ Age(applied[s].serial) <= Age(files'[s].serial)
        /\ files'[s] = files[s] \/ applied[s].serial # files'[s].serial
    <2>1. Age(applied[s].serial) <= Age(files[s].serial)
      BY DEF NoteInv, NotedBefore
    <2>2. CASE files'[s] = files[s]
      BY <2>1, <2>2
    <2>3. CASE Age(files[s].serial) < Age(files'[s].serial)
      <3>1. /\ Age(applied[s].serial) \in Nat /\ Age(files[s].serial) \in Nat
            /\ Age(files'[s].serial) \in Int
        <4>1. files'[s].serial \in Serials
          BY FollowingIsNewer DEF WriteTemplate, TypeOK, Zone, Conv
        <4>2. QED
          BY <4>1, AgeValue DEF TypeOK, State, Zone
      <3>2. /\ Age(applied[s].serial) <= Age(files'[s].serial)
            /\ Age(applied[s].serial) # Age(files'[s].serial)
        BY <2>1, <2>3, <3>1, SMT
      <3>3. QED
        BY <3>2
    <2>4. QED
      BY <1>1, <2>2, <2>3
  <1>4. NoteIsTrue'
    BY <1>1, <1>3 DEF NoteInv, NoteIsTrue
  <1>5. NotedBefore'
    <2>1. ASSUME NEW t \in Servers
          PROVE  /\ Age(applied[t].serial) <= Age(files'[t].serial)
                 /\ conv'[t].phase = "rendered" =>
                       \/ conv'[t].serial = files'[t].serial /\ conv'[t].body = files'[t].body
                       \/ conv'[t].serial = Following(files'[t].serial)
      <3>1. CASE t = s
        BY <1>1, <1>3, <3>1
      <3>2. CASE t # s
        BY <1>1, <3>2 DEF NoteInv, NotedBefore
      <3>3. QED
        BY <3>1, <3>2
    <2>2. QED
      BY <1>1, <2>1 DEF NotedBefore
  <1>6. QED
    BY <1>1, <1>2, <1>4, <1>5 DEF NoteInv, WrittenIsTarget, UpdatedStays, ServedStays

\* NSD loads its files, the convergence of a zone goes on, and plays stay what
\* they are or are told of a failure.
LEMMA ServerNotes ==
    ASSUME TypeOK, NoteInv, files' = files, applied' = applied,
           \A s \in Servers : loaded'[s] \in {loaded[s], files[s]},
           \A s \in Servers : conv'[s].phase = "rendered" =>
              \/ conv'[s] = conv[s]
              \/ conv'[s].serial = files[s].serial /\ conv'[s].body = files[s].body
              \/ conv'[s].serial = Following(files[s].serial),
           \A p \in Plays :
              \/ play'[p] = play[p]
              \/ play'[p].phase \in {"update", "failed"} /\ play'[p].erred /\ ~play'[p].written
    PROVE  NoteInv'
  <1>1. ASSUME NEW p \in Plays, NEW s \in Servers
        PROVE  /\ Updated(p, s)' => Updated(p, s) /\ play'[p] = play[p]
               /\ Served(p, s)' => Served(p, s) /\ play'[p] = play[p]
               /\ Writing(p, s)' => Writing(p, s) /\ play'[p] = play[p]
    BY DEF Updated, Served, Writing
  <1>2. NoteIsTrue'
    BY DEF NoteInv, NoteIsTrue
  <1>3. NotedBefore'
    BY DEF NoteInv, NotedBefore
  <1>4. WrittenIsTarget'
    BY <1>1 DEF NoteInv, WrittenIsTarget
  <1>5. UpdatedStays'
    BY <1>1 DEF NoteInv, UpdatedStays
  <1>6. ServedStays'
    BY <1>1 DEF NoteInv, ServedStays
  <1>7. QED
    BY <1>2, <1>3, <1>4, <1>5, <1>6 DEF NoteInv

LEMMA ReadZoneNotes ==
    ASSUME TypeOK, WriterInv, NoteInv, NEW p \in Plays, NEW s \in Servers, ReadZone(p, s)
    PROVE  NoteInv'
  <1> DEFINE r == [play[p] EXCEPT !.at = s, !.copy = files[s].body]
  <1>1. /\ play[p].at = Nowhere /\ UNCHANGED <<files, loaded, applied, conv>>
        /\ play' = [play EXCEPT ![p] = r]
    BY DEF ReadZone
  <1>2. /\ r.phase = play[p].phase /\ r.target = play[p].target
        /\ r.wanted = play[p].wanted /\ r.done = play[p].done
        /\ r.reload = play[p].reload /\ r.erred = play[p].erred
        /\ r.written = play[p].written
    BY DEF TypeOK, Play
  <1> HIDE DEF r
  <1>3. play'[p] = r /\ ~play[p].written
    BY <1>1 DEF TypeOK, NoteInv, WrittenIsTarget
  <1>4. ASSUME NEW t \in Servers
        PROVE  /\ ~Writing(p, t)'
               /\ Updated(p, t)' <=> Updated(p, t)
               /\ Served(p, t)' <=> Served(p, t)
    <2>1. ~Writing(p, t)'
      BY <1>2, <1>3 DEF Writing
    <2>2. Updated(p, t)' <=> Updated(p, t)
      BY <1>2, <1>3 DEF Updated
    <2>3. Served(p, t)' <=> Served(p, t)
      BY <1>2, <1>3 DEF Served
    <2>4. QED
      BY <2>1, <2>2, <2>3
  <1>5. PlayNotes(p)'
    <2>1. \A t \in Servers : Updated(p, t) =>
             /\ Age(r.target) <= Age(files[t].serial)
             /\ r.target = files[t].serial => files[t].records = r.wanted
      BY <1>2 DEF NoteInv, UpdatedStays
    <2>2. \A t \in Servers : Served(p, t) /\ r.target = files[t].serial
             => loaded[t] = files[t]
      BY <1>2 DEF NoteInv, ServedStays
    <2>3. QED
      BY <1>1, <1>2, <1>3, <1>4, <2>1, <2>2 DEF PlayNotes
  <1>6. QED
    BY <1>1, <1>2, <1>4, <1>5, PlayNotesKept

LEMMA NoteNext ==
    TypeOK /\ WriterInv /\ Bounded /\ NoteInv /\ [Next]_vars => NoteInv'
  <1> SUFFICES ASSUME TypeOK, WriterInv, Bounded, NoteInv, [Next]_vars PROVE NoteInv'
    OBVIOUS
  <1>1. ASSUME NEW p \in Plays, NEW node \in Nodes, Start(p, node) PROVE NoteInv'
    <2> DEFINE r == [Ended("inspect") EXCEPT !.wanted = node]
    <2>1. r.phase = "inspect" /\ ~r.written
      BY DEF Ended
    <2>2. play' = [play EXCEPT ![p] = r] /\ UNCHANGED <<files, loaded, applied, conv>>
      BY <1>1 DEF Start
    <2> HIDE DEF r
    <2>3. QED
      BY <2>1, <2>2, QuietPlay
  <1>2. ASSUME NEW p \in Plays,
               Converge(p) \/ \E node \in Nodes : ChangePrimary(p, node)
        PROVE  NoteInv'
    BY <1>1, <1>2 DEF Converge, ChangePrimary, TypeOK
  <1>3. ASSUME NEW p \in Plays, Choose(p) PROVE NoteInv'
    <2>1. /\ play[p].phase = "inspect" /\ UNCHANGED <<files, loaded, applied, conv>>
      BY <1>3 DEF Choose
    <2>2. CASE play' = [play EXCEPT ![p] = Ended("failed")]
      BY <2>1, <2>2, EndedQuiet, QuietPlay
    <2>3. CASE play' = [play EXCEPT ![p] = [play[p] EXCEPT !.phase = "update", !.done = {},
                                                           !.target = Chosen(play[p])]]
      <3> DEFINE r == [play[p] EXCEPT !.phase = "update", !.done = {},
                                      !.target = Chosen(play[p])]
      <3>1. r.phase = "update" /\ r.done = {} /\ r.written = play[p].written
        BY DEF TypeOK, Play
      <3>2. play' = [play EXCEPT ![p] = r]
        BY <2>3
      <3> HIDE DEF r
      <3>3. ~play[p].written
        BY <2>1, NoUpdater
      <3>4. QED
        BY <2>1, <3>1, <3>2, <3>3, QuietPlay
    <2>4. QED
      BY <1>3, <2>2, <2>3 DEF Choose
  <1>4. ASSUME NEW p \in Plays, NextTask(p) PROVE NoteInv'
    BY <1>4, NextTaskNotes
  <1>5. ASSUME NEW p \in Plays, Abort(p) PROVE NoteInv'
    <2>1. /\ play' = [play EXCEPT ![p] = Ended("failed")]
          /\ UNCHANGED <<files, loaded, applied, conv>>
      BY <1>5 DEF Abort
    <2>2. QED
      BY <2>1, EndedQuiet, QuietPlay
  <1>6. ASSUME NEW p \in Plays, NEW s \in Servers, Inspect(p, s) PROVE NoteInv'
    <2> DEFINE r == [play[p] EXCEPT
                       !.done = play[p].done \cup {s},
                       !.seen = [play[p].seen EXCEPT ![s] = files[s].serial],
                       !.stale = play[p].stale \/ files[s].records # play[p].wanted]
    <2>1. /\ play[p].phase = "inspect" /\ UNCHANGED <<files, loaded, applied, conv>>
          /\ play' = [play EXCEPT ![p] = r]
      BY <1>6 DEF Inspect
    <2>2. r.phase = play[p].phase /\ r.written = play[p].written
      BY DEF TypeOK, Play
    <2> HIDE DEF r
    <2>3. ~play[p].written
      BY <2>1, NoUpdater
    <2>4. QED
      BY <2>1, <2>2, <2>3, QuietPlay
  <1>7. ASSUME NEW p \in Plays, NEW s \in Servers, LeaveAlone(p, s) PROVE NoteInv'
    BY <1>7, LeaveAloneNotes
  <1>8. ASSUME NEW p \in Plays, NEW s \in Servers, Refuse(p, s) \/ UpdateFails(p, s)
        PROVE  NoteInv'
    <2>1. Pending(p, s)
      BY <1>8, WriterAlone DEF Refuse, UpdateFails
    <2>2. Finished(p, s, FALSE, FALSE) /\ UNCHANGED <<files, loaded, applied, conv>>
      BY <1>8 DEF Refuse, UpdateFails
    <2>3. QED
      BY <2>1, <2>2, FinishedNotes
  <1>9. ASSUME NEW p \in Plays, NEW s \in Servers, ReadZone(p, s) PROVE NoteInv'
    BY <1>9, ReadZoneNotes
  <1>10. ASSUME NEW p \in Plays, NEW s \in Servers, WriteZone(p, s) PROVE NoteInv'
    BY <1>10, WriteZoneNotes
  <1>11. ASSUME NEW p \in Plays, NEW s \in Servers, NEW ok \in BOOLEAN,
                WriteRecords(p, s, ok) \/ Reload(p, s, ok)
         PROVE  NoteInv'
    BY <1>11, WriteRecordsNotes, ReloadNotes
  <1>12. ASSUME NEW p \in Plays, NEW s \in Servers, Record(p, s) PROVE NoteInv'
    BY <1>12, RecordNotes
  <1>13. ASSUME NEW body \in Bodies, Declare(body) PROVE NoteInv'
    <2>1. UNCHANGED <<files, loaded, applied, play, conv>>
      BY <1>13 DEF Declare
    <2>2. QED
      BY <2>1, ServerNotes
  <1>14. ASSUME NEW H \in (SUBSET Converging) \ {{}}, Render(H) PROVE NoteInv'
    <2>1. UNCHANGED <<files, loaded, applied, play>>
      BY <1>14 DEF Render
    <2>2. \A s \in Servers :
             \/ conv'[s] = conv[s]
             \/ conv'[s].serial = files[s].serial /\ conv'[s].body = files[s].body
             \/ conv'[s].serial = Following(files[s].serial)
      BY <1>14 DEF Render, ZoneSerial
    <2>3. QED
      BY <2>1, <2>2, ServerNotes
  <1>15. ASSUME NEW s \in Servers, WriteTemplate(s) PROVE NoteInv'
    BY <1>15, WriteTemplateNotes
  <1>16. ASSUME NEW s \in Servers, RestartNsd(s) \/ ConvergenceFails(s) PROVE NoteInv'
    <2>1. UNCHANGED <<files, applied, play>>
      BY <1>16 DEF RestartNsd, ConvergenceFails
    <2>2. \A t \in Servers : loaded'[t] \in {loaded[t], files[t]}
      BY <1>16 DEF RestartNsd, ConvergenceFails, TypeOK
    <2>3. \A t \in Servers : conv'[t] = conv[t] \/ conv'[t].phase = "idle"
      BY <1>16 DEF RestartNsd, ConvergenceFails, TypeOK, Idle
    <2>4. QED
      BY <2>1, <2>2, <2>3, ServerNotes
  <1>17. ASSUME NEW s \in Servers, Reboot(s) PROVE NoteInv'
    <2>1. UNCHANGED <<files, applied, conv>>
      BY <1>17 DEF Reboot
    <2>2. \A t \in Servers : loaded'[t] \in {loaded[t], files[t]}
      BY <1>17 DEF Reboot, TypeOK
    <2>3. ASSUME NEW p \in Plays, play'[p] # play[p]
          PROVE  play'[p].phase = "update" /\ play'[p].erred /\ ~play'[p].written
      <3>1. /\ play[p].at = s
            /\ play'[p] = [play[p] EXCEPT !.done = @ \cup {s}, !.erred = TRUE,
                                          !.at = Nowhere, !.written = FALSE]
        BY <1>17, <2>3 DEF Reboot
      <3>2. play[p].phase = "update"
        BY <3>1, WriterAlone DEF Pending
      <3>3. QED
        BY <3>1, <3>2 DEF TypeOK, Play
    <2>4. QED
      BY <2>1, <2>2, <2>3, ServerNotes
  <1>18. CASE UNCHANGED vars
    BY <1>18, ServerNotes DEF vars
  <1>19. QED
    BY <1>2, <1>3, <1>4, <1>5, <1>6, <1>7, <1>8, <1>9, <1>10, <1>11, <1>12, <1>13,
       <1>14, <1>15, <1>16, <1>17, <1>18 DEF Next

\* mysql_role_dns/tasks/main.yml and update-mysql-role-dns.py:reload_was_applied:
\* a run may skip the reload when the note matches the files, because NSD then has
\* loaded just these files: for plays that overlap in any way, and for any number
\* of runs that failed or were cut off before.
THEOREM NoteHolds ==
    Serialized \/ Converging = {} => (Spec => []NoteIsTrue)
  <1> SUFFICES ASSUME Serialized \/ Converging = {} PROVE Spec => []NoteIsTrue
    OBVIOUS
  <1>1. Spec => []TypeOK
    BY TypeCorrect
  <1>2. Spec => []WriterInv
    BY WritersAdvance
  <1>3. Spec => []Bounded
    BY SerialsStayClose
  <1>4. NoteInv => NoteIsTrue
    BY DEF NoteInv
  <1>5. QED
    BY <1>1, <1>2, <1>3, <1>4, NoteInit, NoteNext, PTL DEF Spec

-----------------------------------------------------------------------------
(* Playbooks one at a time.                                                *)

OneAtWork == \A p, q \in Plays : AtWork(p) /\ AtWork(q) => p = q

\* What is true of the play at work while nobody else changes anything: it wants
\* the PRIMARY, what it updated has its serial, what it inspected is still so,
\* and the serial it chose will be accepted.
PlayAlone(p) ==
    /\ AtWork(p) => play[p].wanted = primary
    /\ \A s \in Servers : Updated(p, s) => play[p].target = files[s].serial
    /\ play[p].phase = "inspect" => \A s \in play[p].done :
          /\ play[p].seen[s] = files[s].serial
          /\ files[s].records # play[p].wanted => play[p].stale
    /\ \A s \in Servers : Pending(p, s) /\ play[p].at # s => Accepted(p, s)

DoneIsLive ==
    Plays # {} /\ (\A p \in Plays : play[p].phase = "done") =>
        \A s \in Servers : files[s].records = primary /\ loaded[s].records = primary

\* What NSD does not answer from yet has a newer serial, and so has every zone
\* file that an updater has begun to write.
AnswersBehind ==
    \A s \in Servers :
        /\ loaded[s] = files[s] \/ Age(loaded[s].serial) < Age(files[s].serial)
        /\ \A p \in Plays : Writing(p, s) => Age(loaded[s].serial) < Age(files[s].serial)

AloneInv ==
    OneAtWork /\ (\A p \in Plays : PlayAlone(p)) /\ DoneIsLive /\ AnswersBehind

\* Files stay, and NSD loads only what no updater has begun to write.
LEMMA AnswersKept ==
    ASSUME AnswersBehind, files' = files,
           \A s \in Servers :
              \/ loaded'[s] = loaded[s]
              \/ loaded'[s] = files[s] /\ \A p \in Plays : ~Writing(p, s)',
           \A p \in Plays, s \in Servers : Writing(p, s)' => Writing(p, s)
    PROVE  AnswersBehind'
  BY DEF AnswersBehind

\* A play that is not at work has nothing to lose.
LEMMA RestingAlone ==
    ASSUME NEW p \in Plays, ~AtWork(p)'
    PROVE  PlayAlone(p)'
  BY DEF PlayAlone, AtWork, Active, Updated, Pending

\* The play at work goes on, or ends with a failure.
LEMMA PlayGoesOnAlone ==
    ASSUME TypeOK, AloneInv, NEW p \in Plays, NEW r, play' = [play EXCEPT ![p] = r],
           AtWork(p), r.phase \in Active \cup {"failed"},
           PlayAlone(p)', AnswersBehind'
    PROVE  AloneInv'
  <1>1. play'[p] = r /\ \A q \in Plays : q # p => play'[q] = play[q]
    BY DEF TypeOK
  <1>2. \A q \in Plays : q # p => ~AtWork(q) /\ ~AtWork(q)'
    BY <1>1 DEF AloneInv, OneAtWork, AtWork
  <1>3. OneAtWork'
    BY <1>2 DEF OneAtWork
  <1>4. \A q \in Plays : PlayAlone(q)'
    BY <1>2, RestingAlone
  <1>5. DoneIsLive'
    BY <1>1 DEF DoneIsLive, Active
  <1>6. QED
    BY <1>3, <1>4, <1>5 DEF AloneInv

LEMMA FailedAlone ==
    ASSUME TypeOK, AloneInv, NEW p \in Plays, AtWork(p),
           play' = [play EXCEPT ![p] = Ended("failed")],
           files' = files, loaded' = loaded
    PROVE  AloneInv'
  <1>1. play'[p] = Ended("failed") /\ \A q \in Plays : q # p => play'[q] = play[q]
    BY DEF TypeOK
  <1>2. Ended("failed").phase = "failed" /\ ~Ended("failed").written
    BY EndedQuiet
  <1>3. PlayAlone(p)'
    BY <1>1, <1>2, RestingAlone DEF AtWork, Active
  <1>4. \A q \in Plays, s \in Servers : Writing(q, s)' => Writing(q, s)
    BY <1>1, <1>2 DEF Writing
  <1>5. AnswersBehind'
    BY <1>4, AnswersKept DEF AloneInv
  <1>6. QED
    BY <1>2, <1>3, <1>5, PlayGoesOnAlone

LEMMA AloneInit == Init => AloneInv
  <1> SUFFICES ASSUME Init PROVE AloneInv
    OBVIOUS
  <1>1. \A p \in Plays : /\ play[p].at = Nowhere /\ play[p].phase = "idle"
                         /\ ~play[p].written
    BY EndedQuiet DEF Init
  <1>2. \A p \in Plays : ~AtWork(p)
    BY <1>1 DEF AtWork, Active
  <1>3. \A p \in Plays : PlayAlone(p)
    BY <1>1 DEF PlayAlone, AtWork, Active, Updated, Pending
  <1>4. DoneIsLive
    BY <1>1 DEF DoneIsLive
  <1>5. AnswersBehind
    BY <1>1 DEF AnswersBehind, Writing, Init
  <1>6. QED
    BY <1>2, <1>3, <1>4, <1>5 DEF AloneInv, OneAtWork

LEMMA StartAlone ==
    ASSUME Serialized, TypeOK, AloneInv, NEW p \in Plays, NEW node \in Nodes,
           Start(p, node), primary' = node
    PROVE  AloneInv'
  <1> DEFINE r == [Ended("inspect") EXCEPT !.wanted = node]
  <1>1. /\ r.phase = "inspect" /\ ~r.written /\ r.wanted = node /\ r.done = {}
    BY DEF Ended
  <1>2. /\ play' = [play EXCEPT ![p] = r] /\ UNCHANGED <<files, loaded>>
        /\ \A q \in Plays : ~AtWork(q)
    BY DEF Start, MayStart
  <1> HIDE DEF r
  <1>3. play'[p] = r /\ \A q \in Plays : q # p => play'[q] = play[q]
    BY <1>2 DEF TypeOK
  <1>4. \A q \in Plays : q # p => ~AtWork(q)'
    BY <1>2, <1>3 DEF AtWork
  <1>5. PlayAlone(p)'
    BY <1>1, <1>3 DEF PlayAlone, Updated, Pending
  <1>6. \A q \in Plays : PlayAlone(q)'
    BY <1>4, <1>5, RestingAlone
  <1>7. DoneIsLive'
    BY <1>1, <1>3 DEF DoneIsLive
  <1>8. \A q \in Plays, s \in Servers : Writing(q, s)' => Writing(q, s)
    BY <1>1, <1>3 DEF Writing
  <1>9. AnswersBehind'
    BY <1>2, <1>8, AnswersKept DEF AloneInv
  <1>10. QED
    BY <1>4, <1>6, <1>7, <1>9 DEF AloneInv, OneAtWork

\* With both servers as they were inspected, the choice is accepted by both.
LEMMA ChooseAlone ==
    ASSUME TypeOK, WriterInv, Bounded, NoteInv, AloneInv, NEW p \in Plays, Choose(p)
    PROVE  AloneInv'
  <1>1. /\ play[p].phase = "inspect" /\ play[p].done = Servers /\ AtWork(p)
        /\ UNCHANGED <<primary, files, loaded>>
    BY DEF Choose, AtWork, Active
  <1>2. CASE play' = [play EXCEPT ![p] = Ended("failed")]
    BY <1>1, <1>2, FailedAlone
  <1>3. CASE play' = [play EXCEPT ![p] = [play[p] EXCEPT !.phase = "update", !.done = {},
                                                         !.target = Chosen(play[p])]]
    <2> DEFINE r == [play[p] EXCEPT !.phase = "update", !.done = {},
                                    !.target = Chosen(play[p])]
    <2>1. /\ r.phase = "update" /\ r.done = {} /\ r.written = play[p].written
          /\ r.target = Chosen(play[p]) /\ r.wanted = play[p].wanted
      BY DEF TypeOK, Play
    <2>2. play' = [play EXCEPT ![p] = r]
      BY <1>3
    <2> HIDE DEF r
    <2>3. play'[p] = r /\ \A q \in Plays : q # p => play'[q] = play[q]
      BY <2>2 DEF TypeOK
    <2>4. ~play[p].written
      BY <1>1, NoUpdater
    <2>5. \A q \in Plays, s \in Servers : Writing(q, s)' => Writing(q, s)
      BY <2>1, <2>3, <2>4 DEF Writing
    <2>6. \A s \in Servers :
             \/ Newer(files[s].serial, r.target)
             \/ files[s].serial = r.target /\ files[s].records = r.wanted
      <3> DEFINE s == CHOOSE x \in Servers : TRUE
                 t == CHOOSE x \in Servers : x # s
                 a == files[s].serial
                 b == files[t].serial
                 need == play[p].stale
      <3>1. s \in Servers /\ t \in Servers /\ Servers = {s, t}
        BY RoleDnsAssumption
      <3> HIDE DEF s, t
      <3>2. \A x \in Servers : /\ play[p].seen[x] = files[x].serial
                               /\ files[x].records # play[p].wanted => need
        BY <1>1 DEF AloneInv, PlayAlone
      <3>3. r.target = ConvergedSerial(a, b, need)
        BY <2>1, <3>1, <3>2 DEF Chosen, s, t
      <3>4. need \in BOOLEAN
        BY DEF TypeOK, Play
      <3>5. Young(a) /\ Young(b)
        BY <3>1 DEF Bounded
      <3>6. /\ a \in Serials /\ Age(a) + 1 < HalfRange
            /\ b \in Serials /\ Age(b) + 1 < HalfRange
        BY <3>5, Far
      <3>7. /\ a = b /\ ~need => r.target = a
            /\ ~(a = b /\ ~need) => Newer(a, r.target) /\ Newer(b, r.target)
        BY <3>3, <3>4, <3>6, ConvergedAdvances
      <3>8. CASE a = b /\ ~need
        BY <2>1, <3>1, <3>2, <3>7, <3>8
      <3>9. CASE ~(a = b /\ ~need)
        BY <3>1, <3>7, <3>9
      <3>10. QED
        BY <3>8, <3>9
    <2>7. \A s \in Servers : Accepted(p, s)'
      BY <1>1, <2>3, <2>6 DEF Accepted, ZoneChanges, RecordsChange
    <2>8. r.wanted = primary
      BY <1>1, <2>1 DEF AloneInv, PlayAlone
    <2>9. PlayAlone(p)'
      BY <1>1, <2>1, <2>3, <2>7, <2>8 DEF PlayAlone, Updated
    <2>10. AnswersBehind'
      BY <1>1, <2>5, AnswersKept DEF AloneInv
    <2>11. QED
      BY <1>1, <2>1, <2>2, <2>9, <2>10, PlayGoesOnAlone DEF Active
  <1>4. QED
    BY <1>2, <1>3 DEF Choose

LEMMA InspectAlone ==
    ASSUME TypeOK, WriterInv, NoteInv, AloneInv, NEW p \in Plays, NEW s \in Servers,
           Inspect(p, s)
    PROVE  AloneInv'
  <1> DEFINE r == [play[p] EXCEPT
                     !.done = play[p].done \cup {s},
                     !.seen = [play[p].seen EXCEPT ![s] = files[s].serial],
                     !.stale = play[p].stale \/ files[s].records # play[p].wanted]
  <1>1. /\ play[p].phase = "inspect" /\ AtWork(p) /\ UNCHANGED <<primary, files, loaded>>
        /\ play' = [play EXCEPT ![p] = r]
    BY DEF Inspect, AtWork, Active
  <1>2. /\ r.phase = "inspect" /\ r.written = play[p].written /\ r.wanted = play[p].wanted
        /\ r.done = play[p].done \cup {s}
        /\ \A t \in Servers : r.seen[t] = IF t = s THEN files[s].serial ELSE play[p].seen[t]
        /\ r.stale = (play[p].stale \/ files[s].records # play[p].wanted)
        /\ play[p].done \subseteq Servers
    BY <1>1 DEF TypeOK, Play
  <1> HIDE DEF r
  <1>3. play'[p] = r /\ \A q \in Plays : q # p => play'[q] = play[q]
    BY <1>1 DEF TypeOK
  <1>4. ~play[p].written
    BY <1>1, NoUpdater
  <1>5. \A q \in Plays, t \in Servers : Writing(q, t)' => Writing(q, t)
    BY <1>2, <1>3, <1>4 DEF Writing
  <1>6. ASSUME NEW t \in r.done
        PROVE  /\ r.seen[t] = files[t].serial
               /\ files[t].records # r.wanted => r.stale
    <2>1. CASE t = s
      BY <1>2, <2>1
    <2>2. CASE t # s
      <3>1. t \in play[p].done /\ t \in Servers
        BY <1>2, <1>6, <2>2
      <3>2. /\ play[p].seen[t] = files[t].serial
            /\ files[t].records # play[p].wanted => play[p].stale
        BY <1>1, <3>1 DEF AloneInv, PlayAlone
      <3>3. QED
        BY <1>2, <2>2, <3>1, <3>2
    <2>3. QED
      BY <2>1, <2>2
  <1>7. r.wanted = primary
    BY <1>1, <1>2 DEF AloneInv, PlayAlone
  <1>8. PlayAlone(p)'
    BY <1>1, <1>2, <1>3, <1>6, <1>7 DEF PlayAlone, Updated, Pending
  <1>9. AnswersBehind'
    BY <1>1, <1>5, AnswersKept DEF AloneInv
  <1>10. QED
    BY <1>1, <1>2, <1>8, <1>9, PlayGoesOnAlone DEF Active

\* The updater has ended; after a success the zone has the play's serial.
LEMMA FinishedAlone ==
    ASSUME TypeOK, AloneInv, NEW p \in Plays, NEW s \in Servers, NEW ok \in BOOLEAN,
           NEW reload, Finished(p, s, ok, reload), Pending(p, s),
           play[p].at \in {Nowhere, s}, primary' = primary,
           \A t \in Servers : t # s => files'[t] = files[t],
           ok => files'[s].serial = play[p].target,
           AnswersBehind'
    PROVE  AloneInv'
  <1> DEFINE r == [play[p] EXCEPT
                     !.done = play[p].done \cup {s}, !.erred = play[p].erred \/ ~ok,
                     !.reload = play[p].reload \cup (IF reload THEN {s} ELSE {}),
                     !.at = Nowhere, !.written = FALSE]
  <1>1. play[p].phase = "update" /\ AtWork(p) /\ s \notin play[p].done
    BY DEF Pending, AtWork, Active
  <1>2. /\ r.phase = "update" /\ r.target = play[p].target /\ r.wanted = play[p].wanted
        /\ r.done = play[p].done \cup {s} /\ r.erred = (play[p].erred \/ ~ok)
        /\ r.at = Nowhere
    BY <1>1 DEF TypeOK, Play
  <1>3. play' = [play EXCEPT ![p] = r]
    BY DEF Finished
  <1> HIDE DEF r
  <1>4. play'[p] = r
    BY <1>3 DEF TypeOK
  <1>5. ASSUME NEW t \in Servers, Updated(p, t)'
        PROVE  r.target = files'[t].serial
    <2>1. ~r.erred /\ t \in r.done
      BY <1>2, <1>4, <1>5 DEF Updated
    <2>2. ~play[p].erred /\ ok
      BY <1>2, <2>1
    <2>3. CASE t = s
      BY <1>2, <2>2, <2>3
    <2>4. CASE t # s
      <3>1. Updated(p, t)
        BY <1>1, <1>2, <2>1, <2>2, <2>4 DEF Updated
      <3>2. QED
        BY <1>2, <2>4, <3>1 DEF AloneInv, PlayAlone
    <2>5. QED
      BY <2>3, <2>4
  <1>6. ASSUME NEW t \in Servers, Pending(p, t)'
        PROVE  Accepted(p, t)'
    <2>1. t # s /\ t \notin play[p].done
      BY <1>2, <1>4, <1>6 DEF Pending
    <2>2. Pending(p, t) /\ play[p].at # t
      BY <1>1, <2>1, RoleDnsAssumption DEF Pending
    <2>3. Accepted(p, t)
      BY <2>2 DEF AloneInv, PlayAlone
    <2>4. QED
      BY <1>2, <1>4, <2>1, <2>3 DEF Accepted, ZoneChanges, RecordsChange
  <1>7. r.wanted = primary'
    BY <1>1, <1>2 DEF AloneInv, PlayAlone
  <1>8. PlayAlone(p)'
    BY <1>2, <1>4, <1>5, <1>6, <1>7 DEF PlayAlone
  <1>9. QED
    BY <1>1, <1>2, <1>3, <1>8, PlayGoesOnAlone DEF Active

\* Updaters that leave the zone file as it is.
LEMMA UntouchedAlone ==
    ASSUME TypeOK, WriterInv, Bounded, NoteInv, AloneInv, NEW p \in Plays,
           NEW s \in Servers, LeaveAlone(p, s) \/ Refuse(p, s) \/ UpdateFails(p, s)
    PROVE  AloneInv'
  <1>1. PICK ok \in BOOLEAN, reload \in BOOLEAN :
           /\ Finished(p, s, ok, reload)
           /\ ok => files[s].serial = play[p].target
    BY DEF LeaveAlone, Refuse, UpdateFails, Applied, ZoneChanges
  <1>2. UNCHANGED <<primary, files, loaded>> /\ play[p].at \in {Nowhere, s}
    BY DEF LeaveAlone, Refuse, UpdateFails
  <1>3. Pending(p, s)
    BY WriterAlone DEF LeaveAlone, Refuse, UpdateFails
  <1>4. \A q \in Plays, t \in Servers : Writing(q, t)' => Writing(q, t)
    <2>1. /\ play'[p].at = Nowhere
          /\ \A q \in Plays : q # p => play'[q] = play[q]
      BY <1>1 DEF Finished, TypeOK, Play
    <2>2. QED
      BY <2>1, RoleDnsAssumption DEF Writing
  <1>5. AnswersBehind'
    BY <1>2, <1>4, AnswersKept DEF AloneInv
  <1>6. QED
    BY <1>1, <1>2, <1>3, <1>5, FinishedAlone

LEMMA WriteRecordsAlone ==
    ASSUME TypeOK, WriterInv, Bounded, NoteInv, AloneInv, NEW p \in Plays,
           NEW s \in Servers, NEW ok \in BOOLEAN, WriteRecords(p, s, ok)
    PROVE  AloneInv'
  <1>1. /\ play[p].at = s /\ play[p].written /\ Writing(p, s)
        /\ Finished(p, s, ok, TRUE) /\ UNCHANGED <<primary, loaded>>
    BY DEF WriteRecords, Writing
  <1>2. Pending(p, s)
    BY <1>1, WriterAlone
  <1>3. /\ \A t \in Servers : files'[t].serial = files[t].serial
        /\ \A t \in Servers : t # s => files'[t] = files[t]
    BY DEF WriteRecords, TypeOK, Zone
  <1>4. files[s].serial = play[p].target
    BY <1>1 DEF NoteInv, WrittenIsTarget
  <1>5. \A q \in Plays, t \in Servers : Writing(q, t)' => Writing(q, t)
    <2>1. /\ play'[p].at = Nowhere
          /\ \A q \in Plays : q # p => play'[q] = play[q]
      BY <1>1 DEF Finished, TypeOK, Play
    <2>2. QED
      BY <2>1, RoleDnsAssumption DEF Writing
  <1>6. AnswersBehind'
    <2>1. Age(loaded[s].serial) < Age(files[s].serial)
      BY <1>1 DEF AloneInv, AnswersBehind
    <2>2. QED
      BY <1>1, <1>3, <1>5, <2>1 DEF AloneInv, AnswersBehind
  <1>7. QED
    BY <1>1, <1>2, <1>3, <1>4, <1>6, FinishedAlone

LEMMA ReadZoneAlone ==
    ASSUME TypeOK, NoteInv, AloneInv, NEW p \in Plays, NEW s \in Servers, ReadZone(p, s)
    PROVE  AloneInv'
  <1> DEFINE r == [play[p] EXCEPT !.at = s, !.copy = files[s].body]
  <1>1. /\ play[p].phase = "update" /\ AtWork(p) /\ play[p].at = Nowhere
        /\ UNCHANGED <<primary, files, loaded>> /\ play' = [play EXCEPT ![p] = r]
    BY DEF ReadZone, Pending, AtWork, Active
  <1>2. /\ r.phase = "update" /\ r.target = play[p].target /\ r.wanted = play[p].wanted
        /\ r.done = play[p].done /\ r.erred = play[p].erred /\ r.at = s
        /\ r.written = play[p].written
    BY <1>1 DEF TypeOK, Play
  <1> HIDE DEF r
  <1>3. play'[p] = r /\ \A q \in Plays : q # p => play'[q] = play[q]
    BY <1>1 DEF TypeOK
  <1>4. ~play[p].written
    BY <1>1 DEF NoteInv, WrittenIsTarget
  <1>5. \A q \in Plays, t \in Servers : Writing(q, t)' => Writing(q, t)
    BY <1>2, <1>3, <1>4 DEF Writing
  <1>6. ASSUME NEW t \in Servers, Updated(p, t)'
        PROVE  r.target = files[t].serial
    <2>1. Updated(p, t)
      BY <1>1, <1>2, <1>3, <1>6 DEF Updated
    <2>2. QED
      BY <1>2, <2>1 DEF AloneInv, PlayAlone
  <1>7. ASSUME NEW t \in Servers, Pending(p, t)'
        PROVE  Accepted(p, t)'
    <2>1. Pending(p, t) /\ play[p].at # t
      BY <1>1, <1>2, <1>3, <1>7, RoleDnsAssumption DEF Pending
    <2>2. Accepted(p, t)
      BY <2>1 DEF AloneInv, PlayAlone
    <2>3. QED
      BY <1>1, <1>2, <1>3, <2>2 DEF Accepted, ZoneChanges, RecordsChange
  <1>8. r.wanted = primary
    BY <1>1, <1>2 DEF AloneInv, PlayAlone
  <1>9. PlayAlone(p)'
    BY <1>1, <1>2, <1>3, <1>6, <1>7, <1>8 DEF PlayAlone
  <1>10. AnswersBehind'
    BY <1>1, <1>5, AnswersKept DEF AloneInv
  <1>11. QED
    BY <1>1, <1>2, <1>9, <1>10, PlayGoesOnAlone DEF Active

LEMMA WriteZoneAlone ==
    ASSUME TypeOK, WriterInv, Bounded, NoteInv, AloneInv, NEW p \in Plays,
           NEW s \in Servers, WriteZone(p, s)
    PROVE  AloneInv'
  <1> DEFINE r == [play[p] EXCEPT !.written = TRUE]
  <1>1. /\ play[p].at = s /\ ~play[p].written /\ UNCHANGED <<primary, loaded>>
        /\ play' = [play EXCEPT ![p] = r]
    BY DEF WriteZone
  <1>2. /\ Pending(p, s) /\ AtWork(p) /\ play[p].phase = "update"
        /\ Age(files[s].serial) < Age(play[p].target)
    BY <1>1, WriterAlone DEF Pending
  <1>3. /\ files'[s].serial = play[p].target
        /\ \A t \in Servers : t # s => files'[t] = files[t]
    BY DEF WriteZone, TypeOK, Zone
  <1>4. /\ r.phase = "update" /\ r.target = play[p].target /\ r.wanted = play[p].wanted
        /\ r.done = play[p].done /\ r.erred = play[p].erred /\ r.at = s
    BY <1>1, <1>2 DEF TypeOK, Play
  <1> HIDE DEF r
  <1>5. play'[p] = r /\ \A q \in Plays : q # p => play'[q] = play[q]
    BY <1>1 DEF TypeOK
  <1>6. ASSUME NEW t \in Servers, Updated(p, t)'
        PROVE  r.target = files'[t].serial
    <2>1. Updated(p, t) /\ t # s
      BY <1>2, <1>4, <1>5, <1>6 DEF Updated, Pending
    <2>2. QED
      BY <1>3, <1>4, <2>1 DEF AloneInv, PlayAlone
  <1>7. ASSUME NEW t \in Servers, Pending(p, t)', t # s
        PROVE  Accepted(p, t)'
    <2>1. Pending(p, t) /\ play[p].at # t
      BY <1>1, <1>2, <1>4, <1>5, <1>7 DEF Pending
    <2>2. Accepted(p, t)
      BY <2>1 DEF AloneInv, PlayAlone
    <2>3. QED
      BY <1>3, <1>4, <1>5, <1>7, <2>2 DEF Accepted, ZoneChanges, RecordsChange
  <1>8. r.wanted = primary
    BY <1>2, <1>4 DEF AloneInv, PlayAlone
  <1>9. PlayAlone(p)'
    BY <1>1, <1>4, <1>5, <1>6, <1>7, <1>8 DEF PlayAlone
  <1>10. AnswersBehind'
    <2>1. Age(loaded[s].serial) < Age(files'[s].serial)
      <3>1. /\ Age(loaded[s].serial) \in Nat /\ Age(files[s].serial) \in Nat
            /\ Age(play[p].target) \in Nat
        BY AgeValue DEF TypeOK, Zone, Play
      <3>2. loaded[s] = files[s] \/ Age(loaded[s].serial) < Age(files[s].serial)
        BY DEF AloneInv, AnswersBehind
      <3>3. CASE loaded[s] = files[s]
        BY <1>2, <1>3, <3>3
      <3>4. CASE Age(loaded[s].serial) < Age(files[s].serial)
        BY <1>2, <1>3, <3>1, <3>4, SMT
      <3>5. QED
        BY <3>2, <3>3, <3>4
    <2>2. ASSUME NEW q \in Plays, NEW t \in Servers, t # s, Writing(q, t)'
          PROVE  Writing(q, t)
      BY <1>4, <1>5, <2>2 DEF Writing
    <2>3. QED
      BY <1>1, <1>3, <2>1, <2>2 DEF AloneInv, AnswersBehind
  <1>11. QED
    BY <1>1, <1>2, <1>4, <1>9, <1>10, PlayGoesOnAlone DEF Active

\* Tasks after the updates: what the play updated stays updated.
LEMMA LaterTaskAlone ==
    ASSUME TypeOK, AloneInv, NEW p \in Plays, NEW r, play' = [play EXCEPT ![p] = r],
           AtWork(p), UNCHANGED <<primary, files>>,
           \A t \in Servers : Updated(p, t),
           r.phase \in {"reload", "record"}, r.target = play[p].target,
           r.wanted = play[p].wanted, AnswersBehind'
    PROVE  AloneInv'
  <1>1. play'[p] = r
    BY DEF TypeOK
  <1>2. play[p].wanted = primary /\ \A t \in Servers : play[p].target = files[t].serial
    BY DEF AloneInv, PlayAlone
  <1>3. PlayAlone(p)'
    BY <1>1, <1>2 DEF PlayAlone, Pending
  <1>4. QED
    BY <1>3, PlayGoesOnAlone DEF Active

LEMMA ReloadAlone ==
    ASSUME TypeOK, WriterInv, NoteInv, AloneInv, NEW p \in Plays, NEW s \in Servers,
           NEW ok \in BOOLEAN, Reload(p, s, ok)
    PROVE  AloneInv'
  <1> DEFINE r == [play[p] EXCEPT !.done = play[p].done \cup {s},
                                  !.erred = play[p].erred \/ ~ok]
  <1>1. /\ play[p].phase = "reload" /\ AtWork(p) /\ UNCHANGED <<primary, files>>
        /\ play' = [play EXCEPT ![p] = r]
    BY DEF Reload, AtWork, Active
  <1>2. /\ r.phase = "reload" /\ r.target = play[p].target /\ r.wanted = play[p].wanted
        /\ r.at = play[p].at /\ r.written = play[p].written
    BY <1>1 DEF TypeOK, Play
  <1> HIDE DEF r
  <1>3. play'[p] = r /\ \A q \in Plays : q # p => play'[q] = play[q]
    BY <1>1 DEF TypeOK
  <1>4. \A t \in Servers : loaded'[t] \in {loaded[t], files[t]}
    BY DEF Reload, TypeOK
  <1>5. \A q \in Plays, t \in Servers : ~Writing(q, t)'
    <2>1. ASSUME NEW q \in Plays PROVE ~play[q].written
      <3>1. CASE q = p
        BY <1>1, <3>1, NoUpdater
      <3>2. CASE q # p
        <4>1. ~AtWork(q)
          BY <1>1, <3>2 DEF AloneInv, OneAtWork
        <4>2. play[q].phase # "update"
          BY <4>1 DEF AtWork, Active
        <4>3. QED
          BY <4>2, NoUpdater
      <3>3. QED
        BY <3>1, <3>2
    <2>2. QED
      BY <1>2, <1>3, <2>1 DEF Writing
  <1>6. AnswersBehind'
    BY <1>1, <1>4, <1>5, AnswersKept DEF AloneInv
  <1>7. \A t \in Servers : Updated(p, t)
    BY <1>1 DEF Updated
  <1>8. QED
    BY <1>1, <1>2, <1>6, <1>7, LaterTaskAlone

LEMMA RecordAlone ==
    ASSUME TypeOK, AloneInv, NEW p \in Plays, NEW s \in Servers, Record(p, s)
    PROVE  AloneInv'
  <1> DEFINE r == [play[p] EXCEPT !.done = play[p].done \cup {s}]
  <1>1. /\ play[p].phase = "record" /\ AtWork(p) /\ UNCHANGED <<primary, files, loaded>>
        /\ play' = [play EXCEPT ![p] = r]
    BY DEF Record, AtWork, Active
  <1>2. /\ r.phase = "record" /\ r.target = play[p].target /\ r.wanted = play[p].wanted
        /\ r.at = play[p].at /\ r.written = play[p].written
    BY <1>1 DEF TypeOK, Play
  <1> HIDE DEF r
  <1>3. play'[p] = r /\ \A q \in Plays : q # p => play'[q] = play[q]
    BY <1>1 DEF TypeOK
  <1>4. \A q \in Plays, t \in Servers : Writing(q, t)' => Writing(q, t)
    BY <1>2, <1>3 DEF Writing
  <1>5. AnswersBehind'
    BY <1>1, <1>4, AnswersKept DEF AloneInv
  <1>6. \A t \in Servers : Updated(p, t)
    BY <1>1 DEF Updated
  <1>7. QED
    BY <1>1, <1>2, <1>5, <1>6, LaterTaskAlone

\* The last task: what was updated and served for every server is live.
LEMMA NextTaskAlone ==
    ASSUME TypeOK, WriterInv, NoteInv, AloneInv, NEW p \in Plays, NextTask(p)
    PROVE  AloneInv'
  <1>1. /\ play[p].phase \in {"update", "reload", "record"} /\ AtWork(p)
        /\ play[p].phase = "update" => play[p].done = Servers
        /\ UNCHANGED <<primary, files, loaded>>
    BY DEF NextTask, AtWork, Active
  <1>2. ~play[p].written
    BY <1>1, NoUpdater DEF NextTask
  <1>3. CASE play[p].erred
    BY <1>1, <1>3, FailedAlone DEF NextTask
  <1>4. CASE ~play[p].erred /\ play[p].phase # "record"
    <2> DEFINE r == [play[p] EXCEPT !.phase = NextOf[play[p].phase], !.done = {}]
    <2>1. play' = [play EXCEPT ![p] = r]
      BY <1>4 DEF NextTask
    <2>2. /\ r.phase \in {"reload", "record"} /\ r.target = play[p].target
          /\ r.wanted = play[p].wanted /\ r.written = play[p].written
      BY <1>1, <1>4 DEF TypeOK, Play, NextOf
    <2> HIDE DEF r
    <2>3. play'[p] = r /\ \A q \in Plays : q # p => play'[q] = play[q]
      BY <2>1 DEF TypeOK
    <2>4. \A q \in Plays, t \in Servers : Writing(q, t)' => Writing(q, t)
      BY <1>2, <2>2, <2>3 DEF Writing
    <2>5. AnswersBehind'
      BY <1>1, <2>4, AnswersKept DEF AloneInv
    <2>6. \A t \in Servers : Updated(p, t)
      BY <1>1, <1>4 DEF Updated
    <2>7. QED
      BY <1>1, <2>1, <2>2, <2>5, <2>6, LaterTaskAlone
  <1>5. CASE ~play[p].erred /\ play[p].phase = "record"
    <2>1. /\ play' = [play EXCEPT ![p] = Ended("done")]
          /\ Ended("done").phase = "done" /\ ~Ended("done").written
      BY <1>5, EndedQuiet DEF NextTask
    <2>2. /\ play'[p] = Ended("done")
          /\ \A q \in Plays : q # p => play'[q] = play[q] /\ ~AtWork(q)
      BY <1>1, <2>1 DEF TypeOK, AloneInv, OneAtWork
    <2>3. \A q \in Plays : ~AtWork(q)'
      BY <2>1, <2>2 DEF AtWork, Active
    <2>4. \A q \in Plays : PlayAlone(q)'
      BY <2>3, RestingAlone
    <2>5. \A t \in Servers : files[t].records = primary /\ loaded[t].records = primary
      <3>1. ASSUME NEW t \in Servers
            PROVE  files[t].records = primary /\ loaded[t].records = primary
        <4>1. Updated(p, t) /\ Served(p, t)
          BY <1>5 DEF Updated, Served
        <4>2. play[p].target = files[t].serial /\ play[p].wanted = primary
          BY <1>1, <4>1 DEF AloneInv, PlayAlone
        <4>3. files[t].records = play[p].wanted /\ loaded[t] = files[t]
          BY <4>1, <4>2 DEF NoteInv, UpdatedStays, ServedStays
        <4>4. QED
          BY <4>2, <4>3
      <3>2. QED
        BY <3>1
    <2>6. DoneIsLive'
      BY <1>1, <2>5 DEF DoneIsLive
    <2>7. \A q \in Plays, t \in Servers : Writing(q, t)' => Writing(q, t)
      BY <2>1, <2>2 DEF Writing
    <2>8. AnswersBehind'
      BY <1>1, <2>7, AnswersKept DEF AloneInv
    <2>9. QED
      BY <2>3, <2>4, <2>6, <2>8 DEF AloneInv, OneAtWork
  <1>6. QED
    BY <1>3, <1>4, <1>5

\* Convergence of a zone, which excludes plays, and changes of the inventory.
LEMMA ConvergenceAlone ==
    ASSUME TypeOK, WriterInv, Bounded, NoteInv, AloneInv, NEW s \in Servers,
           WriteTemplate(s) \/ RestartNsd(s) \/ ConvergenceFails(s)
    PROVE  AloneInv'
  <1>1. UNCHANGED <<primary, play>> /\ conv[s].phase # "idle"
    BY DEF WriteTemplate, RestartNsd, ConvergenceFails
  <1>2. \A p \in Plays : ~AtWork(p) /\ play[p].at = Nowhere
    BY <1>1, ConvergingAlone
  <1>3. \A p \in Plays : ~AtWork(p)' /\ \A t \in Servers : ~Writing(p, t)'
    BY <1>1, <1>2, RoleDnsAssumption DEF AtWork, Writing
  <1>4. OneAtWork' /\ \A p \in Plays : PlayAlone(p)'
    BY <1>3, RestingAlone DEF OneAtWork
  <1>5. CASE WriteTemplate(s)
    <2>1. /\ loaded' = loaded
          /\ \A t \in Servers : t # s => files'[t] = files[t]
          /\ files'[s].records = files[s].records
          /\ files'[s] = files[s] \/ Age(files[s].serial) < Age(files'[s].serial)
      BY <1>5, TemplateStep
    <2>2. DoneIsLive'
      BY <1>1, <2>1 DEF AloneInv, DoneIsLive
    <2>3. loaded[s] = files'[s] \/ Age(loaded[s].serial) < Age(files'[s].serial)
      <3>1. /\ Age(loaded[s].serial) \in Nat /\ Age(files[s].serial) \in Nat
            /\ Age(files'[s].serial) \in Int
        <4>1. files'[s].serial \in Serials
          BY <1>5 DEF WriteTemplate, TypeOK, Zone, Conv
        <4>2. QED
          BY <4>1, AgeValue DEF TypeOK, Zone
      <3>2. loaded[s] = files[s] \/ Age(loaded[s].serial) < Age(files[s].serial)
        BY DEF AloneInv, AnswersBehind
      <3>3. CASE files'[s] = files[s]
        BY <3>2, <3>3
      <3>4. CASE Age(files[s].serial) < Age(files'[s].serial)
        <4>1. Age(loaded[s].serial) <= Age(files[s].serial)
          BY <3>1, <3>2, SMT
        <4>2. QED
          BY <3>1, <3>4, <4>1, SMT
      <3>5. QED
        BY <2>1, <3>3, <3>4
    <2>4. AnswersBehind'
      BY <1>3, <2>1, <2>3 DEF AloneInv, AnswersBehind
    <2>5. QED
      BY <1>4, <2>2, <2>4 DEF AloneInv
  <1>6. CASE RestartNsd(s) \/ ConvergenceFails(s)
    <2>1. files' = files /\ \A t \in Servers : loaded'[t] \in {loaded[t], files[t]}
      BY <1>6 DEF RestartNsd, ConvergenceFails, TypeOK
    <2>2. DoneIsLive'
      BY <1>1, <2>1 DEF AloneInv, DoneIsLive
    <2>3. AnswersBehind'
      BY <1>3, <2>1, AnswersKept DEF AloneInv
    <2>4. QED
      BY <1>4, <2>2, <2>3 DEF AloneInv
  <1>7. QED
    BY <1>5, <1>6

\* Steps that leave plays, files and answers as they are.
LEMMA NothingAlone ==
    ASSUME AloneInv, UNCHANGED <<primary, files, loaded, play>>
    PROVE  AloneInv'
  <1>1. \A p \in Plays : PlayAlone(p)'
    BY DEF AloneInv, PlayAlone, AtWork, Updated, Pending, Accepted, ZoneChanges,
           RecordsChange
  <1>2. QED
    BY <1>1 DEF AloneInv, OneAtWork, AtWork, DoneIsLive, AnswersBehind, Writing

LEMMA RebootAlone ==
    ASSUME TypeOK, WriterInv, Bounded, NoteInv, AloneInv, NEW s \in Servers, Reboot(s)
    PROVE  AloneInv'
  <1>1. /\ UNCHANGED <<primary, files>>
        /\ \A t \in Servers : loaded'[t] \in {loaded[t], files[t]}
        /\ \A t \in Servers : t # s => loaded'[t] = loaded[t]
    BY DEF Reboot, TypeOK
  <1>2. ASSUME NEW p \in Plays, play[p].at # s
        PROVE  play'[p] = play[p]
    BY <1>2 DEF Reboot
  <1>3. ASSUME NEW p \in Plays, play[p].at = s
        PROVE  /\ play[p].phase = "update" /\ play'[p].phase = "update"
               /\ play'[p].target = play[p].target /\ play'[p].wanted = play[p].wanted
               /\ play'[p].done = play[p].done \cup {s} /\ play'[p].erred
               /\ play'[p].at = Nowhere
    <2>1. play[p].phase = "update"
      BY <1>3, WriterAlone DEF Pending
    <2>2. QED
      BY <1>3, <2>1 DEF Reboot, TypeOK, Play
  <1>4. \A p \in Plays : play'[p].phase = play[p].phase
    BY <1>2, <1>3
  <1>5. OneAtWork'
    BY <1>4 DEF AloneInv, OneAtWork, AtWork
  <1>6. ASSUME NEW p \in Plays PROVE PlayAlone(p)'
    <2>1. CASE play[p].at # s
      <3>1. play'[p] = play[p]
        BY <1>2, <2>1
      <3>2. PlayAlone(p)
        BY DEF AloneInv
      <3>3. QED
        BY <1>1, <3>1, <3>2 DEF PlayAlone, AtWork, Updated, Pending, Accepted,
                                ZoneChanges, RecordsChange
    <2>2. CASE play[p].at = s
      <3>1. /\ play[p].phase = "update" /\ play'[p].phase = "update"
            /\ play'[p].target = play[p].target /\ play'[p].wanted = play[p].wanted
            /\ play'[p].done = play[p].done \cup {s} /\ play'[p].erred
        BY <1>3, <2>2
      <3>2. play[p].wanted = primary
        BY <3>1 DEF AloneInv, PlayAlone, AtWork, Active
      <3>3. \A t \in Servers : ~Updated(p, t)'
        BY <3>1 DEF Updated
      <3>4. ASSUME NEW t \in Servers, Pending(p, t)'
            PROVE  Accepted(p, t)'
        <4>1. Pending(p, t) /\ play[p].at # t
          BY <2>2, <3>1, <3>4 DEF Pending
        <4>2. Accepted(p, t)
          BY <4>1 DEF AloneInv, PlayAlone
        <4>3. QED
          BY <1>1, <3>1, <4>2 DEF Accepted, ZoneChanges, RecordsChange
      <3>5. QED
        BY <1>1, <3>1, <3>2, <3>3, <3>4 DEF PlayAlone
    <2>3. QED
      BY <2>1, <2>2
  <1>7. DoneIsLive'
    BY <1>1, <1>4 DEF AloneInv, DoneIsLive
  <1>8. ASSUME NEW p \in Plays, NEW t \in Servers, Writing(p, t)'
        PROVE  Writing(p, t) /\ t # s
    <2>1. play[p].at # s
      BY <1>3, <1>8, RoleDnsAssumption DEF Writing
    <2>2. QED
      BY <1>2, <1>8, <2>1 DEF Writing
  <1>9. AnswersBehind'
    BY <1>1, <1>8 DEF AloneInv, AnswersBehind
  <1>10. QED
    BY <1>5, <1>6, <1>7, <1>9 DEF AloneInv

LEMMA AloneNext ==
    ASSUME Serialized
    PROVE  TypeOK /\ WriterInv /\ Bounded /\ NoteInv /\ AloneInv /\ [Next]_vars => AloneInv'
  <1> SUFFICES ASSUME TypeOK, WriterInv, Bounded, NoteInv, AloneInv, [Next]_vars
               PROVE  AloneInv'
    OBVIOUS
  <1>1. ASSUME NEW p \in Plays,
               Converge(p) \/ \E node \in Nodes : ChangePrimary(p, node)
        PROVE  AloneInv'
    BY <1>1, StartAlone DEF Converge, ChangePrimary, TypeOK
  <1>2. ASSUME NEW p \in Plays, Choose(p) \/ NextTask(p) \/ Abort(p)
        PROVE  AloneInv'
    BY <1>2, ChooseAlone, NextTaskAlone, FailedAlone DEF Abort
  <1>3. ASSUME NEW p \in Plays, NEW s \in Servers,
               Inspect(p, s) \/ LeaveAlone(p, s) \/ Refuse(p, s) \/ UpdateFails(p, s)
        PROVE  AloneInv'
    BY <1>3, InspectAlone, UntouchedAlone
  <1>4. ASSUME NEW p \in Plays, NEW s \in Servers,
               ReadZone(p, s) \/ WriteZone(p, s) \/ Record(p, s)
        PROVE  AloneInv'
    BY <1>4, ReadZoneAlone, WriteZoneAlone, RecordAlone
  <1>5. ASSUME NEW p \in Plays, NEW s \in Servers, NEW ok \in BOOLEAN,
               WriteRecords(p, s, ok) \/ Reload(p, s, ok)
        PROVE  AloneInv'
    BY <1>5, WriteRecordsAlone, ReloadAlone
  <1>6. ASSUME NEW body, NEW H, Declare(body) \/ Render(H)
        PROVE  AloneInv'
    BY <1>6, NothingAlone DEF Declare, Render
  <1>7. ASSUME NEW s \in Servers, WriteTemplate(s) \/ RestartNsd(s) \/ ConvergenceFails(s)
        PROVE  AloneInv'
    BY <1>7, ConvergenceAlone
  <1>8. ASSUME NEW s \in Servers, Reboot(s) PROVE AloneInv'
    BY <1>8, RebootAlone
  <1>9. CASE UNCHANGED vars
    BY <1>9, NothingAlone DEF vars
  <1>10. QED
    BY <1>1, <1>2, <1>3, <1>4, <1>5, <1>6, <1>7, <1>8, <1>9 DEF Next

LEMMA AloneHolds ==
    ASSUME Serialized
    PROVE  Spec => [](TypeOK /\ WriterInv /\ Bounded /\ NoteInv /\ AloneInv)
  <1>1. Spec => []TypeOK
    BY TypeCorrect
  <1>2. Spec => []WriterInv
    BY WritersAdvance
  <1>3. Spec => []Bounded
    BY SerialsStayClose
  <1>4. Init => AloneInv
    BY AloneInit
  <1>5. TypeOK /\ WriterInv /\ Bounded /\ NoteInv /\ AloneInv /\ [Next]_vars => AloneInv'
    BY AloneNext
  <1>6. QED
    BY <1>1, <1>2, <1>3, <1>4, <1>5, NoteInit, NoteNext, PTL DEF Spec

\* docs/dns.md:33.  The aliases are "selected from live ReplicaSet status": as long
\* as people run one playbook at a time, both servers answer with the PRIMARY when
\* every play has ended well, whatever failures and reboots there were before.
THEOREM AliasesHold ==
    Serialized /\ Plays # {} => (Spec => []AliasesAreLive)
  <1> SUFFICES ASSUME Serialized, Plays # {} PROVE Spec => []AliasesAreLive
    OBVIOUS
  <1>1. AloneInv => AliasesAreLive
    BY DEF AloneInv, DoneIsLive, AliasesAreLive
  <1>2. QED
    BY <1>1, AloneHolds, PTL

\* mysql_role_dns_converged_serial and update-mysql-role-dns.py:serial_is_newer
\* agree: no updater refuses the serial that was chosen for it.
THEOREM ChoiceHolds ==
    Serialized => (Spec => []ChoiceIsAccepted)
  <1> SUFFICES ASSUME Serialized PROVE Spec => []ChoiceIsAccepted
    OBVIOUS
  <1>1. AloneInv => ChoiceIsAccepted
    BY DEF AloneInv, PlayAlone, ChoiceIsAccepted
  <1>2. QED
    BY <1>1, AloneHolds, PTL

LEMMA AnswerStep ==
    ASSUME TypeOK, Bounded, AloneInv, [Next]_vars, NEW s \in Servers,
           loaded'[s] # loaded[s]
    PROVE  Newer(loaded[s].serial, loaded'[s].serial)
  <1>1. loaded'[s] = files[s]
    <2>1. ASSUME NEW p \in Plays, NEW t \in Servers, NEW ok \in BOOLEAN, Reload(p, t, ok)
          PROVE  loaded'[s] \in {loaded[s], files[s]}
      BY <2>1 DEF Reload, TypeOK
    <2>2. ASSUME NEW t \in Servers, RestartNsd(t) \/ Reboot(t)
          PROVE  loaded'[s] \in {loaded[s], files[s]}
      BY <2>2 DEF RestartNsd, Reboot, TypeOK
    <2>3. ASSUME NEW p \in Plays, NEW t \in Servers, NEW ok \in BOOLEAN,
                 \/ Inspect(p, t) \/ LeaveAlone(p, t) \/ Refuse(p, t) \/ ReadZone(p, t)
                 \/ WriteZone(p, t) \/ WriteRecords(p, t, ok) \/ UpdateFails(p, t)
                 \/ Record(p, t)
          PROVE  loaded' = loaded
      BY <2>3 DEF Inspect, LeaveAlone, Refuse, ReadZone, WriteZone, WriteRecords,
                  UpdateFails, Record
    <2>4. ASSUME NEW p \in Plays, NEW node \in Nodes,
                 Converge(p) \/ ChangePrimary(p, node) \/ Choose(p) \/ NextTask(p) \/ Abort(p)
          PROVE  loaded' = loaded
      BY <2>4 DEF Converge, ChangePrimary, Start, Choose, NextTask, Abort
    <2>5. ASSUME NEW t \in Servers, WriteTemplate(t) \/ ConvergenceFails(t)
          PROVE  loaded' = loaded
      BY <2>5 DEF WriteTemplate, ConvergenceFails
    <2>6. ASSUME NEW body, NEW H, Declare(body) \/ Render(H)
          PROVE  loaded' = loaded
      BY <2>6 DEF Declare, Render
    <2>7. CASE UNCHANGED vars
      BY <2>7 DEF vars
    <2>8. Nodes # {}
      BY DEF TypeOK
    <2>9. QED
      BY <2>1, <2>2, <2>3, <2>4, <2>5, <2>6, <2>7, <2>8 DEF Next
  <1>2. Age(loaded[s].serial) < Age(files[s].serial)
    BY <1>1 DEF AloneInv, AnswersBehind
  <1>3. Young(loaded[s].serial) /\ Young(files[s].serial)
    BY DEF Bounded
  <1>4. /\ loaded[s].serial \in Serials /\ files[s].serial \in Serials
        /\ Age(loaded[s].serial) \in Nat /\ Age(files[s].serial) \in Nat
        /\ HalfRange \in Nat
        /\ Age(loaded[s].serial) + 1 < HalfRange /\ Age(files[s].serial) + 1 < HalfRange
    BY <1>3, Far, AgeValue
  <1>5. Age(loaded[s].serial) < HalfRange /\ Age(files[s].serial) < HalfRange
    BY <1>4, SMT
  <1>6. QED
    BY <1>1, <1>2, <1>4, <1>5, AgeOrder

\* docs/dns.md:132, and what a resolver or a secondary relies on: whenever the
\* answers of a server change, by a reload, a restart or a reboot at any moment of
\* an update, their serial is newer than before.
THEOREM AnswersHold ==
    Serialized => (Spec => AnswersChangeWithSerial)
  <1> SUFFICES ASSUME Serialized PROVE Spec => AnswersChangeWithSerial
    OBVIOUS
  <1>1. TypeOK /\ Bounded /\ AloneInv /\ [Next]_vars =>
          [\A s \in Servers :
              loaded'[s] # loaded[s] => Newer(loaded[s].serial, loaded'[s].serial)]_vars
    BY AnswerStep
  <1>2. QED
    BY <1>1, AloneHolds, PTL DEF Spec, AnswersChangeWithSerial

-----------------------------------------------------------------------------
(* Playbooks beside each other, where no zone is converged.                *)

\* Play p has not chosen its serial yet, or will end with a failure.
Open(p) ==
    play[p].phase \in {"inspect", "failed"} \/ (AtWork(p) /\ play[p].erred)

\* Play p is going to have NSD load what is on s.
Owes(p, s) ==
    \/ Open(p)
    \/ play[p].phase = "update" /\ (s \notin play[p].done \/ s \in play[p].reload)
    \/ play[p].phase = "reload" /\ s \in play[p].reload \ play[p].done

\* Play p is going to bring t up to s, which has the newer serial, or to be
\* refused there.
Ahead(p, s, t) ==
    \/ Open(p)
    \/ /\ play[p].phase = "update" /\ t \notin play[p].done
       /\ Age(files[s].serial) <= Age(play[p].target)
    \/ /\ play[p].phase = "update" /\ s \notin play[p].done
       /\ Age(play[p].target) < Age(files[s].serial)

\* Play p has still a server to update.
Unfinished(p) == Open(p) \/ (play[p].phase = "update" /\ play[p].done # Servers)

LoadIsOwed ==
    \A s \in Servers : loaded[s] # files[s] => \E p \in Plays : Owes(p, s)

SerialIsOwed ==
    \A s, t \in Servers : Age(files[t].serial) < Age(files[s].serial) =>
        \E p \in Plays : Ahead(p, s, t)

RecordsAreOwed ==
    \A s, t \in Servers : files[s].serial = files[t].serial /\ files[s] # files[t] =>
        \E p \in Plays : Unfinished(p)

\* Updaters carry the static content along unchanged.
OneBody ==
    /\ \A s, t \in Servers : files[s].body = files[t].body
    /\ \A p \in Plays, s \in Servers :
          play[p].at # Nowhere => play[p].copy = files[s].body

AgreeInv == LoadIsOwed /\ SerialIsOwed /\ RecordsAreOwed /\ OneBody

\* The files stay, and nobody forgets what it owes.
LEMMA NothingForgotten ==
    ASSUME AgreeInv, files' = files,
           \A s \in Servers : loaded'[s] \in {loaded[s], files[s]},
           \A p \in Plays :
              /\ play'[p].at # Nowhere => \A s \in Servers : play'[p].copy = files[s].body
              /\ \A s \in Servers : Owes(p, s) /\ loaded'[s] # files[s] => Owes(p, s)'
              /\ \A s, t \in Servers :
                    Ahead(p, s, t) /\ Age(files[t].serial) < Age(files[s].serial)
                       => Ahead(p, s, t)'
              /\ Unfinished(p) => Unfinished(p)'
    PROVE  AgreeInv'
  <1>1. LoadIsOwed'
    BY DEF AgreeInv, LoadIsOwed
  <1>2. SerialIsOwed'
    BY DEF AgreeInv, SerialIsOwed
  <1>3. RecordsAreOwed'
    BY DEF AgreeInv, RecordsAreOwed
  <1>4. OneBody'
    BY DEF AgreeInv, OneBody
  <1>5. QED
    BY <1>1, <1>2, <1>3, <1>4 DEF AgreeInv

LEMMA SameOwes ==
    ASSUME NEW p \in Plays, files' = files, play'[p].phase = play[p].phase,
           play'[p].target = play[p].target, play'[p].done = play[p].done,
           play'[p].reload = play[p].reload, play'[p].erred = play[p].erred
    PROVE  /\ Unfinished(p)' <=> Unfinished(p)
           /\ \A s : Owes(p, s)' <=> Owes(p, s)
           /\ \A s, t : Ahead(p, s, t)' <=> Ahead(p, s, t)
  <1>1. Open(p)' <=> Open(p)
    BY DEF Open, AtWork
  <1>2. Unfinished(p)' <=> Unfinished(p)
    BY <1>1 DEF Unfinished
  <1>3. \A s : Owes(p, s)' <=> Owes(p, s)
    BY <1>1 DEF Owes
  <1>4. \A s, t : Ahead(p, s, t)' <=> Ahead(p, s, t)
    BY <1>1 DEF Ahead
  <1>5. QED
    BY <1>2, <1>3, <1>4

\* One play goes on.
LEMMA OneGoesOn ==
    ASSUME TypeOK, AgreeInv, NEW p \in Plays, NEW r, play' = [play EXCEPT ![p] = r],
           files' = files, \A s \in Servers : loaded'[s] \in {loaded[s], files[s]},
           r.at # Nowhere => \A s \in Servers : r.copy = files[s].body,
           \A s \in Servers : Owes(p, s) /\ loaded'[s] # files[s] => Owes(p, s)',
           \A s, t \in Servers :
              Ahead(p, s, t) /\ Age(files[t].serial) < Age(files[s].serial)
                 => Ahead(p, s, t)',
           Unfinished(p) => Unfinished(p)'
    PROVE  AgreeInv'
  <1>1. play'[p] = r /\ \A q \in Plays : q # p => play'[q] = play[q]
    BY DEF TypeOK
  <1>2. ASSUME NEW q \in Plays, q # p
        PROVE  /\ Unfinished(q)' <=> Unfinished(q)
               /\ \A s : Owes(q, s)' <=> Owes(q, s)
               /\ \A s, t : Ahead(q, s, t)' <=> Ahead(q, s, t)
    BY <1>1, <1>2, SameOwes
  <1>3. \A q \in Plays : play'[q].at # Nowhere =>
           \A s \in Servers : play'[q].copy = files[s].body
    BY <1>1 DEF AgreeInv, OneBody
  <1>4. QED
    BY <1>2, <1>3, NothingForgotten

\* Plays begin anew, fail or are going to; the others stay what they are.
LEMMA OpenAgrees ==
    ASSUME TypeOK, AgreeInv, files' = files,
           \A s \in Servers : loaded'[s] \in {loaded[s], files[s]},
           \A p \in Plays : play'[p] = play[p] \/ (Open(p)' /\ play'[p].at = Nowhere)
    PROVE  AgreeInv'
  <1>1. ASSUME NEW p \in Plays
        PROVE  /\ play'[p].at # Nowhere => \A s \in Servers : play'[p].copy = files[s].body
               /\ Unfinished(p) => Unfinished(p)'
               /\ \A s : Owes(p, s) => Owes(p, s)'
               /\ \A s, t : Ahead(p, s, t) => Ahead(p, s, t)'
    <2>1. CASE play'[p] = play[p]
      BY <2>1, SameOwes DEF AgreeInv, OneBody
    <2>2. CASE Open(p)' /\ play'[p].at = Nowhere
      BY <2>2 DEF Unfinished, Owes, Ahead
    <2>3. QED
      BY <2>1, <2>2
  <1>2. QED
    BY <1>1, NothingForgotten

LEMMA OneOpenAgrees ==
    ASSUME TypeOK, AgreeInv, NEW p \in Plays, NEW r, play' = [play EXCEPT ![p] = r],
           files' = files, \A s \in Servers : loaded'[s] \in {loaded[s], files[s]},
           r.at = Nowhere,
           r.phase \in {"inspect", "failed"} \/ (r.phase \in Active /\ r.erred)
    PROVE  AgreeInv'
  <1>1. play'[p] = r /\ \A q \in Plays : q # p => play'[q] = play[q]
    BY DEF TypeOK
  <1>2. Open(p)'
    BY <1>1 DEF Open, AtWork
  <1>3. QED
    BY <1>1, <1>2, OpenAgrees

\* An updater ends with the play's serial and records in place.
LEMMA FinishedAgrees ==
    ASSUME TypeOK, TypeOK', NoteInv, AgreeInv, NEW p \in Plays, NEW s \in Servers,
           NEW ok \in BOOLEAN, NEW reload \in BOOLEAN, Finished(p, s, ok, reload),
           Pending(p, s), loaded' = loaded,
           \A t \in Servers : t # s => files'[t] = files[t],
           \A t \in Servers : files'[t].serial = files[t].serial
                              /\ files'[t].body = files[t].body,
           files[s].serial = play[p].target, files'[s].records = play[p].wanted,
           reload \/ loaded[s] = files'[s]
    PROVE  AgreeInv'
  <1> DEFINE r == [play[p] EXCEPT
                     !.done = play[p].done \cup {s}, !.erred = play[p].erred \/ ~ok,
                     !.reload = play[p].reload \cup (IF reload THEN {s} ELSE {}),
                     !.at = Nowhere, !.written = FALSE]
  <1>1. play[p] \in Play /\ play[p].phase = "update" /\ s \notin play[p].done
    BY DEF TypeOK, Pending
  <1>2. /\ r.phase = "update" /\ r.target = play[p].target
        /\ r.done = play[p].done \cup {s} /\ r.erred = (play[p].erred \/ ~ok)
        /\ r.reload = play[p].reload \cup (IF reload THEN {s} ELSE {})
        /\ r.at = Nowhere
    BY <1>1 DEF Play
  <1>3. play' = [play EXCEPT ![p] = r]
    BY DEF Finished
  <1> HIDE DEF r
  <1>4. play'[p] = r /\ \A q \in Plays : q # p => play'[q] = play[q]
    BY <1>3 DEF TypeOK
  <1>5. OneBody'
    BY <1>2, <1>4 DEF AgreeInv, OneBody
  <1>6. ASSUME NEW q \in Plays, q # p
        PROVE  /\ Unfinished(q)' <=> Unfinished(q)
               /\ \A t \in Servers : Owes(q, t)' <=> Owes(q, t)
               /\ \A a, b \in Servers : Ahead(q, a, b)' <=> Ahead(q, a, b)
    <2>1. play'[q] = play[q]
      BY <1>4, <1>6
    <2>2. Open(q)' <=> Open(q)
      BY <2>1 DEF Open, AtWork
    <2>3. Unfinished(q)' <=> Unfinished(q)
      BY <2>1, <2>2 DEF Unfinished
    <2>4. \A t \in Servers : Owes(q, t)' <=> Owes(q, t)
      BY <2>1, <2>2 DEF Owes
    <2>5. \A a, b \in Servers : Ahead(q, a, b)' <=> Ahead(q, a, b)
      BY <2>1, <2>2 DEF Ahead
    <2>6. QED
      BY <2>3, <2>4, <2>5
  <1>7. Open(p) => Open(p)'
    BY <1>1, <1>2, <1>4 DEF Open, AtWork, Active
  <1>8. CASE Open(p)'
    <2>1. \A a, b : Unfinished(p)' /\ Owes(p, a)' /\ Ahead(p, a, b)'
      BY <1>8 DEF Unfinished, Owes, Ahead
    <2>2. QED
      BY <1>5, <2>1 DEF AgreeInv, LoadIsOwed, SerialIsOwed, RecordsAreOwed
  <1>9. CASE ~Open(p)'
    <2>1. ~play[p].erred /\ ~Open(p)
      BY <1>1, <1>2, <1>4, <1>7, <1>9 DEF Open, AtWork, Active
    <2>2. \A t \in Servers : t # s /\ Owes(p, t) => Owes(p, t)'
      BY <1>1, <1>2, <1>4, <2>1 DEF Owes
    <2>3. reload => Owes(p, s)'
      BY <1>2, <1>4 DEF Owes
    <2>4. LoadIsOwed'
      <3>1. ASSUME NEW t \in Servers, loaded'[t] # files'[t]
            PROVE  \E q \in Plays : Owes(q, t)'
        <4>1. CASE t = s
          BY <2>3, <3>1, <4>1
        <4>2. CASE t # s
          <5>1. PICK q \in Plays : Owes(q, t)
            BY <3>1, <4>2 DEF AgreeInv, LoadIsOwed
          <5>2. QED
            BY <1>6, <2>2, <4>2, <5>1
        <4>3. QED
          BY <4>1, <4>2
      <3>2. QED
        BY <3>1 DEF LoadIsOwed
    <2>5. \A t \in Servers : Age(files[t].serial) \in Nat
      BY AgeValue DEF TypeOK, Zone
    <2>6. ASSUME NEW a \in Servers, NEW b \in Servers, Ahead(p, a, b),
                 Age(files[b].serial) < Age(files[a].serial)
          PROVE  Ahead(p, a, b)'
      <3>1. CASE b \notin play[p].done /\ Age(files[a].serial) <= Age(play[p].target)
        <4>1. b # s
          BY <2>5, <2>6, <3>1, SMT
        <4>2. QED
          BY <1>1, <1>2, <1>4, <3>1, <4>1 DEF Ahead
      <3>2. CASE a \notin play[p].done /\ Age(play[p].target) < Age(files[a].serial)
        <4>1. a # s
          BY <2>5, <3>2, SMT
        <4>2. QED
          BY <1>1, <1>2, <1>4, <3>2, <4>1 DEF Ahead
      <3>3. QED
        BY <2>1, <2>6, <3>1, <3>2 DEF Ahead
    <2>7. SerialIsOwed'
      <3>1. ASSUME NEW a \in Servers, NEW b \in Servers,
                   Age(files'[b].serial) < Age(files'[a].serial)
            PROVE  \E q \in Plays : Ahead(q, a, b)'
        <4>1. Age(files[b].serial) < Age(files[a].serial)
          BY <3>1
        <4>2. PICK q \in Plays : Ahead(q, a, b)
          BY <4>1 DEF AgreeInv, SerialIsOwed
        <4>3. QED
          BY <1>6, <2>6, <4>1, <4>2
      <3>2. QED
        BY <3>1 DEF SerialIsOwed
    <2>8. RecordsAreOwed'
      <3>1. CASE r.done # Servers
        BY <1>2, <1>4, <3>1 DEF RecordsAreOwed, Unfinished
      <3>2. CASE r.done = Servers
        <4>1. ASSUME NEW t \in Servers, files[t].serial = play[p].target
              PROVE  files'[t].records = play[p].wanted
          <5>1. CASE t = s
            BY <5>1
          <5>2. CASE t # s
            <6>1. Updated(p, t)
              BY <1>1, <1>2, <2>1, <3>2, <5>2 DEF Updated
            <6>2. QED
              BY <4>1, <5>2, <6>1 DEF NoteInv, UpdatedStays
          <5>3. QED
            BY <5>1, <5>2
        <4>2. ASSUME NEW a \in Servers, NEW b \in Servers,
                     files'[a].serial = files'[b].serial, a # b
              PROVE  files'[a] = files'[b]
          <5>1. a = s \/ b = s
            BY <4>2, RoleDnsAssumption
          <5>2. files[a].serial = play[p].target /\ files[b].serial = play[p].target
            BY <4>2, <5>1
          <5>3. files'[a].records = files'[b].records
            BY <4>1, <5>2
          <5>4. files'[a].body = files'[b].body
            BY DEF AgreeInv, OneBody
          <5>5. files'[a] \in Zone /\ files'[b] \in Zone
            BY DEF TypeOK
          <5>6. QED
            BY <4>2, <5>3, <5>4, <5>5 DEF Zone
        <4>3. QED
          BY <4>2 DEF RecordsAreOwed
      <3>3. QED
        BY <3>1, <3>2
    <2>9. QED
      BY <1>5, <2>4, <2>7, <2>8 DEF AgreeInv
  <1>10. QED
    BY <1>8, <1>9

LEMMA WriteZoneAgrees ==
    ASSUME TypeOK, WriterInv, Bounded, NoteInv, AgreeInv, NEW p \in Plays,
           NEW s \in Servers, WriteZone(p, s)
    PROVE  AgreeInv'
  <1>1. /\ play[p].at = s /\ ~play[p].written /\ loaded' = loaded
    BY DEF WriteZone
  <1>2. /\ play[p].phase = "update" /\ s \notin play[p].done
        /\ Age(files[s].serial) < Age(play[p].target)
    BY <1>1, WriterAlone DEF Pending
  <1>3. /\ files'[s].serial = play[p].target /\ files'[s].body = play[p].copy
        /\ \A t \in Servers : t # s => files'[t] = files[t]
    BY DEF WriteZone, TypeOK, Zone
  <1>4. \A t \in Servers : play[p].copy = files[t].body
    BY <1>1, RoleDnsAssumption DEF AgreeInv, OneBody
  <1>5. \A q \in Plays :
           /\ play'[q].phase = play[q].phase /\ play'[q].target = play[q].target
           /\ play'[q].done = play[q].done /\ play'[q].reload = play[q].reload
           /\ play'[q].erred = play[q].erred /\ play'[q].at = play[q].at
           /\ play'[q].copy = play[q].copy
    BY DEF WriteZone, TypeOK, Play
  <1>6. OneBody'
    <2>1. \A t \in Servers : files'[t].body = files[t].body
      BY <1>3, <1>4
    <2>2. QED
      BY <1>5, <2>1 DEF AgreeInv, OneBody
  <1>7. ASSUME NEW q \in Plays
        PROVE  /\ Open(q)' <=> Open(q)
               /\ Unfinished(q)' <=> Unfinished(q)
               /\ \A t \in Servers : Owes(q, t)' <=> Owes(q, t)
    <2>1. Open(q)' <=> Open(q)
      BY <1>5 DEF Open, AtWork
    <2>2. QED
      BY <1>5, <2>1 DEF Unfinished, Owes
  <1>8. LoadIsOwed'
    <2>1. Owes(p, s)'
      BY <1>2, <1>7 DEF Owes
    <2>2. ASSUME NEW t \in Servers, t # s, loaded'[t] # files'[t]
          PROVE  \E q \in Plays : Owes(q, t)'
      BY <1>1, <1>3, <1>7, <2>2 DEF AgreeInv, LoadIsOwed
    <2>3. QED
      BY <2>1, <2>2 DEF LoadIsOwed
  <1>9. RecordsAreOwed'
    BY <1>2, <1>5 DEF RecordsAreOwed, Unfinished
  <1>10. /\ \A t \in Servers : Age(files[t].serial) \in Nat
         /\ Age(play[p].target) \in Nat
    BY AgeValue DEF TypeOK, Zone, Play
  <1>11. SerialIsOwed'
    <2>1. ASSUME NEW a \in Servers, NEW b \in Servers,
                 Age(files'[b].serial) < Age(files'[a].serial)
          PROVE  \E q \in Plays : Ahead(q, a, b)'
      <3>1. CASE a = s
        <4>1. b # s
          BY <1>3, <1>10, <2>1, <3>1, SMT
        <4>2. CASE b \notin play[p].done
          <5>1. Age(files'[s].serial) <= Age(play[p].target)
            BY <1>3, <1>10, SMT
          <5>2. QED
            BY <1>2, <1>5, <3>1, <4>2, <5>1 DEF Ahead
        <4>3. CASE b \in play[p].done
          <5>1. CASE play[p].erred
            BY <1>2, <1>7, <5>1 DEF Ahead, Open, AtWork, Active
          <5>2. CASE ~play[p].erred
            <6>1. Updated(p, b)
              BY <1>2, <4>3, <5>2 DEF Updated
            <6>2. Age(play[p].target) <= Age(files[b].serial)
              BY <6>1 DEF NoteInv, UpdatedStays
            <6>3. Age(files[b].serial) < Age(play[p].target)
              BY <1>3, <2>1, <3>1, <4>1
            <6>4. QED
              BY <1>10, <6>2, <6>3, SMT
          <5>3. QED
            BY <5>1, <5>2
        <4>4. QED
          BY <4>2, <4>3
      <3>2. CASE a # s
        <4>1. files'[a] = files[a]
          BY <1>3, <3>2
        <4>2. Age(files[b].serial) < Age(files[a].serial)
          <5>1. CASE b = s
            BY <1>2, <1>3, <1>10, <2>1, <4>1, <5>1, SMT
          <5>2. CASE b # s
            BY <1>3, <2>1, <4>1, <5>2
          <5>3. QED
            BY <5>1, <5>2
        <4>3. PICK q \in Plays : Ahead(q, a, b)
          BY <4>2 DEF AgreeInv, SerialIsOwed
        <4>4. Ahead(q, a, b)'
          BY <1>5, <1>7, <4>1, <4>3 DEF Ahead
        <4>5. QED
          BY <4>4
      <3>3. QED
        BY <3>1, <3>2
    <2>2. QED
      BY <2>1 DEF SerialIsOwed
  <1>12. QED
    BY <1>6, <1>8, <1>9, <1>11 DEF AgreeInv

LEMMA WriteRecordsAgrees ==
    ASSUME TypeOK, TypeOK', WriterInv, Bounded, NoteInv, AgreeInv, NEW p \in Plays,
           NEW s \in Servers, NEW ok \in BOOLEAN, WriteRecords(p, s, ok)
    PROVE  AgreeInv'
  <1>1. /\ Finished(p, s, ok, TRUE) /\ loaded' = loaded /\ Writing(p, s)
    BY DEF WriteRecords, Writing
  <1>2. Pending(p, s)
    BY <1>1, WriterAlone DEF Writing
  <1>3. /\ \A t \in Servers : t # s => files'[t] = files[t]
        /\ \A t \in Servers : files'[t].serial = files[t].serial
                              /\ files'[t].body = files[t].body
        /\ files'[s].records = play[p].wanted
    BY DEF WriteRecords, TypeOK, Zone
  <1>4. files[s].serial = play[p].target
    BY <1>1 DEF NoteInv, WrittenIsTarget
  <1>5. QED
    BY <1>1, <1>2, <1>3, <1>4, FinishedAgrees

LEMMA LeaveAloneAgrees ==
    ASSUME TypeOK, TypeOK', NoteInv, AgreeInv, NEW p \in Plays,
           NEW s \in Servers, LeaveAlone(p, s)
    PROVE  AgreeInv'
  <1> DEFINE reload == ~Applied(p, s)
  <1>1. /\ Finished(p, s, TRUE, reload) /\ loaded' = loaded /\ files' = files
        /\ Pending(p, s)
        /\ files[s].serial = play[p].target /\ files[s].records = play[p].wanted
    BY DEF LeaveAlone, ZoneChanges, RecordsChange
  <1>2. reload \/ loaded[s] = files[s]
    BY <1>1 DEF Applied, NoteInv, NoteIsTrue
  <1>3. reload \in BOOLEAN
    OBVIOUS
  <1> HIDE DEF reload
  <1>4. QED
    BY <1>1, <1>2, <1>3, FinishedAgrees

LEMMA FailureAgrees ==
    ASSUME TypeOK, AgreeInv, NEW p \in Plays, NEW s \in Servers, Pending(p, s),
           Finished(p, s, FALSE, FALSE), files' = files, loaded' = loaded
    PROVE  AgreeInv'
  <1> DEFINE r == [play[p] EXCEPT
                     !.done = play[p].done \cup {s}, !.erred = play[p].erred \/ ~FALSE,
                     !.reload = play[p].reload \cup (IF FALSE THEN {s} ELSE {}),
                     !.at = Nowhere, !.written = FALSE]
  <1>1. play[p] \in Play /\ play[p].phase = "update"
    BY DEF TypeOK, Pending
  <1>2. r.phase = "update" /\ r.erred /\ r.at = Nowhere
    BY <1>1 DEF Play
  <1>3. play' = [play EXCEPT ![p] = r]
    BY DEF Finished
  <1> HIDE DEF r
  <1>4. QED
    BY <1>2, <1>3, OneOpenAgrees DEF Active

LEMMA ChooseAgrees ==
    ASSUME TypeOK, WriterInv, NoteInv, AgreeInv, NEW p \in Plays, Choose(p)
    PROVE  AgreeInv'
  <1>1. play[p].phase = "inspect" /\ files' = files /\ loaded' = loaded
    BY DEF Choose
  <1>2. CASE play' = [play EXCEPT ![p] = Ended("failed")]
    BY <1>1, <1>2, EndedQuiet, OneOpenAgrees
  <1>3. CASE play' = [play EXCEPT ![p] = [play[p] EXCEPT !.phase = "update", !.done = {},
                                                         !.target = Chosen(play[p])]]
    <2> DEFINE r == [play[p] EXCEPT !.phase = "update", !.done = {},
                                    !.target = Chosen(play[p])]
    <2>1. r.phase = "update" /\ r.done = {} /\ r.at = play[p].at
      BY DEF TypeOK, Play
    <2>2. play' = [play EXCEPT ![p] = r]
      BY <1>3
    <2>3. r.target \in Serials
      BY ChosenType DEF TypeOK, Play
    <2> HIDE DEF r
    <2>4. play'[p] = r /\ r.at = Nowhere
      BY <1>1, <2>1, <2>2, NoUpdater DEF TypeOK
    <2>5. \A s \in Servers : Owes(p, s)'
      BY <2>1, <2>4 DEF Owes
    <2>6. Unfinished(p)'
      BY <2>1, <2>4, RoleDnsAssumption DEF Unfinished
    <2>7. ASSUME NEW s \in Servers, NEW t \in Servers PROVE Ahead(p, s, t)'
      <3>1. Age(files[s].serial) \in Nat /\ Age(r.target) \in Nat
        BY <2>3, AgeValue DEF TypeOK, Zone
      <3>2. Age(files[s].serial) <= Age(r.target) \/ Age(r.target) < Age(files[s].serial)
        BY <3>1, SMT
      <3>3. QED
        BY <1>1, <2>1, <2>4, <3>2 DEF Ahead
    <2>8. QED
      BY <1>1, <2>2, <2>4, <2>5, <2>6, <2>7, OneGoesOn
  <1>4. QED
    BY <1>2, <1>3 DEF Choose

LEMMA NextTaskAgrees ==
    ASSUME TypeOK, WriterInv, NoteInv, AgreeInv, NEW p \in Plays, NextTask(p)
    PROVE  AgreeInv'
  <1>1. /\ \/ play[p].phase \in {"update", "record"} /\ play[p].done = Servers
           \/ play[p].phase = "reload" /\ play[p].done = play[p].reload
        /\ files' = files /\ loaded' = loaded
    BY DEF NextTask
  <1>2. play[p].at = Nowhere /\ ~play[p].written
    BY <1>1, NoUpdater
  <1>3. CASE play[p].erred
    <2>1. play' = [play EXCEPT ![p] = Ended("failed")]
      BY <1>3 DEF NextTask
    <2>2. QED
      BY <1>1, <2>1, EndedQuiet, OneOpenAgrees
  <1>4. CASE ~play[p].erred
    <2>1. /\ ~Open(p) /\ ~Unfinished(p) /\ \A s, t \in Servers : ~Ahead(p, s, t)
      <3>1. ~Open(p)
        BY <1>1, <1>4 DEF Open
      <3>2. QED
        BY <1>1, <3>1 DEF Unfinished, Ahead
    <2>2. CASE play[p].phase = "record"
      <3>1. play' = [play EXCEPT ![p] = Ended("done")]
        BY <1>4, <2>2 DEF NextTask
      <3>2. \A s \in Servers : ~Owes(p, s)
        BY <2>1, <2>2 DEF Owes
      <3>3. QED
        BY <1>1, <2>1, <3>1, <3>2, EndedQuiet, OneGoesOn
    <2>3. CASE play[p].phase # "record"
      <3> DEFINE r == [play[p] EXCEPT !.phase = NextOf[play[p].phase], !.done = {}]
      <3>1. play' = [play EXCEPT ![p] = r]
        BY <1>4, <2>3 DEF NextTask
      <3>2. /\ r.phase = NextOf[play[p].phase] /\ r.done = {} /\ r.at = Nowhere
            /\ r.reload = play[p].reload
        BY <1>2 DEF TypeOK, Play
      <3> HIDE DEF r
      <3>3. play'[p] = r
        BY <3>1 DEF TypeOK
      <3>4. ASSUME NEW s \in Servers, Owes(p, s) PROVE Owes(p, s)'
        <4>1. play[p].phase = "update" /\ s \in play[p].reload
          BY <1>1, <2>1, <2>3, <3>4 DEF Owes
        <4>2. r.phase = "reload"
          BY <3>2, <4>1 DEF NextOf
        <4>3. QED
          BY <3>2, <3>3, <4>1, <4>2 DEF Owes
      <3>5. QED
        BY <1>1, <2>1, <3>1, <3>2, <3>4, OneGoesOn
    <2>4. QED
      BY <2>2, <2>3
  <1>5. QED
    BY <1>3, <1>4 DEF TypeOK, Play

LEMMA ReloadAgrees ==
    ASSUME TypeOK, WriterInv, NoteInv, AgreeInv, NEW p \in Plays, NEW s \in Servers,
           NEW ok \in BOOLEAN, Reload(p, s, ok)
    PROVE  AgreeInv'
  <1> DEFINE r == [play[p] EXCEPT !.done = play[p].done \cup {s},
                                  !.erred = play[p].erred \/ ~ok]
  <1>1. /\ play[p].phase = "reload" /\ files' = files
        /\ play' = [play EXCEPT ![p] = r]
        /\ loaded' = IF ok THEN [loaded EXCEPT ![s] = files[s]] ELSE loaded
    BY DEF Reload
  <1>2. /\ r.phase = "reload" /\ r.done = play[p].done \cup {s}
        /\ r.reload = play[p].reload /\ r.erred = (play[p].erred \/ ~ok)
        /\ r.at = play[p].at
    BY <1>1 DEF TypeOK, Play
  <1> HIDE DEF r
  <1>3. play'[p] = r /\ r.at = Nowhere
    BY <1>1, <1>2, NoUpdater DEF TypeOK
  <1>4. \A t \in Servers : loaded'[t] \in {loaded[t], files[t]}
    BY <1>1 DEF TypeOK
  <1>5. CASE r.erred
    BY <1>1, <1>2, <1>3, <1>4, <1>5, OneOpenAgrees DEF Active
  <1>6. CASE ~r.erred
    <2>1. ok /\ ~Open(p)
      BY <1>1, <1>2, <1>6 DEF Open
    <2>2. loaded'[s] = files[s]
      BY <1>1, <2>1 DEF TypeOK
    <2>3. \A t, u \in Servers : ~Ahead(p, t, u)
      BY <1>1, <2>1 DEF Ahead
    <2>4. ASSUME NEW t \in Servers, Owes(p, t), loaded'[t] # files[t]
          PROVE  Owes(p, t)'
      BY <1>1, <1>2, <1>3, <2>1, <2>2, <2>4 DEF Owes
    <2>5. ~Unfinished(p)
      BY <1>1, <2>1 DEF Unfinished
    <2>6. QED
      BY <1>1, <1>3, <1>4, <2>3, <2>4, <2>5, OneGoesOn
  <1>7. QED
    BY <1>5, <1>6

LEMMA ReadZoneAgrees ==
    ASSUME TypeOK, AgreeInv, NEW p \in Plays, NEW s \in Servers, ReadZone(p, s)
    PROVE  AgreeInv'
  <1> DEFINE r == [play[p] EXCEPT !.at = s, !.copy = files[s].body]
  <1>1. /\ play' = [play EXCEPT ![p] = r] /\ UNCHANGED <<files, loaded>>
    BY DEF ReadZone
  <1>2. /\ r.phase = play[p].phase /\ r.target = play[p].target
        /\ r.done = play[p].done /\ r.reload = play[p].reload
        /\ r.erred = play[p].erred /\ r.copy = files[s].body
    BY DEF TypeOK, Play
  <1> HIDE DEF r
  <1>3. play'[p] = r
    BY <1>1 DEF TypeOK
  <1>4. \A t \in Servers : r.copy = files[t].body
    BY <1>2 DEF AgreeInv, OneBody
  <1>5. /\ Unfinished(p)' <=> Unfinished(p)
        /\ \A t : Owes(p, t)' <=> Owes(p, t)
        /\ \A a, b : Ahead(p, a, b)' <=> Ahead(p, a, b)
    BY <1>1, <1>2, <1>3, SameOwes
  <1>6. QED
    BY <1>1, <1>4, <1>5, OneGoesOn

LEMMA RecordAgrees ==
    ASSUME TypeOK, WriterInv, NoteInv, AgreeInv, NEW p \in Plays, NEW s \in Servers,
           Record(p, s)
    PROVE  AgreeInv'
  <1> DEFINE r == [play[p] EXCEPT !.done = play[p].done \cup {s}]
  <1>1. /\ play[p].phase = "record" /\ play' = [play EXCEPT ![p] = r]
        /\ UNCHANGED <<files, loaded>>
    BY DEF Record
  <1>2. r.phase = "record" /\ r.erred = play[p].erred /\ r.at = play[p].at
    BY <1>1 DEF TypeOK, Play
  <1> HIDE DEF r
  <1>3. play'[p] = r /\ r.at = Nowhere
    BY <1>1, <1>2, NoUpdater DEF TypeOK
  <1>4. Open(p) => Open(p)'
    BY <1>1, <1>2, <1>3 DEF Open, AtWork
  <1>5. /\ Unfinished(p) => Unfinished(p)'
        /\ \A t : Owes(p, t) => Owes(p, t)'
        /\ \A a, b : Ahead(p, a, b) => Ahead(p, a, b)'
    BY <1>1, <1>4 DEF Unfinished, Owes, Ahead
  <1>6. QED
    BY <1>1, <1>3, <1>5, OneGoesOn

LEMMA AgreeInit == Init => AgreeInv
  <1> SUFFICES ASSUME Init PROVE AgreeInv
    OBVIOUS
  <1>1. /\ loaded = files /\ \A s, t \in Servers : files[s] = files[t]
        /\ \A p \in Plays : play[p].at = Nowhere
    BY EndedQuiet DEF Init
  <1>2. \A s \in Servers : files[s].serial = FirstSerial
    BY DEF Init
  <1>3. ~(Age(FirstSerial) < Age(FirstSerial))
    BY FirstAge, SMT
  <1>4. QED
    BY <1>1, <1>2, <1>3
       DEF AgreeInv, LoadIsOwed, SerialIsOwed, RecordsAreOwed, OneBody

LEMMA AgreeNext ==
    ASSUME Converging = {}
    PROVE  TypeOK /\ TypeOK' /\ WriterInv /\ Bounded /\ NoteInv /\ AgreeInv /\ [Next]_vars
             => AgreeInv'
  <1> SUFFICES ASSUME TypeOK, TypeOK', WriterInv, Bounded, NoteInv, AgreeInv, [Next]_vars
               PROVE  AgreeInv'
    OBVIOUS
  <1>a. \A s \in Servers : conv[s].phase = "idle"
    BY DEF WriterInv, OneWriter
  <1>1. ASSUME NEW p \in Plays, NEW node \in Nodes, Start(p, node) PROVE AgreeInv'
    <2> DEFINE r == [Ended("inspect") EXCEPT !.wanted = node]
    <2>1. r.phase = "inspect" /\ r.at = Nowhere
      BY DEF Ended
    <2>2. play' = [play EXCEPT ![p] = r] /\ UNCHANGED <<files, loaded>>
      BY <1>1 DEF Start
    <2> HIDE DEF r
    <2>3. QED
      BY <2>1, <2>2, OneOpenAgrees
  <1>2. ASSUME NEW p \in Plays,
               Converge(p) \/ \E node \in Nodes : ChangePrimary(p, node)
        PROVE  AgreeInv'
    BY <1>1, <1>2 DEF Converge, ChangePrimary, TypeOK
  <1>3. ASSUME NEW p \in Plays, Choose(p) \/ NextTask(p) PROVE AgreeInv'
    BY <1>3, ChooseAgrees, NextTaskAgrees
  <1>4. ASSUME NEW p \in Plays, Abort(p) PROVE AgreeInv'
    <2>1. play' = [play EXCEPT ![p] = Ended("failed")] /\ UNCHANGED <<files, loaded>>
      BY <1>4 DEF Abort
    <2>2. QED
      BY <2>1, EndedQuiet, OneOpenAgrees
  <1>5. ASSUME NEW p \in Plays, NEW s \in Servers, Inspect(p, s) PROVE AgreeInv'
    <2> DEFINE r == [play[p] EXCEPT
                       !.done = play[p].done \cup {s},
                       !.seen = [play[p].seen EXCEPT ![s] = files[s].serial],
                       !.stale = play[p].stale \/ files[s].records # play[p].wanted]
    <2>1. /\ play[p].phase = "inspect" /\ UNCHANGED <<files, loaded>>
          /\ play' = [play EXCEPT ![p] = r]
      BY <1>5 DEF Inspect
    <2>2. r.phase = "inspect" /\ r.at = play[p].at
      BY <2>1 DEF TypeOK, Play
    <2> HIDE DEF r
    <2>3. r.at = Nowhere
      BY <2>1, <2>2, NoUpdater
    <2>4. QED
      BY <2>1, <2>2, <2>3, OneOpenAgrees
  <1>6. ASSUME NEW p \in Plays, NEW s \in Servers, Refuse(p, s) \/ UpdateFails(p, s)
        PROVE  AgreeInv'
    <2>1. Pending(p, s)
      BY <1>6, WriterAlone DEF Refuse, UpdateFails
    <2>2. Finished(p, s, FALSE, FALSE) /\ UNCHANGED <<files, loaded>>
      BY <1>6 DEF Refuse, UpdateFails
    <2>3. QED
      BY <2>1, <2>2, FailureAgrees
  <1>7. ASSUME NEW p \in Plays, NEW s \in Servers,
               LeaveAlone(p, s) \/ ReadZone(p, s) \/ WriteZone(p, s) \/ Record(p, s)
        PROVE  AgreeInv'
    BY <1>7, LeaveAloneAgrees, ReadZoneAgrees, WriteZoneAgrees, RecordAgrees
  <1>8. ASSUME NEW p \in Plays, NEW s \in Servers, NEW ok \in BOOLEAN,
               WriteRecords(p, s, ok) \/ Reload(p, s, ok)
        PROVE  AgreeInv'
    BY <1>8, WriteRecordsAgrees, ReloadAgrees
  <1>9. ASSUME NEW body \in Bodies, Declare(body) PROVE AgreeInv'
    BY <1>9, OpenAgrees DEF Declare
  <1>10. ASSUME NEW H \in (SUBSET Converging) \ {{}} PROVE ~Render(H)
    BY <1>10
  <1>11. ASSUME NEW s \in Servers
         PROVE  ~WriteTemplate(s) /\ ~RestartNsd(s) /\ ~ConvergenceFails(s)
    BY <1>a DEF WriteTemplate, RestartNsd, ConvergenceFails
  <1>12. ASSUME NEW s \in Servers, Reboot(s) PROVE AgreeInv'
    <2>1. files' = files /\ \A t \in Servers : loaded'[t] \in {loaded[t], files[t]}
      BY <1>12 DEF Reboot, TypeOK
    <2>2. ASSUME NEW p \in Plays, play'[p] # play[p]
          PROVE  Open(p)' /\ play'[p].at = Nowhere
      <3>1. /\ play[p].at = s
            /\ play'[p] = [play[p] EXCEPT !.done = @ \cup {s}, !.erred = TRUE,
                                          !.at = Nowhere, !.written = FALSE]
        BY <1>12, <2>2 DEF Reboot
      <3>2. play[p].phase = "update"
        BY <3>1, WriterAlone DEF Pending
      <3>3. play'[p].phase = "update" /\ play'[p].erred /\ play'[p].at = Nowhere
        BY <3>1, <3>2 DEF TypeOK, Play
      <3>4. QED
        BY <3>3 DEF Open, AtWork, Active
    <2>3. QED
      BY <2>1, <2>2, OpenAgrees
  <1>13. CASE UNCHANGED vars
    BY <1>13, OpenAgrees DEF vars
  <1>14. QED
    BY <1>2, <1>3, <1>4, <1>5, <1>6, <1>7, <1>8, <1>9, <1>10, <1>11, <1>12, <1>13 DEF Next

\* docs/dns.md:33, for playbooks that people run beside each other, in whatever
\* order their updaters reach the two servers: once none is at work and the last
\* run of each ended well, both servers have one zone with one serial and one set
\* of records, and NSD answers from it on both.
THEOREM AgreementHolds ==
    Converging = {} => (Spec => []ServersAgree)
  <1> SUFFICES ASSUME Converging = {} PROVE Spec => []ServersAgree
    OBVIOUS
  <1>1. Spec => []TypeOK
    BY TypeCorrect
  <1>2. Spec => []WriterInv
    BY WritersAdvance
  <1>3. Spec => []Bounded
    BY SerialsStayClose
  <1>4. TypeOK /\ AgreeInv => ServersAgree
    <2> SUFFICES ASSUME TypeOK, AgreeInv, \A p \in Plays : play[p].phase \in {"idle", "done"},
                        NEW s \in Servers, NEW t \in Servers
                 PROVE  files[s] = files[t] /\ loaded[s] = files[t]
      BY DEF ServersAgree
    <2>1. \A p \in Plays : ~Open(p)
      BY DEF Open, AtWork, Active
    <2>2. \A p \in Plays : /\ ~Unfinished(p) /\ ~Owes(p, s)
                           /\ ~Ahead(p, s, t) /\ ~Ahead(p, t, s)
      BY <2>1 DEF Unfinished, Owes, Ahead
    <2>3. loaded[s] = files[s]
      BY <2>2 DEF AgreeInv, LoadIsOwed
    <2>4. Age(files[s].serial) \in Nat /\ Age(files[t].serial) \in Nat
      BY AgeValue DEF TypeOK, Zone
    <2>5. ~(Age(files[s].serial) < Age(files[t].serial))
          /\ ~(Age(files[t].serial) < Age(files[s].serial))
      BY <2>2 DEF AgreeInv, SerialIsOwed
    <2>6. files[s].serial = files[t].serial
      <3>1. Age(files[s].serial) = Age(files[t].serial)
        BY <2>4, <2>5, SMT
      <3>2. QED
        BY <3>1, AgeTells DEF TypeOK, Zone
    <2>7. files[s] = files[t]
      BY <2>2, <2>6 DEF AgreeInv, RecordsAreOwed
    <2>8. QED
      BY <2>3, <2>7
  <1>5. QED
    BY <1>1, <1>2, <1>3, <1>4, NoteInit, NoteNext, AgreeInit, AgreeNext, PTL DEF Spec

=============================================================================
