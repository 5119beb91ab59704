------------------------------- MODULE RoleDns ------------------------------
(***************************************************************************)
(* The DNS names of the ReplicaSet's roles on the two authoritative        *)
(* servers.  Each server has a managed zone file with the SOA serial, a    *)
(* file of runtime role records that the zone includes, a note of the role *)
(* state NSD was last told to load, and NSD with what it has loaded.       *)
(*                                                                         *)
(* A play (the switchover or failover playbook, or the convergence of the  *)
(* MySQL service) runs the role mysql_role_dns: inspect both servers,      *)
(* choose one serial, update both, reload NSD, record.  The updater runs   *)
(* under a flock of its server.  Convergence of authoritative DNS rewrites *)
(* the zone file without that flock and restarts NSD.                      *)
(***************************************************************************)
EXTENDS SoaSerial

CONSTANTS
    Servers,        \* the two svc_dns_authoritative hosts
    Nowhere,        \* no server
    Nodes,          \* the svc_mysql hosts
    Unset,          \* the records of a new server, which name no node
    Bodies,         \* contents that inventory may give the zone
    Converging,     \* the servers on which authoritative DNS may be converged
    Plays,          \* playbook processes that update role DNS
    FirstSerial,    \* the serial of both zones at the beginning
    MaxRuns,        \* bound: playbook runs
    Serialized      \* TRUE: people run one playbook at a time

ASSUME RoleDnsAssumption ==
    /\ \E s, t \in Servers : s # t /\ Servers = {s, t}
    /\ Nowhere \notin Servers
    /\ Unset \notin Nodes
    /\ Converging \subseteq Servers
    /\ FirstSerial \in Serials
    /\ MaxRuns \in Nat
    /\ MaxRuns + 1 < HalfRange
    /\ Serialized \in BOOLEAN

VARIABLES
    primary,        \* the node that the ReplicaSet reports as PRIMARY
    declared,       \* the zone content that inventory declares now
    files,          \* files[s]: zone file and runtime records on server s
    loaded,         \* loaded[s]: what NSD answers from
    applied,        \* applied[s]: the applied-state file
    play,           \* play[p]: a run of the role
    conv,           \* conv[s]: convergence of the zone on server s
    runs            \* playbook runs so far

vars == <<primary, declared, files, loaded, applied, play, conv, runs>>

Records == Nodes \cup {Unset}
Zone == [serial: Serials, body: Bodies, records: Records]
State == [serial: Serials, records: Records]

Active == {"inspect", "update", "reload", "record"}
NextOf == [inspect |-> "update", update |-> "reload", reload |-> "record",
           record |-> "done"]

\* at and copy: the server its updater works on and the zone text it has read;
\* written: whether the new zone file is in place.
Play == [phase: Active \cup {"idle", "done", "failed"}, wanted: Records,
         seen: [Servers -> Serials], stale: BOOLEAN, target: Serials,
         done: SUBSET Servers, reload: SUBSET Servers, erred: BOOLEAN,
         at: Servers \cup {Nowhere}, copy: Bodies, written: BOOLEAN]

Conv == [phase: {"idle", "rendered", "notified"}, serial: Serials, body: Bodies]

TypeOK ==
    /\ primary \in Nodes /\ declared \in Bodies
    /\ files \in [Servers -> Zone] /\ loaded \in [Servers -> Zone]
    /\ applied \in [Servers -> State]
    /\ play \in [Plays -> Play] /\ conv \in [Servers -> Conv]
    /\ runs \in 0..MaxRuns

\* A play that is not at work remembers only how the last one ended.
Ended(phase) ==
    [phase |-> phase, wanted |-> Unset,
     seen |-> [s \in Servers |-> FirstSerial], stale |-> FALSE,
     target |-> FirstSerial, done |-> {}, reload |-> {}, erred |-> FALSE,
     at |-> Nowhere, copy |-> CHOOSE b \in Bodies : TRUE, written |-> FALSE]

Idle == [phase |-> "idle", serial |-> FirstSerial, body |-> CHOOSE b \in Bodies : TRUE]

\* Both servers after their first convergence.
Init ==
    /\ primary \in Nodes /\ declared \in Bodies
    /\ files = [s \in Servers |->
                   [serial |-> FirstSerial, body |-> declared, records |-> Unset]]
    /\ loaded = files
    /\ applied = [s \in Servers |-> [serial |-> FirstSerial, records |-> Unset]]
    /\ play = [p \in Plays |-> Ended("idle")]
    /\ conv = [s \in Servers |-> Idle]
    /\ runs = 0

-----------------------------------------------------------------------------
(* Plays: from reading the roles to choosing a serial.                     *)

AtWork(p) == play[p].phase \in Active

MayStart ==
    /\ runs < MaxRuns
    /\ Serialized => /\ \A p \in Plays : ~AtWork(p)
                     /\ \A s \in Servers : conv[s].phase = "idle"

\* Either play goes on to the role with the PRIMARY that it has read.
Start(p, node) ==
    /\ MayStart /\ ~AtWork(p)
    /\ play' = [play EXCEPT ![p] = [Ended("inspect") EXCEPT !.wanted = node]]
    /\ runs' = runs + 1
    /\ UNCHANGED <<declared, files, loaded, applied, conv>>

\* services/mysql: the roles are those of the ReplicaSet's status.
Converge(p) == Start(p, primary) /\ UNCHANGED primary

\* Switchover or failover: the roles are those after the change.
ChangePrimary(p, node) == Start(p, node) /\ node # primary /\ primary' = node

\* Nobody's updater is at work on server s: its flock is free.
FlockFree(s) == \A p \in Plays : play[p].at # s

Inspect(p, s) ==
    /\ play[p].phase = "inspect" /\ s \notin play[p].done
    /\ FlockFree(s)
    /\ play' = [play EXCEPT ![p] =
                  [play[p] EXCEPT
                      !.done = play[p].done \cup {s},
                      !.seen = [play[p].seen EXCEPT ![s] = files[s].serial],
                      !.stale = play[p].stale \/ files[s].records # play[p].wanted]]
    /\ UNCHANGED <<primary, declared, files, loaded, applied, conv, runs>>

\* Mutant: the greater serial is taken for the newer one.
ChosenGreatest(r) ==
    LET s == CHOOSE x \in Servers : TRUE
        t == CHOOSE x \in Servers : x # s
        first == r.seen[s]
        second == r.seen[t]
    IN IF first = second
       THEN ConvergedSerial(first, second, r.stale)
       ELSE Following(IF first < second THEN second ELSE first)

\* One serial for both servers.
Chosen(r) ==
    LET s == CHOOSE x \in Servers : TRUE
        t == CHOOSE x \in Servers : x # s
    IN ConvergedSerial(r.seen[s], r.seen[t], r.stale)

Choose(p) ==
    /\ play[p].phase = "inspect" /\ play[p].done = Servers
    /\ play' = [play EXCEPT ![p] =
                  IF \E s, t \in Servers : Ambiguous(@.seen[s], @.seen[t])
                  THEN Ended("failed")
                  ELSE [@ EXCEPT !.phase = "update", !.done = {},
                                 !.target = Chosen(play[p])]]
    /\ UNCHANGED <<primary, declared, files, loaded, applied, conv, runs>>

-----------------------------------------------------------------------------
(* update: one run of the updater on one server, under its flock.          *)

RecordsChange(p, s) == files[s].records # play[p].wanted
ZoneChanges(p, s) == files[s].serial # play[p].target

\* What the updater accepts: a newer serial, or nothing to do.
Accepted(p, s) ==
    \/ Newer(files[s].serial, play[p].target)
    \/ ~ZoneChanges(p, s) /\ ~RecordsChange(p, s)

\* reload_was_applied
Applied(p, s) ==
    applied[s] = [serial |-> play[p].target, records |-> play[p].wanted]

\* The item is finished for server s; the loop goes on with the other one.
Finished(p, s, ok, reload) ==
    play' = [play EXCEPT ![p] =
                [play[p] EXCEPT
                    !.done = play[p].done \cup {s}, !.erred = play[p].erred \/ ~ok,
                    !.reload = play[p].reload \cup (IF reload THEN {s} ELSE {}),
                    !.at = Nowhere, !.written = FALSE]]

Pending(p, s) == play[p].phase = "update" /\ s \notin play[p].done

\* Mutant: only a change of this run asks for a reload.
LeaveAloneUnasked(p, s) ==
    /\ Pending(p, s) /\ play[p].at = Nowhere /\ FlockFree(s)
    /\ ~ZoneChanges(p, s) /\ ~RecordsChange(p, s)
    /\ Finished(p, s, TRUE, FALSE)
    /\ UNCHANGED <<primary, declared, files, loaded, applied, conv, runs>>

\* Nothing to change; NSD may still have to be told what an earlier run wrote.
LeaveAlone(p, s) ==
    /\ Pending(p, s) /\ play[p].at = Nowhere /\ FlockFree(s)
    /\ ~ZoneChanges(p, s) /\ ~RecordsChange(p, s)
    /\ Finished(p, s, TRUE, ~Applied(p, s))
    /\ UNCHANGED <<primary, declared, files, loaded, applied, conv, runs>>

\* The updater refuses a serial that does not advance.
Refuse(p, s) ==
    /\ Pending(p, s) /\ play[p].at = Nowhere /\ FlockFree(s)
    /\ ~Accepted(p, s)
    /\ Finished(p, s, FALSE, FALSE)
    /\ UNCHANGED <<primary, declared, files, loaded, applied, conv, runs>>

\* The zone text is read and the candidate passes nsd-checkzone.
ReadZone(p, s) ==
    /\ Pending(p, s) /\ play[p].at = Nowhere /\ FlockFree(s)
    /\ Newer(files[s].serial, play[p].target)
    /\ play' = [play EXCEPT ![p] = [@ EXCEPT !.at = s, !.copy = files[s].body]]
    /\ UNCHANGED <<primary, declared, files, loaded, applied, conv, runs>>

\* atomic_write of the text as it was read, with the new serial.
WriteZone(p, s) ==
    /\ play[p].at = s /\ s # Nowhere /\ ~play[p].written
    /\ files' = [files EXCEPT ![s] = [@ EXCEPT !.serial = play[p].target,
                                              !.body = play[p].copy]]
    /\ play' = [play EXCEPT ![p] = [@ EXCEPT !.written = TRUE]]
    /\ UNCHANGED <<primary, declared, loaded, applied, conv, runs>>

\* atomic_write of the records, if they change, and the last nsd-checkzone.
WriteRecords(p, s, ok) ==
    /\ play[p].at = s /\ s # Nowhere /\ play[p].written
    /\ files' = [files EXCEPT ![s] = [@ EXCEPT !.records = play[p].wanted]]
    /\ Finished(p, s, ok, TRUE)
    /\ UNCHANGED <<primary, declared, loaded, applied, conv, runs>>

\* nsd-checkzone refuses the candidate, or a file cannot be written.
UpdateFails(p, s) ==
    /\ play[p].at = s /\ s # Nowhere
    /\ Finished(p, s, FALSE, FALSE)
    /\ UNCHANGED <<primary, declared, files, loaded, applied, conv, runs>>

-----------------------------------------------------------------------------
(* Reloading and recording, and the ends of a play.                        *)

\* systemctl reload nsd, where something was changed or is still to be loaded.
Reload(p, s, ok) ==
    /\ play[p].phase = "reload" /\ s \in play[p].reload \ play[p].done
    /\ loaded' = IF ok THEN [loaded EXCEPT ![s] = files[s]] ELSE loaded
    /\ play' = [play EXCEPT ![p] =
                  [play[p] EXCEPT !.done = play[p].done \cup {s},
                                  !.erred = play[p].erred \/ ~ok]]
    /\ UNCHANGED <<primary, declared, files, applied, conv, runs>>

Record(p, s) ==
    /\ play[p].phase = "record" /\ s \notin play[p].done
    /\ applied' = [applied EXCEPT ![s] =
                     [serial |-> play[p].target, records |-> play[p].wanted]]
    /\ play' = [play EXCEPT ![p] = [play[p] EXCEPT !.done = play[p].done \cup {s}]]
    /\ UNCHANGED <<primary, declared, files, loaded, conv, runs>>

\* Mutant: failed items are ignored.
NextTaskAnyway(p) ==
    /\ \/ play[p].phase \in {"update", "record"} /\ play[p].done = Servers
       \/ play[p].phase = "reload" /\ play[p].done = play[p].reload
    /\ play' = [play EXCEPT ![p] =
                  IF play[p].phase = "record" THEN Ended("done")
                  ELSE [play[p] EXCEPT !.phase = NextOf[play[p].phase], !.done = {}]]
    /\ UNCHANGED <<primary, declared, files, loaded, applied, conv, runs>>

\* A loop is over: a failed item ends the play, otherwise the next task.  All
\* updates report the records and the serial they were given, so that the
\* assertion between update and reload holds.
NextTask(p) ==
    /\ \/ play[p].phase \in {"update", "record"} /\ play[p].done = Servers
       \/ play[p].phase = "reload" /\ play[p].done = play[p].reload
    /\ play' = [play EXCEPT ![p] =
                  IF play[p].erred THEN Ended("failed")
                  ELSE IF play[p].phase = "record" THEN Ended("done")
                  ELSE [play[p] EXCEPT !.phase = NextOf[play[p].phase], !.done = {}]]
    /\ UNCHANGED <<primary, declared, files, loaded, applied, conv, runs>>

\* An unreachable server, or the death of the control process.
Abort(p) ==
    /\ AtWork(p)
    /\ play' = [play EXCEPT ![p] = Ended("failed")]
    /\ UNCHANGED <<primary, declared, files, loaded, applied, conv, runs>>

-----------------------------------------------------------------------------
(* Convergence of authoritative DNS, and the server.                       *)

\* Somebody changes the static records or the inventory.
Declare(body) ==
    /\ body # declared /\ declared' = body
    /\ UNCHANGED <<primary, files, loaded, applied, play, conv, runs>>

\* Mutant: a changed zone is given the initial serial.
RenderInitial(H) ==
    /\ MayStart
    /\ \A s \in H : conv[s].phase = "idle"
    /\ conv' = [s \in Servers |->
                  IF s \in H
                  THEN [phase |-> "rendered", body |-> declared,
                        serial |-> IF files[s].body = declared
                                   THEN files[s].serial ELSE FirstSerial]
                  ELSE conv[s]]
    /\ runs' = runs + 1
    /\ UNCHANGED <<primary, declared, files, loaded, applied, play>>

\* Mutant: the serial is kept whatever has changed.
RenderSameSerial(H) ==
    /\ MayStart
    /\ \A s \in H : conv[s].phase = "idle"
    /\ conv' = [s \in Servers |->
                  IF s \in H
                  THEN [phase |-> "rendered", body |-> declared,
                        serial |-> files[s].serial]
                  ELSE conv[s]]
    /\ runs' = runs + 1
    /\ UNCHANGED <<primary, declared, files, loaded, applied, play>>

\* The zone files are read and their serials selected on the hosts H.
Render(H) ==
    /\ MayStart
    /\ \A s \in H : conv[s].phase = "idle"
    /\ conv' = [s \in Servers |->
                  IF s \in H
                  THEN [phase |-> "rendered", body |-> declared,
                        serial |-> ZoneSerial(files[s].serial, files[s].body = declared)]
                  ELSE conv[s]]
    /\ runs' = runs + 1
    /\ UNCHANGED <<primary, declared, files, loaded, applied, play>>

\* The template is written where it differs; only then NSD is restarted.
WriteTemplate(s) ==
    /\ conv[s].phase = "rendered"
    /\ LET candidate == [files[s] EXCEPT !.serial = conv[s].serial,
                                         !.body = conv[s].body]
       IN /\ files' = [files EXCEPT ![s] = candidate]
          /\ conv' = [conv EXCEPT ![s] =
                        IF candidate = files[s] THEN Idle
                        ELSE [@ EXCEPT !.phase = "notified"]]
    /\ UNCHANGED <<primary, declared, loaded, applied, play, runs>>

\* The handler: NSD starts from the files.
RestartNsd(s) ==
    /\ conv[s].phase = "notified"
    /\ loaded' = [loaded EXCEPT ![s] = files[s]]
    /\ conv' = [conv EXCEPT ![s] = Idle]
    /\ UNCHANGED <<primary, declared, files, applied, play, runs>>

\* A later task fails on the host: what was notified is forgotten.
ConvergenceFails(s) ==
    /\ conv[s].phase # "idle"
    /\ conv' = [conv EXCEPT ![s] = Idle]
    /\ UNCHANGED <<primary, declared, files, loaded, applied, play, runs>>

\* The server restarts: an updater on it is gone, NSD starts from the files.
Reboot(s) ==
    /\ loaded' = [loaded EXCEPT ![s] = files[s]]
    /\ play' = [p \in Plays |->
                  IF play[p].at = s
                  THEN [play[p] EXCEPT !.done = @ \cup {s}, !.erred = TRUE,
                                       !.at = Nowhere, !.written = FALSE]
                  ELSE play[p]]
    /\ UNCHANGED <<primary, declared, files, applied, conv, runs>>

Next ==
    \/ \E p \in Plays :
          \/ Converge(p)
          \/ \E node \in Nodes : ChangePrimary(p, node)
          \/ Choose(p) \/ NextTask(p) \/ Abort(p)
          \/ \E s \in Servers :
                \/ Inspect(p, s) \/ LeaveAlone(p, s) \/ Refuse(p, s)
                \/ ReadZone(p, s) \/ WriteZone(p, s) \/ UpdateFails(p, s)
                \/ Record(p, s)
                \/ \E ok \in BOOLEAN : WriteRecords(p, s, ok) \/ Reload(p, s, ok)
    \/ \E body \in Bodies : Declare(body)
    \/ \E H \in (SUBSET Converging) \ {{}} : Render(H)
    \/ \E s \in Servers :
          WriteTemplate(s) \/ RestartNsd(s) \/ ConvergenceFails(s) \/ Reboot(s)

Spec == Init /\ [][Next]_vars

-----------------------------------------------------------------------------
(* Properties.                                                             *)

\* docs/dns.md:33.  The aliases are "selected from live ReplicaSet status":
\* when every play has ended well, both servers answer with the PRIMARY,
\* whatever earlier runs left half done on either of them.
AliasesAreLive ==
    (\A p \in Plays : play[p].phase = "done") =>
        \A s \in Servers : loaded[s].records = primary

\* What lets a run skip the reload: when the note matches the files of its
\* server, NSD has loaded just these files, however the runs since have ended.
NoteIsTrue ==
    \A s \in Servers :
        applied[s] = [serial |-> files[s].serial, records |-> files[s].records]
            => loaded[s] = files[s]

\* mysql_role_dns/tasks/main.yml:106, "Require identical runtime role records on
\* both DNS servers", which a play asks of its own two updates.  Plays that overlap
\* reach the servers in different orders, and refuse or replace each other's
\* serials: when none is at work and the last run of each ended well, both servers
\* must have one zone with the same records, and NSD must answer from it.
ServersAgree ==
    (\A p \in Plays : play[p].phase \in {"idle", "done"}) =>
        \A s, t \in Servers : files[s] = files[t] /\ loaded[s] = files[t]

\* The serial chosen from what both servers have is one that the updater of
\* each of them accepts: filter and updater agree on RFC 1982 order, so that no
\* run is refused halfway, with one server updated and the other one not.
ChoiceIsAccepted ==
    \A p \in Plays, s \in Servers :
        Pending(p, s) /\ play[p].at # s => Accepted(p, s)

\* Why a serial only ever advances, in three parts.  The flock of a server has
\* one updater, and no play is at work where a zone is being converged.
OneWriter ==
    /\ \A p, q \in Plays : play[p].at = play[q].at /\ play[p].at # Nowhere => p = q
    /\ \A s \in Servers : conv[s].phase # "idle" =>
          s \in Converging /\ \A p \in Plays : ~AtWork(p)

\* An updater works on a server that its loop has not finished, and as long as
\* it has not written the zone, the serial it was given is newer than the file's.
UpdaterAdvances ==
    \A p \in Plays : play[p].at # Nowhere =>
        /\ Pending(p, play[p].at)
        /\ ~play[p].written => Newer(files[play[p].at].serial, play[p].target)

\* A rendered zone has the serial of the file, or the next one.
RenderedAdvances ==
    \A s \in Servers : conv[s].phase = "rendered" =>
        conv[s].serial \in {files[s].serial, Following(files[s].serial)}

WriterInv == OneWriter /\ UpdaterAdvances /\ RenderedAdvances

\* docs/dns.md:132.  A zone file's serial only ever advances, through both of
\* its writers.
SerialsOnlyAdvance ==
    [][\A s \in Servers :
          files'[s].serial # files[s].serial
              => Newer(files[s].serial, files'[s].serial)]_vars

\* What a resolver or a secondary relies on: when the answers of a server
\* change, with a reload, a restart or a reboot at any moment of an update,
\* their serial is newer than that of the answers before.
AnswersChangeWithSerial ==
    [][\A s \in Servers :
          loaded'[s] # loaded[s] => Newer(loaded[s].serial, loaded'[s].serial)]_vars

=============================================================================
