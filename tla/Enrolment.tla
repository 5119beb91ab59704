----------------------------- MODULE Enrolment ------------------------------
(***************************************************************************)
(* The enrolment of a GameAP daemon (gameap-enroll.py): one call that      *)
(* cannot be repeated, made over a network to a panel that may enrol the   *)
(* node and never be heard of again.  The helper takes a lock on the       *)
(* daemon's directory, refuses whatever an earlier one has left there, puts*)
(* a marker beside it before it calls, saves the identity it is given, the *)
(* configuration last, and takes the marker away.  It may fail or be killed*)
(* at any step.                                                            *)
(*                                                                         *)
(* A file is in the directory for a helper that has made it.  "config" is  *)
(* gameap-daemon.yaml, "identity" its content.  A file that was synced is  *)
(* taken to be there after a crash, with its name.                         *)
(***************************************************************************)

CONSTANTS
    Helpers,        \* runs of the helper, each with a fresh credential
    Convergences    \* runs of the daemon's role

VARIABLES
    at,             \* at[h]: where helper h is
    holder,         \* who holds the flock on .enrollment.lock
    files,          \* the files in /etc/gameap-daemon
    calls,          \* calls[h]: the Enroll call of helper h
    registered,     \* helpers whose call has made a node of the panel
    read,           \* read[c]: the identity convergence c has read and works with
    daemon          \* the identity the daemon's service runs with

enrolVars == <<at, holder, files, calls, registered, read, daemon>>

Certificates == {"ca.crt", "server.crt", "server.key"}
Names == Certificates \cup {"marker", "certs", "config", "identity"}
Holding == {"locked", "checked", "connected", "marked", "called", "answered",
            "saving", "configuring", "saved"}

Exists(name) == \E h \in Helpers : <<name, h>> \in files
Complete(h) == \A name \in Names \ {"marker"} : <<name, h>> \in files

EnrolTypeOK ==
    /\ at \in [Helpers -> Holding \cup {"none", "enrolled", "failed"}]
    /\ holder = {h \in Helpers : at[h] \in Holding}
    /\ \A g, h \in holder : g = h
    /\ files \subseteq Names \X Helpers
    /\ calls \in [Helpers -> {"none", "sent", "committed", "refused"}]
    /\ registered \subseteq Helpers /\ daemon \subseteq Helpers
    /\ read \in [Convergences -> SUBSET Helpers]

EnrolInit ==
    /\ at = [h \in Helpers |-> "none"]
    /\ holder = {} /\ files = {}
    /\ calls = [h \in Helpers |-> "none"]
    /\ registered = {} /\ daemon = {}
    /\ read = [c \in Convergences |-> {}]

EnrolGoes(h, from, to) ==
    /\ at[h] = from
    /\ at' = [at EXCEPT ![h] = to]

-----------------------------------------------------------------------------
(* The helper.                                                             *)

\* Mutant: there is no lock.
LockDirectoryShared(h) ==
    /\ EnrolGoes(h, "none", "locked")
    /\ holder' = holder \cup {h}
    /\ UNCHANGED <<files, calls, registered, read, daemon>>

\* The nonblocking flock; the helper that does not get it has failed.
LockDirectory(h) ==
    /\ EnrolGoes(h, "none", IF holder = {} THEN "locked" ELSE "failed")
    /\ holder' = IF holder = {} THEN {h} ELSE holder
    /\ UNCHANGED <<files, calls, registered, read, daemon>>

\* require_unenrolled.
RequireUnenrolled(h) ==
    /\ EnrolGoes(h, "locked", "checked")
    /\ ~Exists("config") /\ ~Exists("certs") /\ ~Exists("marker")
    /\ UNCHANGED <<holder, files, calls, registered, read, daemon>>

\* The URL, the CA and the version are good, and the channel is ready.
Connect(h) ==
    /\ EnrolGoes(h, "checked", "connected")
    /\ UNCHANGED <<holder, files, calls, registered, read, daemon>>

\* Mutant: no marker is written.
WriteMarkerNot(h) ==
    /\ EnrolGoes(h, "connected", "marked")
    /\ UNCHANGED <<holder, files, calls, registered, read, daemon>>

WriteMarker(h) ==
    /\ EnrolGoes(h, "connected", "marked")
    /\ ~Exists("marker")
    /\ files' = files \cup {<<"marker", h>>}
    /\ UNCHANGED <<holder, calls, registered, read, daemon>>

\* Retries are disabled: it is sent once.
Call(h) ==
    /\ EnrolGoes(h, "marked", "called")
    /\ calls' = [calls EXCEPT ![h] = "sent"]
    /\ UNCHANGED <<holder, files, registered, read, daemon>>

\* The answer comes within 30 seconds and is a complete identity.
Answer(h) ==
    /\ calls[h] = "committed"
    /\ EnrolGoes(h, "called", "answered")
    /\ UNCHANGED <<holder, files, calls, registered, read, daemon>>

\* save_identity.
MakeCerts(h) ==
    /\ EnrolGoes(h, "answered", "saving")
    /\ ~Exists("certs")
    /\ files' = files \cup {<<"certs", h>>}
    /\ UNCHANGED <<holder, calls, registered, read, daemon>>

WriteCertificate(h, name) ==
    /\ at[h] = "saving" /\ ~Exists(name)
    /\ files' = files \cup {<<name, h>>}
    /\ UNCHANGED <<at, holder, calls, registered, read, daemon>>

\* The configuration comes last: O_EXCL makes the file, then it is written.
CreateConfig(h) ==
    /\ EnrolGoes(h, "saving", "configuring")
    /\ \A name \in Certificates : <<name, h>> \in files
    /\ ~Exists("config")
    /\ files' = files \cup {<<"config", h>>}
    /\ UNCHANGED <<holder, calls, registered, read, daemon>>

WriteConfig(h) ==
    /\ EnrolGoes(h, "configuring", "saved")
    /\ files' = files \cup {<<"identity", h>>}
    /\ UNCHANGED <<holder, calls, registered, read, daemon>>

RemoveMarker(h) ==
    /\ EnrolGoes(h, "saved", "enrolled")
    /\ files' = files \ {<<"marker", h>>}
    /\ holder' = holder \ {h}
    /\ UNCHANGED <<calls, registered, read, daemon>>

\* Mutant: a helper that fails cleans up.
EnrolFailsClean(h) ==
    /\ at[h] \in Holding
    /\ at' = [at EXCEPT ![h] = "failed"]
    /\ holder' = holder \ {h}
    /\ files' = files \ {<<"marker", h>>}
    /\ UNCHANGED <<calls, registered, read, daemon>>

\* An error, a timeout, a signal or a kill: the flock goes, the files stay, and
\* a call that was sent is still on its way.
EnrolFails(h) ==
    /\ at[h] \in Holding
    /\ at' = [at EXCEPT ![h] = "failed"]
    /\ holder' = holder \ {h}
    /\ UNCHANGED <<files, calls, registered, read, daemon>>

-----------------------------------------------------------------------------
(* The panel, the daemon's role and the operator.                          *)

PanelEnrols(h) ==
    /\ calls[h] = "sent"
    /\ calls' = [calls EXCEPT ![h] = "committed"]
    /\ registered' = registered \cup {h}
    /\ UNCHANGED <<at, holder, files, read, daemon>>

PanelRefuses(h) ==
    /\ calls[h] = "sent"
    /\ calls' = [calls EXCEPT ![h] = "refused"]
    /\ UNCHANGED <<at, holder, files, registered, read, daemon>>

\* The role reads a configuration that parses and names an identity, with its
\* certificates.
ReadIdentity(c) ==
    /\ read[c] = {}
    /\ \E h \in Helpers :
          /\ Complete(h)
          /\ read' = [read EXCEPT ![c] = {h}]
    /\ UNCHANGED <<at, holder, files, calls, registered, daemon>>

\* It replaces the configuration by one with the identity it has read.
WriteBack(c) ==
    /\ read[c] # {}
    /\ files' = (files \ ({"config", "identity"} \X Helpers))
                   \cup ({"config", "identity"} \X read[c])
    /\ UNCHANGED <<at, holder, calls, registered, read, daemon>>

\* It starts or restarts the service on what the file says now.
RunDaemon(c) ==
    /\ read[c] # {}
    /\ daemon' = {h \in Helpers : <<"identity", h>> \in files}
    /\ read' = [read EXCEPT ![c] = {}]
    /\ UNCHANGED <<at, holder, files, calls, registered>>

\* A task of the role fails, or Ansible is gone.
ConvergenceEnds(c) ==
    /\ read' = [read EXCEPT ![c] = {}]
    /\ UNCHANGED <<at, holder, files, calls, registered, daemon>>

\* docs/gameap.md:22-23.  The operator inspects both ends: no helper and no
\* convergence runs, no call is on its way, and then node and files are removed.
OperatorClears ==
    /\ files # {}
    /\ holder = {}
    /\ \A h \in Helpers : calls[h] # "sent"
    /\ \A c \in Convergences : read[c] = {}
    /\ files' = {} /\ registered' = {} /\ daemon' = {}
    /\ UNCHANGED <<at, holder, calls, read>>

Enrols(h) ==
    \/ RequireUnenrolled(h) \/ Connect(h) \/ WriteMarker(h) \/ Call(h) \/ Answer(h)
    \/ MakeCerts(h) \/ (\E name \in Certificates : WriteCertificate(h, name))
    \/ CreateConfig(h) \/ WriteConfig(h) \/ RemoveMarker(h) \/ EnrolFails(h)

EnrolNext ==
    \/ \E h \in Helpers :
          LockDirectory(h) \/ Enrols(h) \/ PanelEnrols(h) \/ PanelRefuses(h)
    \/ \E c \in Convergences :
          ReadIdentity(c) \/ WriteBack(c) \/ RunDaemon(c) \/ ConvergenceEnds(c)
    \/ OperatorClears

EnrolSpec == EnrolInit /\ [][EnrolNext]_enrolVars

-----------------------------------------------------------------------------
(* Properties.                                                             *)

\* docs/gameap.md:22-25.  Between two inspections by the operator the panel never
\* registers the node twice, whatever was lost, late or killed.
OneRegistration == \A g, h \in registered : g = h

\* A node of the panel is never forgotten: its identity is in the directory, or
\* a marker says that somebody has to look.  The daemon runs with a complete
\* identity of a node the panel knows.
RegistrationIsNoted ==
    /\ \A h \in registered : <<"marker", h>> \in files \/ Complete(h)
    /\ \A h \in daemon : h \in registered /\ Complete(h)

=============================================================================
