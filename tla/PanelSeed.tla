----------------------------- MODULE PanelSeed ------------------------------
(***************************************************************************)
(* The database of the GameAP panel and the helper that fills it           *)
(* (gameap-bootstrap.py seed): it runs the vendor's binary as a child until*)
(* the database has an administrator, and stops it.  The child must not    *)
(* outlive the helper, however that ends: the helper's signal handlers stop*)
(* it, and the kernel kills it when its parent is gone (PR_SET_PDEATHSIG). *)
(*                                                                         *)
(* The vendor's binary is external: while it runs it takes the database    *)
(* from nothing to tables, to a user who is no administrator yet, to an    *)
(* administrator, and it may exit at any time.                             *)
(***************************************************************************)

CONSTANTS
    Seeds           \* runs of the helper

VARIABLES
    db,             \* what database_state would find
    service,        \* gameap.service, which runs the binary on the database
    seed,           \* seed[s]: where helper s is
    vendor,         \* vendor[s]: its child; bound once its parent's death kills it
    good,           \* good[s]: whether it is about to report success
    overtaken       \* helpers since whose check another's child has worked

seedVars == <<db, service, seed, vendor, good, overtaken>>

Databases == {"none", "empty", "partial", "initialized"}
Uninitialized == {"none", "empty"}
Busy == {"checked", "asked", "forked", "polling", "stopping"}

SeedTypeOK ==
    /\ db \in Databases
    /\ service \in {"inactive", "active"}
    /\ seed \in [Seeds -> Busy \cup {"none", "begun", "done", "failed"}]
    /\ vendor \in [Seeds -> {"none", "forked", "bound"}]
    /\ good \in [Seeds -> BOOLEAN]
    /\ overtaken \subseteq Seeds

SeedInit ==
    /\ \/ db \in Databases /\ service = "inactive"
       \/ db = "initialized" /\ service = "active"
    /\ seed = [s \in Seeds |-> "none"]
    /\ vendor = [s \in Seeds |-> "none"]
    /\ good = [s \in Seeds |-> FALSE]
    /\ overtaken = {}

SeedGoes(s, from, to) ==
    /\ seed[s] = from
    /\ seed' = [seed EXCEPT ![s] = to]

\* The helper's process is gone: the kernel kills a child that is bound to it.
\* A child that is not bound yet finds another parent and exits (VendorBinds).
SeedExits(s, how) ==
    /\ seed' = [seed EXCEPT ![s] = how]
    /\ vendor' = IF vendor[s] = "bound" THEN [vendor EXCEPT ![s] = "none"] ELSE vendor

-----------------------------------------------------------------------------
(* The helper.                                                             *)

BeginSeed(s) ==
    /\ SeedGoes(s, "none", "begun")
    /\ UNCHANGED <<db, service, vendor, good, overtaken>>

\* Mutant: the playbook has already asked.
CheckDatabaseNot(s) ==
    /\ SeedGoes(s, "begun", "checked")
    /\ overtaken' = overtaken \ {s}
    /\ UNCHANGED <<db, service, vendor, good>>

\* database_state: an initialized database ends the helper at once.
CheckDatabase(s) ==
    /\ db # "partial"
    /\ SeedGoes(s, "begun", IF db \in Uninitialized THEN "checked" ELSE "done")
    /\ overtaken' = overtaken \ {s}
    /\ UNCHANGED <<db, service, vendor, good>>

\* systemctl is-active; then the handlers are installed.
AskService(s) ==
    /\ service = "inactive"
    /\ SeedGoes(s, "checked", "asked")
    /\ UNCHANGED <<db, service, vendor, good, overtaken>>

\* Popen's child, before it runs child_setup.
ForkVendor(s) ==
    /\ SeedGoes(s, "asked", "forked")
    /\ vendor' = [vendor EXCEPT ![s] = "forked"]
    /\ UNCHANGED <<db, service, good, overtaken>>

\* Mutant: child_setup does not ask for its parent once it is bound.
VendorBindsAnyway(s) ==
    /\ vendor[s] = "forked"
    /\ vendor' = [vendor EXCEPT ![s] = "bound"]
    /\ UNCHANGED <<db, service, seed, good, overtaken>>

\* child_setup: prctl, then a child whose parent is gone exits.
VendorBinds(s) ==
    /\ vendor[s] = "forked"
    /\ vendor' = [vendor EXCEPT ![s] = IF seed[s] = "forked" THEN "bound" ELSE "none"]
    /\ UNCHANGED <<db, service, seed, good, overtaken>>

\* Popen returns when its child runs the binary.
Popened(s) ==
    /\ vendor[s] # "forked"
    /\ SeedGoes(s, "forked", "polling")
    /\ UNCHANGED <<db, service, vendor, good, overtaken>>

\* The panel answers and the database is initialized.
Seeded(s) ==
    /\ vendor[s] = "bound" /\ db = "initialized"
    /\ SeedGoes(s, "polling", "stopping")
    /\ good' = [good EXCEPT ![s] = TRUE]
    /\ UNCHANGED <<db, service, vendor, overtaken>>

\* The binary has exited, the database is partial, or two minutes are over.
SeedGivesUp(s) ==
    /\ SeedGoes(s, "polling", "stopping")
    /\ UNCHANGED <<db, service, vendor, good, overtaken>>

\* SIGTERM to the child's group, SIGKILL after 30 seconds; it is reaped.
StopVendor(s) ==
    /\ seed[s] = "stopping"
    /\ seed' = [seed EXCEPT ![s] = IF good[s] THEN "done" ELSE "failed"]
    /\ vendor' = [vendor EXCEPT ![s] = "none"]
    /\ UNCHANGED <<db, service, good, overtaken>>

\* A check refuses, or the child cannot be started.
SeedRefuses(s) ==
    /\ seed[s] \in {"begun", "checked", "asked", "forked"}
    /\ SeedExits(s, "failed")
    /\ UNCHANGED <<db, service, good, overtaken>>

\* SIGTERM, SIGINT or SIGHUP: `interrupted` raises InterruptedError.  Out of
\* Popen it takes the helper with it; while polling it ends the loop, unless
\* the request or the query it interrupts takes it for an OSError of its own;
\* while stopping it is ignored.
SeedSignal(s) ==
    /\ \/ seed[s] \in {"begun", "checked", "asked", "forked"} /\ SeedExits(s, "failed")
       \/ SeedGoes(s, "polling", "stopping") /\ UNCHANGED vendor
    /\ UNCHANGED <<db, service, good, overtaken>>

\* SIGKILL.
SeedKilled(s) ==
    /\ seed[s] \in Busy \cup {"begun"}
    /\ SeedExits(s, "failed")
    /\ UNCHANGED <<db, service, good, overtaken>>

-----------------------------------------------------------------------------
(* The vendor's binary and the service.                                    *)

VendorWorks(s) ==
    /\ vendor[s] = "bound"
    /\ db' = CASE db = "none" -> "empty"
               [] db = "empty" -> "partial"
               [] OTHER -> "initialized"
    /\ db' # db
    /\ overtaken' = overtaken \cup
                      {other \in Seeds \ {s} : seed[other] \in {"checked", "asked"}}
    /\ UNCHANGED <<service, seed, vendor, good>>

VendorExits(s) ==
    /\ vendor[s] = "bound"
    /\ vendor' = [vendor EXCEPT ![s] = "none"]
    /\ UNCHANGED <<db, service, seed, good, overtaken>>

\* The unit's ExecStartPre is the helper's `verify`.
StartService ==
    /\ service = "inactive" /\ service' = "active"
    /\ db = "initialized"
    /\ UNCHANGED <<db, seed, vendor, good, overtaken>>

StopService ==
    /\ service = "active" /\ service' = "inactive"
    /\ UNCHANGED <<db, seed, vendor, good, overtaken>>

Helper(s) ==
    \/ CheckDatabase(s) \/ AskService(s) \/ ForkVendor(s) \/ Popened(s) \/ Seeded(s)
    \/ SeedGivesUp(s) \/ StopVendor(s) \/ SeedRefuses(s)

SeedNext ==
    \/ \E s \in Seeds :
          \/ BeginSeed(s) \/ Helper(s) \/ SeedSignal(s) \/ SeedKilled(s)
          \/ VendorBinds(s) \/ VendorWorks(s) \/ VendorExits(s)
    \/ StartService \/ StopService

SeedSpec == SeedInit /\ [][SeedNext]_seedVars

-----------------------------------------------------------------------------
(* Properties.                                                             *)

\* The vendor's binary, which has the administrator's password in its
\* environment, never runs without the helper that stops it.
VendorIsOwned ==
    \A s \in Seeds : vendor[s] = "bound" => seed[s] \in {"forked", "polling", "stopping"}

\* docs/gameap.md:27-28.  The binary is started on a database without users
\* only, and what another run left half initialized is not worked on again.  The
\* one exception is what the code leaves open without a lock: the child of a
\* second helper has worked between this one's check and its start.
PartialIsKept ==
    [][\A s \in Seeds : vendor[s] = "none" /\ vendor'[s] # "none"
          => db \in Uninitialized \/ s \in overtaken]_seedVars

=============================================================================
