---------------------------- MODULE ReplicaSet ------------------------------
(***************************************************************************)
(* The ReplicaSet manager (mysql-replicaset.py) and the servers it manages *)
(* through MySQL Shell's AdminAPI.  A session of the program carries out   *)
(* one action in steps: it connects, reads, decides on what it has read,   *)
(* asks the AdminAPI for a change, and reads again before it reports.      *)
(* Failures and operators change the servers in between.  Sessions follow  *)
(* one another, as the topology lock has them (module TopologyLock).       *)
(*                                                                         *)
(* External, from the way the program uses it: the AdminAPI takes the      *)
(* newest metadata it can reach, checks its own preconditions when it acts,*)
(* and acts as a whole or not at all, unless the session dies inside it.   *)
(***************************************************************************)
EXTENDS Naturals, FiniteSetsExt

CONSTANTS
    Nodes,              \* the expected instances, listed in ascending order
    InitialPrimary,     \* the bootstrap seed
    MaxRuns,            \* bound: sessions that are begun
    MaxFaults           \* bound: failures, recoveries and interventions

ASSUME ReplicaSetAssumption ==
    /\ Nodes \subseteq Nat \ {0} /\ InitialPrimary \in Nodes
    /\ \E a, b \in Nodes : a # b /\ Nodes = {a, b}
    /\ MaxRuns \in Nat /\ MaxFaults \in Nat

VARIABLES
    up,             \* up[n]: whether server n is up and reachable
    meta,           \* meta[n]: its copy of the ReplicaSet's metadata
    writable,       \* writable[n]: neither read_only nor super_read_only
    channel,        \* channel[n]: its replication channel
    allowedHost,    \* replicationAllowedHost and the accounts that go with it
    created,        \* number of ReplicaSets that were ever created
    runs, faults,   \* numbers of sessions and faults so far
    pc,             \* where the session is
    action, target, dry,    \* its parameters
    at,             \* the server it is connected to
    todo,           \* the instances it has not considered yet
    report,         \* the state it has read last, {} before it reads one
    seen            \* history: the states there were since its last change

serverVars == <<up, meta, writable, channel, allowedHost, created>>
requestVars == <<action, target, dry>>
readVars == <<report, seen>>
vars == <<serverVars, runs, faults, pc, requestVars, at, todo, readVars>>

Actions == {"check", "converge", "status", "switchover", "failover"}
Channels == {"none", "running", "stopped", "error"}
NoMeta == [id |-> 0, view |-> 0, primary |-> 0, members |-> {}, invalid |-> {}]
Metadata == [id: 0..MaxRuns, view: Nat, primary: Nodes \cup {0},
             members: SUBSET Nodes, invalid: SUBSET Nodes]
Readings == [primary: SUBSET Nodes, online: SUBSET Nodes, writable: SUBSET Nodes]
Unconnected == {"idle", "begun", "done", "dead"}

\* The types, and that a session keeps a connection to a server that is up.
TypeOK ==
    /\ up \in [Nodes -> BOOLEAN] /\ writable \in [Nodes -> BOOLEAN]
    /\ meta \in [Nodes -> Metadata]
    /\ channel \in [Nodes -> Channels]
    /\ allowedHost \in {"other", "desired", "torn"}
    /\ created \in 0..MaxRuns /\ runs \in 0..MaxRuns /\ faults \in 0..MaxFaults
    /\ pc \in Unconnected \cup
              {"connected", "validated", "absent", "nobody", "present", "adding",
               "rejoining", "considered", "planned", "tried", "moved"}
    /\ action \in Actions /\ target \in Nodes /\ dry \in BOOLEAN
    /\ at \in Nodes \cup {0} /\ todo \subseteq Nodes
    /\ report \subseteq Readings /\ seen \subseteq Readings
    /\ \A n \in Nodes : meta[n] = NoMeta \/ meta[n].primary \in meta[n].members
    /\ pc \notin Unconnected => at # 0 /\ up[at]

\* New servers, no ReplicaSet yet.
Init ==
    /\ up = [n \in Nodes |-> TRUE] /\ meta = [n \in Nodes |-> NoMeta]
    /\ writable = [n \in Nodes |-> TRUE] /\ channel = [n \in Nodes |-> "none"]
    /\ allowedHost = "other" /\ created = 0
    /\ runs = 0 /\ faults = 0
    /\ pc = "idle" /\ action = "status" /\ target = InitialPrimary /\ dry = FALSE
    /\ at = 0 /\ todo = {} /\ report = {} /\ seen = {}

-----------------------------------------------------------------------------
(* What a session reads.                                                   *)

Reachable == {n \in Nodes : up[n]}
Managed == {n \in Nodes : meta[n] # NoMeta}

\* get_replica_set on server c: the newest view of its ReplicaSet in reach.
View(c) ==
    LET copies == {meta[n] : n \in {k \in Reachable : meta[k].id = meta[c].id}}
    IN CHOOSE v \in copies : \A w \in copies : w.view <= v.view

\* The status of server n in view v.
Status(v, n) ==
    CASE n \notin v.members -> "ABSENT"
      [] n \in v.members /\ ~up[n] -> "UNREACHABLE"
      [] n \in v.invalid /\ up[n] -> "INVALIDATED"
      [] n = v.primary /\ up[n] -> IF meta[n] = NoMeta THEN "ERROR" ELSE "ONLINE"
      [] OTHER -> CASE channel[n] = "error" -> "ERROR"
                    [] channel[n] \in {"none", "stopped"} -> "OFFLINE"
                    [] channel[n] = "running" ->
                          IF up[v.primary] THEN "ONLINE" ELSE "CONNECTING"

\* validate_online_pair.
OnlinePair(v) == \A n \in Nodes : Status(v, n) = "ONLINE"

\* validate_writable_topology.
WritableTopology(v) ==
    OnlinePair(v) /\ \A n \in Nodes : writable[n] <=> n = v.primary

\* The primary that a status names, if it is online.
OnlinePrimary(v) == {n \in Nodes : n = v.primary /\ Status(v, n) = "ONLINE"}

\* state: the status of the ReplicaSet and the variables of the servers, as
\* a session that is connected now finds them, in one step.
State ==
    {[primary |-> OnlinePrimary(View(c)),
      online |-> {n \in Nodes : Status(View(c), n) = "ONLINE"},
      writable |-> {n \in Reachable : writable[n]}] : c \in {at} \cap Reachable}

-----------------------------------------------------------------------------
(* Steps of a session.                                                     *)

\* The session takes a step that changes no server.
Reads(actions, from, to) ==
    /\ pc = from /\ action \in actions /\ pc' = to
    /\ seen' = seen \cup State
    /\ UNCHANGED <<serverVars, runs, faults, requestVars>>

\* It takes a step that changes servers: what they were is of the past.
Changes(actions, from, to) ==
    /\ pc = from /\ action \in actions /\ pc' = to
    /\ seen' = {}
    /\ UNCHANGED <<up, runs, faults, requestVars, at, report>>

\* The role asks for action a, in Ansible's check mode or not.
Request(a, checkMode) ==
    /\ pc = "idle" /\ runs < MaxRuns
    /\ pc' = "begun" /\ runs' = runs + 1
    /\ action' = a /\ dry' = checkMode
    /\ IF a \in {"switchover", "failover"} THEN target' \in Nodes ELSE target' = InitialPrimary
    /\ UNCHANGED <<serverVars, faults, at, todo, readVars>>

\* Mutant: in check mode a convergence is left to its own dry run.
BeginDry ==
    \E a \in Actions \ {"check"}, checkMode \in BOOLEAN : Request(a, checkMode)

\* The role starts the program; a convergence in check mode is a check.
Begin ==
    \E a \in Actions \ {"check"}, checkMode \in BOOLEAN :
        Request(IF checkMode /\ a = "converge" THEN "check" ELSE a, checkMode)

\* Mutant: only the first instance is tried.
ConnectFirst ==
    /\ Reads(Actions, "begun", "connected")
    /\ at' = InitialPrimary
    /\ UNCHANGED <<todo, report>>

\* A convergence connects to the seed, any other action to the first
\* instance that answers.
Connect ==
    /\ Reads(Actions, "begun", "connected")
    /\ at' \in {n \in Reachable : IF action = "converge" THEN n = InitialPrimary
                                  ELSE \A k \in Reachable : n <= k}
    /\ UNCHANGED <<todo, report>>

\* validate_expected_configurations; a failover does without.
ValidateConfigurations ==
    /\ Reads(Actions, "connected", "validated")
    /\ action = "failover" \/ Reachable = Nodes
    /\ UNCHANGED <<at, todo, report>>

\* get_replicaset_if_present of the server it is connected to.
Find ==
    /\ Reads({"check", "converge"}, "validated",
             IF at \in Managed THEN "present" ELSE IF action = "check" THEN "done" ELSE "absent")
    /\ todo' = Nodes
    /\ UNCHANGED <<at, report>>

\* Mutant: the seed alone is asked for metadata.
NobodyElseUnasked ==
    /\ Reads({"converge"}, "absent", "nobody")
    /\ UNCHANGED <<at, todo, report>>

\* No other instance has metadata while the seed has none.
NobodyElse ==
    /\ Reads({"converge"}, "absent", "nobody")
    /\ Reachable = Nodes /\ Managed \subseteq {at}
    /\ UNCHANGED <<at, todo, report>>

\* create_replica_set, which refuses a server that has metadata.
Create ==
    /\ Changes({"converge"}, "nobody", "present")
    /\ at \notin Managed
    /\ created' = created + 1
    /\ meta' = [meta EXCEPT ![at] = [id |-> created', view |-> 1, primary |-> at,
                                     members |-> {at}, invalid |-> {}]]
    /\ writable' = [writable EXCEPT ![at] = TRUE]
    /\ allowedHost' = "desired"
    /\ UNCHANGED <<channel, todo>>

\* Mutant: any member that is not online is rejoined.
ConsiderAnyway ==
    /\ pc = "present" /\ todo # {}
    /\ LET status == Status(View(at), Min(todo))
       IN /\ Reads({"converge"}, "present",
                   CASE status = "ABSENT" -> "adding"
                     [] status = "ONLINE" -> "present"
                     [] OTHER -> "rejoining")
          /\ todo' = IF status = "ONLINE" THEN todo \ {Min(todo)} ELSE todo
    /\ UNCHANGED <<at, report>>

\* The next instance, as the last status shows it: it is left alone, added or
\* rejoined; any other status ends the convergence.
Consider ==
    /\ pc = "present" /\ todo # {}
    /\ LET status == Status(View(at), Min(todo))
       IN /\ status \in {"ABSENT", "OFFLINE", "ONLINE"}
          /\ Reads({"converge"}, "present",
                   CASE status = "ABSENT" -> "adding"
                     [] status = "OFFLINE" -> "rejoining"
                     [] status = "ONLINE" -> "present")
          /\ todo' = IF status = "ONLINE" THEN todo \ {Min(todo)} ELSE todo
    /\ UNCHANGED <<at, report>>

\* View v reaches its primary and the members that replicate over their links.
Publish(v, links) ==
    LET receive == {k \in v.members \ v.invalid :
                        up[k] /\ (k = v.primary \/ links[k] = "running")}
    IN /\ meta' = [k \in Nodes |-> IF k \in receive THEN v ELSE meta[k]]
       /\ channel' = links

\* Server n replicates from the primary of view v, as a member of it.
Joins(v, n) ==
    /\ at \in Managed /\ up[v.primary] /\ up[n] /\ n # v.primary
    /\ Publish([v EXCEPT !.view = v.view + 1, !.members = v.members \cup {n},
                         !.invalid = v.invalid \ {n}],
               [channel EXCEPT ![n] = "running"])
    /\ writable' = [writable EXCEPT ![n] = FALSE]
    /\ UNCHANGED <<created, allowedHost>>

\* add_instance by clone, of a server that belongs to no ReplicaSet.
Add ==
    LET n == Min(todo)
    IN /\ Changes({"converge"}, "adding", "present")
       /\ n \notin meta[n].members
       /\ Joins(View(at), n)
       /\ todo' = todo \ {n}

\* The session dies after the clone, which brings the primary's metadata.
AddDies ==
    LET v == View(at)  n == Min(todo)
    IN /\ Changes({"converge"}, "adding", "dead")
       /\ n \notin meta[n].members /\ up[v.primary] /\ up[n]
       /\ meta' = [meta EXCEPT ![n] = v]
       /\ UNCHANGED <<writable, channel, created, allowedHost, todo>>

\* rejoin_instance, of a member that has kept its data.
Rejoin ==
    LET v == View(at)  n == Min(todo)
    IN /\ Changes({"converge"}, "rejoining", "present")
       /\ n \in v.members /\ meta[n].id = v.id /\ Status(v, n) # "ONLINE"
       /\ Joins(v, n)
       /\ todo' = todo \ {n}

\* Every instance has been considered: the state is valid before anything
\* else is converged, or checked.
Settle ==
    /\ Reads({"check", "converge"}, "present", "considered")
    /\ action = "converge" => todo = {}
    /\ WritableTopology(View(at))
    /\ report' = State
    /\ UNCHANGED <<at, todo>>

\* converge_replication_allowed_host refuses accounts that disagree with the
\* metadata, and only looks when it checks.
KeepAllowedHost ==
    /\ Reads({"check", "converge"}, "considered",
             IF action = "check" THEN "done" ELSE "moved")
    /\ allowedHost # "torn" /\ up[View(at).primary]
    /\ allowedHost = "desired" \/ action = "check" \/ dry
    /\ UNCHANGED <<at, todo, report>>

\* set_option changes the metadata and the accounts, both or, when the
\* session dies, some of them.
SetAllowedHost ==
    /\ allowedHost = "other" /\ ~dry
    /\ \/ Changes({"converge"}, "considered", "moved") /\ allowedHost' = "desired"
       \/ Changes({"converge"}, "considered", "dead") /\ allowedHost' = "torn"
    /\ up[View(at).primary]
    /\ UNCHANGED <<meta, writable, channel, created, todo>>

\* The state before a status, a switchover or a failover.  What a status in
\* check mode reports is this state.
ReadBefore ==
    LET v == View(at)
    IN /\ at \in Managed
       /\ \/ /\ Reads({"status"}, "validated", IF dry THEN "done" ELSE "moved")
             /\ dry => WritableTopology(v)
          \/ /\ Reads({"switchover"}, "validated", "planned")
             /\ OnlinePair(v) /\ target # v.primary
          \/ /\ Reads({"failover"}, "validated", "planned")
             /\ OnlinePrimary(v) = {} /\ target # v.primary
             /\ Status(v, target) \in {"ONLINE", "CONNECTING"}
       /\ report' = State
       /\ UNCHANGED <<at, todo>>

\* What the AdminAPI asks for itself before it changes the primary.
Permits(v) ==
    /\ target \in v.members \ v.invalid /\ target # v.primary
    /\ up[target] /\ channel[target] = "running"
    /\ IF action = "switchover" THEN OnlinePair(v) ELSE ~up[v.primary]

DryRun ==
    /\ Reads({"switchover", "failover"}, "planned", IF dry THEN "done" ELSE "tried")
    /\ Permits(View(at))
    /\ UNCHANGED <<at, todo, report>>

\* set_primary_instance: the primary steps down, the target takes over.
SetPrimary ==
    LET v == View(at)
    IN /\ Changes({"switchover"}, "tried", "moved")
       /\ Permits(v)
       /\ Publish([v EXCEPT !.view = v.view + 1, !.primary = target],
                  [n \in Nodes |-> IF n = target THEN "none" ELSE "running"])
       /\ writable' = [n \in Nodes |-> n = target]
       /\ UNCHANGED <<created, allowedHost, todo>>

\* The session dies when the primary has stepped down.
SetPrimaryDies ==
    LET v == View(at)
    IN /\ Changes({"switchover"}, "tried", "dead")
       /\ Permits(v)
       /\ writable' = [writable EXCEPT ![v.primary] = FALSE]
       /\ UNCHANGED <<meta, channel, created, allowedHost, todo>>

\* force_primary_instance, which invalidates whom it cannot reach.
ForcePrimary ==
    LET v == View(at)
    IN /\ Changes({"failover"}, "tried", "moved")
       /\ Permits(v)
       /\ Publish([v EXCEPT !.view = v.view + 1, !.primary = target,
                            !.invalid = v.invalid \cup {n \in v.members : ~up[n]}],
                  [channel EXCEPT ![target] = "none"])
       /\ writable' = [writable EXCEPT ![target] = TRUE]
       /\ UNCHANGED <<created, allowedHost, todo>>

\* Mutant: what is reported is the state from before the change.
ReadAfterReportsBefore ==
    LET v == View(at)
    IN /\ Reads(Actions, "moved", "done")
       /\ action # "failover" => WritableTopology(v)
       /\ action \in {"switchover", "failover"} => OnlinePrimary(v) = {target}
       /\ action = "failover" => writable[target]
       /\ report' = IF action = "converge" THEN State ELSE report
       /\ UNCHANGED <<at, todo>>

\* The state that is reported, and what it has to be.
ReadAfter ==
    LET v == View(at)
    IN /\ Reads(Actions, "moved", "done")
       /\ action # "failover" => WritableTopology(v)
       /\ action \in {"switchover", "failover"} => OnlinePrimary(v) = {target}
       /\ action = "failover" => writable[target]
       /\ report' = State
       /\ UNCHANGED <<at, todo>>

\* The program ends, with its report, or with an exception at any step.
End ==
    /\ pc # "idle" /\ pc' = "idle"
    /\ at' = 0 /\ todo' = {} /\ report' = {} /\ seen' = {}
    /\ UNCHANGED <<serverVars, runs, faults, requestVars>>

-----------------------------------------------------------------------------
(* External: what happens to the servers.                                  *)

Fault ==
    /\ faults < MaxFaults /\ faults' = faults + 1
    /\ seen' = seen \cup State
    /\ UNCHANGED <<created, runs, requestVars, at, todo, report>>

\* A server stops: the session that is connected to it ends.
ServerStops ==
    \E n \in Reachable :
        /\ Fault /\ up' = [up EXCEPT ![n] = FALSE]
        /\ pc' = IF pc \notin Unconnected /\ at = n THEN "dead" ELSE pc
        /\ UNCHANGED <<meta, writable, channel, allowedHost>>

ServerStarts ==
    \E n \in Nodes \ Reachable :
        /\ Fault /\ up' = [up EXCEPT ![n] = TRUE]
        /\ UNCHANGED <<meta, writable, channel, allowedHost, pc>>

\* Replication on a replica is stopped, or an applier error ends it.
ReplicationEnds ==
    \E n \in Reachable, how \in {"stopped", "error"} :
        /\ channel[n] = "running"
        /\ Fault /\ channel' = [channel EXCEPT ![n] = how]
        /\ UNCHANGED <<up, meta, writable, allowedHost, pc>>

\* Write protection is lifted, or imposed, by hand.
ProtectionChanges ==
    \E n \in Reachable :
        /\ Fault /\ writable' = [writable EXCEPT ![n] = ~writable[n]]
        /\ UNCHANGED <<up, meta, channel, allowedHost, pc>>

\* The policy of the source repository asks for another host.
HostDrifts ==
    /\ Fault /\ allowedHost' = "other"
    /\ UNCHANGED <<up, meta, writable, channel, pc>>

\* Between sessions an operator installs a server anew.
Reinstalled ==
    \E n \in Reachable :
        /\ pc = "idle" /\ n \in Managed
        /\ Fault /\ meta' = [meta EXCEPT ![n] = NoMeta]
        /\ writable' = [writable EXCEPT ![n] = TRUE]
        /\ channel' = [channel EXCEPT ![n] = "none"]
        /\ UNCHANGED <<up, allowedHost, pc>>

-----------------------------------------------------------------------------
Convergence ==
    \/ Find \/ NobodyElse \/ Create \/ Consider \/ Add \/ AddDies \/ Rejoin
    \/ Settle \/ KeepAllowedHost \/ SetAllowedHost

Transition ==
    ReadBefore \/ DryRun \/ SetPrimary \/ SetPrimaryDies \/ ForcePrimary

Environment ==
    \/ ServerStops \/ ServerStarts \/ ReplicationEnds \/ ProtectionChanges
    \/ HostDrifts \/ Reinstalled

Next ==
    \/ Begin \/ Connect \/ ValidateConfigurations \/ Convergence \/ Transition
    \/ ReadAfter \/ End \/ Environment

Spec == Init /\ [][Next]_vars

-----------------------------------------------------------------------------
\* Whatever fails between its steps, a convergence never creates a second
\* ReplicaSet beside one that some server still knows, and no two servers
\* hold different metadata as the same view of it (mysql-replicaset.py 223-231).
TopologyNeverForks ==
    \A n, k \in Managed :
        /\ meta[n].id = meta[k].id
        /\ meta[n].view = meta[k].view => meta[n] = meta[k]

\* A reading of an online pair, whose primary is the one writer.
ShowsPair(r) ==
    r.online = Nodes /\ \E n \in Nodes : r.primary = {n} /\ r.writable = {n}

\* What a session reports was so at a moment after the last change that it
\* made, whatever it had read before that change and whatever fails meanwhile:
\* a pair with one writer, the target as primary and writable.  Only a check
\* of a server without a ReplicaSet reports none (mysql-replicaset.py 256-290).
ReportIsTrue ==
    pc = "done" =>
        /\ report = {} => action = "check"
        /\ report \subseteq seen
        /\ \A r \in report :
              /\ action \in {"check", "converge", "status"} => ShowsPair(r)
              /\ ~dry /\ action = "switchover" => ShowsPair(r)
              /\ ~dry /\ action \in {"switchover", "failover"} =>
                     r.primary = {target} /\ target \in r.writable

\* A session of a play in check mode changes nothing (run.yml and the dry
\* runs of mysql-replicaset.py 204-217 and 271-274).
CheckChangesNothing ==
    [][pc # "idle" /\ dry /\ faults' = faults => UNCHANGED serverVars]_vars

\* A convergence never makes a member replicate that a failover has declared
\* invalid, or whose replication has failed: its data may have diverged
\* (mysql-replicaset.py 239-243).
RejoinIsUnambiguous ==
    [][\A n \in Nodes :
          pc # "idle" /\ channel[n] # "running" /\ channel'[n] = "running"
              => Status(View(at), n) \notin {"INVALIDATED", "ERROR"}]_vars

=============================================================================
