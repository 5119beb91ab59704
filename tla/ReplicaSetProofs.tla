-------------------------- MODULE ReplicaSetProofs --------------------------
(***************************************************************************)
(* Proofs about the ReplicaSet manager, for any number of sessions, of     *)
(* failures and of interventions on the two servers of the source's        *)
(* topology.  The argument: two servers that are managed hold the same     *)
(* metadata, or one was forced to take over from the other (Agreement); a  *)
(* server that replicates is a member of the metadata that everyone holds  *)
(* (Replicas); so a member that joins and a planned switchover reach both  *)
(* servers, and only a failover leaves one behind.                         *)
(***************************************************************************)
EXTENDS ReplicaSet, TLAPS

\* A view that a server holds has a valid primary.
WellFormed ==
    \A n \in Managed :
        /\ meta[n].id # 0 /\ meta[n].invalid \subseteq meta[n].members
        /\ meta[n].primary \in meta[n].members \ meta[n].invalid

\* Server j was forced to take over from k, which does not know it.
Forced(j, k) ==
    /\ meta[k].primary = k /\ j \in meta[k].members \ meta[k].invalid
    /\ meta[j] = [meta[k] EXCEPT !.view = meta[k].view + 1, !.primary = j, !.invalid = {k}]

Agreement == \A j, k \in Managed : meta[j] = meta[k] \/ Forced(j, k) \/ Forced(k, j)

\* A server that replicates is a replica in the metadata of every server.
Replicas ==
    \A k \in Nodes : channel[k] = "running" =>
        /\ k \in meta[k].members /\ k # meta[k].primary
        /\ \A n \in Managed : meta[n] = meta[k]

\* What a session that has come so far has made sure of, and still holds.
Connected ==
    pc \in {"present", "adding", "rejoining", "considered", "planned", "tried", "moved"}
        => at \in Managed
Considered ==
    /\ pc \in {"adding", "rejoining"} => todo # {}
    /\ pc = "adding" => \A k \in Managed : Min(todo) \notin meta[k].members
    /\ pc = "rejoining" => /\ channel[Min(todo)] \in {"none", "stopped"}
                           /\ \A k \in Managed : Min(todo) \notin meta[k].invalid
Alone == pc = "nobody" => Managed \subseteq {at}
Counted ==
    /\ created <= runs
    /\ pc \in {"begun", "connected", "validated", "absent", "nobody"} => created < runs
Rehearsed ==
    /\ pc # "idle" /\ dry => action # "converge"
    /\ pc = "tried" => ~dry

IInv ==
    /\ TypeOK /\ WellFormed /\ Agreement /\ Replicas
    /\ Connected /\ Considered /\ Alone /\ Counted /\ Rehearsed

-----------------------------------------------------------------------------
(* What a session in check mode may do.                                    *)

LEMMA RehearsedInit == Init => Rehearsed
  BY DEF Init, Rehearsed

LEMMA RehearsedStep == Rehearsed /\ [Next]_vars => Rehearsed'
  <1> SUFFICES ASSUME Rehearsed, [Next]_vars PROVE Rehearsed'
    OBVIOUS
  <1>1. CASE Begin
    BY <1>1 DEF Begin, Request, Rehearsed, Actions
  <1>2. CASE Connect \/ ValidateConfigurations \/ Convergence \/ ReadAfter
    BY <1>2 DEF Connect, ValidateConfigurations, Convergence, Find, NobodyElse, Create,
       Consider, Add, AddDies, Rejoin, Settle, KeepAllowedHost, SetAllowedHost, ReadAfter,
       Reads, Changes, requestVars, Rehearsed
  <1>3. CASE Transition
    BY <1>3 DEF Transition, ReadBefore, DryRun, SetPrimary, SetPrimaryDies, ForcePrimary,
       Reads, Changes, requestVars, Rehearsed
  <1>4. CASE End
    BY <1>4 DEF End, Rehearsed, requestVars
  <1>5. CASE Environment
    BY <1>5 DEF Environment, ServerStops, ServerStarts, ReplicationEnds, ProtectionChanges,
       HostDrifts, Reinstalled, Fault, Unconnected, Rehearsed, requestVars
  <1>6. CASE UNCHANGED vars
    BY <1>6 DEF vars, requestVars, Rehearsed
  <1> QED
    BY <1>1, <1>2, <1>3, <1>4, <1>5, <1>6 DEF Next

-----------------------------------------------------------------------------
(* Facts about two servers, and about what a session reads of them.        *)

LEMMA Pair == ASSUME NEW p \in Nodes PROVE \E q \in Nodes : q # p /\ Nodes = {p, q}
  BY ReplicaSetAssumption

LEMMA MinIsIn == ASSUME NEW S \in SUBSET Nodes, S # {} PROVE Min(S) \in S
  <1>1. \E x \in S : \A y \in S : x <= y
    <2>1. PICK a, b \in Nodes : a # b /\ Nodes = {a, b}
      BY ReplicaSetAssumption
    <2>2. a \in Nat /\ b \in Nat
      BY ReplicaSetAssumption
    <2>3. CASE a \in S /\ (b \in S => a <= b)
      BY <2>1, <2>2, <2>3
    <2>4. CASE b \in S /\ (a \in S => b <= a)
      BY <2>1, <2>2, <2>4
    <2>5. a \in S \/ b \in S
      BY <2>1
    <2> QED
      BY <2>2, <2>3, <2>4, <2>5
  <1> QED
    BY <1>1 DEF Min

\* What a session keeps of the states it reads are readings.
Recorded == report \subseteq Readings /\ seen \subseteq Readings

LEMMA StateIsRead == State \subseteq Readings
  BY DEF State, Readings, OnlinePrimary, Reachable

\* How each kind of step keeps them.
Record ==
    \/ seen' = seen \cup State /\ report' \in {report, State}
    \/ seen' = {} /\ report' \in {report, {}}
    \/ UNCHANGED readVars

LEMMA RecordStep == [Next]_vars => Record
  <1> SUFFICES ASSUME [Next]_vars PROVE Record
    OBVIOUS
  <1>1. CASE UNCHANGED vars \/ Begin \/ End
    BY <1>1 DEF vars, readVars, Begin, Request, End, Record
  <1>2. CASE Connect \/ ValidateConfigurations \/ Find \/ NobodyElse \/ Consider \/ Settle
             \/ KeepAllowedHost \/ ReadBefore \/ DryRun \/ ReadAfter
    BY <1>2 DEF Connect, ValidateConfigurations, Find, NobodyElse, Consider, Settle,
       KeepAllowedHost, ReadBefore, DryRun, ReadAfter, Reads, Record
  <1>3. CASE Create \/ Add \/ AddDies \/ Rejoin \/ SetAllowedHost \/ SetPrimary
             \/ SetPrimaryDies \/ ForcePrimary
    BY <1>3 DEF Create, Add, AddDies, Rejoin, SetAllowedHost, SetPrimary, SetPrimaryDies,
       ForcePrimary, Changes, Record
  <1>4. CASE Environment
    BY <1>4 DEF Environment, ServerStops, ServerStarts, ReplicationEnds, ProtectionChanges,
       HostDrifts, Reinstalled, Fault, Record
  <1> QED
    BY <1>1, <1>2, <1>3, <1>4 DEF Next, Convergence, Transition

LEMMA RecordedStep == Recorded /\ [Next]_vars => Recorded'
  BY RecordStep, StateIsRead DEF Record, Recorded, readVars

\* The newest view in reach is the copy of a managed server.
LEMMA ViewIsACopy ==
    ASSUME TypeOK, WellFormed, at \in Managed, up[at]
    PROVE  \E m \in Managed : up[m] /\ View(at) = meta[m]
  <1> DEFINE same == {k \in Reachable : meta[k].id = meta[at].id}
             copies == {meta[n] : n \in same}
  <1>1. at \in same /\ same \subseteq Nodes
    BY DEF Managed, Reachable
  <1>2. \A k \in Nodes : meta[k].view \in Nat
    BY DEF TypeOK, Metadata
  <1>3. PICK q \in Nodes : q # at /\ Nodes = {at, q}
    BY Pair DEF Managed
  <1>4. \E x \in same : \A y \in same : meta[y].view <= meta[x].view
    <2>1. meta[at].view \in Nat /\ meta[q].view \in Nat
      BY <1>2, <1>3
    <2>2. CASE q \in same /\ meta[at].view <= meta[q].view
      BY <2>1, <2>2, <1>1, <1>3
    <2>3. CASE ~(q \in same /\ meta[at].view <= meta[q].view)
      BY <2>1, <2>3, <1>1, <1>3
    <2> QED
      BY <2>2, <2>3
  <1>5. \E v \in copies : \A w \in copies : w.view <= v.view
    BY <1>4
  <1>6. View(at) \in copies
    <2>1. View(at) = CHOOSE v \in copies : \A w \in copies : w.view <= v.view
      BY DEF View
    <2> HIDE DEF copies
    <2> QED
      BY <1>5, <2>1
  <1>7. PICK m \in same : View(at) = meta[m]
    BY <1>6
  <1>8. meta[m].id # 0 /\ m \in Nodes /\ up[m]
    BY <1>1, <1>7 DEF WellFormed, Reachable
  <1>9. m \in Managed
    BY <1>8 DEF Managed, NoMeta
  <1> QED
    BY <1>7, <1>8, <1>9

\* A view that a server can hold.
Sound(v) ==
    /\ v \in Metadata /\ v.id # 0 /\ v.invalid \subseteq v.members
    /\ v.primary \in v.members \ v.invalid

LEMMA CopiesAreSound ==
    ASSUME TypeOK, WellFormed, NEW n \in Managed
    PROVE  n \in Nodes /\ Sound(meta[n])
  BY DEF TypeOK, WellFormed, Managed, Sound

LEMMA OnlineMeans ==
    ASSUME TypeOK, NEW v, Sound(v), NEW n \in Nodes, Status(v, n) = "ONLINE"
    PROVE  n \in v.members \ v.invalid /\ up[n]
  BY DEF TypeOK, Status, Channels, Sound

LEMMA AbsentMeans ==
    ASSUME TypeOK, NEW v, Sound(v), NEW n \in Nodes
    PROVE  Status(v, n) = "ABSENT" <=> n \notin v.members
  BY DEF TypeOK, Status, Channels, Sound

LEMMA OfflineMeans ==
    ASSUME TypeOK, NEW v, Sound(v), NEW n \in Nodes, Status(v, n) = "OFFLINE"
    PROVE  /\ n \in v.members \ v.invalid /\ up[n] /\ n # v.primary
           /\ channel[n] \in {"none", "stopped"}
  BY DEF TypeOK, Status, Channels, Sound

\* What the two servers hold differs in nothing but the primary.
LEMMA SameMembers ==
    ASSUME TypeOK, Agreement, NEW j \in Managed, NEW k \in Managed
    PROVE  meta[j].members = meta[k].members /\ meta[j].id = meta[k].id
  <1>1. meta[j] \in Metadata /\ meta[k] \in Metadata
    BY DEF TypeOK, Managed
  <1>2. meta[j] = meta[k] \/ Forced(j, k) \/ Forced(k, j)
    BY DEF Agreement
  <1>3. CASE Forced(j, k)
    BY <1>1, <1>3 DEF Forced, Metadata
  <1>4. CASE Forced(k, j)
    BY <1>1, <1>4 DEF Forced, Metadata
  <1> QED
    BY <1>2, <1>3, <1>4

-----------------------------------------------------------------------------
(* What the servers hold, step by step.                                    *)

Held == WellFormed /\ Agreement /\ Replicas

\* The servers hold what they held.
LEMMA HeldUnchanged ==
    ASSUME Held, UNCHANGED meta,
           \A k \in Nodes : channel'[k] = "running" => channel[k] = "running"
    PROVE  Held'
  <1>1. WellFormed'
    BY DEF Held, WellFormed, Managed
  <1>2. Agreement'
    BY DEF Held, Agreement, Forced, Managed
  <1>3. Replicas'
    BY DEF Held, Replicas, Managed
  <1> QED
    BY <1>1, <1>2, <1>3 DEF Held

\* Everyone receives a view w.
LEMMA HeldByAll ==
    ASSUME NEW w, Sound(w), meta' = [k \in Nodes |-> w],
           \A k \in Nodes : channel'[k] = "running" => k \in w.members /\ k # w.primary
    PROVE  Held' /\ Managed' = Nodes
  <1>1. w # NoMeta
    BY DEF Sound, NoMeta
  <1>2. Managed' = Nodes
    BY <1>1 DEF Managed
  <1>3. WellFormed' /\ Agreement' /\ Replicas'
    BY <1>2 DEF WellFormed, Agreement, Replicas, Sound, Managed
  <1> QED
    BY <1>2, <1>3 DEF Held

\* A member that joins, and the primary it joins, are all there is.
LEMMA JoinReachesAll ==
    ASSUME TypeOK, Held, up[at], NEW n \in Nodes, Joins(View(at), n)
    PROVE  \E w : /\ Sound(w) /\ meta' = [k \in Nodes |-> w]
                  /\ channel' = [channel EXCEPT ![n] = "running"]
                  /\ \A k \in Nodes : channel'[k] = "running" =>
                                          k \in w.members /\ k # w.primary
  <1> DEFINE v == View(at)
             w == [v EXCEPT !.view = v.view + 1, !.members = v.members \cup {n},
                            !.invalid = v.invalid \ {n}]
             links == [channel EXCEPT ![n] = "running"]
  <1>1. at \in Managed /\ up[v.primary] /\ up[n] /\ n # v.primary /\ Publish(w, links)
    BY DEF Joins
  <1>2. PICK m \in Managed : up[m] /\ View(at) = meta[m]
    BY <1>1, ViewIsACopy DEF Held
  <1>3. Sound(v)
    BY <1>2, CopiesAreSound DEF Held
  <1>4. Sound(w) /\ w.primary = v.primary /\ n \in w.members \ w.invalid /\ v.primary \in Nodes
        /\ v.members \subseteq w.members /\ w.primary \in w.members \ w.invalid
    <2> HIDE DEF v
    <2>1. /\ v \in Metadata /\ v.id # 0 /\ v.invalid \subseteq v.members
          /\ v.primary \in v.members \ v.invalid
      BY <1>3 DEF Sound
    <2>2. v.view + 1 \in Nat /\ v.members \subseteq Nodes /\ v.invalid \subseteq Nodes
      BY <2>1 DEF Metadata
    <2>3. w \in Metadata
      BY <2>1, <2>2 DEF Metadata
    <2>4. /\ w.id = v.id /\ w.primary = v.primary /\ w.members = v.members \cup {n}
          /\ w.invalid = v.invalid \ {n}
      BY <2>1 DEF Metadata
    <2> HIDE DEF w
    <2> QED
      BY <1>1, <2>1, <2>2, <2>3, <2>4 DEF Sound
  <1>5. Nodes = {n, v.primary}
    BY <1>1, <1>4, Pair
  <1>6. links[n] = "running" /\ channel' = links
    BY <1>1 DEF TypeOK, Publish
  <1>7. meta' = [k \in Nodes |-> w]
    <2> DEFINE receive == {k \in w.members \ w.invalid :
                              up[k] /\ (k = w.primary \/ links[k] = "running")}
    <2>1. n \in receive /\ v.primary \in receive
      BY <1>1, <1>4, <1>6
    <2>2. Nodes \subseteq receive
      BY <2>1, <1>5
    <2>3. meta' = [k \in Nodes |-> IF k \in receive THEN w ELSE meta[k]]
      BY <1>1 DEF Publish
    <2> HIDE DEF receive, w
    <2> QED
      BY <2>2, <2>3
  <1>8. channel[v.primary] # "running"
    BY <1>2, <1>4 DEF Held, Replicas
  <1>9. \A k \in Nodes : links[k] = "running" => k \in w.members /\ k # w.primary
    <2> HIDE DEF v, w
    <2> QED
      BY <1>1, <1>4, <1>5, <1>8 DEF TypeOK
  <1> HIDE DEF w, links
  <1> QED
    BY <1>4, <1>6, <1>7, <1>9 DEF links

\* A planned switchover reaches the pair.
LEMMA SwitchoverReachesAll ==
    ASSUME TypeOK, Held, Connected, SetPrimary
    PROVE  \E w : /\ Sound(w) /\ meta' = [k \in Nodes |-> w]
                  /\ channel' = [n \in Nodes |-> IF n = target THEN "none" ELSE "running"]
                  /\ \A k \in Nodes : channel'[k] = "running" =>
                                          k \in w.members /\ k # w.primary
  <1> DEFINE v == View(at)
             w == [v EXCEPT !.view = v.view + 1, !.primary = target]
             links == [n \in Nodes |-> IF n = target THEN "none" ELSE "running"]
  <1>1. Permits(v) /\ OnlinePair(v) /\ pc = "tried" /\ Publish(w, links)
    BY DEF SetPrimary, Permits, Changes
  <1>2. at \in Managed /\ up[at]
    BY <1>1 DEF Connected, TypeOK, Unconnected
  <1>3. PICK m \in Managed : up[m] /\ View(at) = meta[m]
    BY <1>2, ViewIsACopy DEF Held
  <1>4. Sound(v)
    BY <1>3, CopiesAreSound DEF Held
  <1> HIDE DEF v
  <1>5. \A k \in Nodes : k \in v.members \ v.invalid /\ up[k]
    <2> SUFFICES ASSUME NEW k \in Nodes PROVE k \in v.members \ v.invalid /\ up[k]
      OBVIOUS
    <2>1. Status(v, k) = "ONLINE"
      BY <1>1 DEF OnlinePair
    <2> QED
      BY <2>1, <1>4, OnlineMeans
  <1>6. v \in Metadata /\ v.id # 0 /\ v.view \in Nat /\ v.view + 1 \in Nat /\ target \in Nodes
    BY <1>4 DEF Sound, Metadata, TypeOK
  <1>7. w \in Metadata
    BY <1>6 DEF Metadata
  <1>8. /\ w.id = v.id /\ w.primary = target /\ w.members = v.members
        /\ w.invalid = v.invalid
    BY <1>6 DEF Metadata
  <1>9. Sound(w) /\ \A k \in Nodes : k \in w.members \ w.invalid
    <2> HIDE DEF w
    <2> QED
      BY <1>4, <1>5, <1>6, <1>7, <1>8 DEF Sound
  <1>10. meta' = [k \in Nodes |-> w]
    <2> DEFINE receive == {k \in w.members \ w.invalid :
                              up[k] /\ (k = w.primary \/ links[k] = "running")}
    <2>1. Nodes \subseteq receive
      <3> HIDE DEF w
      <3> QED
        BY <1>5, <1>8, <1>9
    <2>2. meta' = [k \in Nodes |-> IF k \in receive THEN w ELSE meta[k]]
      BY <1>1 DEF Publish
    <2> HIDE DEF receive, w
    <2> QED
      BY <2>1, <2>2
  <1>11. channel' = links
    BY <1>1 DEF Publish
  <1> HIDE DEF w
  <1>12. \A k \in Nodes : links[k] = "running" => k \in w.members /\ k # w.primary
    BY <1>8, <1>9
  <1> QED
    BY <1>9, <1>10, <1>11, <1>12

\* A failover leaves the old primary behind, with the view it was forced from.
LEMMA FailoverForces ==
    ASSUME TypeOK, Held, Connected, ForcePrimary
    PROVE  Held' /\ target \in Managed' /\ meta'[target] \in Metadata /\ at = target
           /\ (\A k \in Nodes \ {target} : meta'[k] = meta[k])
           /\ channel' = [channel EXCEPT ![target] = "none"]
           /\ meta' \in [Nodes -> Metadata]
           /\ Sound(meta'[target])
  <1> DEFINE v == View(at)
             w == [v EXCEPT !.view = v.view + 1, !.primary = target,
                            !.invalid = v.invalid \cup {n \in v.members : ~up[n]}]
             links == [channel EXCEPT ![target] = "none"]
             p == v.primary
  <1>1. /\ Permits(v) /\ ~up[p] /\ pc = "tried" /\ Publish(w, links)
        /\ target \in v.members \ v.invalid /\ target # p
        /\ up[target] /\ channel[target] = "running"
    BY DEF ForcePrimary, Permits, Changes
  <1>2. at \in Managed /\ up[at]
    BY <1>1 DEF Connected, TypeOK, Unconnected
  <1>3. PICK m \in Managed : up[m] /\ View(at) = meta[m]
    BY <1>2, ViewIsACopy DEF Held
  <1>4. Sound(v)
    BY <1>3, CopiesAreSound DEF Held
  <1>5. meta[target] = v /\ \A n \in Managed : meta[n] = v
    BY <1>1, <1>3 DEF Held, Replicas, TypeOK
  <1> HIDE DEF v
  <1>6. /\ v \in Metadata /\ v.id # 0 /\ v.view \in Nat /\ v.view + 1 \in Nat
        /\ target \in Nodes /\ p \in Nodes /\ v.members \subseteq Nodes
        /\ p \in v.members \ v.invalid /\ v.invalid \subseteq v.members
    BY <1>4 DEF Sound, Metadata, TypeOK
  <1>7. Nodes = {target, p}
    BY <1>1, <1>6, Pair
  <1>8. v.invalid \cup {n \in v.members : ~up[n]} = {p}
    BY <1>1, <1>6, <1>7
  <1>9. w = [v EXCEPT !.view = v.view + 1, !.primary = target, !.invalid = {p}]
    BY <1>8
  <1>10. w \in Metadata
    BY <1>6, <1>9 DEF Metadata
  <1>11. /\ w.id = v.id /\ w.primary = target /\ w.members = v.members
         /\ w.invalid = {p} /\ w.view = v.view + 1
    BY <1>6, <1>9 DEF Metadata
  <1>12. Sound(w)
    <2> HIDE DEF w
    <2> QED
      BY <1>1, <1>6, <1>10, <1>11 DEF Sound
  <1>13. meta' = [k \in Nodes |-> IF k = target THEN w ELSE meta[k]]
    <2> DEFINE receive == {k \in w.members \ w.invalid :
                              up[k] /\ (k = w.primary \/ links[k] = "running")}
    <2>1. \A k \in Nodes : k \in receive <=> k = target
      <3> HIDE DEF w
      <3> QED
        BY <1>1, <1>6, <1>7, <1>11
    <2>2. meta' = [k \in Nodes |-> IF k \in receive THEN w ELSE meta[k]]
      BY <1>1 DEF Publish
    <2> HIDE DEF receive, w
    <2> QED
      BY <2>1, <2>2
  <1>14. channel' = links
    BY <1>1 DEF Publish
  <1>15. meta'[target] = w /\ meta'[p] = meta[p] /\ channel'[target] = "none"
         /\ channel'[p] = channel[p]
    BY <1>1, <1>6, <1>13, <1>14 DEF TypeOK
  <1>16. Managed' = {target} \cup (Managed \cap {p})
    <2>1. w # NoMeta
      BY <1>12 DEF Sound, NoMeta
    <2> HIDE DEF w
    <2> QED
      BY <2>1, <1>7, <1>15 DEF Managed
  <1>17. channel[p] # "running"
    BY <1>3, <1>6 DEF Held, Replicas, v
  <1>18. p \in Managed => meta[p] = v
    BY <1>5
  <1>19. WellFormed'
    <2> HIDE DEF w
    <2> QED
      BY <1>12, <1>15, <1>16, <1>18, <1>4 DEF WellFormed, Sound
  <1>20. PICK t, q \in Nodes : t = target /\ q = p
    BY <1>6
  <1>21. q \in Managed => Forced(t, q)'
    <2> SUFFICES ASSUME q \in Managed PROVE Forced(t, q)'
      OBVIOUS
    <2>1. meta'[q] = v /\ v.primary = q /\ meta'[t] = w
      BY <1>15, <1>18, <1>20
    <2>2. meta'[t] = [v EXCEPT !.view = v.view + 1, !.primary = t, !.invalid = {q}]
      BY <1>9, <1>20, <2>1
    <2>3. t \in v.members \ v.invalid
      BY <1>1, <1>20
    <2> QED
      BY <2>1, <2>2, <2>3 DEF Forced
  <1>22. Agreement'
    <2>1. Managed' \subseteq {t} \cup (Managed \cap {q})
      BY <1>16, <1>20
    <2> QED
      BY <2>1, <1>21 DEF Agreement
  <1>23. Replicas'
    <2>1. \A k \in Nodes : channel'[k] # "running"
      BY <1>7, <1>15, <1>17
    <2> QED
      BY <2>1 DEF Replicas
  <1>24. meta' \in [Nodes -> Metadata]
    <2> HIDE DEF w
    <2> QED
      BY <1>10, <1>13 DEF TypeOK
  <1>25. at = target
    BY <1>1, <1>2, <1>6, <1>7 DEF Managed
  <1> HIDE DEF w, p
  <1> QED
    BY <1>10, <1>12, <1>13, <1>14, <1>15, <1>16, <1>19, <1>22, <1>23, <1>24, <1>25 DEF Held

\* A server that replicates is managed.
LEMMA RunningIsManaged ==
    ASSUME Held, NEW k \in Nodes, channel[k] = "running"
    PROVE  k \in Managed
  BY DEF Held, Replicas, Managed, NoMeta

\* The first ReplicaSet is the only one.
LEMMA CreateHolds ==
    ASSUME IInv, Create
    PROVE  Held' /\ at \in Managed' /\ meta' \in [Nodes -> Metadata] /\ created' \in 0..MaxRuns
           /\ created' <= runs /\ Sound(meta'[at]) /\ Managed' = {at}
  <1> DEFINE w == [id |-> created', view |-> 1, primary |-> at, members |-> {at}, invalid |-> {}]
  <1>1. pc = "nobody" /\ at \notin Managed /\ at \in Nodes /\ Managed = {}
    BY DEF Create, Changes, IInv, TypeOK, Unconnected, Alone
  <1>2. /\ created' = created + 1 /\ created \in Nat /\ created < runs /\ runs \in Nat
        /\ runs <= MaxRuns /\ MaxRuns \in Nat
    BY <1>1, ReplicaSetAssumption DEF Create, IInv, TypeOK, Counted
  <1>3. created' \in 1..MaxRuns /\ created' <= runs
    BY <1>2
  <1>4. Sound(w)
    BY <1>1, <1>3 DEF Sound, Metadata
  <1>5. meta' = [meta EXCEPT ![at] = w] /\ channel' = channel
    BY DEF Create
  <1>6. \A k \in Nodes : meta[k] = NoMeta
    BY <1>1 DEF Managed
  <1> HIDE DEF w
  <1>7. w # NoMeta
    BY <1>4 DEF Sound, NoMeta
  <1>8. meta'[at] = w /\ \A k \in Nodes \ {at} : meta'[k] = NoMeta
    BY <1>1, <1>5, <1>6 DEF IInv, TypeOK
  <1>9. Managed' = {at}
    BY <1>1, <1>7, <1>8 DEF Managed
  <1>10. WellFormed' /\ Agreement'
    BY <1>4, <1>8, <1>9 DEF WellFormed, Agreement, Sound
  <1>11. Replicas'
    <2>1. \A k \in Nodes : channel[k] # "running"
      BY <1>1, RunningIsManaged DEF IInv, Held
    <2> QED
      BY <2>1, <1>5 DEF Replicas
  <1>12. meta' \in [Nodes -> Metadata]
    BY <1>4, <1>5 DEF Sound, IInv, TypeOK
  <1> QED
    BY <1>3, <1>4, <1>8, <1>9, <1>10, <1>11, <1>12 DEF Held

\* A clone that is never added holds what the primary holds.
LEMMA CloneHolds ==
    ASSUME IInv, AddDies
    PROVE  Held' /\ meta' \in [Nodes -> Metadata] /\ WellFormed'
  <1> DEFINE v == View(at)  n == Min(todo)  p == v.primary
  <1>1. /\ pc = "adding" /\ n \notin meta[n].members /\ up[p] /\ up[n]
        /\ meta' = [meta EXCEPT ![n] = v] /\ channel' = channel
    BY DEF AddDies, Changes
  <1>2. at \in Managed /\ up[at] /\ n \in Nodes /\ \A k \in Managed : n \notin meta[k].members
    BY <1>1, MinIsIn DEF IInv, TypeOK, Unconnected, Connected, Considered
  <1>3. PICK m \in Managed : up[m] /\ v = meta[m]
    BY <1>2, ViewIsACopy DEF IInv
  <1>4. Sound(v)
    BY <1>3, CopiesAreSound DEF IInv
  <1>5. n \notin v.members
    BY <1>2, <1>3
  <1>6. PICK j, q \in Nodes : j = n /\ q = p
    BY <1>2, <1>4 DEF Sound, Metadata, NoMeta
  <1>7. j # q /\ Nodes = {j, q}
    BY <1>4, <1>5, <1>6, Pair DEF Sound
  <1>8. /\ meta'[j] = v /\ meta'[q] = meta[q] /\ v # NoMeta
    BY <1>1, <1>4, <1>6, <1>7 DEF IInv, TypeOK, Sound, NoMeta
  <1>9. j \in Managed' /\ Managed' \subseteq {j} \cup (Managed \cap {q})
    BY <1>7, <1>8 DEF Managed
  <1>10. \A k \in Nodes : channel[k] # "running"
    <2>1. channel[j] # "running"
      BY <1>2, <1>6, RunningIsManaged DEF IInv, Replicas, Held
    <2>2. channel[q] # "running"
      BY <1>3, <1>6 DEF IInv, Replicas
    <2> QED
      BY <2>1, <2>2, <1>7
  <1>11. Replicas'
    BY <1>1, <1>10 DEF Replicas
  <1>12. m \in {j, q}
    BY <1>3, <1>7 DEF Managed
  <1>13. WellFormed'
    BY <1>4, <1>8, <1>9 DEF WellFormed, Sound, IInv
  <1>14. q \in Managed => meta[q] = v \/ (m = j /\ meta[j] = v)
    BY <1>3, <1>12
  <1>15. Agreement'
    <2>1. CASE m = q
      BY <2>1, <1>3, <1>8, <1>9 DEF Agreement
    <2>2. CASE m = j
      <3>1. meta' = meta
        BY <2>2, <1>1, <1>3, <1>6 DEF IInv, TypeOK
      <3> QED
        BY <3>1 DEF IInv, Agreement, Forced, Managed
    <2> QED
      BY <2>1, <2>2, <1>12
  <1>16. meta' \in [Nodes -> Metadata]
    BY <1>1, <1>4 DEF Sound, IInv, TypeOK
  <1> QED
    BY <1>11, <1>13, <1>15, <1>16 DEF Held

\* A server that is installed anew knows nothing and replicates nothing.
LEMMA ReinstallHolds ==
    ASSUME IInv, Reinstalled
    PROVE  Held' /\ meta' \in [Nodes -> Metadata] /\ channel' \in [Nodes -> Channels]
           /\ writable' \in [Nodes -> BOOLEAN] /\ Managed' \subseteq Managed
           /\ \A k \in Managed' : meta'[k] = meta[k]
  <1>1. PICK n \in Reachable :
            /\ meta' = [meta EXCEPT ![n] = NoMeta]
            /\ writable' = [writable EXCEPT ![n] = TRUE]
            /\ channel' = [channel EXCEPT ![n] = "none"]
    BY DEF Reinstalled
  <1>2. n \in Nodes /\ NoMeta \in Metadata
    BY ReplicaSetAssumption DEF Reachable, NoMeta, Metadata
  <1>3. Managed' \subseteq Managed \ {n} /\ \A k \in Nodes \ {n} : meta'[k] = meta[k]
    BY <1>1, <1>2 DEF Managed, IInv, TypeOK
  <1>4. \A k \in Nodes : channel'[k] = "running" => k # n /\ channel[k] = "running"
    BY <1>1, <1>2 DEF IInv, TypeOK
  <1>5. WellFormed'
    BY <1>3 DEF WellFormed, IInv, Managed
  <1>6. Agreement'
    <2>1. SUFFICES ASSUME NEW j \in Managed', NEW k \in Managed' PROVE meta'[j] = meta'[k]
      BY DEF Agreement
    <2>2. PICK q \in Nodes : q # n /\ Nodes = {n, q}
      BY <1>2, Pair
    <2>3. j = q /\ k = q
      BY <2>2, <1>3 DEF Managed
    <2> QED
      BY <2>3
  <1>7. Replicas'
    BY <1>3, <1>4 DEF Replicas, IInv, Managed
  <1>8. /\ meta' \in [Nodes -> Metadata] /\ channel' \in [Nodes -> Channels]
        /\ writable' \in [Nodes -> BOOLEAN]
    BY <1>1, <1>2 DEF IInv, TypeOK, Channels
  <1> QED
    BY <1>3, <1>5, <1>6, <1>7, <1>8 DEF Held, Managed

-----------------------------------------------------------------------------
(* The invariant, step by step.                                            *)

LEMMA InitHolds == Init => IInv
  <1> SUFFICES ASSUME Init PROVE IInv
    OBVIOUS
  <1>1. NoMeta \in Metadata /\ Managed = {}
    BY ReplicaSetAssumption DEF Init, NoMeta, Metadata, Managed
  <1>2. TypeOK
    <2>1. /\ up \in [Nodes -> BOOLEAN] /\ writable \in [Nodes -> BOOLEAN]
          /\ meta \in [Nodes -> Metadata] /\ channel \in [Nodes -> Channels]
      BY <1>1 DEF Init, Channels
    <2>2. created \in 0..MaxRuns /\ runs \in 0..MaxRuns /\ faults \in 0..MaxFaults
      BY ReplicaSetAssumption DEF Init
    <2>3. \A n \in Nodes : meta[n] = NoMeta
      BY DEF Init
    <2>4. target \in Nodes /\ dry \in BOOLEAN /\ todo \subseteq Nodes
      BY ReplicaSetAssumption DEF Init
    <2> QED
      BY <2>1, <2>2, <2>3, <2>4 DEF Init, TypeOK, Unconnected, Actions
  <1>3. WellFormed /\ Agreement /\ Replicas
    BY <1>1 DEF Init, WellFormed, Agreement, Replicas
  <1>4. Connected /\ Considered /\ Alone /\ Counted
    BY DEF Init, Connected, Considered, Alone, Counted
  <1> QED
    BY <1>2, <1>3, <1>4, RehearsedInit DEF IInv

\* Requests and reports.
LEMMA RequestStep ==
    ASSUME IInv, Begin \/ End
    PROVE  IInv'
  <1>0. Recorded'
    BY RecordedStep DEF Recorded, IInv, TypeOK, Next
  <1>1. UNCHANGED serverVars /\ pc' \in {"begun", "idle"}
    BY DEF Begin, End, Request
  <1>2. Held'
    BY <1>1, HeldUnchanged DEF IInv, Held, serverVars
  <1>3. TypeOK'
    <2>1. CASE Begin
      <3>1. PICK a \in Actions, checkMode \in BOOLEAN : Request(a, checkMode)
        BY <2>1 DEF Begin, Actions
      <3>2. runs' \in 0..MaxRuns
        BY <3>1, ReplicaSetAssumption DEF Request, IInv, TypeOK
      <3>3. target' \in Nodes /\ action' \in Actions /\ dry' \in BOOLEAN
        BY <3>1, ReplicaSetAssumption DEF Request
      <3> QED
        BY <1>0, <3>1, <3>2, <3>3 DEF Recorded, Request, IInv, TypeOK, serverVars, Unconnected
    <2>2. CASE End
      BY <1>0, <2>2 DEF Recorded, End, requestVars, serverVars, IInv, TypeOK, Unconnected
    <2> QED
      BY <2>1, <2>2
  <1>4. Connected' /\ Considered' /\ Alone'
    BY <1>1 DEF Connected, Considered, Alone
  <1>5. Counted'
    BY <1>1 DEF Begin, Request, End, serverVars, Counted, IInv, TypeOK
  <1>6. Rehearsed'
    BY RehearsedStep DEF IInv, Next
  <1> QED
    BY <1>2, <1>3, <1>4, <1>5, <1>6 DEF IInv, Held

\* Steps that read, but for those that consider an instance.
Reading ==
    \/ Connect \/ ValidateConfigurations \/ Find \/ NobodyElse \/ Settle
    \/ KeepAllowedHost \/ ReadBefore \/ DryRun \/ ReadAfter

LEMMA ReadingStep ==
    ASSUME IInv, Reading
    PROVE  IInv'
  <1>0. Recorded'
    BY RecordedStep DEF Recorded, IInv, TypeOK, Reading, Next, Convergence, Transition
  <1>1. UNCHANGED <<serverVars, runs, faults, requestVars>> /\ pc' \notin {"adding", "rejoining", "idle", "begun"}
        /\ todo' \subseteq Nodes
    BY DEF Reading, Connect, ValidateConfigurations, Find, NobodyElse, Settle, KeepAllowedHost,
       ReadBefore, DryRun, ReadAfter, Reads, IInv, TypeOK
  <1>2. Held'
    BY <1>1, HeldUnchanged DEF IInv, Held, serverVars
  <1>3. at' \in Nodes /\ up[at']
    <2>1. CASE Connect
      BY <2>1 DEF Connect, Reachable
    <2>2. CASE ~Connect
      <3>1. pc \notin Unconnected /\ at' = at
        BY <2>2 DEF Reading, ValidateConfigurations, Find, NobodyElse, Settle, KeepAllowedHost,
           ReadBefore, DryRun, ReadAfter, Reads, Unconnected
      <3> QED
        BY <3>1 DEF IInv, TypeOK
    <2> QED
      BY <2>1, <2>2
  <1>4. pc' \in {"connected", "validated", "absent", "nobody", "present", "considered",
                 "planned", "tried", "moved", "done"}
    BY DEF Reading, Connect, ValidateConfigurations, Find, NobodyElse, Settle, KeepAllowedHost,
       ReadBefore, DryRun, ReadAfter, Reads
  <1>5. TypeOK'
    BY <1>0, <1>1, <1>3, <1>4, ReplicaSetAssumption
    DEF Recorded, IInv, TypeOK, serverVars, requestVars, Unconnected
  <1>6. Connected'
    <2>1. pc' \in {"present", "considered", "planned", "tried", "moved"} => at' = at /\ at \in Managed
      BY DEF Reading, Connect, ValidateConfigurations, Find, NobodyElse, Settle, KeepAllowedHost,
         ReadBefore, DryRun, ReadAfter, Reads, IInv, Connected
    <2>2. Managed' = Managed
      BY <1>1 DEF Managed, serverVars
    <2> QED
      BY <1>4, <2>1, <2>2 DEF Connected
  <1>7. Considered'
    BY <1>4 DEF Considered
  <1>8. Alone'
    <2>1. pc' = "nobody" => NobodyElse
      BY DEF Reading, Connect, ValidateConfigurations, Find, NobodyElse, Settle, KeepAllowedHost,
         ReadBefore, DryRun, ReadAfter, Reads
    <2> QED
      BY <1>1, <2>1 DEF Alone, NobodyElse, Managed, serverVars
  <1>9. Counted'
    <2>1. pc' \in {"connected", "validated", "absent", "nobody"} =>
              pc \in {"begun", "connected", "validated", "absent"}
      BY DEF Reading, Connect, ValidateConfigurations, Find, NobodyElse, Settle, KeepAllowedHost,
         ReadBefore, DryRun, ReadAfter, Reads
    <2> QED
      BY <1>1, <1>4, <2>1 DEF serverVars, IInv, Counted
  <1>10. Rehearsed'
    BY RehearsedStep DEF IInv, Reading, Next, Convergence, Transition
  <1> QED
    BY <1>2, <1>5, <1>6, <1>7, <1>8, <1>9, <1>10 DEF IInv, Held

\* An instance that is found absent is no member anywhere; one that is found
\* offline is valid to everyone, whoever was forced to take over.
LEMMA ConsiderStep ==
    ASSUME IInv, Consider
    PROVE  IInv'
  <1>0. Recorded'
    BY RecordedStep DEF Recorded, IInv, TypeOK, Next, Convergence
  <1> DEFINE v == View(at)  n == Min(todo)  s == Status(v, n)
  <1>1. /\ pc = "present" /\ todo # {} /\ s \in {"ABSENT", "OFFLINE", "ONLINE"}
        /\ action = "converge" /\ at' = at
        /\ pc' = (CASE s = "ABSENT" -> "adding" [] s = "OFFLINE" -> "rejoining"
                     [] s = "ONLINE" -> "present")
        /\ todo' = (IF s = "ONLINE" THEN todo \ {n} ELSE todo)
        /\ UNCHANGED <<serverVars, runs, faults, requestVars>>
    BY DEF Consider, Reads
  <1>2. n \in Nodes /\ at \in Managed /\ up[at]
    BY <1>1, MinIsIn DEF IInv, TypeOK, Unconnected, Connected
  <1>3. PICK m \in Managed : up[m] /\ v = meta[m]
    BY <1>2, ViewIsACopy DEF IInv
  <1>4. Sound(v)
    BY <1>3, CopiesAreSound DEF IInv
  <1>5. Held'
    BY <1>1, HeldUnchanged DEF IInv, Held, serverVars
  <1>6. Managed' = Managed /\ at' = at
    BY <1>1 DEF Managed, serverVars
  <1>7. s = "ABSENT" => \A k \in Managed : n \notin meta[k].members
    BY <1>2, <1>3, <1>4, AbsentMeans, SameMembers DEF IInv
  <1>8. s = "OFFLINE" => n # v.primary /\ channel[n] \in {"none", "stopped"} /\ n \notin v.invalid
                         /\ n \in v.members
    BY <1>2, <1>4, OfflineMeans DEF IInv
  <1>9. s = "OFFLINE" => \A k \in Managed : n \notin meta[k].invalid
    <2> SUFFICES ASSUME s = "OFFLINE", NEW k \in Managed PROVE n \notin meta[k].invalid
      OBVIOUS
    <2>1. meta[m] = meta[k] \/ Forced(m, k) \/ Forced(k, m)
      BY <1>3 DEF IInv, Agreement
    <2>2. CASE meta[m] = meta[k]
      BY <2>2, <1>3, <1>8
    <2>3. CASE Forced(m, k)
      <3>1. meta[k].primary = k /\ m \in meta[k].members \ meta[k].invalid
            /\ meta[m].invalid = {k} /\ k \in Nodes /\ m \in Nodes
        BY <2>3 DEF Forced, Managed, IInv, TypeOK, Metadata
      <3>2. k # m
        BY <3>1, CopiesAreSound DEF IInv, Sound
      <3>3. n = m
        BY <3>1, <3>2, <1>2, <1>3, <1>8, Pair
      <3> QED
        BY <3>1, <3>3
    <2>4. CASE Forced(k, m)
      <3>1. meta[m].primary = m /\ meta[k].invalid = {m}
        BY <2>4, <1>3 DEF Forced, Managed, IInv, TypeOK, Metadata
      <3> QED
        BY <3>1, <1>3, <1>8
    <2> QED
      BY <2>1, <2>2, <2>3, <2>4
  <1> HIDE DEF s
  <1>10. /\ pc' \in {"adding", "rejoining", "present"}
         /\ pc' = "adding" => s = "ABSENT"
         /\ pc' = "rejoining" => s = "OFFLINE"
    BY <1>1
  <1>11. pc' \in {"adding", "rejoining"} => todo' = todo
    BY <1>1, <1>10
  <1>12. Considered'
    BY <1>1, <1>6, <1>7, <1>8, <1>9, <1>10, <1>11 DEF Considered, serverVars
  <1>13. TypeOK'
    BY <1>0, <1>1, <1>10 DEF Recorded, IInv, TypeOK, serverVars, requestVars, Unconnected
  <1>14. Connected' /\ Alone' /\ Counted'
    BY <1>1, <1>2, <1>6, <1>10 DEF Connected, Alone, Counted, IInv, serverVars
  <1>15. Rehearsed'
    BY RehearsedStep DEF IInv, Next, Convergence
  <1> QED
    BY <1>5, <1>12, <1>13, <1>14, <1>15 DEF IInv, Held

LEMMA JoinStep ==
    ASSUME IInv, Add \/ Rejoin
    PROVE  IInv'
  <1>0. Recorded'
    BY RecordedStep DEF Recorded, IInv, TypeOK, Next, Convergence
  <1> DEFINE n == Min(todo)
  <1>1. /\ pc \in {"adding", "rejoining"} /\ pc' = "present"
        /\ UNCHANGED <<up, runs, faults, requestVars, at>>
        /\ Joins(View(at), n) /\ todo' = todo \ {n}
    BY DEF Add, Rejoin, Changes
  <1>2. n \in Nodes /\ at \in Managed /\ up[at]
    BY <1>1, MinIsIn DEF IInv, TypeOK, Unconnected, Connected, Considered
  <1> HIDE DEF n
  <1>3. PICK w : /\ Sound(w) /\ meta' = [k \in Nodes |-> w]
                 /\ channel' = [channel EXCEPT ![n] = "running"]
                 /\ \A k \in Nodes : channel'[k] = "running" =>
                                         k \in w.members /\ k # w.primary
    BY <1>1, <1>2, JoinReachesAll DEF IInv, Held
  <1>4. Held' /\ Managed' = Nodes
    BY <1>3, HeldByAll
  <1>5. TypeOK'
    <2>1. meta' \in [Nodes -> Metadata] /\ channel' \in [Nodes -> Channels]
      BY <1>3 DEF IInv, TypeOK, Sound, Channels
    <2>2. writable' \in [Nodes -> BOOLEAN] /\ UNCHANGED <<created, allowedHost>>
      BY <1>1 DEF Joins, IInv, TypeOK
    <2>3. \A k \in Nodes : meta'[k].primary \in meta'[k].members
      BY <1>3 DEF Sound
    <2> QED
      BY <1>0, <1>1, <2>1, <2>2, <2>3 DEF Recorded, IInv, TypeOK, requestVars, Unconnected
  <1>6. Connected' /\ Considered' /\ Alone' /\ Counted'
    BY <1>1, <1>2, <1>4 DEF Connected, Considered, Alone, Counted, IInv, Joins, Managed
  <1>7. Rehearsed'
    BY RehearsedStep DEF IInv, Next, Convergence
  <1> QED
    BY <1>4, <1>5, <1>6, <1>7 DEF IInv, Held

LEMMA CreateStep ==
    ASSUME IInv, Create
    PROVE  IInv'
  <1>0. Recorded'
    BY RecordedStep DEF Recorded, IInv, TypeOK, Next, Convergence
  <1>1. /\ pc = "nobody" /\ pc' = "present"
        /\ UNCHANGED <<up, runs, faults, requestVars, at, channel, todo>>
        /\ allowedHost' = "desired" /\ writable' = [writable EXCEPT ![at] = TRUE]
    BY DEF Create, Changes
  <1>2. /\ Held' /\ at \in Managed' /\ meta' \in [Nodes -> Metadata]
        /\ created' \in 0..MaxRuns /\ created' <= runs
    BY CreateHolds
  <1>3. \A k \in Nodes : meta'[k] = NoMeta \/ meta'[k].primary \in meta'[k].members
    BY <1>2 DEF Held, WellFormed, Managed
  <1>4. TypeOK'
    BY <1>0, <1>1, <1>2, <1>3 DEF Recorded, IInv, TypeOK, requestVars, Unconnected
  <1>5. Connected' /\ Considered' /\ Alone' /\ Counted'
    BY <1>1, <1>2 DEF Connected, Considered, Alone, Counted
  <1>6. Rehearsed'
    BY RehearsedStep DEF IInv, Next, Convergence
  <1> QED
    BY <1>2, <1>4, <1>5, <1>6 DEF IInv, Held

LEMMA SwitchoverStep ==
    ASSUME IInv, SetPrimary
    PROVE  IInv'
  <1>0. Recorded'
    BY RecordedStep DEF Recorded, IInv, TypeOK, Next, Transition
  <1>1. /\ pc = "tried" /\ pc' = "moved"
        /\ UNCHANGED <<up, runs, faults, requestVars, at, created, allowedHost, todo>>
        /\ writable' = [n \in Nodes |-> n = target]
    BY DEF SetPrimary, Changes
  <1>2. PICK w : /\ Sound(w) /\ meta' = [k \in Nodes |-> w]
                 /\ channel' = [n \in Nodes |-> IF n = target THEN "none" ELSE "running"]
                 /\ \A k \in Nodes : channel'[k] = "running" =>
                                         k \in w.members /\ k # w.primary
    BY SwitchoverReachesAll DEF IInv, Held
  <1>3. Held' /\ Managed' = Nodes
    BY <1>2, HeldByAll
  <1>4. TypeOK'
    <2>1. meta' \in [Nodes -> Metadata] /\ channel' \in [Nodes -> Channels]
      BY <1>2 DEF Sound, Channels
    <2>2. \A k \in Nodes : meta'[k].primary \in meta'[k].members
      BY <1>2 DEF Sound
    <2> QED
      BY <1>0, <1>1, <2>1, <2>2 DEF Recorded, IInv, TypeOK, requestVars, Unconnected
  <1>5. Connected' /\ Considered' /\ Alone' /\ Counted'
    BY <1>1, <1>3 DEF Connected, Considered, Alone, Counted, IInv, Managed
  <1>6. Rehearsed'
    BY RehearsedStep DEF IInv, Next, Transition
  <1> QED
    BY <1>3, <1>4, <1>5, <1>6 DEF IInv, Held

LEMMA FailoverStep ==
    ASSUME IInv, ForcePrimary
    PROVE  IInv'
  <1>0. Recorded'
    BY RecordedStep DEF Recorded, IInv, TypeOK, Next, Transition
  <1>1. /\ pc = "tried" /\ pc' = "moved"
        /\ UNCHANGED <<up, runs, faults, requestVars, at, created, allowedHost, todo>>
        /\ writable' = [writable EXCEPT ![target] = TRUE]
    BY DEF ForcePrimary, Changes
  <1>2. /\ Held' /\ target \in Managed' /\ at = target
        /\ channel' = [channel EXCEPT ![target] = "none"] /\ meta' \in [Nodes -> Metadata]
    BY FailoverForces DEF IInv, Held
  <1>3. \A k \in Nodes : meta'[k] = NoMeta \/ meta'[k].primary \in meta'[k].members
    BY <1>2 DEF Held, WellFormed, Managed
  <1>4. TypeOK'
    BY <1>0, <1>1, <1>2, <1>3 DEF Recorded, IInv, TypeOK, requestVars, Unconnected, Channels
  <1>5. Connected' /\ Considered' /\ Alone' /\ Counted'
    BY <1>1, <1>2 DEF Connected, Considered, Alone, Counted, IInv
  <1>6. Rehearsed'
    BY RehearsedStep DEF IInv, Next, Transition
  <1> QED
    BY <1>2, <1>4, <1>5, <1>6 DEF IInv, Held

LEMMA CloneStep ==
    ASSUME IInv, AddDies
    PROVE  IInv'
  <1>0. Recorded'
    BY RecordedStep DEF Recorded, IInv, TypeOK, Next, Convergence
  <1>1. /\ pc = "adding" /\ pc' = "dead"
        /\ UNCHANGED <<up, runs, faults, requestVars, at, writable, channel, created,
                       allowedHost, todo>>
    BY DEF AddDies, Changes
  <1>2. Held' /\ meta' \in [Nodes -> Metadata]
    BY CloneHolds
  <1>3. \A k \in Nodes : meta'[k] = NoMeta \/ meta'[k].primary \in meta'[k].members
    BY <1>2 DEF Held, WellFormed, Managed
  <1>4. TypeOK'
    BY <1>0, <1>1, <1>2, <1>3 DEF Recorded, IInv, TypeOK, requestVars, Unconnected
  <1>5. Connected' /\ Considered' /\ Alone' /\ Counted'
    BY <1>1 DEF Connected, Considered, Alone, Counted, IInv
  <1>6. Rehearsed'
    BY RehearsedStep DEF IInv, Next, Convergence
  <1> QED
    BY <1>2, <1>4, <1>5, <1>6 DEF IInv, Held

\* Steps that change no metadata and no channel.
LEMMA OtherChangeStep ==
    ASSUME IInv, SetAllowedHost \/ SetPrimaryDies
    PROVE  IInv'
  <1>0. Recorded'
    BY RecordedStep DEF Recorded, IInv, TypeOK, Next, Convergence, Transition
  <1>1. /\ pc \in {"considered", "tried"} /\ pc' \in {"moved", "dead"}
        /\ UNCHANGED <<up, runs, faults, requestVars, at, meta, channel, created, todo>>
    BY DEF SetAllowedHost, SetPrimaryDies, Changes
  <1>2. Held'
    BY <1>1, HeldUnchanged DEF IInv, Held
  <1>3. writable' \in [Nodes -> BOOLEAN] /\ allowedHost' \in {"other", "desired", "torn"}
    BY DEF SetAllowedHost, SetPrimaryDies, IInv, TypeOK
  <1>4. TypeOK'
    BY <1>0, <1>1, <1>3 DEF Recorded, IInv, TypeOK, requestVars, Unconnected
  <1>5. Connected' /\ Considered' /\ Alone' /\ Counted'
    BY <1>1 DEF Connected, Considered, Alone, Counted, IInv, Managed
  <1>6. Rehearsed'
    BY RehearsedStep DEF IInv, Next, Convergence, Transition
  <1> QED
    BY <1>2, <1>4, <1>5, <1>6 DEF IInv, Held

LEMMA EnvironmentStep ==
    ASSUME IInv, Environment
    PROVE  IInv'
  <1>0. Recorded'
    BY RecordedStep DEF Recorded, IInv, TypeOK, Next
  <1>1. /\ faults' \in 0..MaxFaults
        /\ UNCHANGED <<created, runs, requestVars, at, todo>>
    <2>1. Fault
      BY DEF Environment, ServerStops, ServerStarts, ReplicationEnds, ProtectionChanges,
         HostDrifts, Reinstalled
    <2> QED
      BY <2>1, ReplicaSetAssumption DEF Fault, IInv, TypeOK
  <1>2. Rehearsed'
    BY RehearsedStep DEF IInv, Next
  <1>3. CASE Reinstalled
    <2>1. pc = "idle" /\ pc' = "idle" /\ UNCHANGED <<up, allowedHost>>
      BY <1>3 DEF Reinstalled
    <2>2. /\ Held' /\ meta' \in [Nodes -> Metadata] /\ channel' \in [Nodes -> Channels]
          /\ writable' \in [Nodes -> BOOLEAN]
      BY <1>3, ReinstallHolds
    <2>3. \A k \in Nodes : meta'[k] = NoMeta \/ meta'[k].primary \in meta'[k].members
      BY <2>2 DEF Held, WellFormed, Managed
    <2>4. TypeOK'
      BY <1>0, <1>1, <2>1, <2>2, <2>3 DEF Recorded, IInv, TypeOK, requestVars, Unconnected
    <2>5. Connected' /\ Considered' /\ Alone' /\ Counted'
      BY <1>1, <2>1 DEF Connected, Considered, Alone, Counted, IInv
    <2> QED
      BY <1>2, <2>2, <2>4, <2>5 DEF IInv, Held
  <1>4. CASE Environment /\ ~Reinstalled
    <2>1. /\ UNCHANGED meta /\ pc' \in {pc, "dead"} /\ (pc' # pc => pc # "idle")
          /\ up' \in [Nodes -> BOOLEAN] /\ writable' \in [Nodes -> BOOLEAN]
          /\ allowedHost' \in {"other", "desired", "torn"}
      BY <1>4 DEF Environment, ServerStops, ServerStarts, ReplicationEnds, ProtectionChanges,
         HostDrifts, Reinstalled, IInv, TypeOK, Unconnected
    <2>2. /\ channel' \in [Nodes -> Channels]
          /\ \A k \in Nodes : channel'[k] = "running" => channel[k] = "running"
          /\ \A k \in Nodes : channel[k] # "running" => channel'[k] = channel[k]
      BY <1>4 DEF Environment, ServerStops, ServerStarts, ReplicationEnds, ProtectionChanges,
         HostDrifts, IInv, TypeOK, Channels
    <2>3. pc' \notin Unconnected => up'[at]
      BY <1>4 DEF Environment, ServerStops, ServerStarts, ReplicationEnds, ProtectionChanges,
         HostDrifts, IInv, TypeOK, Unconnected, Reachable
    <2>4. Held'
      BY <2>1, <2>2, HeldUnchanged DEF IInv, Held
    <2>5. TypeOK'
      BY <1>0, <1>1, <2>1, <2>2, <2>3 DEF Recorded, IInv, TypeOK, requestVars, Unconnected
    <2>6. Connected' /\ Alone' /\ Counted'
      BY <1>1, <2>1 DEF Connected, Alone, Counted, IInv, Managed
    <2>7. Considered'
      <3>1. pc' \in {"adding", "rejoining"} => pc' = pc /\ todo # {} /\ Min(todo) \in Nodes
        BY <2>1, MinIsIn DEF IInv, Considered, TypeOK
      <3>2. todo' = todo /\ Managed' = Managed /\ meta' = meta
        BY <1>1, <2>1 DEF Managed
      <3> QED
        BY <2>2, <3>1, <3>2 DEF IInv, Considered
    <2> QED
      BY <1>2, <2>4, <2>5, <2>6, <2>7 DEF IInv, Held
  <1> QED
    BY <1>3, <1>4

LEMMA NextHolds == IInv /\ [Next]_vars => IInv'
  <1> SUFFICES ASSUME IInv, [Next]_vars PROVE IInv'
    OBVIOUS
  <1>1. CASE UNCHANGED vars
    <2>1. Held'
      BY <1>1, HeldUnchanged DEF vars, serverVars, IInv, Held
    <2>2. TypeOK'
      BY <1>1 DEF vars, serverVars, requestVars, readVars, IInv, TypeOK, Unconnected
    <2>3. Connected' /\ Considered' /\ Alone' /\ Counted' /\ Rehearsed'
      BY <1>1 DEF vars, serverVars, requestVars, IInv, Connected, Considered, Alone, Counted,
         Rehearsed, Managed
    <2> QED
      BY <2>1, <2>2, <2>3 DEF IInv, Held
  <1>2. CASE Begin \/ End
    BY <1>2, RequestStep
  <1>3. CASE Reading
    BY <1>3, ReadingStep
  <1>4. CASE Consider
    BY <1>4, ConsiderStep
  <1>5. CASE Create
    BY <1>5, CreateStep
  <1>6. CASE Add \/ Rejoin
    BY <1>6, JoinStep
  <1>7. CASE AddDies
    BY <1>7, CloneStep
  <1>8. CASE SetAllowedHost \/ SetPrimaryDies
    BY <1>8, OtherChangeStep
  <1>9. CASE SetPrimary
    BY <1>9, SwitchoverStep
  <1>10. CASE ForcePrimary
    BY <1>10, FailoverStep
  <1>11. CASE Environment
    BY <1>11, EnvironmentStep
  <1> QED
    BY <1>1, <1>2, <1>3, <1>4, <1>5, <1>6, <1>7, <1>8, <1>9, <1>10, <1>11
    DEF Next, Convergence, Transition, Reading

THEOREM InvariantHolds == Spec => []IInv
  BY InitHolds, NextHolds, PTL DEF Spec

\* The types hold, and a session keeps a connection to a server that is up.
THEOREM TypeCorrect == Spec => []TypeOK
  BY InvariantHolds, PTL DEF IInv

\* There is one ReplicaSet, and one content to each of its views
\* (mysql-replicaset.py 223-231).
THEOREM ForkCorrect == Spec => []TopologyNeverForks
  <1>1. IInv => TopologyNeverForks
    <2> SUFFICES ASSUME IInv, NEW n \in Managed, NEW k \in Managed
                 PROVE  meta[n].id = meta[k].id
                        /\ (meta[n].view = meta[k].view => meta[n] = meta[k])
      BY DEF TopologyNeverForks
    <2>1. meta[n] \in Metadata /\ meta[k] \in Metadata
      BY DEF IInv, TypeOK, Managed
    <2>2. meta[n].view \in Nat /\ meta[k].view \in Nat
      BY <2>1 DEF Metadata
    <2>3. Forced(n, k) => meta[n].view = meta[k].view + 1
      BY <2>1 DEF Forced, Metadata
    <2>4. Forced(k, n) => meta[k].view = meta[n].view + 1
      BY <2>1 DEF Forced, Metadata
    <2> QED
      BY <2>2, <2>3, <2>4, SameMembers DEF IInv, Agreement
  <1> QED
    BY <1>1, InvariantHolds, PTL

-----------------------------------------------------------------------------
(* What a session changes.                                                 *)

LEMMA CheckStep ==
    IInv /\ [Next]_vars => [pc # "idle" /\ dry /\ faults' = faults => UNCHANGED serverVars]_vars
  <1> SUFFICES ASSUME IInv, Next, pc # "idle", dry, faults' = faults
               PROVE  UNCHANGED serverVars
    OBVIOUS
  <1>1. action # "converge" /\ pc # "tried" /\ faults \in Nat
    BY ReplicaSetAssumption DEF IInv, Rehearsed, TypeOK
  <1>2. ~Environment
    BY <1>1 DEF Environment, ServerStops, ServerStarts, ReplicationEnds, ProtectionChanges,
       HostDrifts, Reinstalled, Fault
  <1>3. /\ ~Create /\ ~Add /\ ~AddDies /\ ~Rejoin /\ ~SetAllowedHost
        /\ ~SetPrimary /\ ~SetPrimaryDies /\ ~ForcePrimary
    BY <1>1 DEF Create, Add, AddDies, Rejoin, SetAllowedHost, SetPrimary, SetPrimaryDies,
       ForcePrimary, Changes
  <1>4. CASE Begin \/ End
    BY <1>4 DEF Begin, Request, End
  <1>5. CASE Reading \/ Consider
    BY <1>5 DEF Reading, Connect, ValidateConfigurations, Find, NobodyElse, Settle,
       KeepAllowedHost, ReadBefore, DryRun, ReadAfter, Consider, Reads
  <1> QED
    BY <1>2, <1>3, <1>4, <1>5 DEF Next, Convergence, Transition, Reading

\* In check mode a session changes nothing (run.yml and mysql-replicaset.py
\* 204-217 and 271-274).
THEOREM CheckCorrect == Spec => CheckChangesNothing
  BY InvariantHolds, CheckStep, PTL DEF Spec, CheckChangesNothing

LEMMA RejoinStep ==
    IInv /\ [Next]_vars =>
        [\A n \in Nodes :
            pc # "idle" /\ channel[n] # "running" /\ channel'[n] = "running"
                => Status(View(at), n) \notin {"INVALIDATED", "ERROR"}]_vars
  <1> SUFFICES ASSUME IInv, Next, NEW n \in Nodes, channel[n] # "running", channel'[n] = "running"
               PROVE  Status(View(at), n) \notin {"INVALIDATED", "ERROR"}
    OBVIOUS
  <1>1. channel' # channel
    OBVIOUS
  <1>2. ~Begin /\ ~End /\ ~Reading /\ ~Consider /\ ~Create /\ ~AddDies
        /\ ~SetAllowedHost /\ ~SetPrimaryDies
    BY <1>1 DEF Begin, Request, End, Reading, Connect, ValidateConfigurations, Find, NobodyElse,
       Settle, KeepAllowedHost, ReadBefore, DryRun, ReadAfter, Consider, Create, AddDies,
       SetAllowedHost, SetPrimaryDies, Reads, serverVars
  <1>3. ~Environment
    BY DEF Environment, ServerStops, ServerStarts, ReplicationEnds, ProtectionChanges,
       HostDrifts, Reinstalled, IInv, TypeOK
  <1>4. ~ForcePrimary
    BY DEF ForcePrimary, Publish, IInv, TypeOK
  <1>5. CASE SetPrimary
    BY <1>5 DEF SetPrimary, Permits, OnlinePair, Changes
  <1>6. CASE Add \/ Rejoin
    <2> DEFINE v == View(at)
    <2>1. at \in Managed /\ up[at] /\ n = Min(todo) /\ n # v.primary
      BY <1>6 DEF Add, Rejoin, Changes, Joins, Publish, IInv, TypeOK, Connected, Unconnected
    <2>2. PICK m \in Managed : up[m] /\ v = meta[m]
      BY <2>1, ViewIsACopy DEF IInv
    <2>3. Sound(v)
      BY <2>2, CopiesAreSound DEF IInv
    <2>4. CASE Add
      <3>1. n \notin v.members
        BY <2>1, <2>2, <2>4 DEF Add, Changes, IInv, Considered
      <3> QED
        BY <3>1, <2>3, AbsentMeans DEF IInv
    <2>5. CASE Rejoin
      <3>1. channel[n] \in {"none", "stopped"} /\ n \notin v.invalid
        BY <2>1, <2>2, <2>5 DEF Rejoin, Changes, IInv, Considered
      <3>2. n \in v.members /\ up[n]
        BY <2>1, <2>5 DEF Rejoin, Joins
      <3> HIDE DEF v
      <3>3. Status(v, n) = "OFFLINE"
        BY <2>1, <3>1, <3>2 DEF Status
      <3> QED
        BY <3>3 DEF v
    <2> QED
      BY <1>6, <2>4, <2>5
  <1> QED
    BY <1>2, <1>3, <1>4, <1>5, <1>6 DEF Next, Convergence, Transition, Reading

\* No member is made to replicate that a failover has declared invalid or
\* whose replication has failed (mysql-replicaset.py 239-243).
THEOREM RejoinCorrect == Spec => RejoinIsUnambiguous
  BY InvariantHolds, RejoinStep, PTL DEF Spec, RejoinIsUnambiguous

-----------------------------------------------------------------------------
(* What a session reports.                                                 *)

\* The one state that a session connected to server at can read, and that of
\* a pair with one writer.
LEMMA OneState ==
    ASSUME TypeOK, pc \notin Unconnected
    PROVE  /\ State # {}
           /\ \A r \in State :
                 /\ r.primary = OnlinePrimary(View(at))
                 /\ r.online = {n \in Nodes : Status(View(at), n) = "ONLINE"}
                 /\ r.writable = {n \in Reachable : writable[n]}
  <1>1. {at} \cap Reachable = {at}
    BY DEF TypeOK, Reachable
  <1> DEFINE shown(c) ==
                 [primary |-> OnlinePrimary(View(c)),
                  online |-> {n \in Nodes : Status(View(c), n) = "ONLINE"},
                  writable |-> {n \in Reachable : writable[n]}]
  <1>2. State = {shown(c) : c \in {at}}
    BY <1>1 DEF State
  <1>3. State = {shown(at)}
    BY <1>2
  <1>4. /\ shown(at).primary = OnlinePrimary(View(at))
        /\ shown(at).online = {n \in Nodes : Status(View(at), n) = "ONLINE"}
        /\ shown(at).writable = {n \in Reachable : writable[n]}
    OBVIOUS
  <1> HIDE DEF shown
  <1> QED
    BY <1>3, <1>4

LEMMA PairIsShown ==
    ASSUME IInv, pc \notin Unconnected, at \in Managed, WritableTopology(View(at)),
           NEW r \in State
    PROVE  ShowsPair(r)
  <1> DEFINE v == View(at)
  <1>1. PICK m \in Managed : v = meta[m]
    BY ViewIsACopy DEF IInv, TypeOK
  <1>2. Sound(v) /\ v.primary \in Nodes
    BY <1>1, CopiesAreSound DEF IInv, Sound, Metadata
  <1>3. \A n \in Nodes : Status(v, n) = "ONLINE" /\ (writable[n] <=> n = v.primary)
    BY DEF WritableTopology, OnlinePair
  <1>4. \A n \in Nodes : up[n]
    BY <1>2, <1>3, OnlineMeans DEF IInv
  <1>5. r.primary = {v.primary}
    BY <1>2, <1>3, OneState DEF IInv, OnlinePrimary
  <1>6. r.online = Nodes
    BY <1>3, OneState DEF IInv
  <1>7. r.writable = {v.primary}
    BY <1>2, <1>3, <1>4, OneState DEF IInv, Reachable
  <1> QED
    BY <1>2, <1>5, <1>6, <1>7 DEF ShowsPair

\* A session has read nothing before it has found the servers' policy, and
\* what it has read since has been so since its last change.
Reported ==
    /\ pc \in {"idle", "begun", "connected", "validated"} => report = {}
    /\ pc \in {"considered", "planned"} => report # {} /\ report \subseteq seen
    /\ pc = "considered" => \A r \in report : ShowsPair(r)
    /\ ReportIsTrue

LEMMA ReportStep == IInv /\ Reported /\ [Next]_vars => Reported'
  <1> SUFFICES ASSUME IInv, Reported, [Next]_vars PROVE Reported'
    OBVIOUS
  <1>1. CASE Settle
    <2>1. /\ pc = "present" /\ pc' = "considered" /\ at \in Managed
          /\ WritableTopology(View(at)) /\ report' = State /\ seen' = seen \cup State
      BY <1>1 DEF Settle, Reads, IInv, Connected
    <2>2. State # {} /\ \A r \in State : ShowsPair(r)
      BY <2>1, OneState, PairIsShown DEF IInv, Unconnected
    <2> QED
      BY <2>1, <2>2 DEF Reported, ReportIsTrue
  <1>2. CASE KeepAllowedHost
    <2>1. /\ pc = "considered" /\ pc' \in {"done", "moved"} /\ action \in {"check", "converge"}
          /\ report' = report /\ seen' = seen \cup State /\ action' = action
      BY <1>2 DEF KeepAllowedHost, Reads, requestVars
    <2> QED
      BY <2>1 DEF Reported, ReportIsTrue
  <1>3. CASE ReadBefore
    <2>1. /\ pc = "validated" /\ at \in Managed /\ report' = State /\ seen' = seen \cup State
          /\ UNCHANGED requestVars
          /\ \/ /\ action = "status" /\ pc' \in {"done", "moved"}
                /\ pc' = "done" => dry /\ WritableTopology(View(at))
             \/ action \in {"switchover", "failover"} /\ pc' = "planned"
      BY <1>3 DEF ReadBefore, Reads
    <2>2. State # {} /\ (WritableTopology(View(at)) => \A r \in State : ShowsPair(r))
      BY <2>1, OneState, PairIsShown DEF IInv, Unconnected
    <2> QED
      BY <2>1, <2>2 DEF Reported, ReportIsTrue, requestVars
  <1>4. CASE DryRun
    <2>1. /\ pc = "planned" /\ pc' \in {"done", "tried"} /\ (pc' = "done" => dry)
          /\ action \in {"switchover", "failover"} /\ UNCHANGED requestVars
          /\ report' = report /\ seen' = seen \cup State
      BY <1>4 DEF DryRun, Reads
    <2> QED
      BY <2>1 DEF Reported, ReportIsTrue, requestVars
  <1>5. CASE ReadAfter
    <2>1. /\ pc = "moved" /\ pc' = "done" /\ at \in Managed /\ action \in Actions
          /\ action # "failover" => WritableTopology(View(at))
          /\ action \in {"switchover", "failover"} => OnlinePrimary(View(at)) = {target}
          /\ action = "failover" => writable[target]
          /\ report' = State /\ seen' = seen \cup State /\ UNCHANGED requestVars
      BY <1>5 DEF ReadAfter, Reads, IInv, Connected, TypeOK
    <2>2. State # {} /\ (action # "failover" => \A r \in State : ShowsPair(r))
      BY <2>1, OneState, PairIsShown DEF IInv, Unconnected
    <2>3. ASSUME NEW r \in State, action \in {"switchover", "failover"}
          PROVE  r.primary = {target} /\ target \in r.writable
      <3>1. r.primary = {target} /\ r.writable = {n \in Reachable : writable[n]}
        BY <2>1, <2>3, OneState DEF IInv, Unconnected
      <3>2. CASE action = "switchover"
        BY <3>1, <3>2, <2>2 DEF ShowsPair
      <3>3. CASE action = "failover"
        <4>1. PICK m \in Managed : View(at) = meta[m] /\ Sound(meta[m])
          BY <2>1, ViewIsACopy, CopiesAreSound DEF IInv, TypeOK, Unconnected
        <4>2. target \in Nodes /\ Status(View(at), target) = "ONLINE"
          BY <2>1, <2>3 DEF OnlinePrimary
        <4>3. up[target]
          BY <4>1, <4>2, OnlineMeans DEF IInv
        <4> QED
          BY <2>1, <3>1, <3>3, <4>2, <4>3 DEF Reachable
      <3> QED
        BY <2>3, <3>2, <3>3
    <2> QED
      BY <2>1, <2>2, <2>3 DEF Reported, ReportIsTrue, requestVars, Actions
  <1>6. CASE Find
    <2>1. /\ pc = "validated" /\ pc' \in {"present", "absent", "done"} /\ report' = report
          /\ (pc' = "done" => action = "check") /\ UNCHANGED requestVars
      BY <1>6 DEF Find, Reads
    <2> QED
      BY <2>1 DEF Reported, ReportIsTrue, requestVars
  <1>7. CASE Connect \/ ValidateConfigurations
    <2>1. /\ pc \in {"begun", "connected"} /\ pc' \in {"connected", "validated"}
          /\ report' = report
      BY <1>7 DEF Connect, ValidateConfigurations, Reads
    <2> QED
      BY <2>1 DEF Reported, ReportIsTrue
  <1>8. CASE NobodyElse \/ Consider
    <2>1. pc' \in {"nobody", "adding", "rejoining", "present"}
      BY <1>8 DEF NobodyElse, Consider, Reads
    <2> QED
      BY <2>1 DEF Reported, ReportIsTrue
  <1>9. CASE Begin \/ End
    <2>1. pc' \in {"idle", "begun"} /\ (report' = {} \/ (pc = "idle" /\ report' = report))
      BY <1>9 DEF Begin, Request, End, readVars
    <2> QED
      BY <2>1 DEF Reported, ReportIsTrue
  <1>10. CASE Create \/ Add \/ AddDies \/ Rejoin \/ SetAllowedHost \/ SetPrimary
              \/ SetPrimaryDies \/ ForcePrimary
    <2>1. pc' \in {"present", "dead", "moved"}
      BY <1>10 DEF Create, Add, AddDies, Rejoin, SetAllowedHost, SetPrimary, SetPrimaryDies,
         ForcePrimary, Changes
    <2> QED
      BY <2>1 DEF Reported, ReportIsTrue
  <1>11. CASE Environment
    <2>1. /\ pc' \in {pc, "dead"} /\ report' = report /\ seen' = seen \cup State
          /\ UNCHANGED requestVars
      BY <1>11 DEF Environment, ServerStops, ServerStarts, ReplicationEnds, ProtectionChanges,
         HostDrifts, Reinstalled, Fault
    <2> QED
      BY <2>1 DEF Reported, ReportIsTrue, requestVars
  <1>12. CASE UNCHANGED vars
    BY <1>12 DEF vars, requestVars, readVars, Reported, ReportIsTrue
  <1> QED
    BY <1>1, <1>2, <1>3, <1>4, <1>5, <1>6, <1>7, <1>8, <1>9, <1>10, <1>11, <1>12
    DEF Next, Convergence, Transition

\* What a session reports was so at a moment after the last change it made:
\* a pair with one writer, the target as primary and writable
\* (mysql-replicaset.py 256-290).
THEOREM ReportCorrect == Spec => []ReportIsTrue
  <1>1. Init => Reported
    BY DEF Init, Reported, ReportIsTrue
  <1>2. Reported /\ IInv /\ [Next]_vars => Reported'
    BY ReportStep
  <1>3. Reported => ReportIsTrue
    BY DEF Reported
  <1> QED
    BY <1>1, <1>2, <1>3, InvariantHolds, PTL DEF Spec

=============================================================================
