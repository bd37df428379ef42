-------------------------- MODULE MembershipProofs --------------------------
(***************************************************************************)
(* What is proved of Membership, for any number of nodes and any way to    *)
(* launch them: a peer array never outgrows its bound and never has the    *)
(* id of its own node, whatever is announced to whom in which order.       *)
(***************************************************************************)
EXTENDS Membership, FiniteSetTheorems, TLAPS

(***************************************************************************)
(* Bags of lines and of tasks.                                             *)
(***************************************************************************)

LEMMA AddedToBag ==
  ASSUME NEW B, NEW S PROVE BagToSet(B (+) SetToBag(S)) = BagToSet(B) \cup S
  BY DEF BagToSet, SetToBag, (+)

LEMMA TakenFromBag == ASSUME NEW B, NEW C PROVE BagToSet(B (-) C) \subseteq BagToSet(B)
  BY DEF BagToSet, (-)

LEMMA NothingInBag == BagToSet(EmptyBag) = {}
  BY DEF BagToSet, EmptyBag, SetToBag

\* Lines about a node to nodes are lines.
LEMMA LinesAdded ==
  ASSUME BagToSet(lines) \subseteq Line, NEW k \in {"JOIN", "PEER", "LEAVE"}, NEW x \in Server,
         NEW To \in SUBSET Server, lines' = lines (+) Sent(k, x, To)
  PROVE  BagToSet(lines') \subseteq Line
<1> DEFINE S == {[kind |-> k, about |-> x, to |-> j] : j \in {n \in To : Running(n)}}
<1>1. S \subseteq Line
  BY DEF Line
<1>2. lines' = lines (+) SetToBag(S)
  BY DEF Sent
<1> HIDE DEF S
<1>3. BagToSet(lines') = BagToSet(lines) \cup S
  BY <1>2, AddedToBag
<1> QED BY <1>1, <1>3

LEMMA LinesTaken ==
  ASSUME BagToSet(lines) \subseteq Line, NEW C, lines' = lines (-) C
  PROVE  BagToSet(lines') \subseteq Line
  BY TakenFromBag

LEMMA TasksAdded ==
  ASSUME NEW B, BagToSet(B) \subseteq Task, NEW t \in Task
  PROVE  BagToSet(B (+) One(t)) \subseteq Task
  BY AddedToBag DEF One

LEMMA TasksTaken ==
  ASSUME NEW B, BagToSet(B) \subseteq Task, NEW C PROVE BagToSet(B (-) C) \subseteq Task
  BY TakenFromBag

(***************************************************************************)
(* The peer array.                                                         *)
(***************************************************************************)

PeersFit ==
    /\ peers \in [Server -> SUBSET Server]
    /\ \A i \in Server : i \notin peers[i] /\ Cardinality(peers[i]) <= RAFT_MAX_PEERS

LEMMA SetsOfServers ==
  ASSUME NEW S \in SUBSET Server
  PROVE  IsFiniteSet(S) /\ Cardinality(S) \in Nat
  BY PeersAssumption, FS_Subset, FS_CardinalityType

\* Whoever is added finds room in the array and is not its node.
LEMMA AddFits ==
  ASSUME PeersFit, NEW i \in Server, NEW x \in Server, add_peer_locked(i, x)
  PROVE  PeersFit'
<1>1. CASE CanAdd(i, x)
  <2>1. x # i /\ x \notin peers[i] /\ Cardinality(peers[i]) < RAFT_MAX_PEERS
    BY <1>1 DEF CanAdd
  <2>2. peers[i] \subseteq Server /\ IsFiniteSet(peers[i]) /\ Cardinality(peers[i]) \in Nat
    BY SetsOfServers DEF PeersFit
  <2>3. Cardinality(peers[i] \cup {x}) = Cardinality(peers[i]) + 1
    BY <2>1, <2>2, FS_AddElement
  <2>4. Cardinality(peers[i] \cup {x}) <= RAFT_MAX_PEERS
    BY <2>1, <2>2, <2>3, PeersAssumption
  <2>5. peers' = [peers EXCEPT ![i] = peers[i] \cup {x}]
    BY <1>1 DEF add_peer_locked
  <2> QED BY <2>1, <2>2, <2>4, <2>5 DEF PeersFit
<1>2. CASE ~CanAdd(i, x)
  <2>1. peers' = [peers EXCEPT ![i] = peers[i]]
    BY <1>2 DEF add_peer_locked
  <2>2. peers' = peers
    BY <2>1 DEF PeersFit
  <2> QED BY <2>2 DEF PeersFit
<1> QED BY <1>1, <1>2

LEMMA RemoveFits ==
  ASSUME PeersFit, NEW i \in Server, NEW x, remove_peer_locked(i, x)
  PROVE  PeersFit'
<1>1. peers[i] \subseteq Server /\ IsFiniteSet(peers[i]) /\ Cardinality(peers[i]) \in Nat
  BY SetsOfServers DEF PeersFit
<1>2. Cardinality(peers[i] \ {x}) <= Cardinality(peers[i]) /\ Cardinality(peers[i] \ {x}) \in Nat
  BY <1>1, FS_Subset, FS_CardinalityType
<1>3. Cardinality(peers[i] \ {x}) <= RAFT_MAX_PEERS
  BY <1>1, <1>2, PeersAssumption DEF PeersFit
<1>4. peers' = [peers EXCEPT ![i] = peers[i] \ {x}]
  BY DEF remove_peer_locked
<1> QED BY <1>1, <1>3, <1>4 DEF PeersFit

\* Members know each other, newcomers those of their options.
LEMMA InitFits == ASSUME Init PROVE PeersFit
<1>1. /\ launch \in Launches
      /\ launch.members \subseteq Server /\ Cardinality(launch.members) <= RAFT_MAX_PEERS + 1
      /\ DOMAIN launch.contacts \subseteq Server \ launch.members
      /\ \A i \in DOMAIN launch.contacts :
            /\ launch.contacts[i] \subseteq Server
            /\ i \notin launch.contacts[i] /\ Cardinality(launch.contacts[i]) <= RAFT_MAX_PEERS
  BY LaunchAssumption DEF Init, IsLaunch
<1>2. peers = [i \in Server |-> CASE i \in launch.members -> launch.members \ {i}
                                  [] i \in DOMAIN launch.contacts -> launch.contacts[i]
                                  [] OTHER -> {}]
  BY DEF Init
<1>3. ASSUME NEW i \in Server
      PROVE  peers[i] \subseteq Server /\ i \notin peers[i] /\ Cardinality(peers[i]) <= RAFT_MAX_PEERS
  <2>1. CASE i \in launch.members
    <3>1. peers[i] = launch.members \ {i}
      BY <1>1, <1>2, <2>1
    <3>2. IsFiniteSet(launch.members) /\ Cardinality(launch.members) \in Nat
      BY <1>1, SetsOfServers
    <3>3. Cardinality(launch.members \ {i}) = Cardinality(launch.members) - 1
      BY <2>1, <3>2, FS_RemoveElement
    <3> QED BY <1>1, <3>1, <3>2, <3>3, PeersAssumption
  <2>2. CASE i \notin launch.members /\ i \in DOMAIN launch.contacts
    <3>1. peers[i] = launch.contacts[i]
      BY <1>2, <2>2
    <3> QED BY <1>1, <2>2, <3>1
  <2>3. CASE i \notin launch.members /\ i \notin DOMAIN launch.contacts
    <3>1. peers[i] = {}
      BY <1>2, <2>3
    <3> QED BY <3>1, FS_EmptySet, PeersAssumption
  <2> QED BY <2>1, <2>2, <2>3
<1>4. peers \in [Server -> SUBSET Server]
  BY <1>2, <1>3
<1> QED BY <1>3, <1>4 DEF PeersFit

(***************************************************************************)
(* The actions.                                                            *)
(***************************************************************************)

LEMMA InitTypes == Init => TypeOK
<1> SUFFICES ASSUME Init PROVE TypeOK
  OBVIOUS
<1>1. state \in [Server -> {"off", "up", "leaving", "gone"}]
  BY DEF Init
<1>2. BagToSet(tasks) \subseteq Task /\ BagToSet(lines) \subseteq Line
  BY NothingInBag DEF Init
<1> QED BY <1>1, <1>2, InitFits DEF TypeOK, PeersFit

\* Starting and quitting.
LEMMA StartTypes ==
  ASSUME TypeOK, NEW i \in Server,
         raft_node_start(i) \/ request_cluster_leave(i) \/ raft_node_destroy(i)
  PROVE  TypeOK'
<1>1. state' \in [Server -> {"off", "up", "leaving", "gone"}] /\ peers' = peers
  BY DEF TypeOK, raft_node_start, request_cluster_leave, raft_node_destroy
<1>2. BagToSet(tasks') \subseteq Task
  <2>1. CASE raft_node_start(i)
    <3>1. [at |-> i, step |-> "join", about |-> i, cause |-> "START"] \in Task
      BY DEF Task
    <3> QED BY <2>1, <3>1, TasksAdded DEF TypeOK, raft_node_start
  <2>2. CASE tasks' = tasks
    BY <2>2 DEF TypeOK
  <2> QED BY <2>1, <2>2 DEF request_cluster_leave, raft_node_destroy
<1>3. BagToSet(lines') \subseteq Line
  <2>1. CASE lines' = lines
    BY <2>1 DEF TypeOK
  <2>2. CASE request_cluster_leave(i)
    BY <2>2, LinesAdded DEF TypeOK, request_cluster_leave
  <2>3. CASE raft_node_destroy(i)
    <3>1. BagToSet(lines') \subseteq BagToSet(lines)
      BY <2>3 DEF raft_node_destroy, BagToSet
    <3> QED BY <3>1 DEF TypeOK
  <2> QED BY <2>1, <2>2, <2>3 DEF raft_node_start
<1> QED BY <1>1, <1>2, <1>3 DEF TypeOK

LEMMA LineTypes ==
  ASSUME TypeOK, NEW m \in BagToSet(lines), handle_line(m) PROVE TypeOK'
<1> DEFINE i == m.to
           x == m.about
<1>1. i \in Server /\ x \in Server
  BY DEF TypeOK, Line
<1>2. lines' = lines (-) One(m) /\ state' = state
  BY DEF handle_line, handle_join, handle_peer_announce, handle_leave
<1>3. BagToSet(lines') \subseteq Line
  BY <1>2, LinesTaken DEF TypeOK
<1>4. PeersFit
  BY DEF TypeOK, PeersFit
<1>5. add_peer_locked(i, x) \/ remove_peer_locked(i, x)
  BY DEF handle_line, handle_join, handle_peer_announce, handle_leave
<1>6. PeersFit'
  BY <1>1, <1>4, <1>5, AddFits, RemoveFits
<1>7. tasks' = tasks \/ \E t \in Task : tasks' = tasks (+) One(t)
  <2>1. ASSUME NEW s \in {"announce", "catalog", "farewell"}, NEW c \in {"JOIN", "PEER", "LEAVE"}
        PROVE  [at |-> i, about |-> x, cause |-> c, step |-> s] \in Task
    BY <1>1 DEF Task
  <2>2. CASE handle_join(m)
    <3>1. (IF CanAdd(i, x) THEN "announce" ELSE "catalog") \in {"announce", "catalog", "farewell"}
      OBVIOUS
    <3> QED BY <2>1, <2>2, <3>1 DEF handle_join
  <2>3. CASE handle_peer_announce(m)
    <3>1. [at |-> i, about |-> x, cause |-> "PEER", step |-> "announce"] \in Task
      BY <2>1
    <3>2. \/ tasks' = tasks
          \/ tasks' = tasks (+) One([at |-> i, step |-> "announce", about |-> x, cause |-> "PEER"])
      BY <2>3 DEF handle_peer_announce
    <3> QED BY <3>1, <3>2
  <2>4. CASE handle_leave(m)
    <3>1. [at |-> i, about |-> x, cause |-> "LEAVE", step |-> "farewell"] \in Task
      BY <2>1
    <3>2. \/ tasks' = tasks
          \/ tasks' = tasks (+) One([at |-> i, step |-> "farewell", about |-> x, cause |-> "LEAVE"])
      BY <2>4 DEF handle_leave
    <3> QED BY <3>1, <3>2
  <2> QED BY <2>2, <2>3, <2>4 DEF handle_line
<1>8. BagToSet(tasks') \subseteq Task
  BY <1>7, TasksAdded DEF TypeOK
<1> QED BY <1>2, <1>3, <1>6, <1>8 DEF TypeOK, PeersFit

LEMMA TaskTypes ==
  ASSUME TypeOK, NEW t \in BagToSet(tasks), do_task(t) PROVE TypeOK'
<1>1. t \in Task /\ t.at \in Server /\ t.about \in Server
  BY DEF TypeOK, Task
<1>2. state' = state /\ peers' = peers
  BY DEF do_task, request_cluster_join, announce_peer_to_known_nodes, send_peer_catalog,
         announce_leave_to_known_nodes
<1>3. peers[t.at] \subseteq Server
  BY <1>1 DEF TypeOK
<1>4. BagToSet(tasks (-) One(t)) \subseteq Task
  BY TasksTaken DEF TypeOK
<1>5. BagToSet(tasks') \subseteq Task
  <2>1. [t EXCEPT !.step = "catalog"] \in Task
    BY <1>1 DEF Task
  <2>2. \/ tasks' = tasks (-) One(t)
        \/ tasks' = tasks (-) One(t) (+) One([t EXCEPT !.step = "catalog"])
    BY DEF do_task, request_cluster_join, announce_peer_to_known_nodes, send_peer_catalog,
           announce_leave_to_known_nodes
  <2> HIDE DEF One
  <2> QED BY <1>4, <2>1, <2>2, TasksAdded
<1>6. BagToSet(lines') \subseteq Line
  <2>1. ASSUME NEW k \in {"JOIN", "PEER", "LEAVE"}, NEW x \in Server, NEW To \in SUBSET Server,
               lines' = lines (+) Sent(k, x, To)
        PROVE  BagToSet(lines') \subseteq Line
    BY <2>1, LinesAdded DEF TypeOK
  <2>2. CASE request_cluster_join(t)
    BY <1>1, <1>3, <2>1, <2>2 DEF request_cluster_join
  <2>3. CASE announce_peer_to_known_nodes(t)
    BY <1>1, <1>3, <2>1, <2>3 DEF announce_peer_to_known_nodes, Announced
  <2>4. CASE announce_leave_to_known_nodes(t)
    BY <1>1, <1>3, <2>1, <2>4 DEF announce_leave_to_known_nodes
  <2>5. CASE send_peer_catalog(t)
    <3> DEFINE S == {[kind |-> "PEER", about |-> j, to |-> t.about] : j \in Catalog(t.at)}
    <3>1. S \subseteq Line
      BY <1>1, <1>3 DEF Catalog, Line
    <3>2. lines' = lines \/ lines' = lines (+) SetToBag(S)
      BY <2>5 DEF send_peer_catalog
    <3> HIDE DEF S
    <3> QED BY <3>1, <3>2, AddedToBag DEF TypeOK
  <2> QED BY <2>2, <2>3, <2>4, <2>5 DEF do_task
<1> QED BY <1>2, <1>5, <1>6 DEF TypeOK

LEMMA NextTypes == ASSUME TypeOK, [Next]_vars PROVE TypeOK'
<1>1. CASE Work
  BY <1>1, LineTypes, TaskTypes DEF Work
<1>2. CASE lose
  <2>1. BagToSet(lines') \subseteq Line
    BY <1>2, LinesTaken DEF TypeOK, lose
  <2> QED BY <1>2, <2>1 DEF TypeOK, lose
<1>3. CASE UNCHANGED vars
  BY <1>3 DEF TypeOK, vars
<1> QED BY <1>1, <1>2, <1>3, StartTypes DEF Next

\* No peer array outgrows its bound or has its own node in it, whoever joins and
\* leaves, and however the lines and the tasks of handlers are mixed.
THEOREM TablesFit == Spec => []TypeOK
BY InitTypes, NextTypes, PTL DEF Spec

=============================================================================
