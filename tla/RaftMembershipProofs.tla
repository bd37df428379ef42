------------------------ MODULE RaftMembershipProofs ------------------------
(***************************************************************************)
(* A cluster that changes, of any number of nodes launched in any way.     *)
(* What is committed has been applied, and no vote is counted twice,       *)
(* whoever joins, leaves, forgets its vote or gets an answer that was      *)
(* meant for another.                                                      *)
(*                                                                         *)
(* A voter may cast two votes in a term here (remove_peer_locked resets    *)
(* voted_for), so the argument is not about voters but about requests.  A  *)
(* candidate asks each peer once per term; a request is answered once; an  *)
(* answer is counted once.  Of what RaftCoreProofs shows of a fixed        *)
(* cluster this is the part that does not depend on who knows whom.        *)
(*                                                                         *)
(* Where majorities of the nodes that stay meet, though, a term has one    *)
(* leader among those.  Logs match, in every cluster, as long as no term   *)
(* has two leaders; and a cluster that grows from one node to two applies  *)
(* the same on both.                                                       *)
(***************************************************************************)
EXTENDS RaftMembership, RaftCoreProofs

(***************************************************************************)
(* JOIN, PEER and LEAVE lines.                                             *)
(***************************************************************************)

\* Every step of the composition is one of Membership, or leaves the peers and
\* the lines about them alone: the core only reads them.
LEMMA GossipStep == [MNext]_mvars => [G!Next]_(G!vars)
<1> SUFFICES ASSUME [MNext]_mvars PROVE [G!Next]_(G!vars)
  OBVIOUS
<1>1. CASE UNCHANGED <<gossip, peers>>
  BY <1>1 DEF gossip, G!vars
<1>2. ASSUME NEW i \in Server, core(i) PROVE UNCHANGED peers
  BY <1>2 DEF core, ticker_loop, ticker_timeout, ticker_heartbeat, start_election,
     handle_request_vote, handle_request_vote_response, handle_append_entries,
     handle_append_response, send_append_to_peer
<1>3. ASSUME NEW i \in Server, raft_submit_command_alone(i) PROVE UNCHANGED <<gossip, peers>>
  BY <1>3 DEF raft_submit_command_alone, Accept, check_alone, commit_alone, vars
<1>4. ASSUME NEW i \in Server, NEW th \in Thread, NEW j \in Server, skip_removed_peer(i, th, j)
      PROVE  UNCHANGED <<gossip, peers>>
  BY <1>4 DEF skip_removed_peer
<1>5. ASSUME NEW i \in Server,
             raft_node_start(i) \/ request_cluster_leave(i) \/ raft_node_destroy(i)
      PROVE  G!Next
  BY <1>5 DEF raft_node_start, request_cluster_leave, raft_node_destroy, G!Next
<1>6. ASSUME NEW m \in BagToSet(lines), handle_membership_line(m) PROVE G!Next
  BY <1>6 DEF handle_membership_line, G!Next, G!Work, BagToSet, G!BagToSet
<1>7. ASSUME NEW t \in BagToSet(tasks), do_membership_task(t) PROVE G!Next
  BY <1>7 DEF do_membership_task, G!Next, G!Work, BagToSet, G!BagToSet
<1>8. CASE lose /\ UNCHANGED <<gossip, alone>>
  BY <1>1, <1>8 DEF lose
<1>9. CASE UNCHANGED mvars
  BY <1>1, <1>9 DEF mvars, vars
<1> QED BY <1>1, <1>2, <1>3, <1>4, <1>5, <1>6, <1>7, <1>8, <1>9 DEF MNext, G!Next

GossipTypes ==
    /\ peers \in [Server -> SUBSET Server] /\ \A i \in Server : i \notin peers[i]
    /\ \A m \in BagToSet(lines) : m.about \in Server /\ m.to \in Server
    /\ \A t \in BagToSet(tasks) : t.at \in Server /\ t.about \in Server

LEMMA GossipInit == ASSUME MInit PROVE GossipTypes
<1>1. /\ launch.members \subseteq Server
      /\ \A i \in DOMAIN launch.contacts :
            launch.contacts[i] \subseteq Server /\ i \notin launch.contacts[i]
  BY LaunchAssumption DEF MInit, G!Init, G!IsLaunch
<1>2. peers = [i \in Server |-> CASE i \in launch.members -> launch.members \ {i}
                                  [] i \in DOMAIN launch.contacts -> launch.contacts[i]
                                  [] OTHER -> {}]
  BY DEF MInit, G!Init
<1>3. ASSUME NEW i \in Server PROVE peers[i] \subseteq Server /\ i \notin peers[i]
  <2>1. CASE i \in launch.members
    <3>1. \/ peers[i] = launch.members \ {i}
          \/ i \in DOMAIN launch.contacts /\ peers[i] = launch.contacts[i]
      BY <1>2, <2>1
    <3> QED BY <1>1, <3>1
  <2>2. CASE i \notin launch.members /\ i \in DOMAIN launch.contacts
    BY <1>1, <1>2, <2>2
  <2>3. CASE i \notin launch.members /\ i \notin DOMAIN launch.contacts
    BY <1>2, <2>3
  <2> QED BY <2>1, <2>2, <2>3
<1>4. peers \in [Server -> SUBSET Server]
  BY <1>2, <1>3
<1>5. BagToSet(lines) = {} /\ BagToSet(tasks) = {}
  BY DEF MInit, G!Init, G!EmptyBag, G!SetToBag, BagToSet
<1> QED BY <1>3, <1>4, <1>5 DEF GossipTypes

\* Handling a JOIN, PEER or LEAVE line.
LEMMA GossipLine ==
  ASSUME GossipTypes, NEW m \in BagToSet(lines), G!handle_line(m) PROVE GossipTypes'
<1> DEFINE i == m.to
           x == m.about
<1>1. i \in Server /\ x \in Server
  BY DEF GossipTypes
<1>2. BagToSet(lines') \subseteq BagToSet(lines)
  BY DEF G!handle_line, G!handle_join, G!handle_peer_announce, G!handle_leave, G!(-), BagToSet
<1>3. ASSUME NEW t \in BagToSet(tasks') PROVE t.at \in Server /\ t.about \in Server
  <2>1. BagToSet(tasks') \subseteq BagToSet(tasks) \cup
          {[at |-> i, about |-> x, cause |-> c, step |-> s] :
              c \in {"JOIN", "PEER", "LEAVE"}, s \in {"announce", "catalog", "farewell"}}
    BY DEF G!handle_line, G!handle_join, G!handle_peer_announce, G!handle_leave,
           G!(+), G!One, G!SetToBag, BagToSet
  <2> QED BY <1>1, <1>3, <2>1 DEF GossipTypes
<1>4. \/ peers' = [peers EXCEPT ![i] = IF G!CanAdd(i, x) THEN @ \cup {x} ELSE @]
      \/ peers' = [peers EXCEPT ![i] = @ \ {x}]
  BY DEF G!handle_line, G!handle_join, G!handle_peer_announce, G!handle_leave,
         G!add_peer_locked, G!remove_peer_locked
<1>5. peers' \in [Server -> SUBSET Server] /\ \A k \in Server : k \notin peers'[k]
  BY <1>1, <1>4 DEF GossipTypes, G!CanAdd
<1> QED BY <1>2, <1>3, <1>5 DEF GossipTypes

\* What a handler has yet to do.
LEMMA GossipTask ==
  ASSUME GossipTypes, NEW t \in BagToSet(tasks), G!do_task(t) PROVE GossipTypes'
<1>1. t.at \in Server /\ t.about \in Server /\ peers[t.at] \subseteq Server /\ peers' = peers
  BY DEF GossipTypes, G!do_task, G!request_cluster_join, G!announce_peer_to_known_nodes,
         G!send_peer_catalog, G!announce_leave_to_known_nodes
<1>2. BagToSet(tasks') \subseteq BagToSet(tasks) \cup {[t EXCEPT !.step = "catalog"]}
  <2>1. CASE G!announce_peer_to_known_nodes(t)
    <3> DEFINE c == [t EXCEPT !.step = "catalog"]
               less == G!(-)(tasks, G!One(t))
    <3>1. tasks' = less \/ tasks' = G!(+)(less, G!One(c))
      BY <2>1 DEF G!announce_peer_to_known_nodes
    <3>2. DOMAIN less \subseteq DOMAIN tasks
      BY DEF G!(-)
    <3> HIDE DEF less, c
    <3>3. DOMAIN G!(+)(less, G!One(c)) \subseteq DOMAIN less \cup {c}
      BY DEF G!(+), G!One, G!SetToBag
    <3> QED BY <3>1, <3>2, <3>3 DEF BagToSet, c
  <2>2. CASE tasks' = G!(-)(tasks, G!One(t))
    BY <2>2 DEF G!(-), BagToSet
  <2> QED BY <2>1, <2>2 DEF G!do_task, G!request_cluster_join, G!send_peer_catalog,
             G!announce_leave_to_known_nodes
<1>3. ASSUME NEW m \in BagToSet(lines') PROVE m.about \in Server /\ m.to \in Server
  <2>1. \/ m \in BagToSet(lines)
        \/ \E k \in {"JOIN", "PEER", "LEAVE"}, x \in {t.at, t.about}, j \in peers[t.at] :
              m = [kind |-> k, about |-> x, to |-> j]
        \/ \E j \in {t.at} \cup peers[t.at] : m = [kind |-> "PEER", about |-> j, to |-> t.about]
    <3>1. ASSUME NEW k \in {"JOIN", "PEER", "LEAVE"}, NEW x \in {t.at, t.about},
                 NEW To \in SUBSET peers[t.at], lines' = G!(+)(lines, G!Sent(k, x, To))
          PROVE  \/ m \in BagToSet(lines)
                 \/ \E j \in peers[t.at] : m = [kind |-> k, about |-> x, to |-> j]
      BY <1>3, <3>1 DEF G!(+), G!Sent, G!SetToBag, BagToSet
    <3>2. CASE G!request_cluster_join(t)
      BY <3>1, <3>2 DEF G!request_cluster_join
    <3>3. CASE G!announce_peer_to_known_nodes(t)
      BY <3>1, <3>3 DEF G!announce_peer_to_known_nodes, G!Announced
    <3>4. CASE G!announce_leave_to_known_nodes(t)
      BY <3>1, <3>4 DEF G!announce_leave_to_known_nodes
    <3>5. CASE G!send_peer_catalog(t)
      BY <1>3, <3>5 DEF G!send_peer_catalog, G!Catalog, G!(+), G!SetToBag, BagToSet
    <3> QED BY <3>2, <3>3, <3>4, <3>5 DEF G!do_task
  <2> QED BY <1>1, <2>1 DEF GossipTypes
<1>4. [t EXCEPT !.step = "catalog"].at = t.at /\ [t EXCEPT !.step = "catalog"].about = t.about
  OBVIOUS
<1> QED BY <1>1, <1>2, <1>3, <1>4 DEF GossipTypes

LEMMA GossipNext == ASSUME GossipTypes, [MNext]_mvars PROVE GossipTypes'
<1>1. [G!Next]_(G!vars)
  BY GossipStep
<1>2. ASSUME NEW i \in Server, G!raft_node_start(i) PROVE GossipTypes'
  <2>1. BagToSet(tasks') \subseteq BagToSet(tasks) \cup
          {[at |-> i, step |-> "join", about |-> i, cause |-> "START"]}
    BY <1>2 DEF G!raft_node_start, G!(+), G!One, G!SetToBag, BagToSet
  <2> QED BY <1>2, <2>1 DEF G!raft_node_start, GossipTypes
<1>3. ASSUME NEW i \in Server, G!request_cluster_leave(i) PROVE GossipTypes'
  <2>1. BagToSet(lines') \subseteq BagToSet(lines) \cup
          {[kind |-> "LEAVE", about |-> i, to |-> j] : j \in peers[i]}
    BY <1>3 DEF G!request_cluster_leave, G!(+), G!Sent, G!SetToBag, BagToSet
  <2>2. peers[i] \subseteq Server
    BY DEF GossipTypes
  <2> QED BY <1>3, <2>1, <2>2 DEF G!request_cluster_leave, GossipTypes
<1>4. ASSUME NEW i \in Server, G!raft_node_destroy(i) PROVE GossipTypes'
  BY <1>4 DEF G!raft_node_destroy, GossipTypes, BagToSet
<1>5. CASE G!lose
  <2>1. BagToSet(lines') \subseteq BagToSet(lines)
    BY <1>5 DEF G!lose, G!(-), BagToSet
  <2> QED BY <1>5, <2>1 DEF G!lose, GossipTypes
<1>6. CASE G!Work
  BY <1>6, GossipLine, GossipTask DEF G!Work, BagToSet, G!BagToSet
<1>7. CASE UNCHANGED G!vars
  BY <1>7 DEF G!vars, GossipTypes
<1> QED BY <1>1, <1>2, <1>3, <1>4, <1>5, <1>6, <1>7 DEF G!Next

(***************************************************************************)
(* Types, and what is committed has been applied: the lemmas of            *)
(* RaftCoreProofs, none of which asks who knows whom.                      *)
(***************************************************************************)

\* How the cluster is launched does not change.
LEMMA LaunchStays == ASSUME [MNext]_mvars PROVE UNCHANGED launch
<1>1. [G!Next]_(G!vars)
  BY GossipStep
<1>2. ASSUME G!Work PROVE UNCHANGED launch
  BY <1>2 DEF G!Work, G!handle_line, G!do_task, G!handle_join, G!handle_peer_announce,
     G!handle_leave, G!request_cluster_join, G!announce_peer_to_known_nodes,
     G!send_peer_catalog, G!announce_leave_to_known_nodes
<1> QED BY <1>1, <1>2 DEF G!Next, G!raft_node_start, G!request_cluster_leave,
        G!raft_node_destroy, G!lose, G!vars

WritesAreCommands == launch.writes \subseteq Command

LEMMA MTypeInit == ASSUME MInit PROVE TypeInv
<1>1. peers \in [Server -> SUBSET Server]
  BY GossipInit DEF GossipTypes
<1>2. TypeOK
  BY <1>1, NoLine, ServerAssumption DEF MInit, NodeInit, TypeOK, Thread
<1>3. AppliedCoversCommit
  BY DEF MInit, NodeInit, AppliedCoversCommit
<1> QED BY <1>2, <1>3 DEF TypeInv

\* A leader that is given a write, and one that found itself alone.
LEMMA AcceptType ==
  ASSUME TypeInv, NEW i \in Server, NEW c \in Command, Accept(i, c) PROVE TypeInv'
<1>1. append_entry_locked(log[i], current_term[i], c) \in Seq(Entry)
  BY AppendEntryType DEF TypeInv, TypeOK
<1>2. log' \in [Server -> Seq(Entry)]
  BY <1>1 DEF TypeInv, TypeOK, Accept
<1>3. sending' \in [Server -> [Thread -> SUBSET Server]]
  BY BroadcastType DEF TypeInv, Accept, Thread
<1> QED BY <1>2, <1>3 DEF TypeInv, TypeOK, AppliedCoversCommit, Accept, votes, progress, history

LEMMA CommitAloneType ==
  ASSUME TypeInv, NEW i \in Server, commit_alone(i) PROVE TypeInv'
<1> DEFINE a == apply_committed_locked(applied[i], log[i], Len(log[i]))
<1>1. log[i] \in Seq(Entry) /\ applied[i] \in Seq(Entry) /\ Len(log[i]) \in Nat
  BY DEF TypeInv, TypeOK
<1>2. a \in Seq(Entry) /\ Len(log[i]) <= Len(a)
  BY <1>1, ApplyType
<1>3. /\ commit_index' = [commit_index EXCEPT ![i] = Len(log[i])]
      /\ applied' = [applied EXCEPT ![i] = a]
  BY DEF commit_alone
<1> HIDE DEF a
<1>4. /\ commit_index' \in [Server -> Nat] /\ applied' \in [Server -> Seq(Entry)]
      /\ AppliedCoversCommit'
  BY <1>1, <1>2, <1>3 DEF TypeInv, TypeOK, AppliedCoversCommit
<1> QED BY <1>4 DEF TypeInv, TypeOK, commit_alone, votes, progress, threads, history

\* A JOIN, PEER or LEAVE line, and the rest of its handler.
LEMMA MembershipLineType ==
  ASSUME TypeInv, GossipTypes, GossipTypes', NEW m \in BagToSet(lines), handle_membership_line(m)
  PROVE  TypeInv'
<1> DEFINE i == m.to
           x == m.about
<1>1. i \in Server /\ x \in Server /\ peers[i] \subseteq Server
      /\ peers' \in [Server -> SUBSET Server]
  BY DEF GossipTypes
<1>2. UNCHANGED <<role, current_term, votes_received, logs, threads, rv, ae, aer, cl, history>>
  BY DEF handle_membership_line, votes
<1>3. /\ voted_for' \in [Server -> Server \cup {Nil}]
      /\ leader_id' \in [Server -> Server \cup {Nil}]
  <2>1. CASE UNCHANGED votes
    BY <2>1 DEF TypeInv, TypeOK, votes
  <2>2. CASE /\ voted_for' = [voted_for EXCEPT ![i] = VoteAfterLeave(i, x)]
             /\ leader_id' = [leader_id EXCEPT ![i] = IF x \in peers[i] /\ @ = x THEN Nil ELSE @]
    <3>1. VoteAfterLeave(i, x) \in Server \cup {Nil}
      BY <1>1 DEF TypeInv, TypeOK, VoteAfterLeave
    <3> QED BY <1>1, <2>2, <3>1 DEF TypeInv, TypeOK
  <2> QED BY <2>1, <2>2 DEF handle_membership_line
<1>4. /\ next_index' \in [Server -> [Server -> Nat \ {0}]]
      /\ match_index' \in [Server -> [Server -> Nat]]
  <2>1. CASE UNCHANGED progress
    BY <2>1 DEF TypeInv, TypeOK, progress
  <2>2. CASE /\ next_index' = [next_index EXCEPT ![i][x] = Len(log[i]) + 1]
             /\ match_index' = [match_index EXCEPT ![i][x] = 0]
    <3> DEFINE n == Len(log[i]) + 1
    <3>1. n \in Nat \ {0}
      <4>1. log[i] \in Seq(Entry)
        BY <1>1 DEF TypeInv, TypeOK
      <4> QED BY <4>1
    <3>2. /\ next_index \in [Server -> [Server -> Nat \ {0}]]
          /\ match_index \in [Server -> [Server -> Nat]]
      BY DEF TypeInv, TypeOK
    <3> HIDE DEF n
    <3>3. [next_index[i] EXCEPT ![x] = n] \in [Server -> Nat \ {0}]
      BY <1>1, <3>1, <3>2
    <3>4. [match_index[i] EXCEPT ![x] = 0] \in [Server -> Nat]
      BY <1>1, <3>2
    <3>5. next_index' = [next_index EXCEPT ![i] = [next_index[i] EXCEPT ![x] = n]]
      BY <2>2 DEF n
    <3>6. match_index' = [match_index EXCEPT ![i] = [match_index[i] EXCEPT ![x] = 0]]
      BY <2>2
    <3> QED BY <1>1, <3>2, <3>3, <3>4, <3>5, <3>6
  <2> QED BY <2>1, <2>2 DEF handle_membership_line, AddedProgress
<1>5. rvr' \subseteq VoteResponse
  <2>1. CASE UNCHANGED rvr
    BY <2>1 DEF TypeInv, TypeOK
  <2>2. ASSUME NEW n \in rvr, NEW k \in peers[i], rvr' = (rvr \ {n}) \cup {[n EXCEPT !.to = k]}
        PROVE  rvr' \subseteq VoteResponse
    <3>1. n \in VoteResponse /\ k \in Server /\ rvr \subseteq VoteResponse
      BY <1>1 DEF TypeInv, TypeOK
    <3>2. [n EXCEPT !.to = k] \in VoteResponse
      BY <3>1 DEF VoteResponse
    <3> QED BY <2>2, <3>1, <3>2
  <2> QED BY <2>1, <2>2 DEF handle_membership_line, Astray
<1> QED BY <1>1, <1>2, <1>3, <1>4, <1>5
        DEF TypeInv, TypeOK, AppliedCoversCommit, logs, threads, history

LEMMA MembershipTaskType ==
  ASSUME TypeInv, GossipTypes, GossipTypes', NEW t \in BagToSet(tasks), do_membership_task(t)
  PROVE  TypeInv'
<1>1. t.at \in Server /\ t.about \in Server /\ peers' \in [Server -> SUBSET Server]
  BY DEF GossipTypes
<1>2. sending \in [Server -> [Thread -> SUBSET Server]]
  BY DEF TypeInv, TypeOK
<1>3. sending' \in [Server -> [Thread -> SUBSET Server]]
  <2> DEFINE S == sending[t.at]["pool"] \cup {t.about}
  <2>1. S \in SUBSET Server /\ "pool" \in Thread
    BY <1>1, <1>2, SendingType DEF Thread
  <2>2. \/ sending' = sending
        \/ sending' = [sending EXCEPT ![t.at]["pool"] = S]
    BY DEF do_membership_task
  <2> HIDE DEF S
  <2>3. [sending EXCEPT ![t.at]["pool"] = S] \in [Server -> [Thread -> SUBSET Server]]
    BY <1>1, <1>2, <2>1, SendingType
  <2> QED BY <1>2, <2>2, <2>3
<1> QED BY <1>1, <1>3 DEF do_membership_task, TypeInv, TypeOK, AppliedCoversCommit,
        votes, logs, progress, history

LEMMA SkipType ==
  ASSUME TypeInv, NEW i \in Server, NEW th \in Thread, NEW j \in Server,
         skip_removed_peer(i, th, j)
  PROVE  TypeInv'
<1>1. sending \in [Server -> [Thread -> SUBSET Server]]
  BY DEF TypeInv, TypeOK
<1>2. sending[i][th] \ {j} \in SUBSET Server
  BY <1>1, SendingType
<1>3. sending' = [sending EXCEPT ![i][th] = sending[i][th] \ {j}]
  BY DEF skip_removed_peer
<1>4. sending' \in [Server -> [Thread -> SUBSET Server]]
  BY <1>1, <1>2, <1>3, SendingType
<1> QED BY <1>4 DEF skip_removed_peer, TypeInv, TypeOK, AppliedCoversCommit,
        votes, logs, progress, history

LEMMA MTypeNext ==
  ASSUME TypeInv, GossipTypes, WritesAreCommands, [MNext]_mvars PROVE TypeInv'
<1>1. GossipTypes'
  BY GossipNext
<1>2. ASSUME UNCHANGED <<votes, logs, progress, threads, rv, rvr, ae, aer, cl, history>>
      PROVE  TypeInv'
  BY <1>1, <1>2 DEF GossipTypes, TypeInv, TypeOK, AppliedCoversCommit,
     votes, logs, progress, threads, history
<1>3. ASSUME NEW i \in Server, core(i) PROVE TypeInv'
  BY <1>3, TickerTimeoutType, StartElectionType, TickerHeartbeatType, RequestVoteType,
     RequestVoteResponseType, AppendEntriesType, AppendResponseType, SendAppendType
     DEF core, ticker_loop
<1>4. ASSUME NEW i \in Server, raft_submit_command_alone(i) PROVE TypeInv'
  <2>1. ASSUME NEW c \in Command, Accept(i, c) PROVE TypeInv'
    BY <2>1, AcceptType
  <2>2. CASE check_alone(i)
    BY <1>2, <2>2 DEF check_alone, vars
  <2> QED BY <1>4, <2>1, <2>2, CommitAloneType DEF raft_submit_command_alone, WritesAreCommands
<1>5. ASSUME NEW i \in Server, NEW th \in Thread, NEW j \in Server, skip_removed_peer(i, th, j)
      PROVE  TypeInv'
  BY <1>5, SkipType
<1>6. ASSUME NEW i \in Server,
             raft_node_start(i) \/ request_cluster_leave(i) \/ raft_node_destroy(i)
      PROVE  TypeInv'
  BY <1>2, <1>6 DEF raft_node_start, request_cluster_leave, raft_node_destroy, vars
<1>7. ASSUME NEW m \in BagToSet(lines), handle_membership_line(m) PROVE TypeInv'
  BY <1>1, <1>7, MembershipLineType
<1>8. ASSUME NEW t \in BagToSet(tasks), do_membership_task(t) PROVE TypeInv'
  BY <1>1, <1>8, MembershipTaskType
<1>9. CASE lose
  BY <1>9, LoseType
<1>10. CASE UNCHANGED vars
  BY <1>2, <1>10 DEF vars
<1> QED BY <1>3, <1>4, <1>5, <1>6, <1>7, <1>8, <1>9, <1>10 DEF MNext, mvars

LEMMA MTypesHold == MSpec => [](GossipTypes /\ TypeInv)
<1>1. MInit => GossipTypes /\ TypeInv /\ WritesAreCommands
  BY GossipInit, MTypeInit, LaunchAssumption DEF MInit, G!Init, WritesAreCommands
<1>2. GossipTypes /\ TypeInv /\ WritesAreCommands /\ [MNext]_mvars
      => (GossipTypes /\ TypeInv /\ WritesAreCommands)'
  BY GossipNext, MTypeNext, LaunchStays DEF WritesAreCommands
<1> QED BY <1>1, <1>2, PTL DEF MSpec

\* Every node has applied all it holds committed, also one that joins and is sent the log
\* (add_peer_locked), one that leaves, and a leader that commits because it was alone when
\* it looked (raft_submit_command).
THEOREM CommitIsAppliedAnywhere == MSpec => []AppliedCoversCommit
<1>1. TypeInv => AppliedCoversCommit
  BY DEF TypeInv
<1> QED BY <1>1, MTypesHold, PTL

(***************************************************************************)
(* Votes.                                                                  *)
(***************************************************************************)

VoteTypes ==
    /\ role \in [Server -> {"follower", "candidate", "leader"}]
    /\ current_term \in [Server -> Nat]
    /\ votes_received \in [Server -> Nat]
    /\ granted \subseteq Nat \X Server \X Server
    /\ \A m \in rv : m.term \in Nat /\ m.from \in Server /\ m.to \in Server
    /\ rvr \subseteq VoteResponse
    /\ \A m \in BagToSet(ae) \cup BagToSet(aer) : m.term \in Nat /\ m.to \in Server

\* A candidate asks a peer once per term, and before the peer votes for it.
AskedOnce ==
    /\ \A g \in granted : g[1] <= current_term[g[3]]
    /\ \A m \in rv :
          /\ m.from # m.to /\ m.term <= current_term[m.from]
          /\ <<m.term, m.to, m.from>> \notin granted
          /\ \A n \in rv : n.term = m.term /\ n.from = m.from /\ n.to = m.to => n = m

Cast(t) == {g \in granted : g[1] = t}
Answers(t) == {m \in rvr : m.granted /\ m.term = t}

\* A vote cast is counted, or its answer is under way, or it is lost.
CountedOnce ==
    /\ IsFiniteSet(granted) /\ IsFiniteSet(rvr)
    /\ \A t \in Nat : /\ IsFiniteSet(CountedIn(t))
                      /\ Cardinality(CountedIn(t)) + Cardinality(Answers(t)) <= Cardinality(Cast(t))

\* As long as answers go to whom they are meant for.
CountedByCandidate ==
    /\ \A m \in rvr : m.granted => <<m.term, m.from, m.to>> \in granted
    /\ \A i \in Server : role[i] # "follower" => votes_received[i] <= Cardinality(Counted(i))

VoteInv ==
    /\ VoteTypes /\ AskedOnce /\ CountedOnce
    /\ ~launch.racing => CountedByCandidate

\* Each node counts as before, or follows.
SameOrFollows ==
    \A k \in Server :
        \/ role'[k] = "follower" /\ current_term'[k] >= current_term[k]
        \/ /\ role'[k] = role[k] /\ current_term'[k] = current_term[k]
           /\ votes_received'[k] = votes_received[k]

LEMMA FewerCounted ==
  ASSUME SameOrFollows, NEW t PROVE CountedIn(t)' \subseteq CountedIn(t)
<1>1. ASSUME NEW k \in Server, role'[k] # "follower"
      PROVE  /\ role[k] # "follower" /\ current_term'[k] = current_term[k]
             /\ votes_received'[k] = votes_received[k]
  BY <1>1 DEF SameOrFollows
<1> QED BY <1>1 DEF CountedIn

LEMMA CountOfSubset ==
  ASSUME NEW S, NEW T, IsFiniteSet(S), T \subseteq S
  PROVE  /\ IsFiniteSet(T) /\ Cardinality(T) \in Nat /\ Cardinality(S) \in Nat
         /\ Cardinality(T) <= Cardinality(S)
  BY FS_Subset, FS_CardinalityType

\* One more at most.
LEMMA CountOfOneMore ==
  ASSUME NEW S, NEW T, NEW x, IsFiniteSet(S), T \subseteq S \cup {x}
  PROVE  /\ IsFiniteSet(T) /\ Cardinality(T) \in Nat /\ Cardinality(S) \in Nat
         /\ Cardinality(T) <= Cardinality(S) + 1
<1>1. IsFiniteSet(S \cup {x}) /\ Cardinality(S \cup {x}) <= Cardinality(S) + 1
      /\ Cardinality(S) \in Nat
  BY FS_AddElement, FS_CardinalityType
<1>2. IsFiniteSet(T) /\ Cardinality(T) \in Nat /\ Cardinality(S \cup {x}) \in Nat
      /\ Cardinality(T) <= Cardinality(S \cup {x})
  BY <1>1, CountOfSubset
<1> QED BY <1>1, <1>2

\* The sets that CountedOnce counts are finite.
LEMMA CountsFinite ==
  ASSUME CountedOnce, NEW t
  PROVE  /\ IsFiniteSet(Answers(t)) /\ Cardinality(Answers(t)) \in Nat
         /\ IsFiniteSet(Cast(t)) /\ Cardinality(Cast(t)) \in Nat
         /\ t \in Nat => IsFiniteSet(CountedIn(t)) /\ Cardinality(CountedIn(t)) \in Nat
<1>1. Answers(t) \subseteq rvr /\ Cast(t) \subseteq granted
  BY DEF Answers, Cast
<1> QED BY <1>1, CountOfSubset, FS_CardinalityType DEF CountedOnce

\* The candidate that counts a vote counts one that is no longer under way.
LEMMA CountedGrow ==
  ASSUME NEW k \in Server, role'[k] = role[k], current_term'[k] = current_term[k],
         votes_received'[k] = votes_received[k], votes_received[k] \in Nat,
         role[k] # "follower" => votes_received[k] <= Cardinality(Counted(k)),
         Counted(k) \subseteq Counted(k)', role'[k] # "follower"
  PROVE  votes_received'[k] <= Cardinality(Counted(k)')
<1>1. Counted(k)' \subseteq Server
  BY DEF Counted
<1>2. Cardinality(Counted(k)) <= Cardinality(Counted(k)')
      /\ Cardinality(Counted(k)) \in Nat /\ Cardinality(Counted(k)') \in Nat
  BY <1>1, ServersCount
<1> QED BY <1>2

\* A step in which nobody votes and no vote is counted.
LEMMA NobodyVotes ==
  ASSUME VoteInv, VoteTypes', SameOrFollows,
         rv' \subseteq rv, rvr' \subseteq rvr, UNCHANGED <<granted, launch>>
  PROVE  VoteInv'
<1>1. AskedOnce'
  <2>1. ASSUME NEW k \in Server PROVE current_term'[k] >= current_term[k]
    BY DEF SameOrFollows, VoteInv, VoteTypes
  <2>2. ASSUME NEW g \in granted' PROVE g[1] <= current_term'[g[3]]
    <3>1. g[1] \in Nat /\ g[3] \in Server /\ g[1] <= current_term[g[3]]
      BY DEF VoteInv, VoteTypes, AskedOnce
    <3>2. current_term[g[3]] \in Nat /\ current_term'[g[3]] \in Nat
      BY <3>1 DEF VoteInv, VoteTypes
    <3> QED BY <2>1, <3>1, <3>2
  <2>3. ASSUME NEW m \in rv' PROVE m.term <= current_term'[m.from]
    <3>1. m.term \in Nat /\ m.from \in Server /\ m.term <= current_term[m.from]
      BY DEF VoteInv, VoteTypes, AskedOnce
    <3>2. current_term[m.from] \in Nat /\ current_term'[m.from] \in Nat
      BY <3>1 DEF VoteInv, VoteTypes
    <3> QED BY <2>1, <3>1, <3>2
  <2> QED BY <2>2, <2>3 DEF VoteInv, AskedOnce
<1>2. CountedOnce'
  <2>1. IsFiniteSet(granted') /\ IsFiniteSet(rvr')
    BY CountOfSubset DEF VoteInv, CountedOnce
  <2>2. ASSUME NEW t \in Nat
        PROVE  /\ IsFiniteSet(CountedIn(t)')
               /\ Cardinality(CountedIn(t)') + Cardinality(Answers(t)') <= Cardinality(Cast(t)')
    <3>1. CountedIn(t)' \subseteq CountedIn(t)
      BY FewerCounted
    <3>2. Answers(t)' \subseteq Answers(t) /\ Cast(t)' = Cast(t)
      BY DEF Answers, Cast
    <3>3. IsFiniteSet(CountedIn(t)) /\ IsFiniteSet(Answers(t)) /\ Cardinality(Cast(t)) \in Nat
      BY CountsFinite DEF VoteInv
    <3>4. Cardinality(CountedIn(t)) + Cardinality(Answers(t)) <= Cardinality(Cast(t))
      BY DEF VoteInv, CountedOnce
    <3>5. IsFiniteSet(CountedIn(t)') /\ Cardinality(CountedIn(t)') \in Nat
          /\ Cardinality(CountedIn(t)) \in Nat
          /\ Cardinality(CountedIn(t)') <= Cardinality(CountedIn(t))
      BY <3>1, <3>3, CountOfSubset
    <3>6. Cardinality(Answers(t)') \in Nat /\ Cardinality(Answers(t)) \in Nat
          /\ Cardinality(Answers(t)') <= Cardinality(Answers(t))
      BY <3>2, <3>3, CountOfSubset
    <3> QED BY <3>2, <3>3, <3>4, <3>5, <3>6
  <2> QED BY <2>1, <2>2 DEF CountedOnce
<1>3. ASSUME ~launch.racing PROVE CountedByCandidate'
  <2>1. CountedByCandidate
    BY <1>3 DEF VoteInv
  <2>2. ASSUME NEW k \in Server, role'[k] # "follower"
        PROVE  votes_received'[k] <= Cardinality(Counted(k)')
    <3>1. role'[k] = role[k] /\ current_term'[k] = current_term[k]
          /\ votes_received'[k] = votes_received[k]
      BY <2>2 DEF SameOrFollows
    <3>2. Counted(k) \subseteq Counted(k)'
      BY <3>1 DEF Counted
    <3>3. votes_received[k] \in Nat
      BY DEF VoteInv, VoteTypes
    <3> QED BY <2>1, <2>2, <3>1, <3>2, <3>3, CountedGrow DEF CountedByCandidate
  <2> QED BY <2>1, <2>2 DEF CountedByCandidate
<1> QED BY <1>1, <1>2, <1>3 DEF VoteInv

\* A node stands: it votes for itself, counts that vote, and asks its peers.
LEMMA StartVotes ==
  ASSUME VoteInv, VoteTypes', GossipTypes, NEW i \in Server, start_election(i), UNCHANGED launch
  PROVE  VoteInv'
<1> DEFINE t == current_term[i] + 1
           g == <<t, i, i>>
<1>1. /\ role \in [Server -> {"follower", "candidate", "leader"}]
      /\ current_term \in [Server -> Nat] /\ votes_received \in [Server -> Nat]
      /\ granted \subseteq Nat \X Server \X Server
      /\ peers[i] \subseteq Server /\ i \notin peers[i]
  BY DEF VoteInv, VoteTypes, GossipTypes
<1>2. t \in Nat /\ t > current_term[i]
  BY <1>1
<1>3. /\ current_term' = [current_term EXCEPT ![i] = t]
      /\ votes_received' = [votes_received EXCEPT ![i] = 1]
      /\ granted' = granted \cup {g}
      /\ UNCHANGED <<rvr, ae, aer>>
  BY DEF start_election
<1>4. \/ role' = [role EXCEPT ![i] = "leader"] /\ rv' = rv
      \/ /\ role' = [role EXCEPT ![i] = "candidate"]
         /\ rv' = rv \cup {[term |-> t, from |-> i, to |-> j, last_index |-> Len(log[i]),
                            last_term |-> LastTerm(log[i])] : j \in peers[i]}
  BY DEF start_election, become_leader_locked
<1>5. \A k \in Server \ {i} : /\ role'[k] = role[k] /\ current_term'[k] = current_term[k]
                              /\ votes_received'[k] = votes_received[k]
  BY <1>1, <1>3, <1>4
<1>6. current_term'[i] = t /\ votes_received'[i] = 1
  BY <1>1, <1>3
<1> HIDE DEF t
<1>7. ASSUME NEW a \in granted
      PROVE  /\ a[1] \in Nat /\ a[2] \in Server /\ a[3] \in Server /\ a[1] <= current_term[a[3]]
             /\ a[3] = i => a[1] < t
  <2>1. a[1] \in Nat /\ a[2] \in Server /\ a[3] \in Server /\ a[1] <= current_term[a[3]]
    BY <1>1 DEF VoteInv, AskedOnce
  <2> QED BY <1>1, <1>2, <2>1
<1>8. g \notin granted
  BY <1>2, <1>7
<1>9. ASSUME NEW m \in rv', m \notin rv
      PROVE  /\ m.term = t /\ m.from = i /\ m.to \in peers[i]
             /\ m = [term |-> t, from |-> i, to |-> m.to, last_index |-> Len(log[i]),
                     last_term |-> LastTerm(log[i])]
  BY <1>4, <1>9
<1>10. ASSUME NEW m \in rv
       PROVE  /\ m.term \in Nat /\ m.from \in Server /\ m.to \in Server
              /\ m.from # m.to /\ m.term <= current_term[m.from]
              /\ m.from = i => m.term < t
              /\ <<m.term, m.to, m.from>> \notin granted
              /\ \A n \in rv : n.term = m.term /\ n.from = m.from /\ n.to = m.to => n = m
  <2>1. /\ m.term \in Nat /\ m.from \in Server /\ m.to \in Server
        /\ m.from # m.to /\ m.term <= current_term[m.from]
        /\ <<m.term, m.to, m.from>> \notin granted
        /\ \A n \in rv : n.term = m.term /\ n.from = m.from /\ n.to = m.to => n = m
    BY DEF VoteInv, VoteTypes, AskedOnce
  <2> QED BY <1>1, <1>2, <2>1
<1>11. AskedOnce'
  <2>1. ASSUME NEW a \in granted' PROVE a[1] <= current_term'[a[3]]
    <3>1. CASE a \in granted
      <4>1. a[1] \in Nat /\ a[3] \in Server /\ a[1] <= current_term[a[3]]
            /\ (a[3] = i => a[1] < t)
        BY <1>7, <3>1
      <4> QED BY <1>2, <1>5, <1>6, <4>1
    <3>2. CASE a = g
      BY <1>2, <1>6, <3>2
    <3> QED BY <1>3, <3>1, <3>2
  <2>2. ASSUME NEW m \in rv'
        PROVE  /\ m.from # m.to /\ m.term <= current_term'[m.from]
               /\ <<m.term, m.to, m.from>> \notin granted'
    <3>1. CASE m \in rv
      <4>1. <<m.term, m.to, m.from>> # g
        BY <1>10, <3>1
      <4>2. m.term <= current_term'[m.from]
        <5>1. CASE m.from = i
          <6>1. m.term \in Nat /\ m.term < t /\ current_term'[m.from] = t
            BY <1>6, <1>10, <3>1, <5>1
          <6> QED BY <1>2, <6>1
        <5>2. CASE m.from # i
          BY <1>5, <1>10, <3>1, <5>2
        <5> QED BY <5>1, <5>2
      <4> QED BY <1>3, <1>10, <3>1, <4>1, <4>2
    <3>2. CASE m \notin rv
      <4>1. m.term = t /\ m.from = i /\ m.to \in peers[i]
        BY <1>9, <3>2
      <4>2. <<m.term, m.to, m.from>> # g /\ m.from # m.to
        BY <1>1, <4>1
      <4>3. <<m.term, m.to, m.from>> \notin granted
        <5>1. ASSUME <<m.term, m.to, m.from>> \in granted PROVE FALSE
          <6> DEFINE a == <<m.term, m.to, m.from>>
          <6>1. a[1] = t /\ a[3] = i
            BY <4>1
          <6>2. a[1] < t
            BY <1>7, <5>1, <6>1
          <6> QED BY <1>2, <6>1, <6>2
        <5> QED BY <5>1
      <4> QED BY <1>2, <1>3, <1>6, <4>1, <4>2, <4>3
    <3> QED BY <3>1, <3>2
  <2>3. ASSUME NEW m \in rv', NEW n \in rv', n.term = m.term, n.from = m.from, n.to = m.to
        PROVE  n = m
    <3>1. CASE m \in rv /\ n \in rv
      BY <1>10, <2>3, <3>1
    <3>2. CASE m \notin rv /\ n \notin rv
      BY <1>9, <2>3, <3>2
    <3>3. ASSUME NEW a \in rv, NEW b \in rv', b \notin rv, a.term = b.term, a.from = b.from
          PROVE  FALSE
      <4>1. b.term = t /\ b.from = i
        BY <1>9, <3>3
      <4>2. a.term < t
        BY <1>10, <3>3, <4>1
      <4> QED BY <1>2, <3>3, <4>1, <4>2
    <3> QED BY <2>3, <3>1, <3>2, <3>3
  <2> QED BY <2>1, <2>2, <2>3 DEF AskedOnce
<1>12. CountedOnce'
  <2>1. IsFiniteSet(granted') /\ IsFiniteSet(rvr')
    BY <1>3, FS_AddElement DEF VoteInv, CountedOnce
  <2>2. ASSUME NEW u \in Nat
        PROVE  /\ IsFiniteSet(CountedIn(u)')
               /\ Cardinality(CountedIn(u)') + Cardinality(Answers(u)') <= Cardinality(Cast(u)')
    <3>1. /\ IsFiniteSet(CountedIn(u)) /\ Cardinality(CountedIn(u)) \in Nat
          /\ IsFiniteSet(Cast(u)) /\ Cardinality(Cast(u)) \in Nat
          /\ Cardinality(Answers(u)) \in Nat
      BY CountsFinite DEF VoteInv
    <3>2. Cardinality(CountedIn(u)) + Cardinality(Answers(u)) <= Cardinality(Cast(u))
      BY DEF VoteInv, CountedOnce
    <3>3. Answers(u)' = Answers(u)
      BY <1>3 DEF Answers
    <3>4. CASE u = t
      <4>1. CountedIn(u)' \subseteq CountedIn(u) \cup {<<i, 1>>}
        <5>1. ASSUME NEW x \in CountedIn(u)' PROVE x \in CountedIn(u) \cup {<<i, 1>>}
          <6>1. PICK k \in Server : /\ role'[k] # "follower" /\ current_term'[k] = u
                                    /\ x \in {k} \X (1 .. votes_received'[k])
            BY <5>1 DEF CountedIn
          <6>2. CASE k = i
            <7>1. x \in {i} \X (1 .. 1)
              BY <1>6, <6>1, <6>2
            <7> QED BY <7>1
          <6>3. CASE k # i
            BY <1>5, <6>1, <6>3 DEF CountedIn
          <6> QED BY <6>2, <6>3
        <5> QED BY <5>1
      <4>2. Cast(u)' = Cast(u) \cup {g} /\ g \notin Cast(u)
        BY <1>3, <1>8, <3>4 DEF Cast
      <4>3. Cardinality(Cast(u)') = Cardinality(Cast(u)) + 1
        BY <3>1, <4>2, FS_AddElement
      <4>4. IsFiniteSet(CountedIn(u)') /\ Cardinality(CountedIn(u)') \in Nat
            /\ Cardinality(CountedIn(u)') <= Cardinality(CountedIn(u)) + 1
        BY <3>1, <4>1, CountOfOneMore
      <4> QED BY <3>1, <3>2, <3>3, <4>3, <4>4
    <3>5. CASE u # t
      <4>1. CountedIn(u)' \subseteq CountedIn(u)
        <5>1. ASSUME NEW k \in Server, role'[k] # "follower", current_term'[k] = u
              PROVE  role[k] # "follower" /\ current_term[k] = u
                     /\ votes_received'[k] = votes_received[k]
          BY <1>5, <1>6, <3>5, <5>1
        <5> QED BY <5>1 DEF CountedIn
      <4>2. Cast(u)' = Cast(u)
        BY <1>3, <3>5 DEF Cast
      <4>3. IsFiniteSet(CountedIn(u)') /\ Cardinality(CountedIn(u)') \in Nat
            /\ Cardinality(CountedIn(u)') <= Cardinality(CountedIn(u))
        BY <3>1, <4>1, CountOfSubset
      <4> QED BY <3>1, <3>2, <3>3, <4>2, <4>3
    <3> QED BY <3>4, <3>5
  <2> QED BY <2>1, <2>2 DEF CountedOnce
<1>13. ASSUME ~launch.racing PROVE CountedByCandidate'
  <2>1. CountedByCandidate
    BY <1>13 DEF VoteInv
  <2>2. ASSUME NEW m \in rvr', m.granted PROVE <<m.term, m.from, m.to>> \in granted'
    BY <1>3, <2>1, <2>2 DEF CountedByCandidate
  <2>3. ASSUME NEW k \in Server, role'[k] # "follower"
        PROVE  votes_received'[k] <= Cardinality(Counted(k)')
    <3>1. CASE k = i
      <4>1. [term |-> t, from |-> i, to |-> i, granted |-> TRUE] \notin rvr'
        BY <1>3, <1>8, <2>1 DEF CountedByCandidate
      <4>2. {i} \subseteq Counted(i)' /\ Counted(i)' \subseteq Server
        <5>1. <<current_term'[i], i, i>> \in granted'
          BY <1>3, <1>6
        <5>2. [term |-> current_term'[i], from |-> i, to |-> i, granted |-> TRUE] \notin rvr'
          BY <1>3, <1>6, <4>1
        <5> QED BY <5>1, <5>2, Zenon DEF Counted
      <4>3. Cardinality({i}) <= Cardinality(Counted(i)')
        BY <4>2, ServersCount
      <4> QED BY <1>6, <3>1, <4>3, FS_Singleton
    <3>2. CASE k # i
      <4>1. role'[k] = role[k] /\ current_term'[k] = current_term[k]
            /\ votes_received'[k] = votes_received[k]
        BY <1>5, <3>2
      <4>2. Counted(k) \subseteq Counted(k)'
        <5>1. granted \subseteq granted' /\ rvr' = rvr
          BY <1>3
        <5> QED BY <4>1, <5>1 DEF Counted
      <4>3. votes_received[k] \in Nat
        BY <1>1
      <4> QED BY <2>1, <2>3, <4>1, <4>2, <4>3, CountedGrow DEF CountedByCandidate
    <3> QED BY <3>1, <3>2
  <2> QED BY <2>2, <2>3 DEF CountedByCandidate
<1> QED BY <1>3, <1>11, <1>12, <1>13 DEF VoteInv

\* A voter answers a request that it has not answered yet.
LEMMA RequestVotes ==
  ASSUME VoteInv, VoteTypes', NEW m \in rv, handle_request_vote(m), UNCHANGED launch
  PROVE  VoteInv'
<1> DEFINE i == m.to
           c == m.from
           grant == /\ m.term >= current_term[i]
                    /\ VoteIn(i, m.term) \in {Nil, c}
                    /\ UpToDate(m, log[i])
           g == <<m.term, i, c>>
           answer == [term |-> current_term'[i], from |-> i, to |-> c, granted |-> grant]
<1>1. /\ role \in [Server -> {"follower", "candidate", "leader"}]
      /\ current_term \in [Server -> Nat] /\ votes_received \in [Server -> Nat]
      /\ granted \subseteq Nat \X Server \X Server /\ rvr \subseteq VoteResponse
      /\ m.term \in Nat /\ i \in Server /\ c \in Server
  BY DEF VoteInv, VoteTypes
<1>2. g \notin granted /\ m.term <= current_term[c]
  BY DEF VoteInv, AskedOnce
<1>3. grant \in BOOLEAN /\ (grant => m.term >= current_term[i])
  OBVIOUS
<1>4. /\ current_term' = [current_term EXCEPT ![i] = IF m.term > @ THEN m.term ELSE @]
      /\ \A k \in Server : \/ k = i /\ role'[k] = "follower"
                           \/ /\ role'[k] = role[k] /\ current_term'[k] = current_term[k]
                              /\ votes_received'[k] = votes_received[k]
  <2>1. CASE m.term > current_term[i]
    <3>1. /\ role' = [role EXCEPT ![i] = "follower"]
          /\ current_term' = [current_term EXCEPT ![i] = IF m.term > @ THEN m.term ELSE @]
          /\ votes_received' = [votes_received EXCEPT ![i] = 0]
      BY <2>1 DEF handle_request_vote, become_follower_locked
    <3> QED BY <1>1, <3>1
  <2>2. CASE ~(m.term > current_term[i])
    <3>1. UNCHANGED <<role, current_term, votes_received>>
      BY <2>2 DEF handle_request_vote
    <3>2. current_term = [current_term EXCEPT ![i] = IF m.term > @ THEN m.term ELSE @]
      BY <1>1, <2>2
    <3> QED BY <1>1, <3>1, <3>2
  <2> QED BY <2>1, <2>2
<1>5. /\ granted' = IF grant THEN granted \cup {g} ELSE granted
      /\ rv' = rv \ {m} /\ UNCHANGED <<ae, aer>>
      /\ rvr' \in {rvr, rvr \cup {answer}}
  BY DEF handle_request_vote
<1> HIDE DEF grant
<1>6. /\ current_term'[i] \in Nat /\ current_term'[i] >= current_term[i]
      /\ grant => current_term'[i] = m.term
      /\ current_term' \in [Server -> Nat]
  BY <1>1, <1>3, <1>4
<1>7. ASSUME NEW k \in Server PROVE current_term'[k] >= current_term[k] /\ current_term[k] \in Nat
  BY <1>1, <1>4, <1>6
<1>8. SameOrFollows
  BY <1>4, <1>7 DEF SameOrFollows
<1>9. AskedOnce'
  <2>1. ASSUME NEW a \in granted' PROVE a[1] <= current_term'[a[3]]
    <3>1. CASE a \in granted
      <4>1. a[1] \in Nat /\ a[3] \in Server /\ a[1] <= current_term[a[3]]
        BY <1>1, <3>1 DEF VoteInv, AskedOnce
      <4> QED BY <1>6, <1>7, <4>1
    <3>2. CASE a = g
      BY <1>1, <1>2, <1>6, <1>7, <3>2
    <3> QED BY <1>5, <3>1, <3>2
  <2>2. ASSUME NEW n \in rv'
        PROVE  /\ n.from # n.to /\ n.term <= current_term'[n.from]
               /\ <<n.term, n.to, n.from>> \notin granted'
               /\ \A o \in rv' : o.term = n.term /\ o.from = n.from /\ o.to = n.to => o = n
    <3>1. n \in rv /\ n # m /\ n.term \in Nat /\ n.from \in Server /\ n.to \in Server
      BY <1>5 DEF VoteInv, VoteTypes
    <3>2. /\ n.from # n.to /\ n.term <= current_term[n.from]
          /\ <<n.term, n.to, n.from>> \notin granted
          /\ \A o \in rv : o.term = n.term /\ o.from = n.from /\ o.to = n.to => o = n
      BY <3>1 DEF VoteInv, AskedOnce
    <3>3. <<n.term, n.to, n.from>> # g
      BY <3>1, <3>2
    <3>4. n.term <= current_term'[n.from]
      BY <1>6, <1>7, <3>1, <3>2
    <3>5. <<n.term, n.to, n.from>> \notin granted'
      BY <1>5, <3>2, <3>3
    <3>6. \A o \in rv' : o.term = n.term /\ o.from = n.from /\ o.to = n.to => o = n
      <4>1. rv' \subseteq rv
        BY <1>5
      <4> QED BY <3>2, <4>1
    <3> QED BY <3>2, <3>4, <3>5, <3>6
  <2> QED BY <2>1, <2>2 DEF AskedOnce
<1>10. CountedOnce'
  <2>1. IsFiniteSet(granted') /\ IsFiniteSet(rvr')
    <3>1. IsFiniteSet(granted) /\ IsFiniteSet(rvr)
      BY DEF VoteInv, CountedOnce
    <3>2. IsFiniteSet(granted \cup {g}) /\ IsFiniteSet(rvr \cup {answer})
      BY <3>1, FS_AddElement
    <3> QED BY <1>5, <3>1, <3>2
  <2>2. ASSUME NEW u \in Nat
        PROVE  /\ IsFiniteSet(CountedIn(u)')
               /\ Cardinality(CountedIn(u)') + Cardinality(Answers(u)') <= Cardinality(Cast(u)')
    <3>1. /\ IsFiniteSet(CountedIn(u)) /\ Cardinality(CountedIn(u)) \in Nat
          /\ IsFiniteSet(Cast(u)) /\ Cardinality(Cast(u)) \in Nat
          /\ IsFiniteSet(Answers(u)) /\ Cardinality(Answers(u)) \in Nat
      BY CountsFinite DEF VoteInv
    <3>2. Cardinality(CountedIn(u)) + Cardinality(Answers(u)) <= Cardinality(Cast(u))
      BY DEF VoteInv, CountedOnce
    <3>3. IsFiniteSet(CountedIn(u)') /\ Cardinality(CountedIn(u)') \in Nat
          /\ Cardinality(CountedIn(u)') <= Cardinality(CountedIn(u))
      BY <1>8, <3>1, FewerCounted, CountOfSubset
    <3>4. CASE grant /\ u = m.term
      <4>1. Cast(u)' = Cast(u) \cup {g} /\ g \notin Cast(u)
        BY <1>2, <1>5, <3>4 DEF Cast
      <4>2. Cardinality(Cast(u)') = Cardinality(Cast(u)) + 1
        BY <3>1, <4>1, FS_AddElement
      <4>3. Answers(u)' \subseteq Answers(u) \cup {answer}
        BY <1>5 DEF Answers
      <4>4. Cardinality(Answers(u)') <= Cardinality(Answers(u)) + 1
            /\ Cardinality(Answers(u)') \in Nat
        BY <3>1, <4>3, CountOfOneMore
      <4> QED BY <3>1, <3>2, <3>3, <4>2, <4>4
    <3>5. CASE ~(grant /\ u = m.term)
      <4>1. Cast(u)' = Cast(u)
        BY <1>5, <3>5 DEF Cast
      <4>2. ~(answer.granted /\ answer.term = u)
        BY <1>6, <3>5
      <4>3. Answers(u)' = Answers(u)
        BY <1>5, <4>2 DEF Answers
      <4> QED BY <3>1, <3>2, <3>3, <4>1, <4>3
    <3> QED BY <3>4, <3>5
  <2> QED BY <2>1, <2>2 DEF CountedOnce
<1>11. ASSUME ~launch.racing PROVE CountedByCandidate'
  <2>1. CountedByCandidate
    BY <1>11 DEF VoteInv
  <2>2. ASSUME NEW n \in rvr', n.granted PROVE <<n.term, n.from, n.to>> \in granted'
    <3>1. CASE n \in rvr
      BY <1>5, <2>1, <2>2, <3>1 DEF CountedByCandidate
    <3>2. CASE n = answer
      <4>1. grant /\ n.term = m.term /\ n.from = i /\ n.to = c
        BY <1>6, <2>2, <3>2
      <4> QED BY <1>5, <4>1
    <3> QED BY <1>5, <3>1, <3>2
  <2>3. ASSUME NEW k \in Server, role'[k] # "follower"
        PROVE  votes_received'[k] <= Cardinality(Counted(k)')
    <3>1. role'[k] = role[k] /\ current_term'[k] = current_term[k]
          /\ votes_received'[k] = votes_received[k] /\ votes_received[k] \in Nat
      BY <1>1, <1>4, <2>3
    <3>2. ASSUME NEW v \in Counted(k) PROVE v \in Counted(k)'
      <4> DEFINE n == [term |-> current_term[k], from |-> v, to |-> k, granted |-> TRUE]
      <4>1. v \in Server /\ <<current_term[k], v, k>> \in granted /\ n \notin rvr
        BY DEF Counted
      <4>2. n # answer
        <5>1. SUFFICES ASSUME n = answer PROVE FALSE
          OBVIOUS
        <5>2. current_term[k] = current_term'[i] /\ v = i /\ k = c /\ grant
          BY <1>3, <5>1
        <5>3. <<current_term[k], v, k>> = g
          BY <1>6, <5>2
        <5> QED BY <1>2, <4>1, <5>3
      <4>3. n \notin rvr'
        BY <1>5, <4>1, <4>2
      <4>4. <<current_term[k], v, k>> \in granted'
        BY <1>5, <4>1
      <4> QED BY <3>1, <4>1, <4>3, <4>4 DEF Counted
    <3>3. Counted(k) \subseteq Counted(k)'
      BY <3>2
    <3> QED BY <2>1, <2>3, <3>1, <3>3, CountedGrow DEF CountedByCandidate
  <2> QED BY <2>2, <2>3 DEF CountedByCandidate
<1> QED BY <1>9, <1>10, <1>11 DEF VoteInv

\* A node that hears of a term, its own or a later one, follows.
LEMMA FollowVotes ==
  ASSUME VoteInv, NEW i \in Server, NEW t \in Nat, NEW l, t >= current_term[i],
         become_follower_locked(i, t, l)
  PROVE  SameOrFollows
<1>1. current_term \in [Server -> Nat] /\ role \in [Server -> {"follower", "candidate", "leader"}]
      /\ votes_received \in [Server -> Nat]
  BY DEF VoteInv, VoteTypes
<1>2. /\ role' = [role EXCEPT ![i] = "follower"]
      /\ current_term' = [current_term EXCEPT ![i] = t]
      /\ votes_received' = [votes_received EXCEPT ![i] = 0]
  <2>1. (IF t > current_term[i] THEN t ELSE current_term[i]) = t
    BY <1>1
  <2> QED BY <2>1 DEF become_follower_locked
<1> QED BY <1>1, <1>2 DEF SameOrFollows

LEMMA KeptVotes ==
  ASSUME VoteInv, UNCHANGED <<role, current_term, votes_received>> PROVE SameOrFollows
  BY DEF VoteInv, VoteTypes, SameOrFollows

\* A candidate counts an answer once.
LEMMA AnswerVotes ==
  ASSUME VoteInv, VoteTypes', NEW m \in rvr, handle_request_vote_response(m), UNCHANGED launch
  PROVE  VoteInv'
<1> DEFINE i == m.to
           u == current_term[i]
<1>1. /\ role \in [Server -> {"follower", "candidate", "leader"}]
      /\ current_term \in [Server -> Nat] /\ votes_received \in [Server -> Nat]
      /\ granted \subseteq Nat \X Server \X Server /\ rvr \subseteq VoteResponse
      /\ m.term \in Nat /\ i \in Server /\ m.from \in Server
  BY DEF VoteInv, VoteTypes, VoteResponse
<1>2. rvr' = rvr \ {m} /\ UNCHANGED <<rv, ae, aer, granted>>
  BY DEF handle_request_vote_response
<1>3. CASE m.term > current_term[i] /\ become_follower_locked(i, m.term, Nil)
  <2>1. m.term >= current_term[i]
    BY <1>1, <1>3
  <2>2. SameOrFollows
    BY <1>1, <1>3, <2>1, FollowVotes
  <2> QED BY <1>2, <2>2, NobodyVotes
<1>4. CASE ~IsVote(i, m) /\ UNCHANGED <<role, current_term>> /\ votes_received' = votes_received
  <2>1. SameOrFollows
    BY <1>4, KeptVotes
  <2> QED BY <1>2, <2>1, NobodyVotes
<1>5. CASE /\ IsVote(i, m) /\ current_term' = current_term
           /\ role' \in {role, [role EXCEPT ![i] = "leader"]}
           /\ votes_received' = [votes_received EXCEPT ![i] = @ + 1]
  <2>1. /\ role[i] = "candidate" /\ m.term = u /\ m.granted /\ u \in Nat
        /\ role'[i] # "follower" /\ votes_received'[i] = votes_received[i] + 1
        /\ votes_received[i] \in Nat
        /\ m = [term |-> u, from |-> m.from, to |-> i, granted |-> TRUE]
    BY <1>1, <1>5 DEF IsVote, VoteResponse
  <2>2. \A k \in Server \ {i} : role'[k] = role[k] /\ votes_received'[k] = votes_received[k]
    BY <1>1, <1>5
  <2>3. AskedOnce'
    BY <1>2, <1>5 DEF VoteInv, AskedOnce
  <2>4. CountedOnce'
    <3>1. IsFiniteSet(granted') /\ IsFiniteSet(rvr')
      BY <1>2, CountOfSubset DEF VoteInv, CountedOnce
    <3>2. ASSUME NEW t \in Nat
          PROVE  /\ IsFiniteSet(CountedIn(t)')
                 /\ Cardinality(CountedIn(t)') + Cardinality(Answers(t)') <= Cardinality(Cast(t)')
      <4>1. /\ IsFiniteSet(CountedIn(t)) /\ Cardinality(CountedIn(t)) \in Nat
            /\ Cardinality(Cast(t)) \in Nat
            /\ IsFiniteSet(Answers(t)) /\ Cardinality(Answers(t)) \in Nat
        BY CountsFinite DEF VoteInv
      <4>2. Cardinality(CountedIn(t)) + Cardinality(Answers(t)) <= Cardinality(Cast(t))
        BY DEF VoteInv, CountedOnce
      <4>3. Cast(t)' = Cast(t) /\ Answers(t)' = Answers(t) \ {m}
        BY <1>2 DEF Cast, Answers
      <4>4. CASE t = u
        <5>1. Cardinality(Answers(t)') = Cardinality(Answers(t)) - 1
          <6>1. m \in Answers(t)
            BY <2>1, <4>4 DEF Answers
          <6>2. Cardinality(Answers(t) \ {m}) = Cardinality(Answers(t)) - 1
            BY <4>1, <6>1, FS_RemoveElement
          <6> QED BY <4>3, <6>2
        <5>2. CountedIn(t)' \subseteq CountedIn(t) \cup {<<i, votes_received[i] + 1>>}
          <6>1. ASSUME NEW x \in CountedIn(t)'
                PROVE  x \in CountedIn(t) \cup {<<i, votes_received[i] + 1>>}
            <7>1. PICK k \in Server : /\ role'[k] # "follower" /\ current_term'[k] = t
                                      /\ x \in {k} \X (1 .. votes_received'[k])
              BY <6>1 DEF CountedIn
            <7>2. CASE k # i
              BY <1>5, <2>2, <7>1, <7>2 DEF CountedIn
            <7>3. CASE k = i
              <8>1. PICK n \in 1 .. (votes_received[i] + 1) : x = <<i, n>>
                BY <2>1, <7>1, <7>3
              <8>2. CASE n = votes_received[i] + 1
                BY <8>1, <8>2
              <8>3. CASE n # votes_received[i] + 1
                <9>1. n \in 1 .. votes_received[i]
                  BY <2>1, <8>3
                <9>2. x \in {i} \X (1 .. votes_received[i])
                  BY <8>1, <9>1
                <9>3. role[i] # "follower" /\ current_term[i] = t
                  BY <2>1, <4>4
                <9> QED BY <1>1, <9>2, <9>3 DEF CountedIn
              <8> QED BY <8>2, <8>3
            <7> QED BY <7>2, <7>3
          <6> QED BY <6>1
        <5>3. IsFiniteSet(CountedIn(t)') /\ Cardinality(CountedIn(t)') \in Nat
              /\ Cardinality(CountedIn(t)') <= Cardinality(CountedIn(t)) + 1
          BY <4>1, <5>2, CountOfOneMore
        <5> QED BY <4>1, <4>2, <4>3, <5>1, <5>3
      <4>5. CASE t # u
        <5>1. CountedIn(t)' \subseteq CountedIn(t)
          <6>1. ASSUME NEW k \in Server, role'[k] # "follower", current_term'[k] = t
                PROVE  role[k] # "follower" /\ current_term[k] = t
                       /\ votes_received'[k] = votes_received[k]
            BY <1>5, <2>2, <4>5, <6>1
          <6> QED BY <6>1 DEF CountedIn
        <5>2. IsFiniteSet(CountedIn(t)') /\ Cardinality(CountedIn(t)') \in Nat
              /\ Cardinality(CountedIn(t)') <= Cardinality(CountedIn(t))
          BY <4>1, <5>1, CountOfSubset
        <5>3. Cardinality(Answers(t)') \in Nat
              /\ Cardinality(Answers(t)') <= Cardinality(Answers(t))
          BY <4>1, <4>3, CountOfSubset
        <5> QED BY <4>1, <4>2, <4>3, <5>2, <5>3
      <4> QED BY <4>4, <4>5
    <3> QED BY <3>1, <3>2 DEF CountedOnce
  <2>5. ASSUME ~launch.racing PROVE CountedByCandidate'
    <3>1. CountedByCandidate
      BY <2>5 DEF VoteInv
    <3>2. ASSUME NEW k \in Server
          PROVE  Counted(k) \subseteq Counted(k)' /\ Counted(k)' \subseteq Server
      BY <1>2, <1>5 DEF Counted
    <3>3. ASSUME NEW k \in Server, role'[k] # "follower"
          PROVE  votes_received'[k] <= Cardinality(Counted(k)')
      <4>1. CASE k = i
        <5>1. <<u, m.from, i>> \in granted
          BY <2>1, <3>1 DEF CountedByCandidate
        <5>2. m.from \notin Counted(i)
          BY <2>1 DEF Counted
        <5>3. m.from \in Counted(i)'
          BY <1>1, <1>2, <1>5, <2>1, <5>1 DEF Counted
        <5>4. IsFiniteSet(Counted(i)) /\ Counted(i) \subseteq Server
          BY ServersCount DEF Counted
        <5>5. Cardinality(Counted(i) \cup {m.from}) = Cardinality(Counted(i)) + 1
              /\ Cardinality(Counted(i)) \in Nat
          BY <5>2, <5>4, FS_AddElement, FS_CardinalityType
        <5>6. Counted(i) \cup {m.from} \subseteq Counted(i)' /\ Counted(i)' \subseteq Server
          BY <1>1, <3>2, <5>3
        <5>7. Cardinality(Counted(i)) + 1 <= Cardinality(Counted(i)')
              /\ Cardinality(Counted(i)') \in Nat
          BY <5>5, <5>6, ServersCount
        <5>8. votes_received[i] <= Cardinality(Counted(i))
          BY <1>1, <2>1, <3>1 DEF CountedByCandidate
        <5> QED BY <2>1, <4>1, <5>5, <5>7, <5>8
      <4>2. CASE k # i
        BY <1>1, <1>5, <2>2, <3>1, <3>2, <3>3, <4>2, CountedGrow DEF CountedByCandidate
      <4> QED BY <4>1, <4>2
    <3>4. \A n \in rvr' : n.granted => <<n.term, n.from, n.to>> \in granted'
      BY <1>2, <3>1 DEF CountedByCandidate
    <3> QED BY <3>3, <3>4 DEF CountedByCandidate
  <2> QED BY <2>3, <2>4, <2>5 DEF VoteInv
<1>6. \/ m.term > current_term[i] /\ become_follower_locked(i, m.term, Nil)
      \/ ~IsVote(i, m) /\ UNCHANGED <<role, current_term>> /\ votes_received' = votes_received
      \/ /\ IsVote(i, m) /\ current_term' = current_term
         /\ role' \in {role, [role EXCEPT ![i] = "leader"]}
         /\ votes_received' = [votes_received EXCEPT ![i] = @ + 1]
  BY <1>1 DEF handle_request_vote_response, become_leader_locked
<1> QED BY <1>3, <1>4, <1>5, <1>6

\* An answer that goes astray is one answer still.
LEMMA AstrayVotes ==
  ASSUME VoteInv, VoteTypes', NEW m \in rvr, NEW k \in Server, launch.racing,
         rvr' = (rvr \ {m}) \cup {[m EXCEPT !.to = k]},
         UNCHANGED <<role, current_term, votes_received, rv, ae, aer, granted, launch>>
  PROVE  VoteInv'
<1> DEFINE a == [m EXCEPT !.to = k]
<1>1. m \in VoteResponse
  BY DEF VoteInv, VoteTypes
<1>2. a.granted = m.granted /\ a.term = m.term
  BY <1>1 DEF VoteResponse
<1> HIDE DEF a
<1>3. rvr' = (rvr \ {m}) \cup {a}
  BY DEF a
<1>4. AskedOnce'
  BY DEF VoteInv, AskedOnce
<1>5. CountedOnce'
  <2>1. IsFiniteSet(rvr') /\ IsFiniteSet(granted')
    <3>1. IsFiniteSet(rvr) /\ rvr \ {m} \subseteq rvr /\ IsFiniteSet(granted)
      BY DEF VoteInv, CountedOnce
    <3>2. IsFiniteSet(rvr \ {m})
      BY <3>1, CountOfSubset
    <3>3. IsFiniteSet(rvr')
      <4>1. rvr' \subseteq (rvr \ {m}) \cup {a}
        BY <1>3
      <4> QED BY <3>2, <4>1, CountOfOneMore
    <3> QED BY <3>1, <3>3
  <2>2. ASSUME NEW t \in Nat
        PROVE  /\ IsFiniteSet(CountedIn(t)')
               /\ Cardinality(CountedIn(t)') + Cardinality(Answers(t)') <= Cardinality(Cast(t)')
    <3>1. /\ IsFiniteSet(CountedIn(t)) /\ Cardinality(CountedIn(t)) \in Nat
          /\ Cardinality(Cast(t)) \in Nat
          /\ IsFiniteSet(Answers(t)) /\ Cardinality(Answers(t)) \in Nat
      BY CountsFinite DEF VoteInv
    <3>2. Cardinality(CountedIn(t)) + Cardinality(Answers(t)) <= Cardinality(Cast(t))
      BY DEF VoteInv, CountedOnce
    <3>3. CountedIn(t)' = CountedIn(t) /\ Cast(t)' = Cast(t)
      BY DEF CountedIn, Cast
    <3>4. Cardinality(Answers(t)') <= Cardinality(Answers(t)) /\ Cardinality(Answers(t)') \in Nat
      <4>1. CASE m \in Answers(t)
        <5>1. Answers(t)' \subseteq (Answers(t) \ {m}) \cup {a}
          BY <1>3 DEF Answers
        <5>2. IsFiniteSet(Answers(t) \ {m})
              /\ Cardinality(Answers(t) \ {m}) = Cardinality(Answers(t)) - 1
          BY <3>1, <4>1, FS_RemoveElement
        <5>3. Cardinality(Answers(t)') <= Cardinality(Answers(t) \ {m}) + 1
              /\ Cardinality(Answers(t)') \in Nat
          BY <5>1, <5>2, CountOfOneMore
        <5> QED BY <3>1, <5>2, <5>3
      <4>2. CASE m \notin Answers(t)
        <5>1. ~(a.granted /\ a.term = t)
          BY <1>2, <4>2 DEF Answers
        <5>2. Answers(t)' \subseteq Answers(t)
          BY <1>3, <5>1 DEF Answers
        <5> QED BY <3>1, <5>2, CountOfSubset
      <4> QED BY <4>1, <4>2
    <3> QED BY <3>1, <3>2, <3>3, <3>4
  <2> QED BY <2>1, <2>2 DEF CountedOnce
<1> QED BY <1>4, <1>5 DEF VoteInv

\* AE and AER lines.
LEMMA AppendEntriesVotes ==
  ASSUME VoteInv, VoteTypes', NEW m \in BagToSet(ae), handle_append_entries(m), UNCHANGED launch
  PROVE  VoteInv'
<1> DEFINE i == m.to
<1>1. m.term \in Nat /\ i \in Server
  BY DEF VoteInv, VoteTypes
<1>2. SameOrFollows
  <2>1. CASE m.term >= current_term[i]
    <3>1. become_follower_locked(i, m.term, m.from)
      BY <2>1 DEF handle_append_entries
    <3> QED BY <1>1, <2>1, <3>1, FollowVotes
  <2>2. CASE ~(m.term >= current_term[i])
    <3>1. UNCHANGED <<role, current_term, votes_received>>
      BY <2>2 DEF handle_append_entries
    <3> QED BY <3>1, KeptVotes
  <2> QED BY <2>1, <2>2
<1>3. UNCHANGED <<rv, rvr, granted>>
  BY DEF handle_append_entries, history
<1> QED BY <1>2, <1>3, NobodyVotes

LEMMA AppendResponseVotes ==
  ASSUME VoteInv, VoteTypes', NEW m \in BagToSet(aer), handle_append_response(m), UNCHANGED launch
  PROVE  VoteInv'
<1> DEFINE i == m.to
<1>1. m.term \in Nat /\ i \in Server /\ current_term \in [Server -> Nat]
  BY DEF VoteInv, VoteTypes
<1>2. SameOrFollows
  <2>1. CASE m.term > current_term[i] /\ become_follower_locked(i, m.term, Nil)
    <3>1. m.term >= current_term[i]
      BY <1>1, <2>1
    <3> QED BY <1>1, <2>1, <3>1, FollowVotes
  <2>2. CASE UNCHANGED <<role, current_term, votes_received>>
    BY <2>2, KeptVotes
  <2> QED BY <2>1, <2>2 DEF handle_append_response, votes
<1>3. UNCHANGED <<rv, rvr, granted>>
  BY DEF handle_append_response, history
<1> QED BY <1>2, <1>3, NobodyVotes

\* Votes are no subject of a step that leaves these alone.
LEMMA OtherVotes ==
  ASSUME VoteInv, VoteTypes',
         UNCHANGED <<role, current_term, votes_received, rv, rvr, granted, launch>>
  PROVE  VoteInv'
  BY KeptVotes, NobodyVotes

\* The steps of the core, by the component they belong to.
LEMMA CoreVotes ==
  ASSUME VoteInv, VoteTypes', GossipTypes, NEW i \in Server, core(i), UNCHANGED launch
  PROVE  VoteInv'
<1>1. CASE ticker_timeout(i) \/ ticker_heartbeat(i)
  BY <1>1, OtherVotes DEF ticker_timeout, ticker_heartbeat, votes, history
<1>2. CASE start_election(i)
  BY <1>2, StartVotes
<1>3. ASSUME NEW m \in rv, handle_request_vote(m) PROVE VoteInv'
  BY <1>3, RequestVotes
<1>4. ASSUME NEW m \in rvr, handle_request_vote_response(m) PROVE VoteInv'
  BY <1>4, AnswerVotes
<1>5. ASSUME NEW m \in BagToSet(ae), handle_append_entries(m) PROVE VoteInv'
  BY <1>5, AppendEntriesVotes
<1>6. ASSUME NEW m \in BagToSet(aer), handle_append_response(m) PROVE VoteInv'
  BY <1>6, AppendResponseVotes
<1>7. ASSUME NEW th \in Thread, NEW j \in Server, send_append_to_peer(i, th, j) PROVE VoteInv'
  BY <1>7, OtherVotes DEF send_append_to_peer, votes, history
<1> QED BY <1>1, <1>2, <1>3, <1>4, <1>5, <1>6, <1>7 DEF core, ticker_loop

\* A JOIN, PEER or LEAVE line: an answer may go astray meanwhile.
LEMMA MembershipLineVotes ==
  ASSUME VoteInv, VoteTypes', GossipTypes, NEW m \in BagToSet(lines), handle_membership_line(m)
  PROVE  VoteInv'
<1>1. UNCHANGED <<role, current_term, votes_received, rv, ae, aer, granted>>
  BY DEF handle_membership_line, votes, history
<1>2. UNCHANGED launch
  BY DEF handle_membership_line, G!handle_line, G!handle_join, G!handle_peer_announce,
     G!handle_leave
<1>3. CASE UNCHANGED rvr
  BY <1>1, <1>2, <1>3, OtherVotes
<1>4. CASE Astray(m.to, m.about) /\ ~UNCHANGED rvr
  <2>1. PICK n \in rvr : \E k \in peers[m.to] :
            rvr' = (rvr \ {n}) \cup {[n EXCEPT !.to = k]}
    BY <1>4 DEF Astray
  <2>2. launch.racing
    BY <1>4 DEF Astray
  <2>3. peers[m.to] \subseteq Server
    BY DEF GossipTypes
  <2> QED BY <1>1, <1>2, <2>1, <2>2, <2>3, AstrayVotes
<1> QED BY <1>3, <1>4 DEF handle_membership_line

LEMMA VoteInit == ASSUME MInit PROVE VoteInv
<1>1. /\ rv = {} /\ rvr = {} /\ granted = {}
      /\ role = [i \in Server |-> "follower"]
      /\ current_term = [i \in Server |-> 0] /\ votes_received = [i \in Server |-> 0]
      /\ BagToSet(ae) = {} /\ BagToSet(aer) = {}
  BY NoLine DEF MInit, NodeInit
<1>2. VoteTypes /\ AskedOnce /\ CountedByCandidate
  BY <1>1 DEF VoteTypes, AskedOnce, CountedByCandidate
<1>3. CountedOnce
  <2>1. IsFiniteSet({}) /\ Cardinality({}) = 0
    BY FS_EmptySet
  <2>2. ASSUME NEW t \in Nat PROVE CountedIn(t) = {} /\ Answers(t) = {} /\ Cast(t) = {}
    BY <1>1 DEF CountedIn, Answers, Cast
  <2> QED BY <1>1, <2>1, <2>2 DEF CountedOnce
<1> QED BY <1>2, <1>3 DEF VoteInv

LEMMA VoteNext == ASSUME VoteInv, VoteTypes', GossipTypes, [MNext]_mvars PROVE VoteInv'
<1>1. ASSUME NEW i \in Server, core(i), UNCHANGED gossip PROVE VoteInv'
  BY <1>1, CoreVotes DEF gossip
<1>2. ASSUME NEW i \in Server, raft_submit_command_alone(i) PROVE VoteInv'
  BY <1>2, OtherVotes DEF raft_submit_command_alone, Accept, check_alone, commit_alone,
     vars, votes, history, gossip
<1>3. ASSUME NEW i \in Server, NEW th \in Thread, NEW j \in Server, skip_removed_peer(i, th, j)
      PROVE  VoteInv'
  BY <1>3, OtherVotes DEF skip_removed_peer, votes, history, gossip
<1>4. ASSUME NEW i \in Server,
             raft_node_start(i) \/ request_cluster_leave(i) \/ raft_node_destroy(i)
      PROVE  VoteInv'
  BY <1>4, OtherVotes DEF raft_node_start, request_cluster_leave, raft_node_destroy,
     G!raft_node_start, G!request_cluster_leave, G!raft_node_destroy, vars, votes, history
<1>5. ASSUME NEW m \in BagToSet(lines), handle_membership_line(m) PROVE VoteInv'
  BY <1>5, MembershipLineVotes
<1>6. ASSUME NEW t \in BagToSet(tasks), do_membership_task(t) PROVE VoteInv'
  BY <1>6, OtherVotes DEF do_membership_task, G!do_task, G!request_cluster_join,
     G!announce_peer_to_known_nodes, G!send_peer_catalog, G!announce_leave_to_known_nodes,
     votes, history
<1>7. CASE lose /\ UNCHANGED gossip
  BY <1>7, OtherVotes DEF lose, votes, history, gossip
<1>8. CASE G!lose /\ UNCHANGED vars
  BY <1>8, OtherVotes DEF G!lose, vars, votes, history
<1>9. CASE UNCHANGED mvars
  BY <1>9, OtherVotes DEF mvars, vars, votes, history, gossip
<1> QED BY <1>1, <1>2, <1>3, <1>4, <1>5, <1>6, <1>7, <1>8, <1>9 DEF MNext

\* What votes are about has its types.
LEMMA TypesOfVotes == ASSUME TypeInv PROVE VoteTypes
  BY DEF TypeInv, TypeOK, VoteTypes, RequestVote, AppendEntries, AppendResponse

LEMMA VotesAddUp == MSpec => []VoteInv
<1>1. MInit => VoteInv
  BY VoteInit
<1>2. GossipTypes /\ VoteTypes' /\ VoteInv /\ [MNext]_mvars => VoteInv'
  BY VoteNext
<1>3. TypeInv => VoteTypes
  BY TypesOfVotes
<1> QED BY <1>1, <1>2, <1>3, MTypesHold, PTL DEF MSpec

\* What happens to the peers of a cluster that votes and writes is what Membership
\* says of them (handle_join, handle_peer_announce, handle_leave and their tasks).
THEOREM GossipIsMembership == MSpec => G!Init /\ [][G!Next]_(G!vars)
<1>1. MInit => G!Init
  BY DEF MInit
<1> QED BY <1>1, GossipStep, PTL DEF MSpec

\* No vote is counted by two nodes, wherever its answer goes while a LEAVE line is
\* handled (send_to_peer) and whoever votes again (remove_peer_locked).
THEOREM NoVoteCountsTwice == MSpec => []VotesCountOnce
<1>1. ASSUME VoteInv PROVE VotesCountOnce
  <2>1. ASSUME NEW t \in 1 .. MaxElections
        PROVE  Cardinality(CountedIn(t)) <= Cardinality({g \in granted : g[1] = t})
    <3>1. t \in Nat
      BY BoundAssumption
    <3>2. Cardinality(CountedIn(t)) + Cardinality(Answers(t)) <= Cardinality(Cast(t))
      BY <1>1, <3>1 DEF VoteInv, CountedOnce
    <3>3. Cardinality(Answers(t)) \in Nat /\ Cardinality(CountedIn(t)) \in Nat
          /\ Cardinality(Cast(t)) \in Nat
      BY <1>1, <3>1, CountsFinite DEF VoteInv
    <3> QED BY <3>2, <3>3 DEF Cast
  <2> QED BY <2>1 DEF VotesCountOnce
<1> QED BY <1>1, VotesAddUp, PTL

\* Where no answer goes astray, a candidate counts no vote that was not cast for it
\* (handle_request_vote_response), whoever joins, leaves or votes again.
THEOREM CountedWasCast == MSpec => []CountedVotesWereCast
<1>1. ASSUME VoteInv PROVE CountedVotesWereCast
  <2>1. ASSUME ~launch.racing, NEW i \in Server, role[i] # "follower"
        PROVE  votes_received[i] <=
                   Cardinality({v \in Server : <<current_term[i], v, i>> \in granted})
    <3> DEFINE S == {v \in Server : <<current_term[i], v, i>> \in granted}
    <3>1. votes_received[i] <= Cardinality(Counted(i)) /\ votes_received[i] \in Nat
      BY <1>1, <2>1 DEF VoteInv, VoteTypes, CountedByCandidate
    <3>2. S \subseteq Server /\ Counted(i) \subseteq S
      BY DEF Counted
    <3>3. Cardinality(Counted(i)) <= Cardinality(S) /\ Cardinality(S) \in Nat
          /\ Cardinality(Counted(i)) \in Nat
      BY <3>2, ServersCount
    <3> QED BY <3>1, <3>3
  <2> QED BY <2>1 DEF CountedVotesWereCast, AllVotesWereCast
<1> QED BY <1>1, VotesAddUp, PTL

(***************************************************************************)
(* One leader per term among the nodes that stay.  LEAVE lines are about   *)
(* nodes that quit, so a node that stays is never taken out of a peer      *)
(* array, and a vote cast for it is never forgotten within its term.  Its  *)
(* majority is therefore never less than LeastMajority, and of the votes   *)
(* cast for those that stay a voter has one per term.                      *)
(***************************************************************************)

\* Only a node that may quit is ever said to leave.
OnlyQuittersLeave ==
    /\ \A m \in BagToSet(lines) : m.kind = "LEAVE" => m.about \in launch.quitters
    /\ \A t \in BagToSet(tasks) : t.step = "farewell" => t.about \in launch.quitters

\* Whoever runs was launched, and knows all it knew at first but those that quit.
StayersAreKnown ==
    \A i \in Server :
        /\ G!Running(i) => i \in Launched(launch)
        /\ i \in Launched(launch) => KnownAtFirst(launch, i) \ launch.quitters \subseteq peers[i]

KnownInv == GossipTypes /\ G!IsLaunch(launch) /\ OnlyQuittersLeave /\ StayersAreKnown

\* A voter was launched, and remembers a vote for a node that stays through its term.
StayersVotes ==
    /\ \A g \in granted :
          /\ g[2] \in Launched(launch) /\ g[1] <= current_term[g[2]]
          /\ g[1] = current_term[g[2]] /\ g[3] \notin launch.quitters => voted_for[g[2]] = g[3]
    /\ \A a, b \in granted :
          a[1] = b[1] /\ a[2] = b[2] /\ {a[3], b[3]} \cap launch.quitters = {} => a[3] = b[3]

\* The votes cast for i in term t.
VotersOf(t, i) == {v \in Server : <<t, v, i>> \in granted}

\* Who was elected was launched, and had the least majority it ever counts.
ElectedByLeast ==
    ~launch.racing => \A e \in elected :
        e[2] \in Launched(launch) /\ LeastMajority(launch, e[2]) <= Cardinality(VotersOf(e[1], e[2]))

LEMMA KnownInit == ASSUME MInit PROVE KnownInv
<1>1. G!IsLaunch(launch)
  BY LaunchAssumption DEF MInit, G!Init
<1>2. BagToSet(lines) = {} /\ BagToSet(tasks) = {}
  BY DEF MInit, G!Init, G!EmptyBag, G!SetToBag, BagToSet
<1>3. ASSUME NEW i \in Server
      PROVE  /\ G!Running(i) => i \in Launched(launch)
             /\ i \in Launched(launch) => KnownAtFirst(launch, i) \ launch.quitters \subseteq peers[i]
  <2>1. state[i] = IF i \in launch.members THEN "up" ELSE "off"
    BY DEF MInit, G!Init
  <2>2. peers[i] = CASE i \in launch.members -> launch.members \ {i}
                     [] i \in DOMAIN launch.contacts -> launch.contacts[i]
                     [] OTHER -> {}
    BY DEF MInit, G!Init
  <2>3. CASE i \in launch.members
    <3>1. i \notin DOMAIN launch.contacts
      BY <1>1, <2>3 DEF G!IsLaunch
    <3>2. peers[i] = launch.members \ {i}
      BY <2>2, <2>3, <3>1
    <3> QED BY <2>3, <3>2 DEF Launched, KnownAtFirst
  <2>4. CASE i \notin launch.members
    <3>1. i \in DOMAIN launch.contacts => peers[i] = launch.contacts[i]
      BY <2>2, <2>4
    <3> QED BY <2>1, <2>4, <3>1 DEF Launched, KnownAtFirst, G!Running
  <2> QED BY <2>3, <2>4
<1> QED BY <1>1, <1>2, <1>3, GossipInit DEF KnownInv, OnlyQuittersLeave, StayersAreKnown

\* Handling a JOIN, PEER or LEAVE line.
LEMMA KnownLine ==
  ASSUME KnownInv, NEW m \in BagToSet(lines), G!handle_line(m)
  PROVE  OnlyQuittersLeave' /\ StayersAreKnown'
<1> DEFINE i == m.to
           x == m.about
<1>1. i \in Server /\ x \in Server /\ peers \in [Server -> SUBSET Server]
      /\ (m.kind = "LEAVE" => x \in launch.quitters)
  BY DEF KnownInv, GossipTypes, OnlyQuittersLeave
<1>2. BagToSet(lines') \subseteq BagToSet(lines) /\ UNCHANGED <<launch, state>>
  BY DEF G!handle_line, G!handle_join, G!handle_peer_announce, G!handle_leave, G!(-), BagToSet
<1>3. ASSUME NEW t \in BagToSet(tasks'), t.step = "farewell" PROVE t.about \in launch.quitters
  <2>1. ASSUME NEW k \in {"JOIN", "PEER", "LEAVE"},
               NEW s \in {"announce", "catalog", "farewell"},
               tasks' = G!(+)(tasks, G!One([at |-> i, about |-> x, cause |-> k, step |-> s])),
               s = "farewell" => m.kind = "LEAVE"
        PROVE  t.about \in launch.quitters
    <3>1. t \in BagToSet(tasks) \/ t = [at |-> i, about |-> x, cause |-> k, step |-> s]
      BY <1>3, <2>1 DEF G!(+), G!One, G!SetToBag, BagToSet
    <3> QED BY <1>1, <1>3, <2>1, <3>1 DEF KnownInv, OnlyQuittersLeave
  <2>2. CASE tasks' = tasks
    BY <1>3, <2>2 DEF KnownInv, OnlyQuittersLeave
  <2>3. CASE G!handle_join(m)
    BY <2>1, <2>3 DEF G!handle_join
  <2>4. CASE G!handle_peer_announce(m)
    BY <2>1, <2>2, <2>4 DEF G!handle_peer_announce
  <2>5. CASE G!handle_leave(m)
    BY <2>1, <2>2, <2>5 DEF G!handle_leave
  <2> QED BY <2>3, <2>4, <2>5 DEF G!handle_line
<1>4. ASSUME NEW k \in Server PROVE peers[k] \ launch.quitters \subseteq peers'[k]
  <2>1. \/ peers' = [peers EXCEPT ![i] = IF G!CanAdd(i, x) THEN @ \cup {x} ELSE @]
        \/ x \in launch.quitters /\ peers' = [peers EXCEPT ![i] = @ \ {x}]
    BY <1>1 DEF G!handle_line, G!handle_join, G!handle_peer_announce, G!handle_leave,
           G!add_peer_locked, G!remove_peer_locked
  <2> QED BY <1>1, <2>1
<1>5. OnlyQuittersLeave'
  BY <1>2, <1>3 DEF KnownInv, OnlyQuittersLeave
<1>6. StayersAreKnown'
  BY <1>2, <1>4 DEF KnownInv, StayersAreKnown, G!Running
<1> QED BY <1>5, <1>6

\* What a handler has yet to do.
LEMMA KnownTask ==
  ASSUME KnownInv, NEW t \in BagToSet(tasks), G!do_task(t)
  PROVE  OnlyQuittersLeave' /\ StayersAreKnown'
<1>1. UNCHANGED <<launch, state, peers>>
  BY DEF G!do_task, G!request_cluster_join, G!announce_peer_to_known_nodes,
     G!send_peer_catalog, G!announce_leave_to_known_nodes
<1>2. BagToSet(tasks') \subseteq BagToSet(tasks) \cup {[t EXCEPT !.step = "catalog"]}
  <2>1. CASE G!announce_peer_to_known_nodes(t)
    <3> DEFINE c == [t EXCEPT !.step = "catalog"]
               less == G!(-)(tasks, G!One(t))
    <3>1. tasks' = less \/ tasks' = G!(+)(less, G!One(c))
      BY <2>1 DEF G!announce_peer_to_known_nodes
    <3>2. DOMAIN less \subseteq DOMAIN tasks
      BY DEF G!(-)
    <3> HIDE DEF less, c
    <3>3. DOMAIN G!(+)(less, G!One(c)) \subseteq DOMAIN less \cup {c}
      BY DEF G!(+), G!One, G!SetToBag
    <3> QED BY <3>1, <3>2, <3>3 DEF BagToSet, c
  <2>2. CASE tasks' = G!(-)(tasks, G!One(t))
    BY <2>2 DEF G!(-), BagToSet
  <2> QED BY <2>1, <2>2 DEF G!do_task, G!request_cluster_join, G!send_peer_catalog,
             G!announce_leave_to_known_nodes
<1>3. ASSUME NEW u \in BagToSet(tasks'), u.step = "farewell" PROVE u.about \in launch.quitters
  <2>1. CASE u \in BagToSet(tasks)
    BY <1>3, <2>1 DEF KnownInv, OnlyQuittersLeave
  <2>2. CASE u = [t EXCEPT !.step = "catalog"]
    <3>1. u.about = t.about /\ (u.step = "catalog" \/ u.step = t.step)
      BY <2>2
    <3>2. u.step = t.step
      BY <1>3, <3>1
    <3> QED BY <1>3, <3>1, <3>2 DEF KnownInv, OnlyQuittersLeave
  <2> QED BY <1>2, <1>3, <2>1, <2>2
<1>4. ASSUME NEW m \in BagToSet(lines'), m.kind = "LEAVE" PROVE m.about \in launch.quitters
  <2>1. ASSUME NEW k \in {"JOIN", "PEER", "LEAVE"}, NEW x, NEW To,
               lines' = G!(+)(lines, G!Sent(k, x, To)), k = "LEAVE" => x \in launch.quitters
        PROVE  m.about \in launch.quitters
    <3>1. m \in BagToSet(lines) \/ (m.kind = k /\ m.about = x)
      BY <1>4, <2>1 DEF G!(+), G!Sent, G!SetToBag, BagToSet
    <3> QED BY <1>4, <2>1, <3>1 DEF KnownInv, OnlyQuittersLeave
  <2>2. CASE G!request_cluster_join(t)
    BY <2>1, <2>2 DEF G!request_cluster_join
  <2>3. CASE G!announce_peer_to_known_nodes(t)
    BY <2>1, <2>3 DEF G!announce_peer_to_known_nodes
  <2>4. CASE G!announce_leave_to_known_nodes(t)
    <3>1. t.about \in launch.quitters
      BY <2>4 DEF KnownInv, OnlyQuittersLeave, G!announce_leave_to_known_nodes
    <3> QED BY <2>1, <2>4, <3>1 DEF G!announce_leave_to_known_nodes
  <2>5. CASE G!send_peer_catalog(t)
    <3>1. m \in BagToSet(lines) \/ m.kind = "PEER"
      BY <1>4, <2>5 DEF G!send_peer_catalog, G!(+), G!SetToBag, BagToSet
    <3> QED BY <1>4, <3>1 DEF KnownInv, OnlyQuittersLeave
  <2> QED BY <2>2, <2>3, <2>4, <2>5 DEF G!do_task
<1>5. OnlyQuittersLeave'
  BY <1>1, <1>3, <1>4 DEF OnlyQuittersLeave
<1>6. StayersAreKnown'
  BY <1>1 DEF KnownInv, StayersAreKnown, G!Running
<1> QED BY <1>5, <1>6

LEMMA KnownNext == ASSUME KnownInv, [MNext]_mvars PROVE KnownInv'
<1>1. [G!Next]_(G!vars)
  BY GossipStep
<1>2. GossipTypes' /\ UNCHANGED launch
  BY GossipNext, LaunchStays DEF KnownInv
<1> SUFFICES OnlyQuittersLeave' /\ StayersAreKnown'
  BY <1>2 DEF KnownInv
<1>3. ASSUME NEW i \in Server, G!raft_node_start(i) PROVE OnlyQuittersLeave' /\ StayersAreKnown'
  <2>1. BagToSet(tasks') \subseteq BagToSet(tasks) \cup
          {[at |-> i, step |-> "join", about |-> i, cause |-> "START"]}
    BY <1>3 DEF G!raft_node_start, G!(+), G!One, G!SetToBag, BagToSet
  <2>2. OnlyQuittersLeave'
    BY <1>3, <2>1 DEF G!raft_node_start, KnownInv, OnlyQuittersLeave
  <2>3. i \in Launched(launch) /\ UNCHANGED <<peers, launch>>
        /\ state' = [state EXCEPT ![i] = "up"]
    BY <1>3 DEF G!raft_node_start, Launched
  <2>4. ASSUME NEW k \in Server, G!Running(k)' PROVE k \in Launched(launch)
    BY <2>3, <2>4 DEF KnownInv, StayersAreKnown, G!Running
  <2>5. StayersAreKnown'
    BY <2>3, <2>4 DEF KnownInv, StayersAreKnown
  <2> QED BY <2>2, <2>5
<1>4. ASSUME NEW i \in Server, G!request_cluster_leave(i)
      PROVE  OnlyQuittersLeave' /\ StayersAreKnown'
  <2>1. BagToSet(lines') \subseteq BagToSet(lines) \cup
          {[kind |-> "LEAVE", about |-> i, to |-> j] : j \in peers[i]}
    BY <1>4 DEF G!request_cluster_leave, G!(+), G!Sent, G!SetToBag, BagToSet
  <2>2. i \in launch.quitters /\ state[i] = "up" /\ UNCHANGED <<peers, launch, tasks>>
        /\ state' = [state EXCEPT ![i] = "leaving"]
    BY <1>4 DEF G!request_cluster_leave
  <2>3. OnlyQuittersLeave'
    BY <2>1, <2>2 DEF KnownInv, OnlyQuittersLeave
  <2>4. ASSUME NEW k \in Server, G!Running(k)' PROVE G!Running(k)
    BY <2>2, <2>4 DEF G!Running
  <2>5. StayersAreKnown'
    BY <2>2, <2>4 DEF KnownInv, StayersAreKnown
  <2> QED BY <2>3, <2>5
<1>5. ASSUME NEW i \in Server, G!raft_node_destroy(i)
      PROVE  OnlyQuittersLeave' /\ StayersAreKnown'
  <2>1. BagToSet(lines') \subseteq BagToSet(lines) /\ UNCHANGED <<peers, launch, tasks>>
        /\ state' = [state EXCEPT ![i] = "gone"]
    BY <1>5 DEF G!raft_node_destroy, BagToSet
  <2>2. ASSUME NEW k \in Server, G!Running(k)' PROVE G!Running(k)
    BY <2>1, <2>2 DEF G!Running
  <2> QED BY <2>1, <2>2 DEF KnownInv, OnlyQuittersLeave, StayersAreKnown
<1>6. CASE G!lose
  <2>1. BagToSet(lines') \subseteq BagToSet(lines)
    BY <1>6 DEF G!lose, G!(-), BagToSet
  <2> QED BY <1>6, <2>1 DEF G!lose, KnownInv, OnlyQuittersLeave, StayersAreKnown, G!Running
<1>7. CASE G!Work
  BY <1>7, KnownLine, KnownTask DEF G!Work, BagToSet, G!BagToSet
<1>8. CASE UNCHANGED G!vars
  BY <1>8 DEF G!vars, KnownInv, OnlyQuittersLeave, StayersAreKnown, G!Running
<1> QED BY <1>1, <1>3, <1>4, <1>5, <1>6, <1>7, <1>8 DEF G!Next

LEMMA StayersStayKnown == MSpec => []KnownInv
<1>1. MInit => KnownInv
  BY KnownInit
<1>2. KnownInv /\ [MNext]_mvars => KnownInv'
  BY KnownNext
<1> QED BY <1>1, <1>2, PTL DEF MSpec

\* A vote cast in this step is cast by a node that runs, in a term not earlier than its own,
\* and for whom it had voted in that term if for anyone it remembers.
VotesCast(i) ==
    /\ i \in Server /\ G!Running(i)
    /\ \A k \in Server \ {i} : UNCHANGED <<current_term[k], voted_for[k]>>
    /\ current_term'[i] \in Nat /\ current_term'[i] >= current_term[i]
    /\ \/ /\ granted' = granted
          /\ current_term'[i] = current_term[i] => voted_for'[i] = voted_for[i]
       \/ /\ granted' = granted \cup {<<current_term'[i], i, voted_for'[i]>>}
          /\ current_term'[i] = current_term[i] => voted_for[i] \in {Nil, voted_for'[i]}

LEMMA VotesCastStay ==
  ASSUME TypeInv, KnownInv, StayersVotes, NEW i, VotesCast(i), UNCHANGED launch
  PROVE  StayersVotes'
<1> DEFINE t == current_term'[i]
           c == voted_for'[i]
           new == <<t, i, c>>
<1>1. i \in Launched(launch) /\ i \in Server /\ t \in Nat /\ t >= current_term[i]
  BY DEF KnownInv, StayersAreKnown, VotesCast
<1>2. current_term \in [Server -> Nat] /\ granted \subseteq Nat \X Server \X Server
  BY DEF TypeInv, TypeOK
<1>3. granted' \subseteq granted \cup {new}
  BY DEF VotesCast
<1>4. ASSUME NEW g \in granted
      PROVE  /\ g[2] \in Launched(launch) /\ g[1] <= current_term'[g[2]]
             /\ g[1] = current_term'[g[2]] /\ g[3] \notin launch.quitters
                   => g[1] = current_term[g[2]] /\ voted_for[g[2]] = g[3] /\ voted_for'[g[2]] = g[3]
  <2>1. g[1] \in Nat /\ g[2] \in Server /\ g[3] \in Server /\ g[3] # Nil
    BY <1>2, ServerAssumption
  <2>2. /\ g[2] \in Launched(launch) /\ g[1] <= current_term[g[2]]
        /\ g[1] = current_term[g[2]] /\ g[3] \notin launch.quitters => voted_for[g[2]] = g[3]
    BY DEF StayersVotes
  <2>3. CASE g[2] # i
    BY <2>1, <2>2, <2>3 DEF VotesCast
  <2>4. CASE g[2] = i
    <3>1. current_term[i] \in Nat
      BY <1>1, <1>2
    <3>2. g[1] <= t /\ (g[1] = t => current_term[i] = t)
      BY <1>1, <2>1, <2>2, <2>4, <3>1
    <3>3. current_term[i] = t /\ voted_for[i] = g[3] => c = g[3]
      BY <2>1 DEF VotesCast
    <3> QED BY <2>2, <2>4, <3>2, <3>3
  <2> QED BY <2>3, <2>4
<1>5. ASSUME new \in granted', NEW g \in granted, g[1] = t, g[2] = i, g[3] \notin launch.quitters
      PROVE  g[3] = c
  BY <1>4, <1>5
<1>6. new[1] = t /\ new[2] = i /\ new[3] = c
  OBVIOUS
<1> HIDE DEF new, t, c
<1>7. ASSUME NEW g \in granted'
      PROVE  /\ g[2] \in Launched(launch) /\ g[1] <= current_term'[g[2]]
             /\ g[1] = current_term'[g[2]] /\ g[3] \notin launch.quitters
                   => voted_for'[g[2]] = g[3]
  <2>1. CASE g = new
    BY <1>1, <1>6, <2>1 DEF t, c
  <2> QED BY <1>3, <1>4, <2>1
<1>8. ASSUME NEW a \in granted', NEW b \in granted', a[1] = b[1], a[2] = b[2],
             {a[3], b[3]} \cap launch.quitters = {}
      PROVE  a[3] = b[3]
  <2>1. a[3] \notin launch.quitters /\ b[3] \notin launch.quitters
    BY <1>8
  <2>2. CASE a \in granted /\ b \in granted
    BY <1>8, <2>2 DEF StayersVotes
  <2>3. CASE a = new /\ b \in granted
    BY <1>5, <1>6, <1>8, <2>1, <2>3
  <2>4. CASE b = new /\ a \in granted
    BY <1>5, <1>6, <1>8, <2>1, <2>4
  <2> QED BY <1>3, <2>2, <2>3, <2>4
<1> QED BY <1>7, <1>8 DEF StayersVotes

\* What the core does to votes.
LEMMA CoreVotesCast ==
  ASSUME TypeInv, NEW i \in Server, G!Running(i), core(i) PROVE VotesCast(i)
<1>1. /\ current_term \in [Server -> Nat] /\ voted_for \in [Server -> Server \cup {Nil}]
      /\ current_term[i] \in Nat
  BY DEF TypeInv, TypeOK
<1>2. CASE UNCHANGED <<current_term, voted_for, granted>>
  BY <1>1, <1>2 DEF VotesCast
<1>3. ASSUME NEW t \in Nat,
             current_term' = [current_term EXCEPT ![i] = IF t > @ THEN t ELSE @],
             voted_for' = [voted_for EXCEPT ![i] = VoteIn(i, t)], UNCHANGED granted
      PROVE  VotesCast(i)
  <2>1. /\ current_term'[i] = IF t > current_term[i] THEN t ELSE current_term[i]
        /\ voted_for'[i] = VoteIn(i, t)
        /\ \A k \in Server \ {i} : UNCHANGED <<current_term[k], voted_for[k]>>
    BY <1>1, <1>3
  <2>2. /\ current_term'[i] \in Nat /\ current_term'[i] >= current_term[i]
        /\ current_term'[i] = current_term[i] => voted_for'[i] = voted_for[i]
    BY <1>1, <2>1 DEF VoteIn
  <2> QED BY <1>3, <2>1, <2>2 DEF VotesCast
<1>4. CASE ticker_timeout(i) \/ ticker_heartbeat(i)
  BY <1>2, <1>4 DEF ticker_timeout, ticker_heartbeat, votes, history
<1>5. CASE start_election(i)
  <2>1. /\ current_term' = [current_term EXCEPT ![i] = current_term[i] + 1]
        /\ voted_for' = [voted_for EXCEPT ![i] = i]
        /\ granted' = granted \cup {<<current_term[i] + 1, i, i>>}
    BY <1>5 DEF start_election
  <2> QED BY <1>1, <2>1 DEF VotesCast
<1>6. ASSUME NEW m \in rv, m.to = i, handle_request_vote(m) PROVE VotesCast(i)
  <2> DEFINE t == m.term
             grant == t >= current_term[i] /\ VoteIn(i, t) \in {Nil, m.from} /\ UpToDate(m, log[i])
  <2>1. t \in Nat
    BY DEF TypeInv, TypeOK, RequestVote
  <2>2. /\ current_term' = [current_term EXCEPT ![i] = IF t > @ THEN t ELSE @]
        /\ voted_for' = [voted_for EXCEPT ![i] = IF grant THEN m.from ELSE VoteIn(i, t)]
        /\ granted' = IF grant THEN granted \cup {<<t, i, m.from>>} ELSE granted
    BY <1>1, <1>6, <2>1 DEF handle_request_vote, become_follower_locked
  <2>3. CASE ~grant
    BY <1>3, <2>1, <2>2, <2>3
  <2>4. CASE grant
    <3>1. t >= current_term[i] /\ VoteIn(i, t) \in {Nil, m.from}
      BY <2>4
    <3> HIDE DEF grant, t
    <3>2. current_term'[i] = t /\ voted_for'[i] = m.from
          /\ granted' = granted \cup {<<t, i, m.from>>}
          /\ \A k \in Server \ {i} : UNCHANGED <<current_term[k], voted_for[k]>>
      BY <1>1, <2>1, <2>2, <2>4, <3>1
    <3>3. t = current_term[i] => VoteIn(i, t) = voted_for[i]
      BY <1>1 DEF VoteIn
    <3> QED BY <2>1, <3>1, <3>2, <3>3 DEF VotesCast
  <2> QED BY <2>3, <2>4
<1>7. ASSUME NEW m \in rvr, m.to = i, handle_request_vote_response(m) PROVE VotesCast(i)
  <2>1. m.term \in Nat
    BY DEF TypeInv, TypeOK, VoteResponse
  <2> QED BY <1>2, <1>3, <1>7, <2>1 DEF handle_request_vote_response, become_follower_locked
<1>8. ASSUME NEW m \in BagToSet(ae), m.to = i, handle_append_entries(m) PROVE VotesCast(i)
  <2>1. m.term \in Nat
    BY DEF TypeInv, TypeOK, AppendEntries
  <2>2. current_term' = [current_term EXCEPT ![i] = IF m.term > @ THEN m.term ELSE @]
    BY <1>1, <1>8, <2>1 DEF handle_append_entries, become_follower_locked
  <2> QED BY <1>3, <1>8, <2>1, <2>2 DEF handle_append_entries, history
<1>9. ASSUME NEW m \in BagToSet(aer), m.to = i, handle_append_response(m) PROVE VotesCast(i)
  <2>1. m.term \in Nat
    BY DEF TypeInv, TypeOK, AppendResponse
  <2> QED BY <1>2, <1>3, <1>9, <2>1
          DEF handle_append_response, become_follower_locked, votes, history
<1>10. ASSUME NEW th \in Thread, NEW j \in Server, send_append_to_peer(i, th, j)
       PROVE  VotesCast(i)
  BY <1>2, <1>10 DEF send_append_to_peer, votes, history
<1> QED BY <1>4, <1>5, <1>6, <1>7, <1>8, <1>9, <1>10 DEF core, ticker_loop

\* Nobody forgets a vote for a node that stays, and nobody votes.
LEMMA NobodyCasts ==
  ASSUME StayersVotes, UNCHANGED <<current_term, granted, launch>>,
         \A v \in Server, c \in Server \ launch.quitters :
             voted_for[v] = c => voted_for'[v] = c,
         granted \subseteq Nat \X Server \X Server
  PROVE  StayersVotes'
<1>1. ASSUME NEW g \in granted, g[1] = current_term[g[2]], g[3] \notin launch.quitters
      PROVE  voted_for'[g[2]] = g[3]
  BY <1>1 DEF StayersVotes
<1> QED BY <1>1 DEF StayersVotes

LEMMA StayersVotesNext ==
  ASSUME TypeInv, KnownInv, StayersVotes, [MNext]_mvars PROVE StayersVotes'
<1>1. UNCHANGED launch
  BY LaunchStays
<1>2. granted \subseteq Nat \X Server \X Server
  BY DEF TypeInv, TypeOK
<1>3. CASE UNCHANGED <<current_term, voted_for, granted>>
  BY <1>1, <1>2, <1>3, NobodyCasts
<1>4. ASSUME NEW i \in Server, G!Running(i), core(i) PROVE StayersVotes'
  BY <1>1, <1>4, CoreVotesCast, VotesCastStay
<1>5. ASSUME NEW i \in Server, raft_submit_command_alone(i) PROVE StayersVotes'
  BY <1>3, <1>5 DEF raft_submit_command_alone, Accept, check_alone, commit_alone,
     vars, votes, history
<1>6. ASSUME NEW i \in Server, NEW th \in Thread, NEW j \in Server, skip_removed_peer(i, th, j)
      PROVE  StayersVotes'
  BY <1>3, <1>6 DEF skip_removed_peer, votes, history
<1>7. ASSUME NEW i \in Server,
             raft_node_start(i) \/ request_cluster_leave(i) \/ raft_node_destroy(i)
      PROVE  StayersVotes'
  BY <1>3, <1>7 DEF raft_node_start, request_cluster_leave, raft_node_destroy, vars, votes, history
<1>8. ASSUME NEW m \in BagToSet(lines), handle_membership_line(m) PROVE StayersVotes'
  <2>1. CASE m.kind # "LEAVE"
    BY <1>3, <1>8, <2>1 DEF handle_membership_line, votes, history
  <2>2. CASE m.kind = "LEAVE"
    <3>1. m.about \in launch.quitters /\ m.to \in Server
      BY <2>2 DEF KnownInv, OnlyQuittersLeave, GossipTypes
    <3>2. /\ voted_for' = [voted_for EXCEPT ![m.to] = VoteAfterLeave(m.to, m.about)]
          /\ UNCHANGED <<current_term, granted>>
      BY <1>8, <2>2 DEF handle_membership_line, history
    <3>3. voted_for \in [Server -> Server \cup {Nil}]
      BY DEF TypeInv, TypeOK
    <3>4. ASSUME NEW v \in Server, NEW c \in Server \ launch.quitters, voted_for[v] = c
          PROVE  voted_for'[v] = c
      BY <3>1, <3>2, <3>3, <3>4 DEF VoteAfterLeave
    <3> QED BY <1>1, <1>2, <3>2, <3>4, NobodyCasts
  <2> QED BY <2>1, <2>2
<1>9. ASSUME NEW t \in BagToSet(tasks), do_membership_task(t) PROVE StayersVotes'
  BY <1>3, <1>9 DEF do_membership_task, votes, history
<1>10. CASE lose
  BY <1>3, <1>10 DEF lose, votes, history
<1>11. CASE UNCHANGED vars
  BY <1>3, <1>11 DEF vars, votes, history
<1> QED BY <1>4, <1>5, <1>6, <1>7, <1>8, <1>9, <1>10, <1>11 DEF MNext, mvars

\* Whoever wins has counted a majority of its peers of that moment.
LEMMA WinnersCount ==
  ASSUME TypeInv, NEW i \in Server, core(i), NEW e \in elected' \ elected
  PROVE  /\ e = <<current_term'[i], i>> /\ role'[i] = "leader"
         /\ votes_received'[i] >= majority_count(i)
<1>1. /\ role \in [Server -> {"follower", "candidate", "leader"}]
      /\ current_term \in [Server -> Nat] /\ votes_received \in [Server -> Nat]
  BY DEF TypeInv, TypeOK
<1>2. CASE start_election(i)
  <2>1. /\ current_term' = [current_term EXCEPT ![i] = current_term[i] + 1]
        /\ votes_received' = [votes_received EXCEPT ![i] = 1]
        /\ 1 >= majority_count(i) /\ role' = [role EXCEPT ![i] = "leader"]
        /\ elected' = elected \cup {<<current_term[i] + 1, i>>}
    BY <1>2 DEF start_election, become_leader_locked
  <2> QED BY <1>1, <2>1
<1>3. ASSUME NEW m \in rvr, m.to = i, handle_request_vote_response(m)
      PROVE  /\ e = <<current_term'[i], i>> /\ role'[i] = "leader"
             /\ votes_received'[i] >= majority_count(i)
  <2>1. /\ IsVote(i, m) /\ votes_received[i] + 1 >= majority_count(i)
        /\ votes_received' = [votes_received EXCEPT ![i] = @ + 1]
        /\ role' = [role EXCEPT ![i] = "leader"] /\ UNCHANGED current_term
        /\ elected' = elected \cup {<<m.term, i>>}
    BY <1>3 DEF handle_request_vote_response, become_leader_locked
  <2> QED BY <1>1, <2>1 DEF IsVote
<1>4. UNCHANGED elected \/ start_election(i)
      \/ \E m \in rvr : m.to = i /\ handle_request_vote_response(m)
  BY DEF core, ticker_loop, ticker_timeout, ticker_heartbeat, handle_request_vote,
     handle_append_entries, handle_append_response, send_append_to_peer, history
<1> QED BY <1>2, <1>3, <1>4

\* The core alone makes leaders.
LEMMA OthersDoNotElect ==
  ASSUME [MNext]_mvars
  PROVE  \/ UNCHANGED elected
         \/ \E i \in Server : G!Running(i) /\ core(i)
  BY DEF MNext, mvars, vars, history, raft_node_start, request_cluster_leave, raft_node_destroy,
     raft_submit_command_alone, Accept, check_alone, commit_alone, skip_removed_peer,
     handle_membership_line, do_membership_task, lose

\* And no vote is taken back.
LEMMA VotesLast == ASSUME [MNext]_mvars PROVE granted \subseteq granted'
<1>1. ASSUME NEW i \in Server, core(i) PROVE granted \subseteq granted'
  BY <1>1 DEF core, ticker_loop, ticker_timeout, ticker_heartbeat, start_election,
     handle_request_vote, handle_request_vote_response, handle_append_entries,
     handle_append_response, send_append_to_peer, history
<1> QED BY <1>1 DEF MNext, mvars, vars, history, raft_node_start, request_cluster_leave,
        raft_node_destroy, raft_submit_command_alone, Accept, check_alone, commit_alone,
        skip_removed_peer, handle_membership_line, do_membership_task, lose

LEMMA LeastIsLeast ==
  ASSUME KnownInv, NEW i \in Launched(launch)
  PROVE  /\ i \in Server /\ LeastMajority(launch, i) \in Nat /\ majority_count(i) \in Nat
         /\ LeastMajority(launch, i) <= majority_count(i)
<1> DEFINE S == KnownAtFirst(launch, i) \ launch.quitters
<1>1. i \in Server
  BY DEF KnownInv, G!IsLaunch, Launched
<1>2. S \subseteq peers[i] /\ peers[i] \subseteq Server
  BY <1>1 DEF KnownInv, StayersAreKnown, GossipTypes
<1>3. Cardinality(S) <= Cardinality(peers[i]) /\ Cardinality(S) \in Nat
      /\ Cardinality(peers[i]) \in Nat
  BY <1>2, ServersCount
<1> HIDE DEF S
<1>4. /\ ((Cardinality(S) + 1) \div 2) + 1 \in Nat
      /\ ((Cardinality(peers[i]) + 1) \div 2) + 1 \in Nat
      /\ ((Cardinality(S) + 1) \div 2) + 1 <= ((Cardinality(peers[i]) + 1) \div 2) + 1
  BY <1>3
<1> QED BY <1>1, <1>4 DEF S, LeastMajority, majority_count

LEMMA ElectedByLeastNext ==
  ASSUME TypeInv, KnownInv, VoteInv', ElectedByLeast, [MNext]_mvars PROVE ElectedByLeast'
<1>1. UNCHANGED launch /\ granted \subseteq granted'
  BY LaunchStays, VotesLast
<1> SUFFICES ASSUME ~launch.racing, NEW e \in elected'
             PROVE  /\ e[2] \in Launched(launch)
                    /\ LeastMajority(launch, e[2]) <= Cardinality(VotersOf(e[1], e[2])')
  BY <1>1 DEF ElectedByLeast, VotersOf
<1>2. ASSUME NEW t, NEW i
      PROVE  /\ VotersOf(t, i) \subseteq VotersOf(t, i)' /\ VotersOf(t, i)' \subseteq Server
             /\ Cardinality(VotersOf(t, i)) <= Cardinality(VotersOf(t, i)')
             /\ Cardinality(VotersOf(t, i)) \in Nat /\ Cardinality(VotersOf(t, i)') \in Nat
  <2>1. VotersOf(t, i) \subseteq VotersOf(t, i)' /\ VotersOf(t, i)' \subseteq Server
    BY <1>1 DEF VotersOf
  <2> QED BY <2>1, ServersCount
<1>3. CASE e \in elected
  <2>1. e[2] \in Launched(launch) /\ LeastMajority(launch, e[2]) <= Cardinality(VotersOf(e[1], e[2]))
    BY <1>3 DEF ElectedByLeast
  <2> QED BY <1>2, <2>1, LeastIsLeast
<1>4. CASE e \notin elected
  <2>1. PICK i \in Server : G!Running(i) /\ core(i)
    BY <1>4, OthersDoNotElect
  <2>2. /\ e = <<current_term'[i], i>> /\ role'[i] = "leader"
        /\ votes_received'[i] >= majority_count(i)
    BY <1>4, <2>1, WinnersCount
  <2>3. i \in Launched(launch)
    BY <2>1 DEF KnownInv, StayersAreKnown
  <2>4. votes_received'[i] <= Cardinality(Counted(i)') /\ votes_received'[i] \in Nat
    BY <1>1, <2>2 DEF VoteInv, VoteTypes, CountedByCandidate
  <2>5. e[1] = current_term'[i] /\ e[2] = i
    BY <2>2
  <2>6. Counted(i)' \subseteq VotersOf(e[1], e[2])'
    BY <2>5 DEF Counted, VotersOf
  <2>7. Cardinality(Counted(i)') <= Cardinality(VotersOf(e[1], e[2])')
        /\ Cardinality(Counted(i)') \in Nat /\ Cardinality(VotersOf(e[1], e[2])') \in Nat
    BY <1>2, <2>6, ServersCount
  <2>8. LeastMajority(launch, i) <= Cardinality(VotersOf(e[1], e[2])')
    BY <2>2, <2>3, <2>4, <2>7, LeastIsLeast
  <2> QED BY <2>3, <2>5, <2>8
<1> QED BY <1>3, <1>4

StayersInv == StayersVotes /\ ElectedByLeast

LEMMA StayersAgree == MSpec => []StayersInv
<1>1. MInit => StayersInv
  BY DEF MInit, NodeInit, StayersInv, StayersVotes, ElectedByLeast
<1>2. TypeInv /\ KnownInv /\ VoteInv' /\ StayersInv /\ [MNext]_mvars => StayersInv'
  BY StayersVotesNext, ElectedByLeastNext DEF StayersInv
<1> QED BY <1>1, <1>2, MTypesHold, StayersStayKnown, VotesAddUp, PTL DEF MSpec

\* Where any two majorities of nodes that stay have a voter in common, no two of them lead in
\* one term, whoever has heard of whom (add_peer_locked), although a vote cast for one that
\* quits may be cast again (remove_peer_locked) and each counts the majority of its own array.
THEOREM StayersLeadAlone == MSpec => [](MajoritiesMeet(launch) => StayersElectedOnce)
<1>1. ASSUME TypeInv, KnownInv, StayersInv, MajoritiesMeet(launch) PROVE StayersElectedOnce
  <2> SUFFICES ASSUME ~launch.racing, NEW a \in elected, NEW b \in elected,
                      a[1] = b[1], {a[2], b[2]} \cap launch.quitters = {}, a[2] # b[2]
               PROVE  FALSE
    BY DEF StayersElectedOnce
  <2> DEFINE V == VotersOf(a[1], a[2])
             W == VotersOf(b[1], b[2])
             All == Launched(launch)
  <2>1. /\ a[2] \in All /\ LeastMajority(launch, a[2]) <= Cardinality(V)
        /\ b[2] \in All /\ LeastMajority(launch, b[2]) <= Cardinality(W)
    BY <1>1 DEF StayersInv, ElectedByLeast
  <2>2. V \subseteq All /\ W \subseteq All
    BY <1>1 DEF StayersInv, StayersVotes, VotersOf
  <2>3. V \cap W = {}
    <3> SUFFICES ASSUME NEW v \in V, v \in W PROVE FALSE
      OBVIOUS
    <3>1. <<a[1], v, a[2]>> \in granted /\ <<b[1], v, b[2]>> \in granted
      BY DEF VotersOf
    <3> QED BY <1>1, <3>1 DEF StayersInv, StayersVotes
  <2>4. IsFiniteSet(All)
    BY <1>1, ServerAssumption, FS_Subset DEF KnownInv, G!IsLaunch, Launched
  <2>5. LeastMajority(launch, a[2]) + LeastMajority(launch, b[2]) > Cardinality(All)
    BY <1>1, <2>1 DEF MajoritiesMeet
  <2>6. LeastMajority(launch, a[2]) \in Nat /\ LeastMajority(launch, b[2]) \in Nat
    BY <1>1, <2>1, LeastIsLeast
  <2> HIDE DEF V, W, All
  <2>7. IsFiniteSet(V) /\ IsFiniteSet(W) /\ V \cup W \subseteq All
    BY <2>2, <2>4, FS_Subset
  <2>8. Cardinality(V \cup W) = Cardinality(V) + Cardinality(W)
        /\ Cardinality(V) \in Nat /\ Cardinality(W) \in Nat
    <3>1. Cardinality(V \cup W) = Cardinality(V) + Cardinality(W) - Cardinality(V \cap W)
      BY <2>7, FS_Union
    <3>2. Cardinality(V \cap W) = 0
      BY <2>3, FS_EmptySet
    <3>3. Cardinality(V) \in Nat /\ Cardinality(W) \in Nat
      BY <2>7, FS_CardinalityType
    <3> QED BY <3>1, <3>2, <3>3
  <2>9. Cardinality(V \cup W) <= Cardinality(All) /\ Cardinality(All) \in Nat
    BY <2>4, <2>7, FS_Subset, FS_CardinalityType
  <2> QED BY <2>1, <2>5, <2>6, <2>8, <2>9
<1> QED BY <1>1, MTypesHold, StayersStayKnown, StayersAgree, PTL

(***************************************************************************)
(* Logs of a cluster that changes, in whichever way it is launched.  What  *)
(* RaftCoreProofs shows of links does not ask who knows whom, but that a   *)
(* term has one leader.  Here it may have two, and then logs need not      *)
(* match; as long as none ever had, they do.  A newcomer with an empty log *)
(* is one more log.                                                        *)
(***************************************************************************)

\* No election is forgotten.
LEMMA WinnersLast == ASSUME [MNext]_mvars PROVE elected \subseteq elected'
<1>1. ASSUME NEW i \in Server, core(i) PROVE elected \subseteq elected'
  BY <1>1 DEF core, ticker_loop, ticker_timeout, ticker_heartbeat, start_election,
     become_leader_locked, handle_request_vote, handle_request_vote_response,
     handle_append_entries, handle_append_response, send_append_to_peer, history
<1> QED BY <1>1 DEF MNext, mvars, vars, history, raft_node_start, request_cluster_leave,
        raft_node_destroy, raft_submit_command_alone, Accept, check_alone, commit_alone,
        skip_removed_peer, handle_membership_line, do_membership_task, lose

\* If no term has had two leaders, none had before.
LEMMA SafeBefore == ASSUME [MNext]_mvars, ElectionSafety' PROVE ElectionSafety
  BY WinnersLast DEF ElectionSafety

\* What the core does to offices.
LEMMA CoreOffice ==
  ASSUME TypeOK, Offices, NEW i \in Server, core(i) PROVE OfficeStep
<1>1. CASE ticker_timeout(i) \/ ticker_heartbeat(i)
  BY <1>1, SameOffice DEF ticker_timeout, ticker_heartbeat, votes, history
<1>2. ASSUME NEW th \in Thread, NEW j \in Server, send_append_to_peer(i, th, j)
      PROVE  OfficeStep
  BY <1>2, SameOffice DEF send_append_to_peer, votes, history
<1> QED
  BY <1>1, <1>2, StartElectionOffice, RequestVoteOffice, RequestVoteResponseOffice,
     AppendEntriesOffice, AppendResponseOffice DEF core, ticker_loop

LEMMA CoreLinks ==
  ASSUME TypeInv, TypeInv', LinkInv, ElectionSafety', NEW i \in Server, core(i)
  PROVE  LinkInv' /\ LeadersKeep
<1>1. TypeOK /\ TypeOK' /\ Offices
  BY DEF TypeInv, LinkInv
<1>2. ASSUME log' = log PROVE LeadersKeep
  BY <1>1, <1>2 DEF LeadersKeep, Extends, TypeOK
<1>3. ASSUME log' = log, BagToSet(ae') \subseteq BagToSet(ae) PROVE LinkInv' /\ LeadersKeep
  BY <1>1, <1>2, <1>3, CoreOffice, QuietStep
<1>4. ASSUME NEW th \in Thread, NEW j \in Server, send_append_to_peer(i, th, j)
      PROVE  LinkInv' /\ LeadersKeep
  <2>1. log' = log
    BY <1>4 DEF send_append_to_peer, logs
  <2> QED BY <1>1, <1>2, <1>4, <2>1, SendAppendLinks
<1>5. ASSUME NEW m \in BagToSet(ae), handle_append_entries(m) PROVE LinkInv' /\ LeadersKeep
  BY <1>5, AppendEntriesLinks
<1>6. CASE ticker_loop(i)
  BY <1>3, <1>6 DEF ticker_loop, start_election, ticker_timeout, ticker_heartbeat, logs
<1>7. ASSUME NEW m \in rv, handle_request_vote(m) PROVE LinkInv' /\ LeadersKeep
  BY <1>3, <1>7 DEF handle_request_vote, logs
<1>8. ASSUME NEW m \in rvr, handle_request_vote_response(m) PROVE LinkInv' /\ LeadersKeep
  BY <1>3, <1>8 DEF handle_request_vote_response, logs
<1>9. ASSUME NEW m \in BagToSet(aer), handle_append_response(m) PROVE LinkInv' /\ LeadersKeep
  BY <1>3, <1>9 DEF handle_append_response, recompute_commit_locked, logs
<1> QED BY <1>4, <1>5, <1>6, <1>7, <1>8, <1>9 DEF core

\* Client writes.
LEMMA AcceptLinks ==
  ASSUME TypeOK, TypeOK', LinkInv, ElectionSafety, ElectionSafety', NEW i \in Server,
         NEW c \in Command, Accept(i, c)
  PROVE  LinkInv' /\ LeadersKeep
<1> DEFINE e == [term |-> current_term[i], cmd |-> c]
<1>1. /\ e \in Entry /\ e.term = current_term[i] /\ role[i] = "leader"
      /\ UNCHANGED <<role, current_term, elected, ae>>
      /\ log' = [log EXCEPT ![i] = append_entry_locked(log[i], current_term[i], c)]
  BY DEF TypeOK, Entry, Accept, votes, history
<1>2. CASE append_entry_locked(log[i], current_term[i], c) = log[i]
  <2>1. log' = log
    BY <1>1, <1>2 DEF TypeOK
  <2>2. LeadersKeep
    BY <2>1 DEF LeadersKeep, Extends, TypeOK
  <2> QED BY <1>1, <2>1, <2>2, SameOffice, QuietStep
<1>3. CASE append_entry_locked(log[i], current_term[i], c) = Append(log[i], e)
  <2> HIDE DEF e
  <2> QED BY <1>1, <1>3, LeaderAppends
<1> QED BY <1>2, <1>3 DEF append_entry_locked

LEMMA MLinkNext ==
  ASSUME TypeInv, TypeInv', LinkInv, ElectionSafety, ElectionSafety', WritesAreCommands,
         [MNext]_mvars
  PROVE  LinkInv' /\ LeadersKeep
<1>1. TypeOK /\ TypeOK'
  BY DEF TypeInv
<1>2. ASSUME UNCHANGED <<role, current_term, elected, log>>, BagToSet(ae') \subseteq BagToSet(ae)
      PROVE  LinkInv' /\ LeadersKeep
  <2>1. LeadersKeep
    BY <1>1, <1>2 DEF LeadersKeep, Extends, TypeOK
  <2> QED BY <1>1, <1>2, <2>1, SameOffice, QuietStep
<1>3. ASSUME NEW i \in Server, raft_submit_command_alone(i) PROVE LinkInv' /\ LeadersKeep
  <2>1. ASSUME NEW c \in launch.writes, Accept(i, c) PROVE LinkInv' /\ LeadersKeep
    BY <1>1, <2>1, AcceptLinks DEF WritesAreCommands
  <2>2. CASE check_alone(i) \/ commit_alone(i)
    BY <1>2, <2>2 DEF check_alone, commit_alone, vars, votes, logs, history
  <2> QED BY <1>3, <2>1, <2>2 DEF raft_submit_command_alone
<1>4. ASSUME NEW i \in Server, NEW th \in Thread, NEW j \in Server, skip_removed_peer(i, th, j)
      PROVE  LinkInv' /\ LeadersKeep
  BY <1>2, <1>4 DEF skip_removed_peer, votes, logs, history
<1>5. ASSUME NEW i \in Server,
             raft_node_start(i) \/ request_cluster_leave(i) \/ raft_node_destroy(i)
      PROVE  LinkInv' /\ LeadersKeep
  BY <1>2, <1>5 DEF raft_node_start, request_cluster_leave, raft_node_destroy, vars,
     votes, logs, history
<1>6. ASSUME NEW m \in BagToSet(lines), handle_membership_line(m) PROVE LinkInv' /\ LeadersKeep
  BY <1>2, <1>6 DEF handle_membership_line, votes, logs, history
<1>7. ASSUME NEW t \in BagToSet(tasks), do_membership_task(t) PROVE LinkInv' /\ LeadersKeep
  BY <1>2, <1>7 DEF do_membership_task, votes, logs, history
<1>8. CASE lose
  BY <1>2, <1>8, RemoveLine DEF lose, votes, logs, history
<1>9. CASE UNCHANGED vars
  BY <1>2, <1>9 DEF vars, votes, logs, history
<1> QED BY <1>3, <1>4, <1>5, <1>6, <1>7, <1>8, <1>9, CoreLinks DEF MNext, mvars

LEMMA CommandsWritten == MSpec => []WritesAreCommands
<1>1. MInit => WritesAreCommands
  BY LaunchAssumption DEF MInit, G!Init, WritesAreCommands
<1>2. WritesAreCommands /\ [MNext]_mvars => WritesAreCommands'
  BY LaunchStays DEF WritesAreCommands
<1> QED BY <1>1, <1>2, PTL DEF MSpec

LEMMA ChangingLinks == MSpec => [](ElectionSafety => LogInv)
<1>1. MInit => LinkInv
  BY LinkInit DEF MInit
<1>2. TypeInv /\ TypeInv' /\ LinkInv /\ ElectionSafety /\ ElectionSafety' /\ WritesAreCommands
      /\ [MNext]_mvars => LinkInv'
  BY MLinkNext
<1>3. [MNext]_mvars /\ ElectionSafety' => ElectionSafety
  BY SafeBefore
<1>4. TypeInv /\ LinkInv => LogInv
  BY DEF LogInv
<1> QED BY <1>1, <1>2, <1>3, <1>4, MTypesHold, CommandsWritten, PTL DEF MSpec

\* Whoever joins, quits or gets an answer meant for another: as long as no term has had two
\* leaders, logs match, a leader has all entries of its term, and terms ascend.  Also while
\* newcomers are told of each other one by one (PEER lines), are sent AE lines by nodes that
\* do not lead, and those that quit go on answering.
THEOREM ChangingLogsMatch ==
  MSpec => [](ElectionSafety => LogMatching /\ LeaderOwnsItsTerm /\ TermsAscend)
<1>1. LogInv => LogMatching /\ LeaderOwnsItsTerm /\ TermsAscend
  BY OwnsByLinks, AscendByLinks DEF LogInv, LinkInv
<1> QED BY <1>1, ChangingLinks, PTL

\* And where no term has two leaders, a leader only appends, whatever AE lines reach it of
\* newcomers or of nodes that have left.
THEOREM ChangingLeadersAppend == MSpec /\ []ElectionSafety => LeaderAppendOnly
<1>1. LogInv /\ LogInv' /\ ElectionSafety /\ ElectionSafety' /\ WritesAreCommands
      /\ [MNext]_mvars =>
        [\A i \in Server : role[i] = "leader" /\ role'[i] = "leader" =>
            IsPrefix(log[i], log'[i])]_vars
  BY MLinkNext, KeptIsPrefix DEF LogInv, TypeInv
<1> QED BY <1>1, ChangingLinks, CommandsWritten, PTL DEF MSpec, LeaderAppendOnly

(***************************************************************************)
(* A cluster that grows from one node to two.  The first node elects       *)
(* itself, takes writes and commits them alone, and goes on doing so while *)
(* the second one joins.  They apply the same entries nevertheless, as two *)
(* nodes that know each other from the start do (RaftCoreProofs), but not  *)
(* because what is committed is on both.  Logs only grow, and fit: while   *)
(* the first node leads without the vote of the second, the second has     *)
(* never led and has what it was sent.  A vote alone does not show that a  *)
(* candidate's log is as long as the voter's, who may since have led       *)
(* alone; an answer to the candidate does, and none is sent to a node that *)
(* is not a peer.                                                          *)
(***************************************************************************)

AtMostTwoLaunched == Cardinality(Launched(launch)) <= 2

\* All nodes stay and their majorities meet, so a term has one leader.
AllStay == NobodyQuits(launch) /\ MajoritiesMeet(launch)

LEMMA StayersElectOnce == MSpec => [](AllStay => ElectionSafety)
<1>1. AllStay /\ (MajoritiesMeet(launch) => StayersElectedOnce) => ElectionSafety
  BY DEF AllStay, NobodyQuits, StayersElectedOnce, ElectionSafety
<1> QED BY <1>1, StayersLeadAlone, PTL

LEMMA AllStayOn == MSpec /\ AllStay => []AllStay
<1>1. AllStay /\ [MNext]_mvars => AllStay'
  BY LaunchStays DEF AllStay, NobodyQuits, MajoritiesMeet, LeastMajority, KnownAtFirst, Launched
<1> QED BY <1>1, PTL DEF MSpec

\* What is known of such a cluster from the sections above.
DuoFacts ==
    /\ TypeInv /\ KnownInv /\ VoteInv /\ StayersInv /\ Offices /\ TermsKnown
    /\ AllStay /\ AtMostTwoLaunched

\* Who was not launched does nothing.
OthersIdle == \A i \in Server \ Launched(launch) : role[i] = "follower" /\ log[i] = <<>>

OwnVotes == \A i \in Server : role[i] # "follower" => <<current_term[i], i, i>> \in granted

LinesRepeat ==
    /\ \A m \in BagToSet(ae) : Repeats(m)
    /\ \A m \in rv : RequestFits(m)
    /\ \A m \in rvr : m.from # m.to

\* What i has applied is in its own log.
OwnApplied(i) ==
    /\ Len(applied[i]) <= Len(log[i])
    /\ \A n \in 1 .. Len(applied[i]) : Alike(applied[i][n], log[i][n])

AllOwnApplied == \A i \in Server : OwnApplied(i)

\* Node c leads with the vote of j, or the vote of j is on its way to candidate c.
Backed(c, j) ==
    \/ role[c] = "leader" /\ <<current_term[c], j, c>> \in granted
    \/ role[c] = "candidate"
       /\ \E m \in rvr : m.granted /\ m.term = current_term[c] /\ m.from = j /\ m.to = c

BackersBehind == \A c, j \in Server : Backed(c, j) => Len(log[j]) <= Len(log[c])

\* Node a does not know b, or leads without its vote.
Without(a, b) ==
    \/ b \notin peers[a]
    \/ role[a] = "leader" /\ <<current_term[a], b, a>> \notin granted

\* A node that may lead alone, as long as it does without b.
NewcomersBehind ==
    \A a, b \in Launched(launch) :
        a # b /\ LeastMajority(launch, a) < 2 /\ Without(a, b) =>
            /\ \A t \in Nat : <<t, b>> \notin elected
            /\ \A m \in rvr : m.granted => ~(m.from = a /\ m.to = b)
            /\ Len(log[b]) <= Len(log[a])

DuoData == LogsFit /\ LinesRepeat /\ AllOwnApplied
DuoVotes == OthersIdle /\ OwnVotes /\ BackersBehind /\ NewcomersBehind
DuoInv == DuoData /\ DuoVotes

LEMMA DuoTypes ==
  ASSUME DuoFacts
  PROVE  /\ TypeOK /\ launch.quitters = {} /\ ~launch.racing
         /\ Launched(launch) \subseteq Server
         /\ \A i \in Server : G!Running(i) => i \in Launched(launch)
<1>1. TypeOK /\ launch.quitters = {} /\ ~launch.racing
  BY DEF DuoFacts, TypeInv, AllStay, NobodyQuits
<1>2. Launched(launch) \subseteq Server
  BY DEF DuoFacts, KnownInv, G!IsLaunch, Launched
<1> QED BY <1>1, <1>2 DEF DuoFacts, KnownInv, StayersAreKnown

\* Votes of nodes none of which ever quits.
LEMMA DuoCast ==
  ASSUME DuoFacts
  PROVE  /\ \A t, v, c : <<t, v, c>> \in granted =>
               /\ t \in Nat /\ v \in Server /\ c \in Server /\ v \in Launched(launch)
               /\ t <= current_term[v] /\ t <= current_term[c]
               /\ t = current_term[v] => voted_for[v] = c
         /\ \A t, v, c, d : <<t, v, c>> \in granted /\ <<t, v, d>> \in granted => c = d
         /\ \A m \in rvr : m.granted => <<m.term, m.from, m.to>> \in granted
<1>1. granted \subseteq Nat \X Server \X Server /\ launch.quitters = {} /\ ~launch.racing
  BY DEF DuoFacts, TypeInv, TypeOK, AllStay, NobodyQuits
<1>2. ASSUME NEW t, NEW v, NEW c, <<t, v, c>> \in granted
      PROVE  /\ t \in Nat /\ v \in Server /\ c \in Server /\ v \in Launched(launch)
             /\ t <= current_term[v] /\ t <= current_term[c]
             /\ t = current_term[v] => voted_for[v] = c
  <2> DEFINE g == <<t, v, c>>
  <2>1. /\ g[2] \in Launched(launch) /\ g[1] <= current_term[g[2]]
        /\ g[1] = current_term[g[2]] /\ g[3] \notin launch.quitters => voted_for[g[2]] = g[3]
    BY <1>2 DEF DuoFacts, StayersInv, StayersVotes
  <2>2. g[1] <= current_term[g[3]]
    BY <1>2 DEF DuoFacts, VoteInv, AskedOnce
  <2> QED BY <1>1, <1>2, <2>1, <2>2
<1>3. ASSUME NEW t, NEW v, NEW c, NEW d, <<t, v, c>> \in granted, <<t, v, d>> \in granted
      PROVE  c = d
  <2> DEFINE g == <<t, v, c>>  h == <<t, v, d>>
  <2>1. g[1] = h[1] /\ g[2] = h[2] /\ {g[3], h[3]} \cap launch.quitters = {} => g[3] = h[3]
    BY <1>3 DEF DuoFacts, StayersInv, StayersVotes
  <2> QED BY <1>1, <2>1
<1>4. \A m \in rvr : m.granted => <<m.term, m.from, m.to>> \in granted
  BY <1>1 DEF DuoFacts, VoteInv, CountedByCandidate
<1> QED BY <1>2, <1>3, <1>4

LEMMA OnlyOneOther ==
  ASSUME DuoFacts, NEW a \in Launched(launch), NEW b \in Launched(launch),
         NEW c \in Launched(launch), a # b
  PROVE  c \in {a, b}
<1>1. IsFiniteSet(Launched(launch))
  BY DuoTypes, ServerAssumption, FS_Subset
<1>2. Cardinality(Launched(launch)) <= 2
  BY DEF DuoFacts, AtMostTwoLaunched
<1> QED BY <1>1, <1>2, NoThirdOf

\* Who cannot lead alone was elected by all there are.
LEMMA AllBack ==
  ASSUME DuoFacts, NEW t, NEW i, <<t, i>> \in elected, LeastMajority(launch, i) >= 2,
         NEW j \in Launched(launch)
  PROVE  <<t, j, i>> \in granted
<1> DEFINE e == <<t, i>>  V == VotersOf(t, i)  All == Launched(launch)
<1>1. e[2] \in All /\ LeastMajority(launch, e[2]) <= Cardinality(VotersOf(e[1], e[2]))
  BY DuoTypes DEF DuoFacts, StayersInv, ElectedByLeast
<1>2. i \in All /\ LeastMajority(launch, i) <= Cardinality(V)
  BY <1>1
<1>3. V \subseteq All
  BY DuoCast DEF VotersOf
<1>4. IsFiniteSet(All) /\ Cardinality(All) <= 2
  BY DuoTypes, ServerAssumption, FS_Subset DEF DuoFacts, AtMostTwoLaunched
<1>5. LeastMajority(launch, i) \in Nat
  BY <1>2, LeastIsLeast DEF DuoFacts
<1> HIDE DEF V, All
<1>6. Cardinality(V) <= Cardinality(All) /\ Cardinality(V) \in Nat /\ Cardinality(All) \in Nat
  BY <1>3, <1>4, FS_Subset, FS_CardinalityType
<1>7. Cardinality(V) = Cardinality(All)
  BY <1>2, <1>4, <1>5, <1>6
<1>8. V = All
  BY <1>3, <1>4, <1>7, FS_Subset
<1> QED BY <1>8 DEF V, All, VotersOf

\* If one can lead alone the other cannot.
LEMMA OneLeadsAlone ==
  ASSUME DuoFacts, NEW a \in Launched(launch), NEW b \in Launched(launch), a # b,
         LeastMajority(launch, a) < 2
  PROVE  LeastMajority(launch, b) >= 2 /\ majority_count(b) >= 2
<1>1. IsFiniteSet(Launched(launch)) /\ IsFiniteSet({a, b}) /\ Cardinality({a, b}) = 2
  <2>1. IsFiniteSet({a}) /\ Cardinality({a}) = 1
    BY FS_Singleton
  <2>2. IsFiniteSet({a} \cup {b}) /\ Cardinality({a} \cup {b}) = 2
    BY <2>1, FS_AddElement
  <2>3. {a} \cup {b} = {a, b}
    OBVIOUS
  <2> QED BY <2>2, <2>3, DuoTypes, ServerAssumption, FS_Subset
<1>2. 2 <= Cardinality(Launched(launch)) /\ Cardinality(Launched(launch)) \in Nat
  <2>1. {a, b} \subseteq Launched(launch)
    OBVIOUS
  <2> QED BY <1>1, <2>1, FS_Subset, FS_CardinalityType
<1>3. LeastMajority(launch, a) + LeastMajority(launch, b) > Cardinality(Launched(launch))
  BY DuoTypes DEF DuoFacts, AllStay, MajoritiesMeet
<1>4. /\ LeastMajority(launch, a) \in Nat /\ LeastMajority(launch, b) \in Nat
      /\ majority_count(b) \in Nat /\ LeastMajority(launch, b) <= majority_count(b)
  BY LeastIsLeast DEF DuoFacts
<1> QED BY <1>2, <1>3, <1>4

\* A leader has all there is.
LEMMA LeaderLonger ==
  ASSUME DuoFacts, DuoInv, NEW i \in Server, role[i] = "leader", NEW j \in Server
  PROVE  Len(log[j]) <= Len(log[i])
<1>1. \A k \in Server : Len(log[k]) \in Nat
  BY DuoTypes, LogTypes
<1>2. i \in Launched(launch)
  BY DEF DuoInv, DuoVotes, OthersIdle
<1>3. CASE j \notin Launched(launch)
  <2>1. Len(log[j]) = 0
    BY <1>3 DEF DuoInv, DuoVotes, OthersIdle
  <2> QED BY <1>1, <2>1
<1>4. CASE j = i
  BY <1>1, <1>4
<1>5. CASE j \in Launched(launch) /\ j # i
  <2>1. CASE <<current_term[i], j, i>> \in granted
    BY <2>1 DEF DuoInv, DuoVotes, BackersBehind, Backed
  <2>2. CASE <<current_term[i], j, i>> \notin granted
    <3>1. <<current_term[i], i>> \in elected
      BY DEF DuoFacts, Offices
    <3>2. LeastMajority(launch, i) \in Nat
      BY <1>2, LeastIsLeast DEF DuoFacts
    <3>3. LeastMajority(launch, i) < 2
      BY <1>5, <2>2, <3>1, <3>2, AllBack
    <3> QED BY <1>2, <1>5, <2>2, <3>3 DEF DuoInv, DuoVotes, NewcomersBehind, Without
  <2> QED BY <2>1, <2>2
<1> QED BY <1>3, <1>4, <1>5

\* Nobody leads whose vote another one leads with, or may get.
LEMMA BackersDoNotLead ==
  ASSUME DuoFacts, DuoInv, NEW j \in Server, role[j] = "leader", NEW c \in Server \ {j}
  PROVE  ~Backed(c, j)
<1> SUFFICES ASSUME Backed(c, j) PROVE FALSE
  OBVIOUS
<1>1. <<current_term[c], j, c>> \in granted
  BY DuoCast DEF Backed
<1>2. c \in Launched(launch) /\ j \in Launched(launch)
  BY DEF DuoInv, DuoVotes, OthersIdle, Backed
<1>3. current_term[c] \in Nat /\ current_term[j] \in Nat
  BY DuoTypes DEF TypeOK
<1>4. CASE <<current_term[j], c, j>> \in granted
  <2>1. current_term[j] <= current_term[c] /\ current_term[c] <= current_term[j]
    BY <1>1, <1>4, DuoCast
  <2>2. current_term[j] = current_term[c]
    BY <1>3, <2>1
  <2>3. <<current_term[j], j, j>> \in granted
    BY DEF DuoInv, DuoVotes, OwnVotes
  <2> QED BY <1>1, <2>2, <2>3, DuoCast
<1>5. CASE <<current_term[j], c, j>> \notin granted
  <2>1. <<current_term[j], j>> \in elected
    BY DEF DuoFacts, Offices
  <2>2. LeastMajority(launch, j) \in Nat
    BY <1>2, LeastIsLeast DEF DuoFacts
  <2>3. LeastMajority(launch, j) < 2
    BY <1>2, <1>5, <2>1, <2>2, AllBack
  <2>4. /\ \A t \in Nat : <<t, c>> \notin elected
        /\ \A m \in rvr : m.granted => ~(m.from = j /\ m.to = c)
    BY <1>2, <1>5, <2>3 DEF DuoInv, DuoVotes, NewcomersBehind, Without
  <2> QED BY <1>3, <2>4 DEF Backed, DuoFacts, Offices
<1> QED BY <1>4, <1>5

(***************************************************************************)
(* What a step does to logs.                                               *)
(***************************************************************************)

DuoPeers == \A i \in Server : peers[i] \subseteq peers'[i]

LEMMA DuoPeersGrow ==
  ASSUME DuoFacts, [MNext]_mvars PROVE DuoPeers
<1> USE DEF DuoPeers
<1>1. peers \in [Server -> SUBSET Server]
  BY DuoTypes DEF TypeOK
<1>2. ASSUME NEW m \in BagToSet(lines), G!handle_line(m)
      PROVE  \A i \in Server : peers[i] \subseteq peers'[i]
  <2>1. m.kind = "LEAVE" => m.about \in launch.quitters
    BY DEF DuoFacts, KnownInv, OnlyQuittersLeave
  <2>2. m.kind # "LEAVE"
    BY <2>1, DuoTypes
  <2>3. peers' = [peers EXCEPT ![m.to] = IF G!CanAdd(m.to, m.about) THEN @ \cup {m.about} ELSE @]
        \/ UNCHANGED peers
    BY <1>2, <2>2 DEF G!handle_line, G!handle_join, G!handle_peer_announce, G!handle_leave,
       G!add_peer_locked
  <2> QED BY <1>1, <2>3
<1>3. CASE UNCHANGED peers
  BY <1>3
<1>4. [G!Next]_(G!vars)
  BY GossipStep
<1>5. ASSUME NEW t \in BagToSet(tasks), G!do_task(t) PROVE UNCHANGED peers
  BY <1>5 DEF G!do_task, G!request_cluster_join, G!announce_peer_to_known_nodes,
     G!send_peer_catalog, G!announce_leave_to_known_nodes
<1> QED
  BY <1>2, <1>3, <1>4, <1>5 DEF G!Next, G!Work, G!raft_node_start, G!request_cluster_leave,
     G!raft_node_destroy, G!lose, G!vars, BagToSet, G!BagToSet

\* Everybody but i is as before, and nobody votes, wins or meets anybody.
AllButOne(i) ==
    /\ i \in Launched(launch)
    /\ \A k \in Server \ {i} :
          role'[k] = role[k] /\ current_term'[k] = current_term[k] /\ log'[k] = log[k]
    /\ Len(log[i]) <= Len(log'[i])
    /\ UNCHANGED <<peers, rvr, granted, elected>>

\* Leader i takes a write.
Writes(i) == AllButOne(i) /\ role[i] = "leader" /\ UNCHANGED <<role, current_term>>

\* Node i stores what another one has there.
Copies(i) ==
    /\ AllButOne(i) /\ role'[i] = "follower"
    /\ \E f \in Server \ {i} : Len(log[f]) >= 1 /\ Len(log'[i]) <= Len(log[f])

LogStep == log' = log \/ \E i \in Server : Writes(i) \/ Copies(i)

LEMMA ApplyOwn ==
  ASSUME TypeOK, TypeOK', LogsGrow, AllOwnApplied, NEW i \in Server, NEW n \in Nat,
         n <= Len(applied[i]) \/ n <= Len(log'[i]),
         applied' = [applied EXCEPT ![i] = apply_committed_locked(@, log'[i], n)]
  PROVE  AllOwnApplied'
<1>1. \A k \in Server : /\ Len(log[k]) \in Nat /\ Len(log'[k]) \in Nat
                        /\ Len(log[k]) <= Len(log'[k]) /\ Len(applied[k]) \in Nat
                        /\ applied[k] \in Seq(Entry) /\ log'[k] \in Seq(Entry)
  BY LogsLonger, LogLengths DEF TypeOK
<1>2. ASSUME NEW k \in Server
      PROVE  /\ Len(applied[k]) <= Len(log'[k])
             /\ \A h \in 1 .. Len(applied[k]) : Alike(applied[k][h], log'[k][h])
  <2>1. Len(applied[k]) <= Len(log[k])
    BY DEF AllOwnApplied, OwnApplied
  <2>2. ASSUME NEW h \in 1 .. Len(applied[k]) PROVE Alike(applied[k][h], log'[k][h])
    <3>1. h \in 1 .. Len(log[k])
      BY <1>1, <2>1
    <3>2. log'[k][h] = log[k][h]
      BY <3>1 DEF LogsGrow, Extends
    <3> QED BY <3>2 DEF AllOwnApplied, OwnApplied
  <2> QED BY <1>1, <2>1, <2>2
<1>3. ASSUME NEW k \in Server \ {i} PROVE OwnApplied(k)'
  <2>1. applied'[k] = applied[k]
    BY DEF TypeOK
  <2> QED BY <1>2, <2>1 DEF OwnApplied
<1>4. OwnApplied(i)'
  <2> DEFINE r == apply_committed_locked(applied[i], log'[i], n)
  <2>1. applied'[i] = r
    BY DEF TypeOK
  <2>2. /\ Len(r) \in Nat /\ (Len(r) = Len(applied[i]) \/ Len(r) = n)
        /\ \A k \in 1 .. Len(r) : r[k] = IF k <= Len(applied[i]) THEN applied[i][k] ELSE log'[i][k]
    <3>1. applied[i] \in Seq(Entry) /\ log'[i] \in Seq(Entry) /\ (n <= Len(applied[i]) \/ n <= Len(log'[i]))
      BY <1>1
    <3> HIDE DEF Entry
    <3> QED BY <3>1, ApplyShape
  <2>3. Len(r) <= Len(log'[i])
    <3>1. CASE Len(applied[i]) < n
      BY <1>1, <2>2, <3>1, <1>2
    <3>2. CASE ~(Len(applied[i]) < n)
      <4>1. r = applied[i]
        BY <3>2 DEF apply_committed_locked
      <4> QED BY <1>2, <4>1
    <3> QED BY <3>1, <3>2
  <2> HIDE DEF r
  <2>4. ASSUME NEW k \in 1 .. Len(r) PROVE Alike(r[k], log'[i][k])
    <3>1. CASE k <= Len(applied[i])
      BY <1>1, <1>2, <2>2, <3>1
    <3>2. CASE ~(k <= Len(applied[i]))
      BY <2>2, <3>2 DEF Alike
    <3> QED BY <3>1, <3>2
  <2> QED BY <2>1, <2>3, <2>4 DEF OwnApplied
<1> QED BY <1>3, <1>4 DEF AllOwnApplied

\* A step that changes no log.
LEMMA SameLogs ==
  ASSUME TypeOK, TypeOK', DuoData, log' = log, AllOwnApplied',
         BagToSet(ae') \subseteq BagToSet(ae), rv' \subseteq rv, \A m \in rvr' : m.from # m.to
  PROVE  DuoData' /\ LogStep
<1>1. LogsFit'
  BY DEF DuoData, LogsFit
<1>2. LinesRepeat'
  BY DEF DuoData, LinesRepeat, Repeats, RequestFits
<1> QED BY <1>1, <1>2 DEF DuoData, LogStep

LEMMA SameOwnApplied ==
  ASSUME AllOwnApplied, UNCHANGED <<log, applied>> PROVE AllOwnApplied'
  BY DEF AllOwnApplied, OwnApplied

LEMMA AcceptDuo ==
  ASSUME DuoFacts, DuoFacts', DuoInv, NEW i \in Server, G!Running(i), NEW c \in Command,
         Accept(i, c)
  PROVE  DuoData' /\ LogStep
<1> DEFINE e == [term |-> current_term[i], cmd |-> c]
           new == append_entry_locked(log[i], current_term[i], c)
<1>1. /\ TypeOK /\ TypeOK' /\ e \in Entry /\ e.term = current_term[i] /\ role[i] = "leader"
      /\ UNCHANGED <<role, current_term, peers, applied, rv, rvr, ae, granted, elected>>
      /\ log' = [log EXCEPT ![i] = new]
  BY DuoTypes DEF DuoFacts, TypeInv, TypeOK, Entry, Accept, votes, history
<1>2. new = log[i] \/ new = Append(log[i], e)
  BY DEF append_entry_locked
<1>3. \A m \in rvr : m.from # m.to
  BY DEF DuoInv, DuoData, LinesRepeat
<1> HIDE DEF e, new
<1>4. CASE new = log[i]
  <2>1. log' = log
    BY <1>1, <1>4 DEF TypeOK
  <2> QED BY <1>1, <1>3, <2>1, SameOwnApplied, SameLogs DEF DuoInv, DuoData
<1>5. CASE new = Append(log[i], e)
  <2>1. log'[i] = new /\ \A j \in Server \ {i} : log'[j] = log[j]
    BY <1>1 DEF TypeOK
  <2>2. \A j \in Server : Len(log[j]) <= Len(log[i]) /\ Len(log[j]) \in Nat
    BY <1>1, LeaderLonger, LogTypes
  <2>3. LogsFit' /\ LogsGrow
    <3>1. \A k \in 1 .. Len(log[i]) : log[i][k].term <= e.term
      BY <1>1 DEF DuoFacts, TermsKnown
    <3>2. \A j \in Server : ~(Len(log[i]) + 1 <= Len(log[j]))
      BY <2>2
    <3> QED BY <1>1, <1>5, <2>1, <3>1, <3>2, AppendFits DEF DuoInv, DuoData
  <2>4. LinesRepeat'
    <3>1. BagToSet(ae) \subseteq AppendEntries /\ rv \subseteq RequestVote
      BY <1>1 DEF TypeOK
    <3> QED BY <1>1, <1>3, <2>3, <3>1, LinesStay DEF DuoInv, DuoData, LinesRepeat
  <2>5. AllOwnApplied'
    <3>1. applied' = [applied EXCEPT ![i] = apply_committed_locked(@, log'[i], 0)]
      <4>1. applied[i] = apply_committed_locked(applied[i], log'[i], 0)
        BY <1>1, LogLengths DEF apply_committed_locked
      <4> QED BY <1>1, <4>1 DEF TypeOK
    <3>2. 0 <= Len(applied[i])
      BY <1>1, LogLengths
    <3> QED BY <1>1, <2>3, <3>1, <3>2, ApplyOwn DEF DuoInv, DuoData
  <2>6. Writes(i)
    BY <1>1, <2>1, <2>3, DuoTypes DEF Writes, AllButOne, LogsGrow, Extends
  <2> QED BY <2>3, <2>4, <2>5, <2>6 DEF DuoData, LogStep
<1> QED BY <1>2, <1>4, <1>5

LEMMA StartElectionData ==
  ASSUME DuoFacts, DuoFacts', DuoInv, NEW i \in Server, start_election(i)
  PROVE  DuoData' /\ LogStep
<1> DEFINE asked == {[term |-> current_term[i] + 1, from |-> i, to |-> j,
                      last_index |-> Len(log[i]), last_term |-> LastTerm(log[i])] : j \in peers[i]}
<1>1. TypeOK /\ TypeOK' /\ Len(log[i]) \in Nat
  BY DuoTypes, LogTypes DEF DuoFacts, TypeInv
<1>2. UNCHANGED <<log, applied, ae, rvr>> /\ (rv' = rv \/ rv' = rv \cup asked)
  BY DEF start_election, logs
<1>3. \A m \in asked : RequestFits(m)
  BY <1>1 DEF RequestFits, LastTerm
<1> HIDE DEF asked
<1>4. LogsFit' /\ AllOwnApplied'
  BY <1>2, SameOwnApplied DEF DuoInv, DuoData, LogsFit
<1>5. \A m \in rv' : RequestFits(m)
  BY <1>2, <1>3 DEF DuoInv, DuoData, LinesRepeat
<1>6. LinesRepeat'
  BY <1>2, <1>5 DEF DuoInv, DuoData, LinesRepeat, Repeats, RequestFits
<1> QED BY <1>2, <1>4, <1>6 DEF DuoData, LogStep

LEMMA RequestVoteData ==
  ASSUME DuoFacts, DuoFacts', DuoInv, NEW m \in rv, handle_request_vote(m)
  PROVE  DuoData' /\ LogStep
<1>1. TypeOK /\ TypeOK' /\ m.from # m.to
  BY DuoTypes DEF DuoFacts, TypeInv, VoteInv, AskedOnce
<1>2. UNCHANGED <<log, applied, ae>> /\ rv' \subseteq rv
  BY DEF handle_request_vote, logs
<1>3. ASSUME NEW n \in rvr' PROVE n.from # n.to
  <2>1. n \in rvr \/ (n.from = m.to /\ n.to = m.from)
    BY <1>3 DEF handle_request_vote
  <2> QED BY <1>1, <2>1 DEF DuoInv, DuoData, LinesRepeat
<1> QED BY <1>1, <1>2, <1>3, SameOwnApplied, SameLogs DEF DuoInv, DuoData

LEMMA SendAppendData ==
  ASSUME DuoFacts, DuoFacts', DuoInv, NEW i \in Server, NEW th \in Thread, NEW j \in Server,
         send_append_to_peer(i, th, j)
  PROVE  DuoData' /\ LogStep
<1>1. /\ UNCHANGED <<log, applied, rv, rvr>>
      /\ BagToSet(ae') = BagToSet(ae) \cup {build_append_locked(i, j)}
  BY AddLine DEF send_append_to_peer, logs
<1>2. Repeats(build_append_locked(i, j))
  BY DuoTypes, SentRepeats
<1>3. \A m \in BagToSet(ae') : Repeats(m)
  BY <1>1, <1>2 DEF DuoInv, DuoData, LinesRepeat
<1>4. LinesRepeat'
  BY <1>1, <1>3 DEF DuoInv, DuoData, LinesRepeat, Repeats, RequestFits
<1>5. LogsFit' /\ AllOwnApplied'
  BY <1>1, SameOwnApplied DEF DuoInv, DuoData, LogsFit
<1> QED BY <1>1, <1>4, <1>5 DEF DuoData, LogStep

LEMMA AppendEntriesData ==
  ASSUME DuoFacts, DuoFacts', DuoInv, NEW m \in BagToSet(ae), G!Running(m.to),
         handle_append_entries(m)
  PROVE  DuoData' /\ LogStep
<1> DEFINE i == m.to  f == m.from  e == m.entry[1]
           success == m.term >= current_term[i] /\ Consistent(log[i], m)
           new == IF success /\ m.entry # <<>>
                  THEN Stored(log[i], m.prev_index + 1, e) ELSE log[i]
           commit == IF success /\ m.commit > commit_index[i]
                     THEN Smaller(m.commit, Len(new)) ELSE commit_index[i]
<1>1. TypeOK /\ TypeOK' /\ m \in AppendEntries /\ Repeats(m) /\ LogsFit
  BY DuoTypes DEF DuoFacts, TypeInv, TypeOK, DuoInv, DuoData, LinesRepeat
<1>2. /\ i \in Server /\ f \in Server /\ m.prev_index \in Nat /\ m.entry \in Seq(Entry)
      /\ m.term \in Nat /\ m.commit \in Nat /\ commit_index[i] \in Nat
  BY <1>1 DEF AppendEntries, TypeOK
<1>3. /\ log' = [log EXCEPT ![i] = new] /\ UNCHANGED <<peers, rv, rvr, granted, elected>>
      /\ applied' = [applied EXCEPT ![i] = apply_committed_locked(@, new, commit)]
      /\ BagToSet(ae') \subseteq BagToSet(ae)
  BY RemoveLine DEF handle_append_entries, history
<1> HIDE DEF new
<1>4. log'[i] = new /\ \A j \in Server \ {i} : log'[j] = log[j]
  <2>1. DOMAIN log = Server
    BY <1>1 DEF TypeOK
  <2> QED BY <2>1, <1>2, <1>3
<1> USE DEF new
<1>5. \/ new = log[i]
      \/ /\ new = Append(log[i], e) /\ m.entry # <<>> /\ m.term >= current_term[i]
         /\ Len(log[i]) + 1 <= Len(log[f]) /\ Alike(e, log[f][Len(log[i]) + 1])
  <2>1. CASE success /\ m.entry # <<>>
    <3>1. new = Stored(log[i], m.prev_index + 1, e)
      BY <2>1
    <3> QED BY <1>1, <1>2, <2>1, <3>1, StoredGrows
  <2>2. CASE ~(success /\ m.entry # <<>>)
    BY <2>2
  <2> QED BY <2>1, <2>2
<1>6. /\ \A k \in Server \ {i} : Same(k)
      /\ m.term >= current_term[i] => role'[i] = "follower"
  BY <1>1, AppendEntriesOffice DEF Follows
<1>7. \A k \in Server : Len(log[k]) \in Nat
  BY <1>1, LogTypes
<1> HIDE DEF i, f, e, new
<1>8. LogsFit' /\ LogsGrow /\ LogStep
  <2>1. CASE new = log[i]
    <3>1. log' = log
      BY <1>1, <1>3, <2>1 DEF TypeOK
    <3> QED BY <1>1, <3>1, NoGrowth DEF LogsFit, LogStep
  <2>2. CASE /\ new = Append(log[i], e) /\ m.entry # <<>> /\ m.term >= current_term[i]
             /\ Len(log[i]) + 1 <= Len(log[f]) /\ Alike(e, log[f][Len(log[i]) + 1])
    <3> DEFINE n == Len(log[i]) + 1
    <3>1. e \in Entry
      BY <1>2, <2>2 DEF e
    <3>2. ASSUME NEW j \in Server, n <= Len(log[j]) PROVE Alike(e, log[j][n])
      <4>1. n \in 1 .. Smaller(Len(log[f]), Len(log[j]))
        BY <1>2, <1>7, <2>2, <3>2 DEF Smaller
      <4> QED BY <1>1, <1>2, <2>2, <4>1 DEF LogsFit, Alike
    <3>3. ASSUME NEW k \in 1 .. Len(log[i]) PROVE log[i][k].term <= e.term
      <4>1. k \in 1 .. Smaller(Len(log[i]), Len(log[f])) /\ n \in 1 .. Len(log[f]) /\ k \in 1 .. n
        BY <1>2, <1>7, <2>2 DEF Smaller
      <4>2. log[i][k].term = log[f][k].term /\ log[f][k].term <= log[f][n].term
        BY <1>1, <1>2, <4>1 DEF LogsFit, Alike
      <4> QED BY <2>2, <4>2 DEF Alike
    <3>4. log'[i] = Append(log[i], e)
      BY <1>4, <2>2
    <3>5. \A j \in Server \ {i} : Len(log[i]) + 1 <= Len(log[j]) =>
             Alike(e, log[j][Len(log[i]) + 1])
      BY <3>2
    <3>6. Copies(i)
      <4>1. log[i] \in Seq(Entry) /\ Len(log'[i]) = Len(log[i]) + 1
        BY <1>1, <1>2, <3>1, <3>4, LogTypes
      <4>2. f # i /\ Len(log[f]) >= 1 /\ Len(log'[i]) <= Len(log[f])
        BY <1>2, <1>7, <2>2, <4>1
      <4>3. i \in Launched(launch)
        BY <1>2, DuoTypes DEF i
      <4> QED BY <1>2, <1>3, <1>4, <1>6, <1>7, <2>2, <4>1, <4>2, <4>3 DEF Copies, AllButOne, Same
    <3> HIDE DEF n
    <3>7. LogsFit' /\ LogsGrow
      BY <1>1, <1>2, <1>4, <3>1, <3>3, <3>4, <3>5, AppendFits
    <3> QED BY <1>2, <3>6, <3>7 DEF LogStep
  <2> QED BY <1>5, <2>1, <2>2
<1>9. LinesRepeat'
  <2>1. BagToSet(ae) \subseteq AppendEntries /\ rv \subseteq RequestVote
    BY <1>1 DEF TypeOK
  <2> QED BY <1>1, <1>3, <1>8, <2>1, LinesStay DEF DuoInv, DuoData, LinesRepeat
<1>10. AllOwnApplied'
  <2>1. commit \in Nat /\ (commit <= Len(applied[i]) \/ commit <= Len(log'[i]))
    <3>1. CASE success /\ m.commit > commit_index[i]
      <4>1. commit = Smaller(m.commit, Len(new)) /\ Len(new) \in Nat
        BY <1>1, <1>2, <1>4, <3>1, LogTypes
      <4> HIDE DEF commit
      <4> QED BY <1>2, <1>4, <4>1 DEF Smaller
    <3>2. CASE ~(success /\ m.commit > commit_index[i])
      BY <1>2, <3>2 DEF DuoFacts, TypeInv, AppliedCoversCommit
    <3> QED BY <3>1, <3>2
  <2> HIDE DEF commit
  <2>2. applied' = [applied EXCEPT ![i] = apply_committed_locked(@, log'[i], commit)]
    BY <1>3, <1>4
  <2> QED BY <1>1, <1>2, <1>8, <2>1, <2>2, ApplyOwn DEF DuoInv, DuoData
<1> QED BY <1>8, <1>9, <1>10 DEF DuoData

\* What is committed, by an answer or alone, the node has.
LEMMA CommitsOwn ==
  ASSUME TypeOK, TypeOK', AllOwnApplied, log' = log, NEW i \in Server, NEW n \in Nat,
         n <= Len(log[i]), applied' = [applied EXCEPT ![i] = apply_committed_locked(@, log[i], n)]
  PROVE  AllOwnApplied'
  BY NoGrowth, ApplyOwn

LEMMA AppendResponseData ==
  ASSUME DuoFacts, DuoFacts', DuoInv, NEW m \in BagToSet(aer), handle_append_response(m)
  PROVE  DuoData' /\ LogStep
<1> DEFINE i == m.to  match == [match_index[i] EXCEPT ![m.from] = m.match_index]
<1>1. TypeOK /\ TypeOK' /\ i \in Server /\ AllOwnApplied /\ DuoData
      /\ \A k \in rvr : k.from # k.to
  BY DuoTypes DEF DuoFacts, TypeInv, TypeOK, AppendResponse, DuoInv, DuoData, LinesRepeat
<1>2. UNCHANGED <<log, rv, rvr, ae>>
  BY DEF handle_append_response, recompute_commit_locked, logs
<1>3. CASE UNCHANGED applied
  BY <1>1, <1>2, <1>3, SameOwnApplied, SameLogs
<1>4. CASE recompute_commit_locked(i, match)
  <2>1. ASSUME NEW n \in Committable(i, match),
               applied' = [applied EXCEPT ![i] = apply_committed_locked(@, log[i], n)]
        PROVE  AllOwnApplied'
    <3>1. n \in (commit_index[i] + 1) .. Len(log[i]) /\ commit_index[i] \in Nat
          /\ Len(log[i]) \in Nat
      BY <1>1 DEF Committable, TypeOK
    <3>2. n \in Nat /\ n <= Len(log[i])
      BY <3>1
    <3> QED BY <1>1, <1>2, <2>1, <3>2, CommitsOwn
  <2>2. AllOwnApplied'
    BY <1>1, <1>2, <1>4, <2>1, SameOwnApplied DEF recompute_commit_locked
  <2> QED BY <1>1, <1>2, <2>2, SameLogs
<1> QED BY <1>3, <1>4 DEF handle_append_response, logs

LEMMA CommitAloneData ==
  ASSUME DuoFacts, DuoFacts', DuoInv, NEW i \in Server, commit_alone(i)
  PROVE  DuoData' /\ LogStep
<1>1. TypeOK /\ TypeOK' /\ AllOwnApplied /\ DuoData /\ Len(log[i]) \in Nat
      /\ \A k \in rvr : k.from # k.to
  BY DuoTypes, LogTypes DEF DuoFacts, TypeInv, DuoInv, DuoData, LinesRepeat
<1>2. UNCHANGED <<log, rv, rvr, ae>>
      /\ applied' = [applied EXCEPT ![i] = apply_committed_locked(@, log[i], Len(log[i]))]
  BY DEF commit_alone
<1>3. AllOwnApplied'
  <2> DEFINE n == Len(log[i])
  <2>1. n \in Nat /\ n <= Len(log[i])
        /\ applied' = [applied EXCEPT ![i] = apply_committed_locked(@, log[i], n)]
    BY <1>1, <1>2
  <2> HIDE DEF n
  <2> QED BY <1>1, <1>2, <2>1, CommitsOwn
<1> QED BY <1>1, <1>2, <1>3, SameLogs

LEMMA DuoDataNext ==
  ASSUME DuoFacts, DuoFacts', DuoInv, WritesAreCommands, [MNext]_mvars
  PROVE  DuoData' /\ LogStep
<1>1. TypeOK /\ TypeOK' /\ DuoData /\ AllOwnApplied /\ ~launch.racing
      /\ \A k \in rvr : k.from # k.to
  BY DuoTypes DEF DuoFacts, TypeInv, DuoInv, DuoData, LinesRepeat
<1>2. ASSUME UNCHANGED <<log, applied>>, BagToSet(ae') \subseteq BagToSet(ae), rv' \subseteq rv,
             rvr' \subseteq rvr
      PROVE  DuoData' /\ LogStep
  BY <1>1, <1>2, SameOwnApplied, SameLogs
<1>3. ASSUME NEW i \in Server, G!Running(i), core(i) PROVE DuoData' /\ LogStep
  <2>1. CASE ticker_timeout(i) \/ ticker_heartbeat(i)
    BY <1>2, <2>1 DEF ticker_timeout, ticker_heartbeat, logs
  <2>2. ASSUME NEW m \in rvr, handle_request_vote_response(m) PROVE DuoData' /\ LogStep
    BY <1>2, <2>2 DEF handle_request_vote_response, logs
  <2> QED
    BY <1>3, <2>1, <2>2, StartElectionData, RequestVoteData, SendAppendData, AppendEntriesData,
       AppendResponseData DEF core, ticker_loop
<1>4. ASSUME NEW i \in Server, G!Running(i), raft_submit_command_alone(i)
      PROVE  DuoData' /\ LogStep
  <2>1. CASE check_alone(i)
    BY <1>2, <2>1 DEF check_alone, vars, logs
  <2> QED BY <1>4, <2>1, AcceptDuo, CommitAloneData DEF raft_submit_command_alone, WritesAreCommands
<1>5. ASSUME NEW i \in Server, NEW th \in Thread, NEW j \in Server, skip_removed_peer(i, th, j)
      PROVE  DuoData' /\ LogStep
  BY <1>2, <1>5 DEF skip_removed_peer, logs
<1>6. ASSUME NEW i \in Server,
             raft_node_start(i) \/ request_cluster_leave(i) \/ raft_node_destroy(i)
      PROVE  DuoData' /\ LogStep
  BY <1>2, <1>6 DEF raft_node_start, request_cluster_leave, raft_node_destroy, vars, logs
<1>7. ASSUME NEW m \in BagToSet(lines), handle_membership_line(m) PROVE DuoData' /\ LogStep
  BY <1>1, <1>2, <1>7 DEF handle_membership_line, Astray, logs
<1>8. ASSUME NEW t \in BagToSet(tasks), do_membership_task(t) PROVE DuoData' /\ LogStep
  BY <1>2, <1>8 DEF do_membership_task, logs
<1>9. CASE lose
  BY <1>2, <1>9, RemoveLine DEF lose, logs
<1>10. CASE UNCHANGED vars
  BY <1>2, <1>10 DEF vars, logs
<1> QED BY <1>3, <1>4, <1>5, <1>6, <1>7, <1>8, <1>9, <1>10 DEF MNext, mvars

(***************************************************************************)
(* What a step does to votes.                                              *)
(***************************************************************************)

\* Nobody stands, and nobody is elected.
NoneStands ==
    \A i \in Server : \/ role'[i] = "follower"
                      \/ role'[i] = role[i] /\ current_term'[i] = current_term[i]

LEMMA NewLogTypes == ASSUME TypeOK' PROVE \A k \in Server : Len(log'[k]) \in Nat
<1>1. \A k \in Server : log'[k] \in Seq(Entry)
  BY DEF TypeOK
<1> HIDE DEF Entry
<1> QED BY <1>1

LEMMA LeadsWithout ==
  ASSUME DuoPeers, NEW a \in Server, NEW b, granted \subseteq granted',
         \/ role'[a] # "leader"
         \/ role'[a] = role[a] /\ current_term'[a] = current_term[a],
         Without(a, b)'
  PROVE  Without(a, b)
  BY DEF DuoPeers, Without

\* No log changes, nobody votes, stands or wins, and no answer is sent.
LEMMA QuietVotes ==
  ASSUME DuoFacts, DuoInv, DuoPeers, NoneStands, rvr' \subseteq rvr,
         UNCHANGED <<log, granted, elected, launch>>
  PROVE  DuoVotes'
<1>1. OthersIdle /\ OwnVotes /\ BackersBehind /\ NewcomersBehind /\ Launched(launch) \subseteq Server
  BY DuoTypes DEF DuoInv, DuoVotes
<1>2. OthersIdle'
  BY <1>1 DEF OthersIdle, NoneStands
<1>3. OwnVotes'
  BY <1>1 DEF OwnVotes, NoneStands
<1>4. BackersBehind'
  <2>1. ASSUME NEW c \in Server, NEW j \in Server, Backed(c, j)' PROVE Backed(c, j)
    BY <2>1 DEF Backed, NoneStands
  <2> QED BY <1>1, <2>1 DEF BackersBehind
<1>5. NewcomersBehind'
  <2>1. ASSUME NEW a \in Launched(launch), NEW b \in Launched(launch), Without(a, b)'
        PROVE  Without(a, b)
    BY <1>1, <2>1, LeadsWithout DEF NoneStands
  <2> QED BY <1>1, <2>1 DEF NewcomersBehind
<1> QED BY <1>2, <1>3, <1>4, <1>5 DEF DuoVotes

LEMMA WritesVotes ==
  ASSUME DuoFacts, DuoInv, NEW i \in Server, Writes(i), TypeOK', UNCHANGED launch
  PROVE  DuoVotes'
<1>1. OthersIdle /\ OwnVotes /\ BackersBehind /\ NewcomersBehind /\ Launched(launch) \subseteq Server
  BY DuoTypes DEF DuoInv, DuoVotes
<1>2. /\ i \in Launched(launch) /\ role[i] = "leader" /\ \A k \in Server \ {i} : log'[k] = log[k]
      /\ Len(log[i]) <= Len(log'[i])
      /\ UNCHANGED <<role, current_term, peers, rvr, granted, elected>>
  BY DEF Writes, AllButOne
<1>3. \A k \in Server : Len(log[k]) \in Nat /\ Len(log'[k]) \in Nat
  BY DuoTypes, LogTypes, NewLogTypes
<1>4. \A k \in Server : Len(log[k]) <= Len(log[i])
  BY <1>2, LeaderLonger
<1>5. OthersIdle' /\ OwnVotes'
  BY <1>1, <1>2 DEF OthersIdle, OwnVotes
<1>6. ASSUME NEW c \in Server, NEW j \in Server, Backed(c, j)'
      PROVE  Len(log'[j]) <= Len(log'[c])
  <2>1. Backed(c, j)
    BY <1>2, <1>6 DEF Backed
  <2>2. CASE j = i
    <3>1. c = i
      BY <1>2, <2>1, <2>2, BackersDoNotLead
    <3> QED BY <1>3, <2>2, <3>1
  <2>3. CASE j # i /\ c = i
    BY <1>2, <1>3, <1>4, <2>3
  <2>4. CASE j # i /\ c # i
    BY <1>1, <1>2, <2>1, <2>4 DEF BackersBehind
  <2> QED BY <2>2, <2>3, <2>4
<1>7. ASSUME NEW a \in Launched(launch), NEW b \in Launched(launch), a # b,
             LeastMajority(launch, a) < 2, Without(a, b)'
      PROVE  /\ \A t \in Nat : <<t, b>> \notin elected'
             /\ \A m \in rvr' : m.granted => ~(m.from = a /\ m.to = b)
             /\ Len(log'[b]) <= Len(log'[a])
  <2>1. Without(a, b)
    BY <1>2, <1>7 DEF Without
  <2>2. /\ \A t \in Nat : <<t, b>> \notin elected
        /\ \A m \in rvr : m.granted => ~(m.from = a /\ m.to = b)
        /\ Len(log[b]) <= Len(log[a])
    BY <1>1, <1>7, <2>1 DEF NewcomersBehind
  <2>3. b # i
    <3>1. <<current_term[i], i>> \in elected /\ current_term[i] \in Nat
      BY <1>2, DuoTypes DEF DuoFacts, Offices, TypeOK
    <3> QED BY <2>2, <3>1
  <2>4. a \in Server /\ b \in Server
    BY <1>1
  <2>5. Len(log'[b]) <= Len(log'[a])
    BY <1>2, <1>3, <2>2, <2>3, <2>4
  <2> QED BY <1>2, <2>2, <2>5
<1> QED BY <1>2, <1>5, <1>6, <1>7 DEF DuoVotes, BackersBehind, NewcomersBehind

LEMMA CopiesVotes ==
  ASSUME DuoFacts, DuoInv, NEW i \in Server, Copies(i), TypeOK', UNCHANGED launch
  PROVE  DuoVotes'
<1>1. OthersIdle /\ OwnVotes /\ BackersBehind /\ NewcomersBehind /\ Launched(launch) \subseteq Server
  BY DuoTypes DEF DuoInv, DuoVotes
<1>2. /\ i \in Launched(launch) /\ role'[i] = "follower" /\ Len(log[i]) <= Len(log'[i])
      /\ \A k \in Server \ {i} :
            role'[k] = role[k] /\ current_term'[k] = current_term[k] /\ log'[k] = log[k]
      /\ UNCHANGED <<peers, rvr, granted, elected>>
  BY DEF Copies, AllButOne
<1>3. \A k \in Server : Len(log[k]) \in Nat /\ Len(log'[k]) \in Nat
  BY DuoTypes, LogTypes, NewLogTypes
<1>4. PICK f \in Server \ {i} : Len(log[f]) >= 1 /\ Len(log'[i]) <= Len(log[f])
  BY DEF Copies
<1>5. f \in Launched(launch)
  <2>1. Len(<<>>) = 0
    OBVIOUS
  <2> QED BY <1>1, <1>4, <2>1 DEF OthersIdle
<1>6. ASSUME NEW k \in Launched(launch) \ {i} PROVE k = f
  BY <1>2, <1>4, <1>5, OnlyOneOther
<1>7. OthersIdle' /\ OwnVotes'
  BY <1>1, <1>2 DEF OthersIdle, OwnVotes
<1>8. ASSUME NEW c \in Server, NEW j \in Server, Backed(c, j)'
      PROVE  Len(log'[j]) <= Len(log'[c])
  <2>1. c # i
    BY <1>2, <1>8 DEF Backed
  <2>2. Backed(c, j) /\ c \in Launched(launch)
    BY <1>1, <1>2, <1>8, <2>1 DEF Backed, OthersIdle
  <2>3. CASE j = i
    <3>1. c = f
      BY <1>6, <2>1, <2>2
    <3> QED BY <1>2, <1>4, <2>3, <3>1
  <2>4. CASE j # i
    BY <1>1, <1>2, <2>1, <2>2, <2>4 DEF BackersBehind
  <2> QED BY <2>3, <2>4
<1>9. ASSUME NEW a \in Launched(launch), NEW b \in Launched(launch), a # b,
             LeastMajority(launch, a) < 2, Without(a, b)'
      PROVE  /\ \A t \in Nat : <<t, b>> \notin elected'
             /\ \A m \in rvr' : m.granted => ~(m.from = a /\ m.to = b)
             /\ Len(log'[b]) <= Len(log'[a])
  <2>1. Without(a, b) /\ a \in Server /\ b \in Server
    BY <1>1, <1>2, <1>9 DEF Without
  <2>2. /\ \A t \in Nat : <<t, b>> \notin elected
        /\ \A m \in rvr : m.granted => ~(m.from = a /\ m.to = b)
        /\ Len(log[b]) <= Len(log[a])
    BY <1>1, <1>9, <2>1 DEF NewcomersBehind
  <2>3. CASE b = i
    <3>1. a = f
      BY <1>6, <1>9, <2>3
    <3> QED BY <1>2, <1>4, <2>2, <2>3, <3>1
  <2>4. CASE b # i
    <3>1. Len(log'[b]) <= Len(log'[a])
      BY <1>2, <1>3, <2>1, <2>2, <2>4
    <3> QED BY <1>2, <2>2, <3>1
  <2> QED BY <2>3, <2>4
<1> QED BY <1>2, <1>7, <1>8, <1>9 DEF DuoVotes, BackersBehind, NewcomersBehind

LEMMA StartElectionVotes ==
  ASSUME DuoFacts, DuoInv, DuoPeers, NEW i \in Server, G!Running(i), start_election(i),
         UNCHANGED launch
  PROVE  DuoVotes'
<1> DEFINE t == current_term[i] + 1
<1>1. OthersIdle /\ OwnVotes /\ BackersBehind /\ NewcomersBehind /\ Launched(launch) \subseteq Server
  BY DuoTypes DEF DuoInv, DuoVotes
<1>2. TypeOK /\ i \in Launched(launch) /\ current_term[i] \in Nat
  BY DuoTypes DEF TypeOK
<1>3. /\ current_term' = [current_term EXCEPT ![i] = t] /\ granted' = granted \cup {<<t, i, i>>}
      /\ UNCHANGED <<log, rvr>>
  BY DEF start_election, logs
<1>4. \/ /\ 1 >= majority_count(i) /\ role' = [role EXCEPT ![i] = "leader"]
         /\ elected' = elected \cup {<<t, i>>}
      \/ role' = [role EXCEPT ![i] = "candidate"] /\ UNCHANGED elected
  BY DEF start_election, become_leader_locked
<1>5. /\ current_term'[i] = t
      /\ \A k \in Server \ {i} : role'[k] = role[k] /\ current_term'[k] = current_term[k]
  BY <1>2, <1>3, <1>4 DEF TypeOK
<1>6. \A j, c : <<t, j, c>> \in granted => c # i
  <2> SUFFICES ASSUME NEW j, <<t, j, i>> \in granted PROVE FALSE
    OBVIOUS
  <2>1. t <= current_term[i]
    BY DuoCast
  <2> QED BY <1>2, <2>1
<1>7. OthersIdle'
  BY <1>1, <1>2, <1>3, <1>5 DEF OthersIdle
<1>8. OwnVotes'
  BY <1>1, <1>3, <1>5 DEF OwnVotes
<1> HIDE DEF t
<1>9. ASSUME NEW c \in Server, NEW j \in Server, Backed(c, j)' PROVE Len(log'[j]) <= Len(log'[c])
  <2>1. CASE c = i
    <3>1. \A m \in rvr : m.granted /\ m.term = t => m.to # i
      BY <1>6, DuoCast
    <3>2. <<t, j, i>> \in granted'
      BY <1>3, <1>5, <1>9, <2>1, <3>1 DEF Backed
    <3>3. j = i
      BY <1>3, <1>6, <3>2
    <3>4. Len(log[i]) \in Nat
      BY <1>2, LogTypes
    <3> QED BY <1>3, <2>1, <3>3, <3>4
  <2>2. CASE c # i
    <3>1. Backed(c, j)
      BY <1>3, <1>5, <1>9, <2>2 DEF Backed
    <3> QED BY <1>1, <1>3, <3>1 DEF BackersBehind
  <2> QED BY <2>1, <2>2
<1>10. 1 >= majority_count(i) => peers[i] = {}
  <2>1. IsFiniteSet(peers[i]) /\ Cardinality(peers[i]) \in Nat
    BY <1>2, ServerAssumption, FS_Subset, FS_CardinalityType DEF TypeOK
  <2>2. 1 >= majority_count(i) => Cardinality(peers[i]) = 0
    BY <2>1 DEF majority_count
  <2> QED BY <2>1, <2>2, FS_EmptySet
<1>11. ASSUME NEW a \in Launched(launch), NEW b \in Launched(launch), a # b,
              LeastMajority(launch, a) < 2, Without(a, b)'
       PROVE  /\ \A u \in Nat : <<u, b>> \notin elected'
              /\ \A m \in rvr' : m.granted => ~(m.from = a /\ m.to = b)
              /\ Len(log'[b]) <= Len(log'[a])
  <2>1. a \in Server /\ b \in Server
    BY <1>1
  <2>2. Without(a, b)
    <3>1. CASE b \notin peers'[a]
      BY <2>1, <3>1 DEF DuoPeers, Without
    <3>2. CASE a = i /\ role'[a] = "leader"
      BY <1>2, <1>4, <1>10, <3>2 DEF TypeOK, Without
    <3>3. CASE a # i
      <4>1. role'[a] = role[a] /\ current_term'[a] = current_term[a] /\ granted \subseteq granted'
        BY <1>3, <1>5, <2>1, <3>3
      <4> QED BY <1>11, <2>1, <4>1, LeadsWithout
    <3> QED BY <1>11, <3>1, <3>2, <3>3 DEF Without
  <2>3. /\ \A u \in Nat : <<u, b>> \notin elected
        /\ \A m \in rvr : m.granted => ~(m.from = a /\ m.to = b)
        /\ Len(log[b]) <= Len(log[a])
    BY <1>1, <1>11, <2>2 DEF NewcomersBehind
  <2>4. majority_count(b) >= 2 /\ majority_count(b) \in Nat
    BY <1>11, OneLeadsAlone, LeastIsLeast DEF DuoFacts
  <2>5. \A u \in Nat : <<u, b>> \notin elected'
    BY <1>4, <2>3, <2>4
  <2> QED BY <1>3, <2>3, <2>5
<1> QED BY <1>3, <1>7, <1>8, <1>9, <1>11 DEF DuoVotes, BackersBehind, NewcomersBehind

LEMMA RequestVoteVotes ==
  ASSUME DuoFacts, DuoInv, DuoPeers, NEW m \in rv, handle_request_vote(m), UNCHANGED launch
  PROVE  DuoVotes'
<1> DEFINE i == m.to
           grant == /\ m.term >= current_term[i]
                    /\ VoteIn(i, m.term) \in {Nil, m.from}
                    /\ UpToDate(m, log[i])
           ans == [term |-> current_term'[i], from |-> i, to |-> m.from, granted |-> grant]
<1>1. OthersIdle /\ OwnVotes /\ BackersBehind /\ NewcomersBehind /\ Launched(launch) \subseteq Server
  BY DuoTypes DEF DuoInv, DuoVotes
<1>2. /\ TypeOK /\ m \in RequestVote /\ i \in Server /\ m.term \in Nat /\ current_term[i] \in Nat
      /\ LogsFit /\ RequestFits(m)
  BY DuoTypes DEF TypeOK, RequestVote, DuoInv, DuoData, LinesRepeat
<1>3. /\ UNCHANGED <<log, elected, peers>>
      /\ granted' = IF grant THEN granted \cup {<<m.term, i, m.from>>} ELSE granted
      /\ rvr' = IF m.from \in peers[i] THEN rvr \cup {ans} ELSE rvr
      /\ IF m.term > current_term[i] THEN become_follower_locked(i, m.term, Nil)
         ELSE UNCHANGED <<role, current_term>>
  BY DEF handle_request_vote, logs
<1>4. NoneStands
  <2>1. CASE become_follower_locked(i, m.term, Nil)
    BY <1>2, <2>1 DEF NoneStands, become_follower_locked, TypeOK
  <2>2. CASE UNCHANGED <<role, current_term>>
    BY <2>2 DEF NoneStands
  <2> QED BY <1>3, <2>1, <2>2
<1>5. grant => Len(log[i]) <= Len(log[m.from])
  BY <1>2, UpToDateAhead
<1>6. OthersIdle' /\ OwnVotes'
  BY <1>1, <1>3, <1>4 DEF OthersIdle, OwnVotes, NoneStands
<1>7. ASSUME NEW c \in Server, NEW j \in Server, Backed(c, j)' PROVE Len(log'[j]) <= Len(log'[c])
  <2> HIDE DEF grant, i
  <2>1. CASE Backed(c, j)
    BY <1>1, <1>3, <2>1 DEF BackersBehind
  <2>2. CASE grant /\ <<current_term'[c], j, c>> = <<m.term, i, m.from>>
    <3>1. j = i /\ c = m.from
      BY <2>2
    <3> QED BY <1>3, <1>5, <2>2, <3>1
  <2>3. CASE grant /\ ans.from = j /\ ans.to = c
    <3>1. j = i /\ c = m.from
      BY <2>3
    <3> QED BY <1>3, <1>5, <2>3, <3>1
  <2>4. /\ \A x \in rvr' : x \in rvr \/ x = ans
        /\ \A g \in granted' : g \in granted \/ (grant /\ g = <<m.term, i, m.from>>)
        /\ ans.granted = grant
    BY <1>3
  <2>5. role'[c] # "follower" => role'[c] = role[c] /\ current_term'[c] = current_term[c]
    BY <1>4 DEF NoneStands
  <2>6. CASE role'[c] = "leader" /\ <<current_term'[c], j, c>> \in granted'
    <3>1. <<current_term'[c], j, c>> \in granted => Backed(c, j)
      BY <2>5, <2>6 DEF Backed
    <3> QED BY <2>1, <2>2, <2>4, <2>6, <3>1
  <2>7. ASSUME role'[c] = "candidate", NEW x \in rvr', x.granted, x.term = current_term'[c],
               x.from = j, x.to = c
        PROVE  Len(log'[j]) <= Len(log'[c])
    <3>1. x \in rvr => Backed(c, j)
      BY <2>5, <2>7 DEF Backed
    <3> QED BY <2>1, <2>3, <2>4, <2>7, <3>1
  <2> QED BY <1>7, <2>6, <2>7 DEF Backed
<1>8. ASSUME NEW a \in Launched(launch), NEW b \in Launched(launch), a # b,
             LeastMajority(launch, a) < 2, Without(a, b)'
      PROVE  /\ \A t \in Nat : <<t, b>> \notin elected'
             /\ \A x \in rvr' : x.granted => ~(x.from = a /\ x.to = b)
             /\ Len(log'[b]) <= Len(log'[a])
  <2>1. a \in Server /\ b \in Server /\ granted \subseteq granted'
    BY <1>1, <1>3
  <2>2. Without(a, b)
    BY <1>4, <1>8, <2>1, LeadsWithout DEF NoneStands
  <2>3. /\ \A t \in Nat : <<t, b>> \notin elected
        /\ \A x \in rvr : x.granted => ~(x.from = a /\ x.to = b)
        /\ Len(log[b]) <= Len(log[a])
    BY <1>1, <1>8, <2>2 DEF NewcomersBehind
  <2>4. ASSUME i = a, m.from = b, grant, b \in peers[a] PROVE FALSE
    <3>1. role'[a] = "leader"
      BY <1>3, <1>8, <2>4 DEF Without
    <3>2. ~(m.term > current_term[i])
      <4>1. become_follower_locked(i, m.term, Nil) => role'[a] = "follower"
        BY <1>2, <2>4 DEF become_follower_locked, TypeOK
      <4> QED BY <1>3, <3>1, <4>1
    <3>3. role[a] = "leader" /\ VoteIn(i, m.term) = voted_for[a]
      BY <1>3, <2>4, <3>1, <3>2 DEF VoteIn
    <3>4. <<current_term[a], a, a>> \in granted
      BY <1>1, <2>1, <3>3 DEF OwnVotes
    <3>5. voted_for[a] = a
      BY <3>4, DuoCast
    <3> QED BY <1>8, <2>1, <2>4, <3>3, <3>5, ServerAssumption
  <2>5. \A x \in rvr' : x.granted => ~(x.from = a /\ x.to = b)
    <3> SUFFICES ASSUME NEW x \in rvr', x.granted, x.from = a, x.to = b PROVE FALSE
      OBVIOUS
    <3>1. x \notin rvr
      BY <2>3
    <3>2. x = ans /\ m.from \in peers[i]
      BY <1>3, <3>1
    <3>3. ans.granted = grant /\ ans.from = i /\ ans.to = m.from
      OBVIOUS
    <3> HIDE DEF ans, grant
    <3> QED BY <2>4, <3>2, <3>3
  <2> QED BY <1>3, <2>3, <2>5
<1> QED BY <1>6, <1>7, <1>8 DEF DuoVotes, BackersBehind, NewcomersBehind

\* The candidate that wins has its own vote and that of the other node.
LEMMA WinVotes ==
  ASSUME DuoFacts, DuoInv, DuoPeers, NEW m \in rvr, IsVote(m.to, m),
         UNCHANGED <<log, current_term, granted, launch>>,
         role' = [role EXCEPT ![m.to] = "leader"], elected' = elected \cup {<<m.term, m.to>>},
         rvr' \subseteq rvr
  PROVE  DuoVotes'
<1> DEFINE i == m.to
           f == m.from
<1>1. OthersIdle /\ OwnVotes /\ BackersBehind /\ NewcomersBehind /\ Launched(launch) \subseteq Server
  BY DuoTypes DEF DuoInv, DuoVotes
<1>2. /\ TypeOK /\ i \in Server /\ f \in Server /\ m.granted /\ m.term = current_term[i]
      /\ role[i] = "candidate" /\ i # f
  BY DuoTypes DEF TypeOK, VoteResponse, IsVote, DuoInv, DuoData, LinesRepeat
<1>3. /\ <<m.term, f, i>> \in granted /\ f \in Launched(launch) /\ i \in Launched(launch)
  BY <1>1, <1>2, DuoCast DEF OthersIdle
<1>4. ASSUME NEW k \in Launched(launch) \ {i} PROVE k = f
  BY <1>2, <1>3, OnlyOneOther
<1>5. role'[i] = "leader" /\ \A k \in Server \ {i} : role'[k] = role[k]
  BY <1>2 DEF TypeOK
<1>6. Backed(i, f)
  BY <1>2 DEF Backed
<1> HIDE DEF i, f
<1>7. OthersIdle' /\ OwnVotes'
  BY <1>1, <1>2, <1>3, <1>5 DEF OthersIdle, OwnVotes
<1>8. ASSUME NEW c \in Server, NEW j \in Server, Backed(c, j)' PROVE Len(log'[j]) <= Len(log'[c])
  <2>1. CASE c = i
    <3>1. <<current_term[i], j, i>> \in granted
      BY <1>5, <1>8, <2>1 DEF Backed
    <3>2. j = i \/ j = f
      BY <1>4, <3>1, DuoCast
    <3>3. Len(log[i]) \in Nat
      BY <1>2, LogTypes
    <3> QED BY <1>1, <1>6, <2>1, <3>2, <3>3 DEF BackersBehind
  <2>2. CASE c # i
    <3>1. Backed(c, j)
      BY <1>5, <1>8, <2>2 DEF Backed
    <3> QED BY <1>1, <3>1 DEF BackersBehind
  <2> QED BY <2>1, <2>2
<1>9. ASSUME NEW a \in Launched(launch), NEW b \in Launched(launch), a # b,
             LeastMajority(launch, a) < 2, Without(a, b)'
      PROVE  /\ \A t \in Nat : <<t, b>> \notin elected'
             /\ \A x \in rvr' : x.granted => ~(x.from = a /\ x.to = b)
             /\ Len(log'[b]) <= Len(log'[a])
  <2>1. a \in Server /\ b \in Server
    BY <1>1
  <2>2. Without(a, b)
    <3>1. CASE a = i
      <4>1. <<current_term[a], b, a>> \in granted
        BY <1>2, <1>3, <1>4, <1>9, <3>1
      <4> QED BY <1>9, <2>1, <4>1 DEF DuoPeers, Without
    <3>2. CASE a # i
      BY <1>5, <1>9, <2>1, <3>2, LeadsWithout
    <3> QED BY <3>1, <3>2
  <2>3. /\ \A t \in Nat : <<t, b>> \notin elected
        /\ \A x \in rvr : x.granted => ~(x.from = a /\ x.to = b)
        /\ Len(log[b]) <= Len(log[a])
    BY <1>1, <1>9, <2>2 DEF NewcomersBehind
  <2>4. b # i
    <3>1. ASSUME b = i PROVE FALSE
      <4>1. a = f
        BY <1>4, <1>9, <3>1
      <4> QED BY <1>2, <2>3, <3>1, <4>1 DEF i, f
    <3> QED BY <3>1
  <2> QED BY <2>3, <2>4 DEF i
<1> QED BY <1>7, <1>8, <1>9 DEF DuoVotes, BackersBehind, NewcomersBehind

LEMMA ResponseVotes ==
  ASSUME DuoFacts, DuoInv, DuoPeers, NEW m \in rvr, handle_request_vote_response(m),
         UNCHANGED launch
  PROVE  DuoVotes'
<1> DEFINE i == m.to
<1>1. TypeOK /\ i \in Server
  BY DuoTypes DEF TypeOK, VoteResponse
<1>2. UNCHANGED <<log, granted>> /\ rvr' \subseteq rvr
  BY DEF handle_request_vote_response, logs
<1>3. CASE become_follower_locked(i, m.term, Nil) /\ UNCHANGED elected
  <2>1. NoneStands
    BY <1>1, <1>3 DEF NoneStands, become_follower_locked, TypeOK
  <2> QED BY <1>2, <1>3, <2>1, QuietVotes
<1>4. CASE IsVote(i, m) /\ become_leader_locked(i, m.term) /\ UNCHANGED current_term
  BY <1>2, <1>4, WinVotes DEF become_leader_locked
<1>5. CASE UNCHANGED <<role, current_term, elected>>
  BY <1>2, <1>5, QuietVotes DEF NoneStands
<1> QED BY <1>3, <1>4, <1>5 DEF handle_request_vote_response

LEMMA DuoVotesNext ==
  ASSUME DuoFacts, DuoFacts', DuoInv, LogStep, [MNext]_mvars
  PROVE  DuoVotes'
<1>1. TypeOK /\ TypeOK' /\ ~launch.racing /\ DuoPeers /\ UNCHANGED launch
  BY DuoTypes, DuoPeersGrow, LaunchStays DEF DuoFacts, TypeInv
<1>2. CASE log' # log
  BY <1>1, <1>2, WritesVotes, CopiesVotes DEF LogStep
<1>3. CASE log' = log
  <2>1. ASSUME UNCHANGED <<granted, elected>>, rvr' \subseteq rvr, NoneStands PROVE DuoVotes'
    BY <1>1, <1>3, <2>1, QuietVotes
  <2>2. ASSUME UNCHANGED <<role, current_term, granted, elected>>, rvr' \subseteq rvr
        PROVE  DuoVotes'
    BY <2>1, <2>2 DEF NoneStands
  <2>3. ASSUME NEW i \in Server, G!Running(i), core(i) PROVE DuoVotes'
    <3>1. CASE ticker_timeout(i) \/ ticker_heartbeat(i)
      BY <2>2, <3>1 DEF ticker_timeout, ticker_heartbeat, votes, history
    <3>2. ASSUME NEW m \in BagToSet(ae), handle_append_entries(m) PROVE DuoVotes'
      <4>1. UNCHANGED <<granted, elected, rvr>>
        BY <3>2 DEF handle_append_entries, history
      <4>2. NoneStands
        BY <1>1, <3>2, AppendEntriesOffice DEF NoneStands, Follows, Same
      <4> QED BY <2>1, <4>1, <4>2
    <3>3. ASSUME NEW m \in BagToSet(aer), handle_append_response(m) PROVE DuoVotes'
      <4>1. UNCHANGED <<granted, elected, rvr>>
        BY <3>3 DEF handle_append_response, history
      <4>2. m.to \in Server
        BY <1>1 DEF TypeOK, AppendResponse
      <4>3. become_follower_locked(m.to, m.term, Nil) \/ UNCHANGED <<role, current_term>>
        BY <3>3 DEF handle_append_response, votes
      <4>4. NoneStands
        BY <1>1, <4>2, <4>3 DEF NoneStands, become_follower_locked, TypeOK
      <4> QED BY <2>1, <4>1, <4>4
    <3>4. ASSUME NEW th \in Thread, NEW j \in Server, send_append_to_peer(i, th, j)
          PROVE  DuoVotes'
      BY <2>2, <3>4 DEF send_append_to_peer, votes, history
    <3> QED
      BY <1>1, <2>3, <3>1, <3>2, <3>3, <3>4, StartElectionVotes, RequestVoteVotes, ResponseVotes
         DEF core, ticker_loop
  <2>4. ASSUME NEW i \in Server, raft_submit_command_alone(i) PROVE DuoVotes'
    BY <2>2, <2>4 DEF raft_submit_command_alone, Accept, check_alone, commit_alone,
       vars, votes, history
  <2>5. ASSUME NEW i \in Server, NEW th \in Thread, NEW j \in Server, skip_removed_peer(i, th, j)
        PROVE  DuoVotes'
    BY <2>2, <2>5 DEF skip_removed_peer, votes, history
  <2>6. ASSUME NEW i \in Server,
               raft_node_start(i) \/ request_cluster_leave(i) \/ raft_node_destroy(i)
        PROVE  DuoVotes'
    BY <2>2, <2>6 DEF raft_node_start, request_cluster_leave, raft_node_destroy, vars,
       votes, history
  <2>7. ASSUME NEW m \in BagToSet(lines), handle_membership_line(m) PROVE DuoVotes'
    BY <1>1, <2>2, <2>7 DEF handle_membership_line, Astray, votes, history
  <2>8. ASSUME NEW t \in BagToSet(tasks), do_membership_task(t) PROVE DuoVotes'
    BY <2>2, <2>8 DEF do_membership_task, votes, history
  <2>9. CASE lose
    BY <2>2, <2>9 DEF lose, votes, history
  <2>10. CASE UNCHANGED vars
    BY <2>2, <2>10 DEF vars, votes, history
  <2> QED BY <2>3, <2>4, <2>5, <2>6, <2>7, <2>8, <2>9, <2>10 DEF MNext, mvars
<1> QED BY <1>2, <1>3

LEMMA DuoStart == ASSUME MInit PROVE DuoInv
<1>1. /\ \A i \in Server : log[i] = <<>> /\ applied[i] = <<>> /\ role[i] = "follower"
      /\ rv = {} /\ rvr = {} /\ BagToSet(ae) = {} /\ elected = {}
  BY NoLine DEF MInit, NodeInit
<1>2. Len(<<>>) = 0
  OBVIOUS
<1>3. Launched(launch) \subseteq Server
  BY LaunchAssumption DEF MInit, G!Init, G!IsLaunch, Launched
<1>4. DuoData
  BY <1>1, <1>2 DEF DuoData, LogsFit, LinesRepeat, AllOwnApplied, OwnApplied, Smaller
<1>5. OthersIdle /\ OwnVotes /\ BackersBehind
  BY <1>1 DEF OthersIdle, OwnVotes, BackersBehind, Backed
<1>6. NewcomersBehind
  BY <1>1, <1>2, <1>3 DEF NewcomersBehind
<1> QED BY <1>4, <1>5, <1>6 DEF DuoInv, DuoVotes

LEMMA DuosFit ==
  MSpec /\ AllStay /\ AtMostTwoLaunched => [](DuoInv /\ TypeOK)
<1>1. AtMostTwoLaunched /\ [MNext]_mvars => AtMostTwoLaunched'
  BY LaunchStays DEF AtMostTwoLaunched
<1>2. /\ TypeInv /\ KnownInv /\ VoteInv /\ StayersInv /\ LogInv /\ AllStay
      /\ AtMostTwoLaunched
      => DuoFacts /\ TypeOK
  BY DEF DuoFacts, LogInv, LinkInv, TypeInv
<1>3. DuoFacts /\ DuoFacts' /\ DuoInv /\ WritesAreCommands /\ [MNext]_mvars => DuoInv'
  BY DuoDataNext, DuoVotesNext DEF DuoInv
<1>4. MInit => DuoInv
  BY DuoStart
<1> QED BY <1>1, <1>2, <1>3, <1>4, MTypesHold, StayersStayKnown, VotesAddUp, StayersAgree,
        ChangingLinks, StayersElectOnce, AllStayOn, CommandsWritten, PTL DEF MSpec

\* A cluster that grows from one node to two (or is launched with two; only two that never
\* hear of each other have majorities that do not meet) never applies different entries at
\* the same position, although the first commits alone (raft_submit_command), perhaps while the second
\* joins (add_peer_locked), and AE lines tell the second what is committed before it has it.
THEOREM GrowingPairApplies ==
  MSpec /\ NobodyQuits(launch) /\ MajoritiesMeet(launch) /\ Cardinality(Launched(launch)) <= 2
    => []StateMachineSafety
<1>1. ASSUME DuoInv, TypeOK PROVE StateMachineSafety
  <2> SUFFICES ASSUME NEW i \in Server, NEW j \in Server,
                      NEW n \in 1 .. Smaller(Len(applied[i]), Len(applied[j]))
               PROVE  Alike(applied[i][n], applied[j][n])
    BY DEF StateMachineSafety
  <2>1. /\ Len(applied[i]) \in Nat /\ Len(applied[j]) \in Nat
        /\ Len(log[i]) \in Nat /\ Len(log[j]) \in Nat
    BY <1>1, LogLengths
  <2>2. OwnApplied(i) /\ OwnApplied(j) /\ LogsFit
    BY <1>1 DEF DuoInv, DuoData, AllOwnApplied
  <2>3. /\ n \in 1 .. Len(applied[i]) /\ n \in 1 .. Len(applied[j])
        /\ n \in 1 .. Smaller(Len(log[i]), Len(log[j]))
    BY <2>1, <2>2 DEF OwnApplied, Smaller
  <2>4. Alike(applied[i][n], log[i][n]) /\ Alike(applied[j][n], log[j][n])
    BY <2>2, <2>3 DEF OwnApplied
  <2>5. Alike(log[i][n], log[j][n])
    BY <2>2, <2>3 DEF LogsFit
  <2> QED BY <2>4, <2>5 DEF Alike
<1>2. /\ Cardinality(Launched(launch)) <= 2 => AtMostTwoLaunched
      /\ NobodyQuits(launch) /\ MajoritiesMeet(launch) => AllStay
  BY DEF AtMostTwoLaunched, AllStay
<1> QED BY <1>1, <1>2, DuosFit, PTL
=============================================================================
