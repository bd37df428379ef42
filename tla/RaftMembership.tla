--------------------------- MODULE RaftMembership ---------------------------
(***************************************************************************)
(* The consensus core on a cluster whose membership changes: RaftCore's    *)
(* terms, votes and logs composed with Membership's JOIN, PEER and LEAVE   *)
(* lines.  They share peers: the majority and the peers a node sends to    *)
(* are those of its own array at that moment, and adding or removing a     *)
(* peer changes what the core keeps of it (src/src/common.cpp:91-144).     *)
(* Writes are given to leaders only; forwarding is in RaftCore.            *)
(***************************************************************************)
EXTENDS RaftCore

CONSTANTS
    RAFT_MAX_PEERS,
    Launches    \* as in Membership, with three bounds more for each:
                \*   writes    the commands that clients submit
                \*   appends   whether AE lines are sent
                \*   racing    whether answers may be sent while a LEAVE is handled

VARIABLES
    launch, state, tasks, lines,    \* as in Membership
    alone       \* alone[i]: the steps raft_submit_command has yet to do at i

G == INSTANCE Membership

ASSUME PeersAssumption == RAFT_MAX_PEERS \in Nat
ASSUME LaunchAssumption ==
    \A l \in Launches :
        /\ G!IsLaunch(l)
        /\ l.writes \subseteq Command /\ l.appends \in BOOLEAN /\ l.racing \in BOOLEAN

gossip == <<launch, state, tasks, lines>>
mvars == <<vars, gossip, alone>>

MInit == NodeInit /\ G!Init /\ alone = [i \in Server |-> {}]

-----------------------------------------------------------------------------
(* What the core keeps of a peer that is added or removed.                 *)

\* add_peer_locked starts a new peer at the end of the log.
AddedProgress(i, x) ==
    IF G!CanAdd(i, x)
    THEN /\ next_index' = [next_index EXCEPT ![i][x] = Len(log[i]) + 1]
         /\ match_index' = [match_index EXCEPT ![i][x] = 0]
    ELSE UNCHANGED progress

\* The vote of i after remove_peer_locked has removed its peer x.
VoteAfterLeave(i, x) == IF x \in peers[i] /\ voted_for[i] = x THEN Nil ELSE voted_for[i]

\* send_to_peer searches the peer array of i without the mutex: while a LEAVE
\* shifts it, the address found may be that of another peer.  (Votes only: AER
\* and CL lines that go astray are refused, or change nothing that is checked.)
Astray(i, x) ==
    \/ UNCHANGED rvr
    \/ /\ launch.racing /\ x \in peers[i]
       /\ \E m \in rvr : \E k \in peers[i] \ {m.to} :
             m.from = i /\ rvr' = (rvr \ {m}) \cup {[m EXCEPT !.to = k]}

handle_membership_line(m) ==
    LET i == m.to  x == m.about IN
    /\ G!Running(i)
    /\ G!handle_line(m)
    /\ \/ /\ m.kind \in {"JOIN", "PEER"}
          /\ AddedProgress(i, x)
          /\ UNCHANGED <<votes, rvr>>
       \/ /\ m.kind = "LEAVE"
          /\ voted_for' = [voted_for EXCEPT ![i] = VoteAfterLeave(i, x)]
          /\ leader_id' = [leader_id EXCEPT ![i] = IF x \in peers[i] /\ @ = x THEN Nil ELSE @]
          /\ Astray(i, x)
          /\ UNCHANGED <<role, current_term, votes_received, progress>>
    /\ UNCHANGED <<logs, threads, rv, ae, aer, cl, history, alone>>

\* Whoever has added a peer it heard of in a PEER line sends it an AE line after
\* the announcement, whether it leads or not.
do_membership_task(t) ==
    /\ G!do_task(t)
    /\ sending' = IF t.step = "announce" /\ t.cause = "PEER"
                  THEN [sending EXCEPT ![t.at]["pool"] = @ \cup {t.about}] ELSE sending
    /\ UNCHANGED <<votes, logs, progress, start_vote, rv, rvr, ae, aer, cl, history, alone>>

raft_node_start(i) == G!raft_node_start(i) /\ UNCHANGED <<vars, alone>>

request_cluster_leave(i) == G!request_cluster_leave(i) /\ UNCHANGED <<vars, alone>>

\* All threads of the node have come to their ends.
raft_node_destroy(i) ==
    /\ G!raft_node_destroy(i)
    /\ ~start_vote[i] /\ alone[i] = {} /\ \A th \in Thread : sending[i][th] = {}
    /\ UNCHANGED <<vars, alone>>

-----------------------------------------------------------------------------
(* Client writes; a leader without peers commits them itself.              *)

\* The append of Submit.  That of RaftCore also commits where there are no peers,
\* which here are steps of their own.
Accept(i, c) ==
    /\ role[i] = "leader"
    /\ Cardinality(Owed) <= MaxOwed
    /\ log' = [log EXCEPT ![i] = append_entry_locked(@, current_term[i], c)]
    /\ broadcast_append(i, "pool")
    /\ alone' = [alone EXCEPT ![i] = @ \cup {"check"}]
    /\ UNCHANGED <<votes, peers, commit_index, applied, progress, start_vote,
                   rv, rvr, ae, aer, cl, history, gossip>>

\* peer_count is read without the mutex.
check_alone(i) ==
    /\ "check" \in alone[i]
    /\ alone' = [alone EXCEPT ![i] = (@ \ {"check"}) \cup IF peers[i] = {} THEN {"commit"} ELSE {}]
    /\ UNCHANGED <<vars, gossip>>

\* Neither the role nor the peers are looked at again.
commit_alone(i) ==
    /\ "commit" \in alone[i]
    /\ alone' = [alone EXCEPT ![i] = @ \ {"commit"}]
    /\ commit_index' = [commit_index EXCEPT ![i] = Len(log[i])]
    /\ applied' = [applied EXCEPT ![i] = apply_committed_locked(@, log[i], Len(log[i]))]
    /\ UNCHANGED <<votes, peers, log, progress, threads, rv, rvr, ae, aer, cl, history, gossip>>

raft_submit_command_alone(i) ==
    \/ \E c \in launch.writes : Accept(i, c)
    \/ check_alone(i)
    \/ commit_alone(i)

-----------------------------------------------------------------------------
core(i) ==
    \/ ticker_loop(i)
    \/ \E m \in rv : m.to = i /\ handle_request_vote(m)
    \/ \E m \in rvr : m.to = i /\ handle_request_vote_response(m)
    \/ \E m \in BagToSet(ae) : m.to = i /\ handle_append_entries(m)
    \/ \E m \in BagToSet(aer) : m.to = i /\ handle_append_response(m)
    \/ launch.appends /\ \E th \in Thread, j \in Server : send_append_to_peer(i, th, j)

\* A send owed to a node that is no peer any more finds nothing to do.
skip_removed_peer(i, th, j) ==
    /\ j \in sending[i][th] \ peers[i]
    /\ sending' = [sending EXCEPT ![i][th] = @ \ {j}]
    /\ UNCHANGED <<votes, peers, logs, progress, start_vote, rv, rvr, ae, aer, cl, history,
                   gossip, alone>>

MNext ==
    \/ \E i \in Server :
          \/ raft_node_start(i) \/ request_cluster_leave(i) \/ raft_node_destroy(i)
          \/ G!Running(i) /\ core(i) /\ UNCHANGED <<gossip, alone>>
          \/ G!Running(i) /\ raft_submit_command_alone(i)
          \/ \E th \in Thread, j \in Server : skip_removed_peer(i, th, j)
    \/ \E m \in BagToSet(lines) : handle_membership_line(m)
    \/ \E t \in BagToSet(tasks) : do_membership_task(t)
    \/ lose /\ UNCHANGED <<gossip, alone>>
    \/ G!lose /\ UNCHANGED <<vars, alone>>

MSpec == MInit /\ [][MNext]_mvars

-----------------------------------------------------------------------------
(* Properties.                                                             *)

\* Messages "are applied under the node mutex" (README.md:56-57), so an answer
\* reaches the candidate that asked: nobody counts a vote that was not cast for it.
AllVotesWereCast ==
    \A i \in Server : role[i] # "follower" =>
        votes_received[i] <= Cardinality({v \in Server : <<current_term[i], v, i>> \in granted})

\* No candidate or leader has counted more votes than were cast for it in its term, also
\* when voters leave, forget a vote they cast (remove_peer_locked) and vote again.
CountedVotesWereCast ==
    ~launch.racing => AllVotesWereCast

\* The votes counted in term t, numbered by whoever counts them.
CountedIn(t) ==
    UNION {{i} \X (1 .. votes_received[i]) :
              i \in {k \in Server : role[k] # "follower" /\ current_term[k] = t}}

\* A vote is counted by no more than one candidate, also by one to which it went
\* astray (send_to_peer): together they count no more votes than were cast in a term.
VotesCountOnce ==
    \A t \in 1 .. MaxElections :
        Cardinality(CountedIn(t)) <= Cardinality({g \in granted : g[1] = t})

\* The nodes of a launch, whom each of them knows at first, and the least number of
\* votes it ever takes for a majority: it forgets those that quit, and no others.
Launched(l) == l.members \cup DOMAIN l.contacts
KnownAtFirst(l, i) == IF i \in l.members THEN l.members \ {i} ELSE l.contacts[i]
LeastMajority(l, i) == ((Cardinality(KnownAtFirst(l, i) \ l.quitters) + 1) \div 2) + 1

\* Launches of which any two nodes that stay count majorities that have a voter in
\* common: one node joins a lone one or two members, or an even number of which it knows
\* all but one, or one leaves an odd number.  Not when one joins three, or two join at once.
MajoritiesMeet(l) ==
    \A i, j \in Launched(l) \ l.quitters :
        i # j => LeastMajority(l, i) + LeastMajority(l, j) > Cardinality(Launched(l))

\* Launches of a cluster that nobody quits.
NobodyQuits(l) == l.quitters = {} /\ ~l.racing

\* Of the nodes that stay, no two become leader in one term while a third joins
\* two or leaves them, although those that have heard of it count another majority
\* than those that have not, and the votes cast for one that leaves may be cast again.
StayersElectedOnce ==
    ~launch.racing => \A a, b \in elected :
        a[1] = b[1] /\ {a[2], b[2]} \cap launch.quitters = {} => a[2] = b[2]

\* A node commits what a majority of itself and its peers holds (README.md:51
\* speaks of "the majority size for future commits").
MajorityCommits ==
    [][\A i \in Server :
        commit_index'[i] > commit_index[i] =>
            2 * Cardinality({j \in peers[i] \cup {i} : Len(log[j]) >= commit_index'[i]})
                > Cardinality(peers[i]) + 1]_mvars

=============================================================================
