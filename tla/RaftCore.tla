------------------------------ MODULE RaftCore ------------------------------
(***************************************************************************)
(* The consensus core of the program (src/src/raft_core.cpp and the        *)
(* sending half of src/src/network.cpp) on a fixed cluster in which every  *)
(* node has every other node as a peer: elections, votes, replication,     *)
(* commitment, application and client writes.                              *)
(*                                                                         *)
(* One action is one critical section of node->mutex (Submit names the     *)
(* exceptions).  The program has many threads per node (ticker, network,   *)
(* worker pool, stdin) and they interleave exactly at those sections, so   *)
(* what a thread decides under the mutex and acts on after unlocking is a  *)
(* variable here: start_vote is the ticker's decision to start an          *)
(* election, and sending the AppendEntries a thread still has to build     *)
(* and send.                                                               *)
(*                                                                         *)
(* An entry's index is its position in log, its key and value are one      *)
(* command, and node->last_applied is Len(applied).  Clocks are abstracted *)
(* away: a node that is not the leader may time out whenever its ticker    *)
(* looks, a leader may send a heartbeat whenever its ticker looks.         *)
(***************************************************************************)
EXTENDS Integers, FiniteSets, SequencesExt

CONSTANTS
    Server,         \* the nodes of the cluster
    Nil,            \* the -1 of voted_for and leader_id
    Command,        \* the client writes raft_submit_command accepts
    Dash,           \* a write whose value is the token "-"
    Blank,          \* what a write of "-" is once it has crossed the wire
    RAFT_MAX_LOG,   \* capacity of node->log
    MaxElections,   \* bound: elections started in the whole cluster
    MaxOwed,        \* bound: AE sends owed when a write starts a broadcast
    MaxOwedBeat,    \* bound: AE sends owed when a heartbeat does
    MaxInFlight,    \* bound: AE and AER lines in flight together
    MaxForwards,    \* bound: CL lines in flight
    Lossy           \* bound: whether AE, AER and CL lines may be lost

ASSUME ServerAssumption == IsFiniteSet(Server) /\ Server # {} /\ Nil \notin Server
ASSUME CommandAssumption == Blank \notin Command
ASSUME BoundAssumption ==
    /\ RAFT_MAX_LOG \in Nat /\ MaxElections \in Nat
    /\ MaxOwed \in Nat /\ MaxOwedBeat \in Nat
    /\ MaxInFlight \in Nat /\ MaxForwards \in Nat
    /\ Lossy \in BOOLEAN

VARIABLES
    role, current_term, voted_for, leader_id, votes_received,
    peers,          \* ids in node->peers
    log, commit_index,
    applied,        \* entries handed to the store, in order
    next_index, match_index,
    start_vote,     \* ticker_loop has decided to start an election
    sending,        \* sending[i][th]: peers thread th of i has yet to send AE to
    rv, rvr, ae, aer, cl,   \* lines in flight, by kind
    granted,        \* history: <<t, v, c>> when v votes for c in term t
    elected         \* history: <<t, i>> when i becomes leader of term t

votes   == <<role, current_term, voted_for, leader_id, votes_received>>
logs    == <<log, commit_index, applied>>
progress == <<next_index, match_index>>
threads == <<start_vote, sending>>
history == <<granted, elected>>
vars    == <<votes, peers, logs, progress, threads, rv, rvr, ae, aer, cl, history>>

-----------------------------------------------------------------------------
Entry == [term : Nat, cmd : Command \cup {Blank}]
\* The threads that send: the ticker, and the pool workers with stdin_loop as
\* one (sends of theirs to the same peer that are owed at once are one send).
Thread == {"ticker", "pool"}

RequestVote  == [term : Nat, from : Server, to : Server, last_index : Nat, last_term : Nat]
VoteResponse == [term : Nat, from : Server, to : Server, granted : BOOLEAN]
AppendEntries ==
    [term : Nat, from : Server, to : Server, prev_index : Nat, prev_term : Nat,
     commit : Nat, entry : Seq(Entry)]
AppendResponse ==
    [term : Nat, from : Server, to : Server, success : BOOLEAN, match_index : Nat]
ClientForward == [to : Server, cmd : Command]

TermAt(l, n) == IF n = 0 THEN 0 ELSE l[n].term
LastTerm(l) == TermAt(l, Len(l))
Smaller(m, n) == IF m < n THEN m ELSE n

\* The encoder writes an absent value as "-" and the decoder reads "-" as an
\* absent value, so a write whose value really is "-" loses it on the wire.
OnWire(c) == IF c = Dash THEN Blank ELSE c

\* Entries e and f are the same one, but for what a wire may have made of its value.
Alike(e, f) == e.term = f.term /\ OnWire(e.cmd) = OnWire(f.cmd)

\* Mutant: half of the cluster is enough.
majority_count_half(i) == (Cardinality(peers[i]) + 1) \div 2

majority_count(i) == ((Cardinality(peers[i]) + 1) \div 2) + 1

-----------------------------------------------------------------------------
\* What raft_node_init gives a node, apart from its peers.
NodeInit ==
    /\ role = [i \in Server |-> "follower"]
    /\ current_term = [i \in Server |-> 0]
    /\ voted_for = [i \in Server |-> Nil]
    /\ leader_id = [i \in Server |-> Nil]
    /\ votes_received = [i \in Server |-> 0]
    /\ log = [i \in Server |-> <<>>]
    /\ commit_index = [i \in Server |-> 0]
    /\ applied = [i \in Server |-> <<>>]
    /\ next_index = [i \in Server |-> [j \in Server |-> 1]]
    /\ match_index = [i \in Server |-> [j \in Server |-> 0]]
    /\ start_vote = [i \in Server |-> FALSE]
    /\ sending = [i \in Server |-> [th \in Thread |-> {}]]
    /\ rv = {} /\ rvr = {}
    /\ ae = EmptyBag /\ aer = EmptyBag /\ cl = EmptyBag
    /\ granted = {} /\ elected = {}

Init == NodeInit /\ peers = [i \in Server |-> Server \ {i}]

-----------------------------------------------------------------------------
(* Steps that several handlers share.                                      *)

\* Mutant: the vote is forgotten whenever any term is heard of.
VoteIn_forgotten(i, t) == Nil

\* The vote i holds once it has heard of term t.
VoteIn(i, t) == IF t > current_term[i] THEN Nil ELSE voted_for[i]

\* Mutant: a node that hears of its own term keeps its role.
become_follower_locked_later_only(i, t, l) ==
    /\ role' = [role EXCEPT ![i] = IF t > current_term[i] THEN "follower" ELSE @]
    /\ current_term' = [current_term EXCEPT ![i] = IF t > @ THEN t ELSE @]
    /\ leader_id' = [leader_id EXCEPT ![i] = l]
    /\ votes_received' = [votes_received EXCEPT ![i] = 0]

\* Mutant: the term is not taken over from an AE line.
become_follower_locked_term_kept(i, t, l) ==
    /\ role' = [role EXCEPT ![i] = "follower"]
    /\ current_term' = [current_term EXCEPT ![i] = IF l = Nil /\ t > @ THEN t ELSE @]
    /\ leader_id' = [leader_id EXCEPT ![i] = l]
    /\ votes_received' = [votes_received EXCEPT ![i] = 0]

\* i follows in term t (if later than its own) under leader l.  The caller
\* gives voted_for', which is VoteIn(i, t) or a vote cast right after.
become_follower_locked(i, t, l) ==
    /\ role' = [role EXCEPT ![i] = "follower"]
    /\ current_term' = [current_term EXCEPT ![i] = IF t > @ THEN t ELSE @]
    /\ leader_id' = [leader_id EXCEPT ![i] = l]
    /\ votes_received' = [votes_received EXCEPT ![i] = 0]

\* The leader's view of its peers when it takes office in term t.
become_leader_locked(i, t) ==
    /\ role' = [role EXCEPT ![i] = "leader"]
    /\ leader_id' = [leader_id EXCEPT ![i] = i]
    /\ next_index' = [next_index EXCEPT ![i] =
            [j \in Server |-> IF j \in peers[i] THEN Len(log[i]) + 1 ELSE @[j]]]
    /\ match_index' = [match_index EXCEPT ![i] =
            [j \in Server |-> IF j \in peers[i] THEN 0 ELSE @[j]]]
    /\ elected' = elected \cup {<<t, i>>}

\* Thread th of i copies the peer ids under the mutex, then sends to each.
broadcast_append(i, th) == sending' = [sending EXCEPT ![i][th] = @ \cup peers[i]]

\* The sends that threads have still to make.
Owed == {s \in Server \X Thread \X Server : s[3] \in sending[s[1]][s[2]]}

\* Mutant: the loop stops one entry short.
apply_committed_locked_short(a, l, n) ==
    IF Len(a) + 1 < n THEN a \o SubSeq(l, Len(a) + 1, n - 1) ELSE a

\* What has been applied once log l is applied through index n.  Every change
\* of commit_index is followed by it, so nothing else is ever left to apply.
apply_committed_locked(a, l, n) ==
    IF Len(a) < n THEN a \o SubSeq(l, Len(a) + 1, n) ELSE a

-----------------------------------------------------------------------------
(* The ticker.                                                             *)

\* The elections started so far (each begins with a vote for oneself) and those
\* decided on.
Elections == Cardinality({g \in granted : g[2] = g[3]})
             + Cardinality({i \in Server : start_vote[i]})

\* The ticker sees a node that does not lead and whose timer has run out.  A
\* ticker that is still sending has not come round to look again.
ticker_timeout(i) ==
    /\ role[i] # "leader"
    /\ ~start_vote[i] /\ sending[i]["ticker"] = {}
    /\ Elections < MaxElections
    /\ start_vote' = [start_vote EXCEPT ![i] = TRUE]
    /\ UNCHANGED <<votes, peers, logs, progress, sending, rv, rvr, ae, aer, cl, history>>

\* Mutant: whoever the ticker runs for sends heartbeats.
ticker_heartbeat_any_role(i) ==
    /\ ~start_vote[i] /\ sending[i]["ticker"] = {} /\ peers[i] # {}
    /\ Cardinality(Owed) <= MaxOwedBeat
    /\ broadcast_append(i, "ticker")
    /\ UNCHANGED <<votes, peers, logs, progress, start_vote, rv, rvr, ae, aer, cl, history>>

\* The ticker sees a leader whose last heartbeat is old.
ticker_heartbeat(i) ==
    /\ role[i] = "leader"
    /\ ~start_vote[i] /\ sending[i]["ticker"] = {} /\ peers[i] # {}
    /\ Cardinality(Owed) <= MaxOwedBeat
    /\ broadcast_append(i, "ticker")
    /\ UNCHANGED <<votes, peers, logs, progress, start_vote, rv, rvr, ae, aer, cl, history>>

\* The role is not looked at again: the node may lead by now.
start_election(i) ==
    LET t == current_term[i] + 1 IN
    /\ start_vote[i]
    /\ start_vote' = [start_vote EXCEPT ![i] = FALSE]
    /\ current_term' = [current_term EXCEPT ![i] = t]
    /\ voted_for' = [voted_for EXCEPT ![i] = i]
    /\ votes_received' = [votes_received EXCEPT ![i] = 1]
    /\ granted' = granted \cup {<<t, i, i>>}
    /\ \/ /\ 1 >= majority_count(i)
          /\ become_leader_locked(i, t)
          /\ broadcast_append(i, "ticker")
          /\ UNCHANGED rv
       \/ /\ 1 < majority_count(i)
          /\ role' = [role EXCEPT ![i] = "candidate"]
          /\ leader_id' = [leader_id EXCEPT ![i] = Nil]
          /\ rv' = rv \cup {[term |-> t, from |-> i, to |-> j, last_index |-> Len(log[i]),
                             last_term |-> LastTerm(log[i])] : j \in peers[i]}
          /\ UNCHANGED <<progress, sending, elected>>
    /\ UNCHANGED <<peers, logs, rvr, ae, aer, cl>>

-----------------------------------------------------------------------------
(* Votes.                                                                  *)

\* Mutant: the two logs are compared the wrong way round.
UpToDate_swapped(m, l) ==
    \/ m.last_term < LastTerm(l)
    \/ m.last_term = LastTerm(l) /\ m.last_index <= Len(l)

\* The candidate's log, as m describes it, is at least as complete as l.
UpToDate(m, l) ==
    \/ m.last_term > LastTerm(l)
    \/ m.last_term = LastTerm(l) /\ m.last_index >= Len(l)

handle_request_vote(m) ==
    LET i == m.to
        grant == /\ m.term >= current_term[i]
                 /\ VoteIn(i, m.term) \in {Nil, m.from}
                 /\ UpToDate(m, log[i])
    IN
    /\ rv' = rv \ {m}
    /\ IF m.term > current_term[i]
       THEN become_follower_locked(i, m.term, Nil)
       ELSE UNCHANGED <<role, current_term, leader_id, votes_received>>
    /\ voted_for' = [voted_for EXCEPT ![i] = IF grant THEN m.from ELSE VoteIn(i, m.term)]
    /\ granted' = IF grant THEN granted \cup {<<m.term, i, m.from>>} ELSE granted
    /\ rvr' = IF m.from \in peers[i]
              THEN rvr \cup {[term |-> current_term'[i], from |-> i, to |-> m.from,
                              granted |-> grant]}
              ELSE rvr
    /\ UNCHANGED <<peers, logs, progress, threads, ae, aer, cl, elected>>

\* Mutant: an answer to an earlier candidacy counts too.
IsVote_any_term(i, m) == role[i] = "candidate" /\ m.granted

\* Answer m is a vote for the candidacy that node i is in.
IsVote(i, m) == role[i] = "candidate" /\ m.term = current_term[i] /\ m.granted

handle_request_vote_response(m) ==
    LET i == m.to
        counts == IsVote(i, m)
        won == counts /\ votes_received[i] + 1 >= majority_count(i)
    IN
    /\ rvr' = rvr \ {m}
    /\ \/ /\ m.term > current_term[i]
          /\ become_follower_locked(i, m.term, Nil)
          /\ voted_for' = [voted_for EXCEPT ![i] = VoteIn(i, m.term)]
          /\ UNCHANGED <<progress, sending, elected>>
       \/ /\ m.term <= current_term[i]
          /\ votes_received' = [votes_received EXCEPT ![i] = IF counts THEN @ + 1 ELSE @]
          /\ IF won
             THEN become_leader_locked(i, m.term) /\ broadcast_append(i, "pool")
             ELSE UNCHANGED <<role, leader_id, progress, sending, elected>>
          /\ UNCHANGED <<current_term, voted_for>>
    /\ UNCHANGED <<peers, logs, start_vote, rv, ae, aer, cl, granted>>

-----------------------------------------------------------------------------
(* Replication.                                                            *)

\* The AE line i builds for peer j.  Nothing asks whether i still leads.
build_append_locked(i, j) ==
    LET n == next_index[i][j]
        prev == IF n <= Len(log[i]) THEN n - 1 ELSE Len(log[i])
    IN [term |-> current_term[i], from |-> i, to |-> j,
        prev_index |-> prev, prev_term |-> TermAt(log[i], prev),
        commit |-> commit_index[i],
        entry |-> IF n <= Len(log[i])
                  THEN <<[log[i][n] EXCEPT !.cmd = OnWire(@)]>> ELSE <<>>]

\* Thread th of i gets round to peer j, which is a peer still.
send_append_to_peer(i, th, j) ==
    /\ j \in sending[i][th] \cap peers[i]
    /\ BagCardinality(ae) + BagCardinality(aer) < MaxInFlight
    /\ sending' = [sending EXCEPT ![i][th] = @ \ {j}]
    /\ ae' = ae (+) SetToBag({build_append_locked(i, j)})
    /\ UNCHANGED <<votes, peers, logs, progress, start_vote, rv, rvr, aer, cl, history>>

\* Mutant: the term of the preceding entry is not compared.
Consistent_index_only(l, m) == m.prev_index <= Len(l)

\* The receiver's log has the entry that precedes the ones sent.
Consistent(l, m) ==
    \/ m.prev_index = 0
    \/ m.prev_index <= Len(l) /\ TermAt(l, m.prev_index) = m.prev_term

\* Log l with entry e stored at index n, cut there first if it conflicts.
Stored(l, n, e) ==
    LET kept == IF n <= Len(l) /\ TermAt(l, n) # e.term THEN SubSeq(l, 1, n - 1) ELSE l
    IN IF n = Len(kept) + 1 /\ Len(kept) < RAFT_MAX_LOG THEN Append(kept, e) ELSE kept

handle_append_entries(m) ==
    LET i == m.to
        success == m.term >= current_term[i] /\ Consistent(log[i], m)
        new == IF success /\ m.entry # <<>>
               THEN Stored(log[i], m.prev_index + 1, m.entry[1]) ELSE log[i]
        commit == IF success /\ m.commit > commit_index[i]
                  THEN Smaller(m.commit, Len(new)) ELSE commit_index[i]
    IN
    /\ ae' = ae (-) SetToBag({m})
    /\ IF m.term >= current_term[i]
       THEN become_follower_locked(i, m.term, m.from)
       ELSE UNCHANGED <<role, current_term, leader_id, votes_received>>
    /\ voted_for' = [voted_for EXCEPT ![i] = VoteIn(i, m.term)]
    /\ log' = [log EXCEPT ![i] = new]
    /\ commit_index' = [commit_index EXCEPT ![i] = commit]
    /\ applied' = [applied EXCEPT ![i] = apply_committed_locked(@, new, commit)]
    /\ aer' = IF m.from \in peers[i]
              THEN aer (+) SetToBag({[term |-> current_term'[i], from |-> i, to |-> m.from,
                                success |-> success,
                                match_index |-> IF success THEN Len(new) ELSE 0]})
              ELSE aer
    /\ UNCHANGED <<peers, progress, threads, rv, rvr, cl, history>>

\* Mutant: an entry counts as stored where only the one before it is.
Committable_next(i, match) ==
    {n \in (commit_index[i] + 1) .. Len(log[i]) :
        /\ TermAt(log[i], n) = current_term[i]
        /\ 1 + Cardinality({j \in peers[i] : match[j] + 1 >= n}) >= majority_count(i)}

\* The indexes of its own term that leader i, with these match indexes of its
\* peers, finds on a majority and has not committed yet.
Committable(i, match) ==
    {n \in (commit_index[i] + 1) .. Len(log[i]) :
        /\ TermAt(log[i], n) = current_term[i]
        /\ 1 + Cardinality({j \in peers[i] : match[j] >= n}) >= majority_count(i)}

recompute_commit_locked(i, match) ==
    \/ /\ Committable(i, match) = {}
       /\ UNCHANGED <<commit_index, applied>>
    \/ \E n \in Committable(i, match) :
          /\ \A k \in Committable(i, match) : k <= n
          /\ commit_index' = [commit_index EXCEPT ![i] = n]
          /\ applied' = [applied EXCEPT ![i] = apply_committed_locked(@, log[i], n)]

\* Mutant: nothing stops at the first entry.
Earlier_unguarded(n) == n - 1

\* Mutant: the leader tries the same index again.
Earlier_same(n) == n

\* Where the leader looks next in a peer's log after the peer refused index n.
Earlier(n) == IF n > 1 THEN n - 1 ELSE n

handle_append_response(m) ==
    LET i == m.to
        j == m.from
        match == [match_index[i] EXCEPT ![j] = m.match_index]
        answers == m.term = current_term[i] /\ role[i] = "leader" /\ j \in peers[i]
    IN
    /\ aer' = aer (-) SetToBag({m})
    /\ \/ /\ m.term > current_term[i]
          /\ become_follower_locked(i, m.term, Nil)
          /\ voted_for' = [voted_for EXCEPT ![i] = VoteIn(i, m.term)]
          /\ UNCHANGED <<logs, progress, sending>>
       \/ /\ m.term <= current_term[i] /\ ~answers
          /\ UNCHANGED <<votes, logs, progress, sending>>
       \/ /\ answers /\ m.success
          /\ match_index' = [match_index EXCEPT ![i] = match]
          /\ next_index' = [next_index EXCEPT ![i][j] = m.match_index + 1]
          /\ recompute_commit_locked(i, match)
          /\ UNCHANGED <<votes, log, sending>>
       \/ /\ answers /\ ~m.success
          /\ next_index' = [next_index EXCEPT ![i][j] = Earlier(@)]
          /\ sending' = [sending EXCEPT ![i]["pool"] = @ \cup {j}]
          /\ UNCHANGED <<votes, logs, match_index>>
    /\ UNCHANGED <<peers, start_vote, rv, rvr, ae, cl, history>>

-----------------------------------------------------------------------------
(* Client writes.                                                          *)

append_entry_locked(l, t, c) ==
    IF Len(l) < RAFT_MAX_LOG THEN Append(l, [term |-> t, cmd |-> c]) ELSE l

\* Node i is given write c, from its own terminal or from another node; pending
\* is the CL lines that stay in flight.  A leader appends (or finds its log
\* full) and broadcasts either way; a leader without peers commits all it has
\* (in a critical section of its own, before which a node without peers does
\* nothing but take more writes).  The peer ids are copied in a section of their
\* own too, but they never change here.  Any other node passes the write to the
\* leader it knows of, or drops it.
Submit(i, c, pending) ==
    \/ /\ role[i] = "leader"
       /\ Cardinality(Owed) <= MaxOwed
       /\ LET new == append_entry_locked(log[i], current_term[i], c)
              commit == IF peers[i] = {} THEN Len(new) ELSE commit_index[i]
          IN /\ log' = [log EXCEPT ![i] = new]
             /\ commit_index' = [commit_index EXCEPT ![i] = commit]
             /\ applied' = [applied EXCEPT ![i] = apply_committed_locked(@, new, commit)]
       /\ broadcast_append(i, "pool")
       /\ cl' = pending
    \/ /\ role[i] # "leader" /\ leader_id[i] \in peers[i]
       /\ BagCardinality(pending) < MaxForwards
       /\ cl' = pending (+) SetToBag({[to |-> leader_id[i], cmd |-> c]})
       /\ UNCHANGED <<logs, sending>>
    \/ /\ role[i] # "leader" /\ leader_id[i] \notin peers[i]
       /\ cl' = pending
       /\ UNCHANGED <<logs, sending>>

raft_submit_command(i, c) ==
    /\ Submit(i, c, cl)
    /\ UNCHANGED <<votes, peers, progress, start_vote, rv, rvr, ae, aer, history>>

\* A value that did not survive the wire is not a valid token any more.
handle_client_forward(m) ==
    LET c == OnWire(m.cmd)
        pending == cl (-) SetToBag({m})
    IN
    /\ \/ c \in Command /\ Submit(m.to, c, pending)
       \/ c \notin Command /\ cl' = pending /\ UNCHANGED <<logs, sending>>
    /\ UNCHANGED <<votes, peers, progress, start_vote, rv, rvr, ae, aer, history>>

-----------------------------------------------------------------------------
\* A line that connect_send could not deliver, or that its receiver never
\* read.  Votes need no such step: one in flight need never be received.
lose ==
    /\ Lossy
    /\ \/ \E m \in BagToSet(ae) : ae' = ae (-) SetToBag({m}) /\ UNCHANGED <<aer, cl>>
       \/ \E m \in BagToSet(aer) : aer' = aer (-) SetToBag({m}) /\ UNCHANGED <<ae, cl>>
       \/ \E m \in BagToSet(cl) : cl' = cl (-) SetToBag({m}) /\ UNCHANGED <<ae, aer>>
    /\ UNCHANGED <<votes, peers, logs, progress, threads, rv, rvr, history>>

ticker_loop(i) == ticker_timeout(i) \/ start_election(i) \/ ticker_heartbeat(i)

\* A pool worker takes a line and handles it; workers run concurrently and
\* every line has a connection of its own, so any line in flight may be next.
raft_handle_line ==
    \/ \E m \in rv : handle_request_vote(m)
    \/ \E m \in rvr : handle_request_vote_response(m)
    \/ \E m \in BagToSet(ae) : handle_append_entries(m)
    \/ \E m \in BagToSet(aer) : handle_append_response(m)
    \/ \E m \in BagToSet(cl) : handle_client_forward(m)

Next ==
    \/ \E i \in Server : ticker_loop(i)
    \/ raft_handle_line
    \/ \E i \in Server, th \in Thread, j \in Server : send_append_to_peer(i, th, j)
    \/ \E i \in Server, c \in Command : raft_submit_command(i, c)
    \/ lose

Spec == Init /\ [][Next]_vars

-----------------------------------------------------------------------------
(* Properties.                                                             *)

TypeOK ==
    /\ role \in [Server -> {"follower", "candidate", "leader"}]
    /\ current_term \in [Server -> Nat]
    /\ voted_for \in [Server -> Server \cup {Nil}]
    /\ leader_id \in [Server -> Server \cup {Nil}]
    /\ votes_received \in [Server -> Nat]
    /\ peers \in [Server -> SUBSET Server]
    /\ log \in [Server -> Seq(Entry)]
    /\ commit_index \in [Server -> Nat]
    /\ applied \in [Server -> Seq(Entry)]
    /\ next_index \in [Server -> [Server -> Nat \ {0}]]
    /\ match_index \in [Server -> [Server -> Nat]]
    /\ start_vote \in [Server -> BOOLEAN]
    /\ sending \in [Server -> [Thread -> SUBSET Server]]
    /\ rv \subseteq RequestVote
    /\ rvr \subseteq VoteResponse
    /\ BagToSet(ae) \subseteq AppendEntries
    /\ BagToSet(aer) \subseteq AppendResponse
    /\ BagToSet(cl) \subseteq ClientForward
    /\ granted \subseteq Nat \X Server \X Server
    /\ elected \subseteq Nat \X Server

\* Whatever is committed has been applied, also on a follower that has cut
\* committed entries off its log and lowers its commit_index.
AppliedCoversCommit == \A i \in Server : commit_index[i] <= Len(applied[i])

\* At most one node ever becomes leader of a term, whatever votes were lost,
\* delayed or reordered (the vote rules of start_election, handle_request_vote
\* and handle_request_vote_response).
ElectionSafety ==
    \A a, b \in elected : a[1] = b[1] => a[2] = b[2]

\* Whoever was elected got the votes of a majority of the cluster for that very
\* term: votes_received, which only counts lines, never runs ahead of the votes
\* cast, also when one arrives late, in a later candidacy of the same node.
ElectedByMajority ==
    \A e \in elected :
        2 * Cardinality({v \in Server : <<e[1], v, e[2]>> \in granted}) > Cardinality(Server)

Polls == INSTANCE Voting WITH votes <- granted, winners <- elected

\* Elections are what Voting says of them: whatever lines are late or lost and
\* however often the ticker decides to stand, a node votes once per term, never in
\* an earlier term than before, and whoever becomes leader has a majority behind it
\* in that very moment (start_election, handle_request_vote and its answers).
ElectionsAreVoting == Polls!Spec

\* A node votes for one candidate per term, also when it stands itself between
\* two requests or hears of the term from an AE line first.
OneVotePerTerm ==
    \A a, b \in granted : a[1] = b[1] /\ a[2] = b[2] => a[3] = b[3]

\* The votes for i in its present term that are counted or lost, that is not in
\* an RVR line that can still be counted.
Counted(i) ==
    {v \in Server : /\ <<current_term[i], v, i>> \in granted
                    /\ [term |-> current_term[i], from |-> v, to |-> i, granted |-> TRUE] \notin rvr}

\* Why elections are safe, as an inductive invariant: what a node still
\* remembers, what is in flight and what was ever granted agree.  A vote is
\* remembered as long as its term lasts, a request in flight was not answered
\* yet and is the only one of its kind, an answer in flight reports a vote, and
\* a candidate counts no vote that is still in flight.
ElectionInv ==
    /\ peers = [i \in Server |-> Server \ {i}]
    /\ \A g \in granted :
          /\ g[1] <= current_term[g[2]] /\ g[1] <= current_term[g[3]]
          /\ g[1] = current_term[g[2]] => voted_for[g[2]] = g[3]
    /\ \A m \in rv :
          /\ m.from # m.to /\ m.term <= current_term[m.from]
          /\ <<m.term, m.to, m.from>> \notin granted
          /\ \A n \in rv : n.term = m.term /\ n.from = m.from /\ n.to = m.to => n = m
    /\ \A m \in rvr :
          m.from # m.to /\ (m.granted => <<m.term, m.from, m.to>> \in granted)
    /\ \A i \in Server : role[i] = "candidate" => votes_received[i] <= Cardinality(Counted(i))
    /\ OneVotePerTerm
    /\ ElectedByMajority

\* Two logs that hold an entry of the same term at the same index agree on the
\* terms of all entries before it, however AE lines were reordered or delayed and
\* whoever sent them (the check of prev_index and the truncation in
\* handle_append_entries).
LogMatching ==
    \A i, j \in Server : \A n \in 1 .. Smaller(Len(log[i]), Len(log[j])) :
        log[i][n].term = log[j][n].term =>
            \A k \in 1 .. n : log[i][k].term = log[j][k].term

\* While a node leads, no log holds an entry of its term that it does not hold
\* itself: followers learn the entries of a term from its leader only, also
\* when a node that leads no longer sends AE lines with a term it did not win.
LeaderOwnsItsTerm ==
    \A i, j \in Server : role[i] = "leader" =>
        \A n \in 1 .. Len(log[j]) :
            log[j][n].term = current_term[i] =>
                n <= Len(log[i]) /\ log[i][n].term = current_term[i]

\* The terms along a log never decrease and never run ahead of the node's own
\* term, so the last term compared in an election stands for the whole log.
TermsAscend ==
    \A i \in Server : \A n \in 1 .. Len(log[i]) :
        /\ log[i][n].term <= current_term[i]
        /\ n > 1 => log[i][n - 1].term <= log[i][n].term

\* A leader never loses or rewrites an entry as long as it leads, whatever AE
\* lines of its own or of an earlier term reach it.
LeaderAppendOnly ==
    [][\A i \in Server : role[i] = "leader" /\ role'[i] = "leader" =>
            IsPrefix(log[i], log'[i])]_vars

\* The leader a node names, to which it forwards its clients' writes, did win an
\* election, of this term or an earlier one.
NamedLeaderWasElected ==
    \A i \in Server : leader_id[i] # Nil =>
        \E t \in 1 .. current_term[i] : <<t, leader_id[i]>> \in elected

-----------------------------------------------------------------------------
(* What the documentation says and the code does not do.                   *)

\* Two nodes never apply different entries at the same position, neither of
\* different terms nor of different writes: the nodes "replicate set and del
\* commands" (README.md:4).  A value "-" that one of them got over the wire counts
\* as the same; that it is lost is ReplicasApplySameCommand.
StateMachineSafety ==
    \A i, j \in Server : \A n \in 1 .. Smaller(Len(applied[i]), Len(applied[j])) :
        Alike(applied[i][n], applied[j][n])

\* An entry that some node has applied is in the logs of a majority: commits are
\* made by a majority, whose size README.md:51 speaks of ("the majority size for
\* future commits").
AppliedOnMajority ==
    \A i \in Server : \A n \in 1 .. Len(applied[i]) :
        2 * Cardinality({j \in Server : n <= Len(log[j]) /\ Alike(log[j][n], applied[i][n])})
            > Cardinality(Server)

\* The second field of an AE line is the leader of the term in the first, as
\* README.md:81 has it.
AppendNamesALeader ==
    \A m \in BagToSet(ae) : <<m.term, m.from>> \in elected

\* Nodes that apply the same entry apply the same write: keys and values are
\* tokens without spaces (README.md:86), and no other restriction is named.
ReplicasApplySameCommand ==
    \A i, j \in Server : \A n \in 1 .. Smaller(Len(applied[i]), Len(applied[j])) :
        applied[i][n].term = applied[j][n].term => applied[i][n].cmd = applied[j][n].cmd
=============================================================================
