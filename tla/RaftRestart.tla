----------------------------- MODULE RaftRestart ----------------------------
(***************************************************************************)
(* The consensus core when processes are killed and started again with the *)
(* same options, which name all other nodes.  Nothing is stored:           *)
(* raft_node_init gives the node a first state every time                  *)
(* (src/src/node.cpp:146-174), although the other nodes keep it in their   *)
(* peers (README.md:51-52).  JOIN and PEER lines between nodes that know   *)
(* each other change nothing and are left out.                             *)
(***************************************************************************)
EXTENDS RaftCore

CONSTANT MaxRestarts    \* bound: how often processes are killed, all in all

ASSUME RestartAssumption == MaxRestarts \in Nat

VARIABLE restarts       \* restarts[i]: how often node i was started again

rvars == <<vars, restarts>>

RInit == Init /\ restarts = [i \in Server |-> 0]

\* Lines that node i has received or that are on their way to it.
NotTo(i, bag) == [m \in {n \in DOMAIN bag : n.to # i} |-> bag[m]]

\* Node i is killed between any two of its critical sections and starts again.
\* What it has sent may still arrive.
raft_node_init(i) ==
    /\ MapThenSumSet(LAMBDA j : restarts[j], Server) < MaxRestarts
    /\ restarts' = [restarts EXCEPT ![i] = @ + 1]
    /\ role' = [role EXCEPT ![i] = "follower"]
    /\ current_term' = [current_term EXCEPT ![i] = 0]
    /\ voted_for' = [voted_for EXCEPT ![i] = Nil]
    /\ leader_id' = [leader_id EXCEPT ![i] = Nil]
    /\ votes_received' = [votes_received EXCEPT ![i] = 0]
    /\ log' = [log EXCEPT ![i] = <<>>]
    /\ commit_index' = [commit_index EXCEPT ![i] = 0]
    /\ applied' = [applied EXCEPT ![i] = <<>>]
    /\ next_index' = [next_index EXCEPT ![i] = [j \in Server |-> 1]]
    /\ match_index' = [match_index EXCEPT ![i] = [j \in Server |-> 0]]
    /\ start_vote' = [start_vote EXCEPT ![i] = FALSE]
    /\ sending' = [sending EXCEPT ![i] = [th \in Thread |-> {}]]
    /\ rv' = {m \in rv : m.to # i} /\ rvr' = {m \in rvr : m.to # i}
    /\ ae' = NotTo(i, ae) /\ aer' = NotTo(i, aer) /\ cl' = NotTo(i, cl)
    /\ UNCHANGED <<peers, history>>

RNext ==
    \/ Next /\ UNCHANGED restarts
    \/ \E i \in Server : raft_node_init(i)

\* What the threads of node i do in turn: the ticker, workers with a line to the
\* node, and whoever owes a send.
go_on(i) == start_election(i) \/ ticker_heartbeat(i)
receive_append(i) == \E m \in BagToSet(ae) : m.to = i /\ handle_append_entries(m)
receive_answer(i) == \E m \in BagToSet(aer) : m.to = i /\ handle_append_response(m)
send_append(i) == \E th \in Thread, j \in Server : send_append_to_peer(i, th, j)

Step(A) == A /\ UNCHANGED restarts

\* Tickers come round, threads send what they owe, and lines are handled, not all
\* but always some (strong fairness: sends wait for the bound on lines in flight).
RSpec ==
    /\ RInit /\ [][RNext]_rvars
    /\ \A i \in Server :
          /\ SF_rvars(Step(go_on(i)))
          /\ SF_rvars(Step(receive_append(i)))
          /\ SF_rvars(Step(receive_answer(i)))
          /\ SF_rvars(Step(send_append(i)))

-----------------------------------------------------------------------------
(* Properties.                                                             *)

\* A leader that goes on leading brings every node to its log and its commit
\* index, one that has lost everything too: its refusals take next_index back to
\* the start of the log, whatever match_index the leader remembers, and old AER
\* lines and lost ones only delay this.
LeaderBringsAllAlong ==
    \A i, j \in Server :
        <>[](role[i] = "leader") =>
            <>[](IsPrefix(log[i], log[j]) /\ commit_index[j] >= commit_index[i])

=============================================================================
