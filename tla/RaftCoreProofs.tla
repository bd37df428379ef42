--------------------------- MODULE RaftCoreProofs ---------------------------
(***************************************************************************)
(* What is proved of RaftCore, for every cluster, every set of writes and  *)
(* every value of the bounds: types, elections, logs, the leaders that     *)
(* nodes name, and what clusters of two apply.                             *)
(***************************************************************************)
EXTENDS RaftCore, FiniteSetTheorems, SequenceTheorems, TLAPS

(***************************************************************************)
(* Operators the actions are built from.                                   *)
(***************************************************************************)

\* Adding a line to a bag adds it to the lines in flight and no other.
LEMMA AddLine == ASSUME NEW B, NEW e PROVE BagToSet(B (+) SetToBag({e})) = BagToSet(B) \cup {e}
  BY DEF BagToSet, SetToBag, (+)

\* Taking a line out of a bag brings no line into flight.
LEMMA RemoveLine == ASSUME NEW B, NEW e PROVE BagToSet(B (-) SetToBag({e})) \subseteq BagToSet(B)
  BY DEF BagToSet, SetToBag, (-)

\* No line is in flight at first.
LEMMA NoLine == BagToSet(EmptyBag) = {}
  BY DEF BagToSet, EmptyBag, SetToBag

\* The term at an index of a log, or before its first entry, is a term.
LEMMA TermAtType ==
  ASSUME NEW l \in Seq(Entry), NEW n \in 0 .. Len(l)
  PROVE  TermAt(l, n) \in Nat
<1>1. CASE n = 0
  BY <1>1 DEF TermAt
<1>2. CASE n # 0
  <2>1. l[n] \in Entry
    BY <1>2
  <2> QED BY <1>2, <2>1 DEF TermAt, Entry
<1> QED BY <1>1, <1>2

LEMMA LastTermType == ASSUME NEW l \in Seq(Entry) PROVE LastTerm(l) \in Nat
  BY TermAtType DEF LastTerm

\* What the wire does to a write leaves a write or the absent value.
LEMMA OnWireType ==
  ASSUME NEW c \in Command \cup {Blank} PROVE OnWire(c) \in Command \cup {Blank}
  BY DEF OnWire

\* Applying log l through an index it has (or that was applied before) extends
\* what was applied, and reaches that index.
LEMMA ApplyType ==
  ASSUME NEW a \in Seq(Entry), NEW l \in Seq(Entry), NEW n \in Nat,
         n <= Len(a) \/ n <= Len(l)
  PROVE  /\ apply_committed_locked(a, l, n) \in Seq(Entry)
         /\ n <= Len(apply_committed_locked(a, l, n))
<1>1. CASE Len(a) < n
  <2>1. SubSeq(l, Len(a) + 1, n) \in Seq(Entry)
        /\ Len(SubSeq(l, Len(a) + 1, n)) = n - Len(a)
    BY <1>1
  <2> QED BY <1>1, <2>1, ConcatProperties DEF apply_committed_locked
<1>2. CASE ~(Len(a) < n)
  BY <1>2 DEF apply_committed_locked
<1> QED BY <1>1, <1>2

\* Storing an entry in a log gives a log.
LEMMA StoredType ==
  ASSUME NEW l \in Seq(Entry), NEW n \in Nat \ {0}, NEW e \in Entry
  PROVE  Stored(l, n, e) \in Seq(Entry)
<1> DEFINE kept == IF n <= Len(l) /\ TermAt(l, n) # e.term THEN SubSeq(l, 1, n - 1) ELSE l
<1>1. kept \in Seq(Entry)
  OBVIOUS
<1> HIDE DEF kept
<1>2. Append(kept, e) \in Seq(Entry)
  BY <1>1
<1> QED BY <1>1, <1>2 DEF Stored, kept

\* Appending a write to a log gives a log.
LEMMA AppendEntryType ==
  ASSUME NEW l \in Seq(Entry), NEW t \in Nat, NEW c \in Command
  PROVE  append_entry_locked(l, t, c) \in Seq(Entry)
<1>1. [term |-> t, cmd |-> c] \in Entry
  BY DEF Entry
<1> QED BY <1>1 DEF append_entry_locked

(***************************************************************************)
(* Type correctness.  TypeOK is not inductive: apply_committed_locked      *)
(* reads the log up to commit_index, so that index has to be one that the  *)
(* log has or that was applied already, which AppliedCoversCommit gives.   *)
(***************************************************************************)

TypeInv == TypeOK /\ AppliedCoversCommit

LEMMA TypeInit == Init => TypeInv
<1> SUFFICES ASSUME Init PROVE TypeInv
  OBVIOUS
<1>1. TypeOK
  BY NoLine, ServerAssumption DEF Init, NodeInit, TypeOK, Thread
<1>2. AppliedCoversCommit
  BY DEF Init, NodeInit, AppliedCoversCommit
<1> QED BY <1>1, <1>2 DEF TypeInv

\* The variables of one node's vote keep their types when it hears of a term.
LEMMA FollowType ==
  ASSUME TypeOK, NEW i \in Server, NEW t \in Nat, NEW l \in Server \cup {Nil},
         become_follower_locked(i, t, l)
  PROVE  /\ role' \in [Server -> {"follower", "candidate", "leader"}]
         /\ current_term' \in [Server -> Nat]
         /\ leader_id' \in [Server -> Server \cup {Nil}]
         /\ votes_received' \in [Server -> Nat]
  BY DEF TypeOK, become_follower_locked

LEMMA VoteInType ==
  ASSUME TypeOK, NEW i \in Server, NEW t \in Nat
  PROVE  VoteIn(i, t) \in Server \cup {Nil}
  BY DEF TypeOK, VoteIn

\* Taking office keeps the types of what it assigns.
LEMMA LeadType ==
  ASSUME TypeOK, NEW i \in Server, NEW t \in Nat, become_leader_locked(i, t)
  PROVE  /\ role' \in [Server -> {"follower", "candidate", "leader"}]
         /\ leader_id' \in [Server -> Server \cup {Nil}]
         /\ next_index' \in [Server -> [Server -> Nat \ {0}]]
         /\ match_index' \in [Server -> [Server -> Nat]]
         /\ elected' \subseteq Nat \X Server
<1> DEFINE next == [j \in Server |-> IF j \in peers[i] THEN Len(log[i]) + 1
                                   ELSE next_index[i][j]]
           match == [j \in Server |-> IF j \in peers[i] THEN 0 ELSE match_index[i][j]]
<1>1. Len(log[i]) + 1 \in Nat \ {0}
  BY DEF TypeOK
<1>2. next \in [Server -> Nat \ {0}] /\ match \in [Server -> Nat]
  BY <1>1 DEF TypeOK
<1>3. next_index' = [next_index EXCEPT ![i] = next]
      /\ match_index' = [match_index EXCEPT ![i] = match]
  BY DEF become_leader_locked
<1> HIDE DEF next, match
<1>4. /\ next_index' \in [Server -> [Server -> Nat \ {0}]]
      /\ match_index' \in [Server -> [Server -> Nat]]
  BY <1>2, <1>3 DEF TypeOK
<1>5. /\ role' \in [Server -> {"follower", "candidate", "leader"}]
      /\ leader_id' \in [Server -> Server \cup {Nil}]
  BY DEF TypeOK, become_leader_locked
<1>6. elected' \subseteq Nat \X Server
  <2>1. elected \subseteq Nat \X Server /\ elected' = elected \cup {<<t, i>>}
    BY DEF TypeOK, become_leader_locked
  <2>2. <<t, i>> \in Nat \X Server
    OBVIOUS
  <2> QED BY <2>1, <2>2
<1> QED BY <1>4, <1>5, <1>6

\* Changing what one thread has to send keeps the type of sending.
LEMMA SendingType ==
  ASSUME NEW f \in [Server -> [Thread -> SUBSET Server]],
         NEW i \in Server, NEW th \in Thread, NEW S \in SUBSET Server
  PROVE  /\ [f EXCEPT ![i][th] = S] \in [Server -> [Thread -> SUBSET Server]]
         /\ f[i][th] \in SUBSET Server
<1>1. f[i] \in [Thread -> SUBSET Server]
  OBVIOUS
<1>2. [f[i] EXCEPT ![th] = S] \in [Thread -> SUBSET Server]
  BY <1>1
<1> QED BY <1>1, <1>2

LEMMA BroadcastType ==
  ASSUME TypeOK, NEW i \in Server, NEW th \in Thread, broadcast_append(i, th)
  PROVE  sending' \in [Server -> [Thread -> SUBSET Server]]
<1>1. sending \in [Server -> [Thread -> SUBSET Server]] /\ peers[i] \in SUBSET Server
  BY DEF TypeOK
<1>2. sending[i][th] \in SUBSET Server
  BY <1>1, SendingType
<1> QED BY <1>1, <1>2, SendingType DEF broadcast_append

\* The AE line build_append_locked builds is one.
LEMMA BuildType ==
  ASSUME TypeOK, NEW i \in Server, NEW j \in Server
  PROVE  build_append_locked(i, j) \in AppendEntries
<1> DEFINE n == next_index[i][j]
           prev == IF n <= Len(log[i]) THEN n - 1 ELSE Len(log[i])
           sent == IF n <= Len(log[i])
                   THEN <<[log[i][n] EXCEPT !.cmd = OnWire(@)]>> ELSE <<>>
<1>1. n \in Nat \ {0} /\ log[i] \in Seq(Entry) /\ Len(log[i]) \in Nat
  BY DEF TypeOK
<1>2. prev \in 0 .. Len(log[i])
  BY <1>1
<1>3. TermAt(log[i], prev) \in Nat
  BY <1>1, <1>2, TermAtType
<1>4. sent \in Seq(Entry)
  <2>1. CASE n <= Len(log[i])
    <3>1. log[i][n] \in Entry
      BY <1>1, <2>1
    <3>2. OnWire(log[i][n].cmd) \in Command \cup {Blank}
      BY <3>1, OnWireType DEF Entry
    <3>3. [log[i][n] EXCEPT !.cmd = OnWire(@)] \in Entry
      BY <3>1, <3>2 DEF Entry
    <3> QED BY <2>1, <3>3
  <2>2. CASE ~(n <= Len(log[i]))
    BY <2>2
  <2> QED BY <2>1, <2>2
<1>5. current_term[i] \in Nat /\ commit_index[i] \in Nat
  BY DEF TypeOK
<1>6. build_append_locked(i, j) =
        [term |-> current_term[i], from |-> i, to |-> j, prev_index |-> prev,
         prev_term |-> TermAt(log[i], prev), commit |-> commit_index[i], entry |-> sent]
  BY DEF build_append_locked
<1> HIDE DEF n, prev, sent
<1> QED BY <1>2, <1>3, <1>4, <1>5, <1>6 DEF AppendEntries

\* One lemma per action: it keeps TypeInv.

LEMMA TickerTimeoutType ==
  ASSUME TypeInv, NEW i \in Server, ticker_timeout(i) PROVE TypeInv'
<1>1. start_vote' \in [Server -> BOOLEAN]
  BY DEF TypeInv, TypeOK, ticker_timeout
<1> QED
  BY <1>1 DEF TypeInv, TypeOK, AppliedCoversCommit, ticker_timeout, votes, logs, progress, history

LEMMA TickerHeartbeatType ==
  ASSUME TypeInv, NEW i \in Server, ticker_heartbeat(i) PROVE TypeInv'
<1>1. sending' \in [Server -> [Thread -> SUBSET Server]]
  BY BroadcastType DEF TypeInv, ticker_heartbeat, Thread
<1> QED
  BY <1>1 DEF TypeInv, TypeOK, AppliedCoversCommit, ticker_heartbeat, votes, logs, progress, history

LEMMA StartElectionType ==
  ASSUME TypeInv, NEW i \in Server, start_election(i) PROVE TypeInv'
<1> DEFINE t == current_term[i] + 1
<1>1. t \in Nat /\ Len(log[i]) \in Nat /\ LastTerm(log[i]) \in Nat
  BY LastTermType DEF TypeInv, TypeOK
<1>2. /\ current_term' \in [Server -> Nat]
      /\ voted_for' \in [Server -> Server \cup {Nil}]
      /\ votes_received' \in [Server -> Nat]
      /\ start_vote' \in [Server -> BOOLEAN]
      /\ granted' \subseteq Nat \X Server \X Server
  BY <1>1 DEF TypeInv, TypeOK, start_election
<1>3. /\ role' \in [Server -> {"follower", "candidate", "leader"}]
      /\ leader_id' \in [Server -> Server \cup {Nil}]
      /\ next_index' \in [Server -> [Server -> Nat \ {0}]]
      /\ match_index' \in [Server -> [Server -> Nat]]
      /\ sending' \in [Server -> [Thread -> SUBSET Server]]
      /\ rv' \subseteq RequestVote
      /\ elected' \subseteq Nat \X Server
  <2>1. CASE become_leader_locked(i, t) /\ broadcast_append(i, "ticker") /\ UNCHANGED rv
    BY <1>1, <2>1, LeadType, BroadcastType DEF TypeInv, TypeOK, Thread
  <2>2. CASE /\ role' = [role EXCEPT ![i] = "candidate"]
             /\ leader_id' = [leader_id EXCEPT ![i] = Nil]
             /\ rv' = rv \cup {[term |-> t, from |-> i, to |-> j, last_index |-> Len(log[i]),
                                last_term |-> LastTerm(log[i])] : j \in peers[i]}
             /\ UNCHANGED <<progress, sending, elected>>
    <3>1. rv' \subseteq RequestVote
      BY <1>1, <2>2 DEF TypeInv, TypeOK, RequestVote
    <3> QED BY <2>2, <3>1 DEF TypeInv, TypeOK, progress
  <2> QED BY <2>1, <2>2 DEF start_election
<1>4. UNCHANGED <<peers, log, commit_index, applied, rvr, ae, aer, cl>>
  BY DEF start_election, logs
<1> HIDE DEF t
<1> QED BY <1>2, <1>3, <1>4 DEF TypeInv, TypeOK, AppliedCoversCommit

LEMMA RequestVoteType ==
  ASSUME TypeInv, NEW m \in rv, handle_request_vote(m) PROVE TypeInv'
<1> DEFINE i == m.to
           grant == /\ m.term >= current_term[i]
                    /\ VoteIn(i, m.term) \in {Nil, m.from}
                    /\ UpToDate(m, log[i])
<1>1. i \in Server /\ m.from \in Server /\ m.term \in Nat
  BY DEF TypeInv, TypeOK, RequestVote
<1>2. /\ role' \in [Server -> {"follower", "candidate", "leader"}]
      /\ current_term' \in [Server -> Nat]
      /\ leader_id' \in [Server -> Server \cup {Nil}]
      /\ votes_received' \in [Server -> Nat]
  <2>1. CASE m.term > current_term[i]
    BY <1>1, <2>1, FollowType DEF TypeInv, handle_request_vote
  <2>2. CASE ~(m.term > current_term[i])
    BY <2>2 DEF TypeInv, TypeOK, handle_request_vote
  <2> QED BY <2>1, <2>2
<1>3. voted_for' \in [Server -> Server \cup {Nil}]
  <2>1. VoteIn(i, m.term) \in Server \cup {Nil}
    BY <1>1, VoteInType DEF TypeInv
  <2>2. \/ voted_for' = [voted_for EXCEPT ![i] = m.from]
        \/ voted_for' = [voted_for EXCEPT ![i] = VoteIn(i, m.term)]
    BY DEF handle_request_vote
  <2> QED BY <1>1, <2>1, <2>2 DEF TypeInv, TypeOK
<1>4. granted' \subseteq Nat \X Server \X Server
  <2>1. granted' = granted \/ granted' = granted \cup {<<m.term, i, m.from>>}
    BY DEF handle_request_vote
  <2>2. <<m.term, i, m.from>> \in Nat \X Server \X Server
    BY <1>1
  <2>3. granted \subseteq Nat \X Server \X Server
    BY DEF TypeInv, TypeOK
  <2> QED BY <2>1, <2>2, <2>3
<1>5. grant \in BOOLEAN
  OBVIOUS
<1> HIDE DEF grant
<1>6. [term |-> current_term'[i], from |-> i, to |-> m.from, granted |-> grant] \in VoteResponse
  BY <1>1, <1>2, <1>5 DEF VoteResponse
<1>7. rvr' \subseteq VoteResponse
  <2>1. rvr' = rvr \/ rvr' = rvr \cup {[term |-> current_term'[i], from |-> i, to |-> m.from,
                                        granted |-> grant]}
    BY DEF handle_request_vote, grant
  <2> QED BY <1>6, <2>1 DEF TypeInv, TypeOK
<1>8. rv' \subseteq RequestVote
  BY DEF TypeInv, TypeOK, handle_request_vote
<1>9. UNCHANGED <<peers, logs, progress, threads, ae, aer, cl, elected>>
  BY DEF handle_request_vote
<1> QED
  BY <1>2, <1>3, <1>4, <1>7, <1>8, <1>9
     DEF TypeInv, TypeOK, AppliedCoversCommit, logs, progress, threads

LEMMA RequestVoteResponseType ==
  ASSUME TypeInv, NEW m \in rvr, handle_request_vote_response(m) PROVE TypeInv'
<1> DEFINE i == m.to
           counts == role[i] = "candidate" /\ m.term = current_term[i] /\ m.granted
           won == counts /\ votes_received[i] + 1 >= majority_count(i)
<1>1. i \in Server /\ m.term \in Nat /\ current_term[i] \in Nat /\ votes_received[i] \in Nat
  BY DEF TypeInv, TypeOK, VoteResponse
<1>2. UNCHANGED <<peers, logs, start_vote, rv, ae, aer, cl, granted>> /\ rvr' \subseteq rvr
  BY DEF handle_request_vote_response, IsVote
<1>3. CASE /\ m.term > current_term[i]
           /\ become_follower_locked(i, m.term, Nil)
           /\ voted_for' = [voted_for EXCEPT ![i] = VoteIn(i, m.term)]
           /\ UNCHANGED <<progress, sending, elected>>
  <2>1. voted_for' \in [Server -> Server \cup {Nil}]
    BY <1>1, <1>3, VoteInType DEF TypeInv, TypeOK
  <2> QED
    BY <1>1, <1>2, <1>3, <2>1, FollowType DEF TypeInv, TypeOK, AppliedCoversCommit, logs, progress
<1>4. CASE /\ m.term <= current_term[i]
           /\ votes_received' = [votes_received EXCEPT ![i] = IF counts THEN @ + 1 ELSE @]
           /\ IF won
              THEN become_leader_locked(i, m.term) /\ broadcast_append(i, "pool")
              ELSE UNCHANGED <<role, leader_id, progress, sending, elected>>
           /\ UNCHANGED <<current_term, voted_for>>
  <2>1. votes_received' \in [Server -> Nat]
    BY <1>1, <1>4 DEF TypeInv, TypeOK
  <2>2. /\ role' \in [Server -> {"follower", "candidate", "leader"}]
        /\ leader_id' \in [Server -> Server \cup {Nil}]
        /\ next_index' \in [Server -> [Server -> Nat \ {0}]]
        /\ match_index' \in [Server -> [Server -> Nat]]
        /\ sending' \in [Server -> [Thread -> SUBSET Server]]
        /\ elected' \subseteq Nat \X Server
    <3>1. CASE won
      BY <1>1, <1>4, <3>1, LeadType, BroadcastType DEF TypeInv, Thread
    <3>2. CASE ~won
      BY <1>4, <3>2 DEF TypeInv, TypeOK, progress
    <3> QED BY <3>1, <3>2
  <2> QED BY <1>2, <1>4, <2>1, <2>2 DEF TypeInv, TypeOK, AppliedCoversCommit, logs
<1> QED BY <1>3, <1>4 DEF handle_request_vote_response, IsVote

LEMMA SendAppendType ==
  ASSUME TypeInv, NEW i \in Server, NEW th \in Thread, NEW j \in Server,
         send_append_to_peer(i, th, j)
  PROVE  TypeInv'
<1>1. sending' \in [Server -> [Thread -> SUBSET Server]]
  <2>1. sending \in [Server -> [Thread -> SUBSET Server]]
    BY DEF TypeInv, TypeOK
  <2>2. sending[i][th] \in SUBSET Server
    BY <2>1, SendingType
  <2> QED BY <2>1, <2>2, SendingType DEF send_append_to_peer
<1>2. BagToSet(ae') \subseteq AppendEntries
  <2>1. BagToSet(ae') = BagToSet(ae) \cup {build_append_locked(i, j)}
    BY AddLine DEF send_append_to_peer
  <2> QED BY <2>1, BuildType DEF TypeInv, TypeOK
<1>3. UNCHANGED <<votes, peers, logs, progress, start_vote, rv, rvr, aer, cl, history>>
  BY DEF send_append_to_peer
<1> QED
  BY <1>1, <1>2, <1>3 DEF TypeInv, TypeOK, AppliedCoversCommit, votes, logs, progress, history

LEMMA AppendEntriesType ==
  ASSUME TypeInv, NEW m \in BagToSet(ae), handle_append_entries(m) PROVE TypeInv'
<1> DEFINE i == m.to
           success == m.term >= current_term[i] /\ Consistent(log[i], m)
           new == IF success /\ m.entry # <<>>
                  THEN Stored(log[i], m.prev_index + 1, m.entry[1]) ELSE log[i]
           commit == IF success /\ m.commit > commit_index[i]
                     THEN Smaller(m.commit, Len(new)) ELSE commit_index[i]
           answer == [term |-> current_term'[i], from |-> i, to |-> m.from,
                      success |-> success, match_index |-> IF success THEN Len(new) ELSE 0]
<1>1. /\ i \in Server /\ m.from \in Server /\ m.term \in Nat /\ m.prev_index \in Nat
      /\ m.commit \in Nat /\ m.entry \in Seq(Entry)
  BY DEF TypeInv, TypeOK, AppendEntries
<1>2. /\ log[i] \in Seq(Entry) /\ applied[i] \in Seq(Entry) /\ commit_index[i] \in Nat
      /\ commit_index[i] <= Len(applied[i])
  BY <1>1 DEF TypeInv, TypeOK, AppliedCoversCommit
<1>3. success \in BOOLEAN
  OBVIOUS
<1> HIDE DEF success
<1>4. new \in Seq(Entry)
  <2>1. CASE success /\ m.entry # <<>>
    <3>1. m.entry[1] \in Entry /\ m.prev_index + 1 \in Nat \ {0}
      BY <1>1, <2>1
    <3>2. Stored(log[i], m.prev_index + 1, m.entry[1]) \in Seq(Entry)
      BY <1>2, <3>1, StoredType
    <3> QED BY <2>1, <3>2
  <2>2. CASE ~(success /\ m.entry # <<>>)
    BY <1>2, <2>2
  <2> QED BY <2>1, <2>2
<1> HIDE DEF new
<1>5. commit \in Nat /\ (commit <= Len(applied[i]) \/ commit <= Len(new))
  BY <1>1, <1>2, <1>4 DEF Smaller
<1>6. answer \in [term : {current_term'[i]}, from : Server, to : Server, success : BOOLEAN,
                  match_index : Nat]
  BY <1>1, <1>3, <1>4
<1> HIDE DEF commit, answer
<1>7. /\ role' \in [Server -> {"follower", "candidate", "leader"}]
      /\ current_term' \in [Server -> Nat]
      /\ leader_id' \in [Server -> Server \cup {Nil}]
      /\ votes_received' \in [Server -> Nat]
  <2>1. CASE m.term >= current_term[i]
    BY <1>1, <2>1, FollowType DEF TypeInv, handle_append_entries
  <2>2. CASE ~(m.term >= current_term[i])
    BY <2>2 DEF TypeInv, TypeOK, handle_append_entries
  <2> QED BY <2>1, <2>2
<1>8. voted_for' \in [Server -> Server \cup {Nil}]
  BY <1>1, VoteInType DEF TypeInv, TypeOK, handle_append_entries
<1>9. /\ log' = [log EXCEPT ![i] = new]
      /\ commit_index' = [commit_index EXCEPT ![i] = commit]
      /\ applied' = [applied EXCEPT ![i] = apply_committed_locked(@, new, commit)]
  BY DEF handle_append_entries, success, new, commit
<1>10. /\ log' \in [Server -> Seq(Entry)]
       /\ commit_index' \in [Server -> Nat]
       /\ applied' \in [Server -> Seq(Entry)]
       /\ AppliedCoversCommit'
  <2>1. /\ apply_committed_locked(applied[i], new, commit) \in Seq(Entry)
        /\ commit <= Len(apply_committed_locked(applied[i], new, commit))
    BY <1>2, <1>4, <1>5, ApplyType
  <2> QED BY <1>1, <1>4, <1>5, <1>9, <2>1 DEF TypeInv, TypeOK, AppliedCoversCommit
<1>11. BagToSet(aer') \subseteq AppendResponse
  <2>1. aer' = aer \/ aer' = aer (+) SetToBag({answer})
    BY DEF handle_append_entries, success, new, answer
  <2>2. answer \in AppendResponse
    BY <1>1, <1>6, <1>7 DEF AppendResponse
  <2>3. BagToSet(aer (+) SetToBag({answer})) = BagToSet(aer) \cup {answer}
    BY AddLine
  <2>4. BagToSet(aer) \subseteq AppendResponse
    BY DEF TypeInv, TypeOK
  <2> HIDE DEF answer
  <2> QED BY <2>1, <2>2, <2>3, <2>4
<1>12. BagToSet(ae') \subseteq AppendEntries
  BY RemoveLine DEF TypeInv, TypeOK, handle_append_entries
<1>13. UNCHANGED <<peers, progress, threads, rv, rvr, cl, history>>
  BY DEF handle_append_entries
<1> QED
  BY <1>7, <1>8, <1>10, <1>11, <1>12, <1>13 DEF TypeInv, TypeOK, progress, threads, history

\* Recomputing the commit index keeps what it assigns typed and covered.
LEMMA RecomputeType ==
  ASSUME TypeInv, NEW i \in Server, NEW match, recompute_commit_locked(i, match)
  PROVE  /\ commit_index' \in [Server -> Nat]
         /\ applied' \in [Server -> Seq(Entry)]
         /\ \A k \in Server : commit_index'[k] <= Len(applied'[k])
<1>1. /\ log[i] \in Seq(Entry) /\ applied[i] \in Seq(Entry)
      /\ commit_index \in [Server -> Nat] /\ applied \in [Server -> Seq(Entry)]
      /\ \A k \in Server : commit_index[k] <= Len(applied[k])
  BY DEF TypeInv, TypeOK, AppliedCoversCommit
<1>2. CASE UNCHANGED <<commit_index, applied>>
  BY <1>1, <1>2
<1>3. ASSUME NEW n \in Committable(i, match),
             commit_index' = [commit_index EXCEPT ![i] = n],
             applied' = [applied EXCEPT ![i] = apply_committed_locked(@, log[i], n)]
      PROVE  /\ commit_index' \in [Server -> Nat]
             /\ applied' \in [Server -> Seq(Entry)]
             /\ \A k \in Server : commit_index'[k] <= Len(applied'[k])
  <2>1. n \in Nat /\ n <= Len(log[i])
    BY <1>1 DEF Committable
  <2>2. /\ apply_committed_locked(applied[i], log[i], n) \in Seq(Entry)
        /\ n <= Len(apply_committed_locked(applied[i], log[i], n))
    BY <1>1, <2>1, ApplyType
  <2> QED BY <1>1, <1>3, <2>1, <2>2
<1> QED BY <1>2, <1>3 DEF recompute_commit_locked

LEMMA AppendResponseType ==
  ASSUME TypeInv, NEW m \in BagToSet(aer), handle_append_response(m) PROVE TypeInv'
<1> DEFINE i == m.to
           j == m.from
           match == [match_index[i] EXCEPT ![j] = m.match_index]
           answers == m.term = current_term[i] /\ role[i] = "leader" /\ j \in peers[i]
<1>1. /\ i \in Server /\ j \in Server /\ m.term \in Nat /\ m.match_index \in Nat
      /\ m.success \in BOOLEAN
  BY DEF TypeInv, TypeOK, AppendResponse
<1>2. UNCHANGED <<peers, start_vote, rv, rvr, ae, cl, history>>
  BY DEF handle_append_response
<1>3. BagToSet(aer') \subseteq AppendResponse
  BY RemoveLine DEF TypeInv, TypeOK, handle_append_response
<1>4. CASE /\ m.term > current_term[i]
           /\ become_follower_locked(i, m.term, Nil)
           /\ voted_for' = [voted_for EXCEPT ![i] = VoteIn(i, m.term)]
           /\ UNCHANGED <<logs, progress, sending>>
  <2>1. voted_for' \in [Server -> Server \cup {Nil}]
    BY <1>1, <1>4, VoteInType DEF TypeInv, TypeOK
  <2> QED
    BY <1>1, <1>2, <1>3, <1>4, <2>1, FollowType
       DEF TypeInv, TypeOK, AppliedCoversCommit, logs, progress, history
<1>5. CASE UNCHANGED <<votes, logs, progress, sending>>
  BY <1>2, <1>3, <1>5 DEF TypeInv, TypeOK, AppliedCoversCommit, votes, logs, progress, history
<1>6. CASE /\ match_index' = [match_index EXCEPT ![i] = match]
           /\ next_index' = [next_index EXCEPT ![i][j] = m.match_index + 1]
           /\ recompute_commit_locked(i, match)
           /\ UNCHANGED <<votes, log, sending>>
  <2>1. /\ commit_index' \in [Server -> Nat]
        /\ applied' \in [Server -> Seq(Entry)]
        /\ \A k \in Server : commit_index'[k] <= Len(applied'[k])
    BY <1>1, <1>6, RecomputeType
  <2>2. match_index' \in [Server -> [Server -> Nat]]
    <3>1. match \in [Server -> Nat]
      BY <1>1 DEF TypeInv, TypeOK
    <3> QED BY <1>1, <1>6, <3>1 DEF TypeInv, TypeOK
  <2>3. next_index' \in [Server -> [Server -> Nat \ {0}]]
    <3>1. m.match_index + 1 \in Nat \ {0}
      BY <1>1
    <3> QED BY <1>1, <1>6, <3>1 DEF TypeInv, TypeOK
  <2> QED
    BY <1>2, <1>3, <1>6, <2>1, <2>2, <2>3 DEF TypeInv, TypeOK, AppliedCoversCommit, votes, history
<1>7. CASE /\ next_index' = [next_index EXCEPT ![i][j] = Earlier(@)]
           /\ sending' = [sending EXCEPT ![i]["pool"] = @ \cup {j}]
           /\ UNCHANGED <<votes, logs, match_index>>
  <2>1. next_index' \in [Server -> [Server -> Nat \ {0}]]
    <3>1. \A n \in Nat \ {0} : Earlier(n) \in Nat \ {0}
      BY DEF Earlier
    <3>2. next_index \in [Server -> [Server -> Nat \ {0}]]
      BY DEF TypeInv, TypeOK
    <3>3. Earlier(next_index[i][j]) \in Nat \ {0}
      BY <1>1, <3>1, <3>2
    <3>4. [next_index[i] EXCEPT ![j] = Earlier(next_index[i][j])] \in [Server -> Nat \ {0}]
      BY <1>1, <3>2, <3>3
    <3> QED BY <1>1, <1>7, <3>2, <3>4
  <2>2. sending' \in [Server -> [Thread -> SUBSET Server]]
    <3>1. sending \in [Server -> [Thread -> SUBSET Server]] /\ "pool" \in Thread
      BY DEF TypeInv, TypeOK, Thread
    <3>2. sending[i]["pool"] \in SUBSET Server
      BY <1>1, <3>1, SendingType
    <3> DEFINE S == sending[i]["pool"] \cup {j}
    <3>3. S \in SUBSET Server
      BY <1>1, <3>2
    <3>4. sending' = [sending EXCEPT ![i]["pool"] = S]
      BY <1>7
    <3> HIDE DEF S
    <3> QED BY <1>1, <3>1, <3>3, <3>4, SendingType
  <2> QED
    BY <1>2, <1>3, <1>7, <2>1, <2>2 DEF TypeInv, TypeOK, AppliedCoversCommit, votes, logs, history
<1> QED BY <1>4, <1>5, <1>6, <1>7 DEF handle_append_response

\* What Submit does at a node, to whichever CL lines stay in flight.
LEMMA SubmitType ==
  ASSUME TypeInv, NEW i \in Server, NEW c \in Command, NEW pending,
         BagToSet(pending) \subseteq ClientForward, Submit(i, c, pending)
  PROVE  /\ log' \in [Server -> Seq(Entry)]
         /\ commit_index' \in [Server -> Nat]
         /\ applied' \in [Server -> Seq(Entry)]
         /\ sending' \in [Server -> [Thread -> SUBSET Server]]
         /\ BagToSet(cl') \subseteq ClientForward
         /\ AppliedCoversCommit'
<1> DEFINE new == append_entry_locked(log[i], current_term[i], c)
           commit == IF peers[i] = {} THEN Len(new) ELSE commit_index[i]
<1>1. /\ log[i] \in Seq(Entry) /\ applied[i] \in Seq(Entry) /\ commit_index[i] \in Nat
      /\ current_term[i] \in Nat /\ commit_index[i] <= Len(applied[i])
  BY DEF TypeInv, TypeOK, AppliedCoversCommit
<1>2. CASE /\ log' = [log EXCEPT ![i] = new]
           /\ commit_index' = [commit_index EXCEPT ![i] = commit]
           /\ applied' = [applied EXCEPT ![i] = apply_committed_locked(@, new, commit)]
           /\ broadcast_append(i, "pool")
           /\ cl' = pending
  <2>1. new \in Seq(Entry)
    BY <1>1, AppendEntryType
  <2> HIDE DEF new
  <2>2. commit \in Nat /\ (commit <= Len(applied[i]) \/ commit <= Len(new))
    BY <1>1, <2>1
  <2> HIDE DEF commit
  <2>3. /\ apply_committed_locked(applied[i], new, commit) \in Seq(Entry)
        /\ commit <= Len(apply_committed_locked(applied[i], new, commit))
    BY <1>1, <2>1, <2>2, ApplyType
  <2>4. sending' \in [Server -> [Thread -> SUBSET Server]]
    BY <1>2, BroadcastType DEF TypeInv, Thread
  <2> QED BY <1>2, <2>1, <2>2, <2>3, <2>4 DEF TypeInv, TypeOK, AppliedCoversCommit
<1>3. CASE /\ leader_id[i] \in peers[i]
           /\ cl' = pending (+) SetToBag({[to |-> leader_id[i], cmd |-> c]})
           /\ UNCHANGED <<logs, sending>>
  <2>1. [to |-> leader_id[i], cmd |-> c] \in ClientForward
    BY <1>3 DEF TypeInv, TypeOK, ClientForward
  <2>2. BagToSet(cl') = BagToSet(pending) \cup {[to |-> leader_id[i], cmd |-> c]}
    BY <1>3, AddLine
  <2>3. BagToSet(cl') \subseteq ClientForward
    BY <2>1, <2>2
  <2> QED BY <1>3, <2>3 DEF TypeInv, TypeOK, AppliedCoversCommit, logs
<1>4. CASE cl' = pending /\ UNCHANGED <<logs, sending>>
  BY <1>4 DEF TypeInv, TypeOK, AppliedCoversCommit, logs
<1> QED BY <1>2, <1>3, <1>4 DEF Submit

LEMMA SubmitCommandType ==
  ASSUME TypeInv, NEW i \in Server, NEW c \in Command, raft_submit_command(i, c)
  PROVE  TypeInv'
<1>1. BagToSet(cl) \subseteq ClientForward /\ Submit(i, c, cl)
  BY DEF TypeInv, TypeOK, raft_submit_command
<1>2. UNCHANGED <<votes, peers, progress, start_vote, rv, rvr, ae, aer, history>>
  BY DEF raft_submit_command
<1> QED BY <1>1, <1>2, SubmitType DEF TypeInv, TypeOK, votes, progress, history

LEMMA ClientForwardType ==
  ASSUME TypeInv, NEW m \in BagToSet(cl), handle_client_forward(m) PROVE TypeInv'
<1> DEFINE pending == cl (-) SetToBag({m})
<1>1. m.to \in Server /\ BagToSet(pending) \subseteq ClientForward
  BY RemoveLine DEF TypeInv, TypeOK, ClientForward
<1> HIDE DEF pending
<1>2. UNCHANGED <<votes, peers, progress, start_vote, rv, rvr, ae, aer, history>>
  BY DEF handle_client_forward
<1>3. CASE OnWire(m.cmd) \in Command /\ Submit(m.to, OnWire(m.cmd), pending)
  BY <1>1, <1>2, <1>3, SubmitType DEF TypeInv, TypeOK, votes, progress, history
<1>4. CASE cl' = pending /\ UNCHANGED <<logs, sending>>
  BY <1>1, <1>2, <1>4
     DEF TypeInv, TypeOK, AppliedCoversCommit, votes, logs, progress, history
<1> QED BY <1>3, <1>4 DEF handle_client_forward, pending

LEMMA LoseType == ASSUME TypeInv, lose PROVE TypeInv'
<1>1. /\ BagToSet(ae') \subseteq AppendEntries
      /\ BagToSet(aer') \subseteq AppendResponse
      /\ BagToSet(cl') \subseteq ClientForward
  BY RemoveLine DEF TypeInv, TypeOK, lose
<1>2. UNCHANGED <<votes, peers, logs, progress, threads, rv, rvr, history>>
  BY DEF lose
<1> QED
  BY <1>1, <1>2 DEF TypeInv, TypeOK, AppliedCoversCommit, votes, logs, progress, threads, history

LEMMA TypeNext == ASSUME TypeInv, [Next]_vars PROVE TypeInv'
<1>1. ASSUME NEW i \in Server, ticker_loop(i) PROVE TypeInv'
  BY <1>1, TickerTimeoutType, StartElectionType, TickerHeartbeatType DEF ticker_loop
<1>2. CASE raft_handle_line
  BY <1>2, RequestVoteType, RequestVoteResponseType, AppendEntriesType, AppendResponseType,
     ClientForwardType DEF raft_handle_line
<1>3. ASSUME NEW i \in Server, NEW th \in Thread, NEW j \in Server,
             send_append_to_peer(i, th, j)
      PROVE  TypeInv'
  BY <1>3, SendAppendType
<1>4. ASSUME NEW i \in Server, NEW c \in Command, raft_submit_command(i, c) PROVE TypeInv'
  BY <1>4, SubmitCommandType
<1>5. CASE lose
  BY <1>5, LoseType
<1>6. CASE UNCHANGED vars
  BY <1>6 DEF vars, votes, logs, progress, threads, history, TypeInv, TypeOK, AppliedCoversCommit
<1> QED BY <1>1, <1>2, <1>3, <1>4, <1>5, <1>6 DEF Next

\* Every variable has its type, and every line in flight is well formed, in
\* every state of the program.
THEOREM TypeCorrect == Spec => []TypeOK
<1>1. TypeInv => TypeOK
  BY DEF TypeInv
<1> QED BY <1>1, TypeInit, TypeNext, PTL DEF Spec

\* Every node has applied all it holds committed, also after it cut committed
\* entries off its log.
THEOREM CommitIsApplied == Spec => []AppliedCoversCommit
<1>1. TypeInv => AppliedCoversCommit
  BY DEF TypeInv
<1> QED BY <1>1, TypeInit, TypeNext, PTL DEF Spec

(***************************************************************************)
(* Elections: ElectionInv is inductive, and two majorities of one term     *)
(* would share a voter who voted twice.                                    *)
(***************************************************************************)

\* In the full mesh the majority a node computes from its peers is more than
\* half of the cluster.
LEMMA MajorityIsMoreThanHalf ==
  ASSUME peers = [i \in Server |-> Server \ {i}], NEW i \in Server
  PROVE  /\ majority_count(i) \in Nat
         /\ \A n \in Nat : n >= majority_count(i) => 2 * n > Cardinality(Server)
<1>1. peers[i] = Server \ {i}
  OBVIOUS
<1>2. Cardinality(Server) \in Nat
  BY ServerAssumption, FS_CardinalityType
<1>3. IsFiniteSet(Server \ {i}) /\ Cardinality(Server \ {i}) = Cardinality(Server) - 1
  BY ServerAssumption, FS_RemoveElement
<1>4. Cardinality(Server \ {i}) \in Nat
  BY <1>3, FS_CardinalityType
<1>5. majority_count(i) = (Cardinality(Server) \div 2) + 1
  BY <1>1, <1>2, <1>3, <1>4 DEF majority_count
<1> QED BY <1>2, <1>5

\* A set of servers is finite, and no larger than a set of servers it is in.
LEMMA ServersCount ==
  ASSUME NEW T \in SUBSET Server, NEW S \in SUBSET T
  PROVE  /\ IsFiniteSet(T) /\ Cardinality(T) \in Nat /\ Cardinality(S) \in Nat
         /\ Cardinality(S) <= Cardinality(T)
<1>1. IsFiniteSet(T) /\ IsFiniteSet(S)
  BY ServerAssumption, FS_Subset
<1> QED BY <1>1, FS_Subset, FS_CardinalityType

\* A step that leaves alone everything an election is about.
LEMMA OtherStep ==
  ASSUME ElectionInv, UNCHANGED <<role, current_term, voted_for, votes_received, peers,
                                  rv, rvr, granted, elected>>
  PROVE  ElectionInv'
  BY DEF ElectionInv, Counted, OneVotePerTerm, ElectedByMajority

\* A node that hears of a term (its own or a later one) and follows, while
\* nothing is voted and no line of an election but at most a read one changes.
LEMMA FollowStep ==
  ASSUME TypeOK, ElectionInv, NEW i \in Server, NEW t \in Nat, NEW l,
         t >= current_term[i], become_follower_locked(i, t, l),
         voted_for' = [voted_for EXCEPT ![i] = VoteIn(i, t)],
         rvr' \subseteq rvr, UNCHANGED <<peers, rv, granted, elected>>
  PROVE  ElectionInv'
<1>1. /\ current_term \in [Server -> Nat] /\ voted_for \in [Server -> Server \cup {Nil}]
      /\ role \in [Server -> {"follower", "candidate", "leader"}]
      /\ votes_received \in [Server -> Nat]
      /\ granted \subseteq Nat \X Server \X Server
      /\ rv \subseteq RequestVote /\ rvr \subseteq VoteResponse
  BY DEF TypeOK
<1>2. /\ current_term' = [current_term EXCEPT ![i] = t]
      /\ role' = [role EXCEPT ![i] = "follower"]
      /\ votes_received' = [votes_received EXCEPT ![i] = 0]
  <2>1. (IF t > current_term[i] THEN t ELSE current_term[i]) = t
    BY <1>1
  <2> QED BY <2>1 DEF become_follower_locked
<1>3. (peers = [k \in Server |-> Server \ {k}])'
  BY DEF ElectionInv
<1>4. ASSUME NEW g \in granted'
      PROVE  /\ g[1] <= current_term'[g[2]] /\ g[1] <= current_term'[g[3]]
             /\ g[1] = current_term'[g[2]] => voted_for'[g[2]] = g[3]
  <2>1. /\ g \in granted /\ g[1] \in Nat /\ g[2] \in Server /\ g[3] \in Server
        /\ g[1] <= current_term[g[2]] /\ g[1] <= current_term[g[3]]
        /\ g[1] = current_term[g[2]] => voted_for[g[2]] = g[3]
    BY <1>1 DEF ElectionInv
  <2> QED BY <1>1, <1>2, <2>1 DEF VoteIn
<1>5. ASSUME NEW m \in rv'
      PROVE  /\ m.from # m.to /\ m.term <= current_term'[m.from]
             /\ <<m.term, m.to, m.from>> \notin granted'
             /\ \A n \in rv' : n.term = m.term /\ n.from = m.from /\ n.to = m.to => n = m
  <2>1. m.from \in Server /\ m.term \in Nat /\ m.term <= current_term[m.from]
    BY <1>1 DEF ElectionInv, RequestVote
  <2> QED BY <1>1, <1>2, <2>1 DEF ElectionInv
<1>6. ASSUME NEW m \in rvr'
      PROVE  m.from # m.to /\ (m.granted => <<m.term, m.from, m.to>> \in granted')
  BY DEF ElectionInv
<1>7. ASSUME NEW k \in Server, role'[k] = "candidate"
      PROVE  votes_received'[k] <= Cardinality(Counted(k)')
  <2>1. k # i /\ role[k] = "candidate" /\ current_term'[k] = current_term[k]
        /\ votes_received'[k] = votes_received[k]
    BY <1>1, <1>2, <1>7
  <2>2. Counted(k) \subseteq Counted(k)' /\ Counted(k)' \subseteq Server
    BY <2>1 DEF Counted
  <2>3. Cardinality(Counted(k)) <= Cardinality(Counted(k)')
        /\ Cardinality(Counted(k)) \in Nat /\ Cardinality(Counted(k)') \in Nat
    BY <2>2, ServersCount
  <2>4. votes_received[k] <= Cardinality(Counted(k)) /\ votes_received[k] \in Nat
    BY <1>1, <2>1 DEF ElectionInv
  <2> QED BY <2>1, <2>3, <2>4
<1>8. OneVotePerTerm' /\ ElectedByMajority'
  BY DEF ElectionInv, OneVotePerTerm, ElectedByMajority
<1> QED BY <1>3, <1>4, <1>5, <1>6, <1>7, <1>8 DEF ElectionInv

\* Votes that are added leave those already elected elected by a majority.
LEMMA MoreVotes ==
  ASSUME ElectedByMajority, granted \subseteq granted', NEW e \in elected
  PROVE  2 * Cardinality({v \in Server : <<e[1], v, e[2]>> \in granted'}) > Cardinality(Server)
<1> DEFINE V == {v \in Server : <<e[1], v, e[2]>> \in granted}
           W == {v \in Server : <<e[1], v, e[2]>> \in granted'}
<1>1. 2 * Cardinality(V) > Cardinality(Server)
  BY DEF ElectedByMajority
<1>2. V \subseteq W /\ W \subseteq Server
  OBVIOUS
<1> HIDE DEF V, W
<1>3. Cardinality(V) <= Cardinality(W) /\ Cardinality(V) \in Nat /\ Cardinality(W) \in Nat
  BY <1>2, ServersCount
<1>4. Cardinality(Server) \in Nat
  BY ServerAssumption, FS_CardinalityType
<1>5. 2 * Cardinality(W) > Cardinality(Server)
  BY <1>1, <1>3, <1>4
<1> QED BY <1>5 DEF W

LEMMA StartElectionStep ==
  ASSUME TypeOK, ElectionInv, NEW i \in Server, start_election(i) PROVE ElectionInv'
<1> DEFINE t == current_term[i] + 1
<1>1. /\ current_term \in [Server -> Nat] /\ voted_for \in [Server -> Server \cup {Nil}]
      /\ role \in [Server -> {"follower", "candidate", "leader"}]
      /\ votes_received \in [Server -> Nat]
      /\ granted \subseteq Nat \X Server \X Server
      /\ rv \subseteq RequestVote /\ rvr \subseteq VoteResponse
      /\ peers = [k \in Server |-> Server \ {k}]
  BY DEF TypeOK, ElectionInv
<1>2. t \in Nat /\ t > current_term[i]
  BY <1>1
<1>3. /\ current_term' = [current_term EXCEPT ![i] = t]
      /\ voted_for' = [voted_for EXCEPT ![i] = i]
      /\ votes_received' = [votes_received EXCEPT ![i] = 1]
      /\ granted' = granted \cup {<<t, i, i>>}
      /\ peers' = peers /\ rvr' = rvr
  BY DEF start_election
<1>4. /\ \A k \in Server \ {i} : role'[k] = role[k]
      /\ \/ /\ elected' = elected \cup {<<t, i>>} /\ 1 >= majority_count(i)
            /\ rv' = rv
         \/ /\ elected' = elected
            /\ rv' = rv \cup {[term |-> t, from |-> i, to |-> j, last_index |-> Len(log[i]),
                               last_term |-> LastTerm(log[i])] : j \in peers[i]}
  BY <1>1 DEF start_election, become_leader_locked
<1> HIDE DEF t
<1>5. ASSUME NEW g \in granted
      PROVE  /\ g[1] \in Nat /\ g[2] \in Server /\ g[3] \in Server
             /\ g[1] <= current_term[g[2]] /\ g[1] <= current_term[g[3]]
             /\ g[1] = current_term[g[2]] => voted_for[g[2]] = g[3]
             /\ g[2] = i => g[1] < t
             /\ g[3] = i => g[1] < t
  <2>1. g[1] \in Nat /\ g[2] \in Server /\ g[3] \in Server
    BY <1>1
  <2>2. /\ g[1] <= current_term[g[2]] /\ g[1] <= current_term[g[3]]
        /\ g[1] = current_term[g[2]] => voted_for[g[2]] = g[3]
    BY DEF ElectionInv
  <2> QED BY <1>1, <1>2, <2>1, <2>2
<1>6. ASSUME NEW g \in granted'
      PROVE  /\ g[1] <= current_term'[g[2]] /\ g[1] <= current_term'[g[3]]
             /\ g[1] = current_term'[g[2]] => voted_for'[g[2]] = g[3]
  <2>1. CASE g \in granted
    BY <1>1, <1>2, <1>3, <1>5, <2>1
  <2>2. CASE g = <<t, i, i>>
    BY <1>1, <1>2, <1>3, <2>2
  <2> QED BY <1>3, <2>1, <2>2
<1>7. ASSUME NEW m \in rv
      PROVE  /\ m.term \in Nat /\ m.from \in Server /\ m.to \in Server
             /\ m.from # m.to /\ m.term <= current_term[m.from]
             /\ m.term <= current_term'[m.from]
             /\ <<m.term, m.to, m.from>> \notin granted'
             /\ \A n \in rv : n.term = m.term /\ n.from = m.from /\ n.to = m.to => n = m
             /\ m.from = i => m.term < t
  <2>1. m.term \in Nat /\ m.from \in Server /\ m.to \in Server
    BY <1>1 DEF RequestVote
  <2>2. /\ m.from # m.to /\ m.term <= current_term[m.from]
        /\ <<m.term, m.to, m.from>> \notin granted
        /\ \A n \in rv : n.term = m.term /\ n.from = m.from /\ n.to = m.to => n = m
    BY DEF ElectionInv
  <2> QED BY <1>1, <1>2, <1>3, <2>1, <2>2
<1>8. ASSUME NEW m \in rv', m \notin rv
      PROVE  /\ m.term = t /\ m.from = i /\ m.to \in Server /\ m.to # i
             /\ m.last_index = Len(log[i]) /\ m.last_term = LastTerm(log[i])
             /\ m = [term |-> t, from |-> i, to |-> m.to, last_index |-> Len(log[i]),
                     last_term |-> LastTerm(log[i])]
  BY <1>1, <1>4, <1>8
<1>9. ASSUME NEW m \in rv'
      PROVE  /\ m.from # m.to /\ m.term <= current_term'[m.from]
             /\ <<m.term, m.to, m.from>> \notin granted'
             /\ \A n \in rv' : n.term = m.term /\ n.from = m.from /\ n.to = m.to => n = m
  <2>1. CASE m \in rv
    <3>1. ASSUME NEW n \in rv', n.term = m.term, n.from = m.from, n.to = m.to PROVE n = m
      <4>1. CASE n \in rv
        BY <1>7, <2>1, <3>1, <4>1
      <4>2. CASE n \notin rv
        <5>1. n.term = t /\ n.from = i
          BY <1>8, <4>2
        <5>2. m.from = i => m.term < t
          BY <1>7, <2>1
        <5>3. m.term < t
          BY <3>1, <5>1, <5>2
        <5> QED BY <1>2, <3>1, <5>1, <5>3
      <4> QED BY <4>1, <4>2
    <3> QED BY <1>7, <2>1, <3>1
  <2>2. CASE m \notin rv
    <3>1. m.from # m.to /\ m.term <= current_term'[m.from]
      BY <1>1, <1>2, <1>3, <1>8, <2>2
    <3>2. <<m.term, m.to, m.from>> \notin granted'
      <4>1. <<m.term, m.to, m.from>> \notin granted
        BY <1>2, <1>5, <1>8, <2>2
      <4> QED BY <1>3, <1>8, <2>2, <4>1
    <3>3. ASSUME NEW n \in rv', n.term = m.term, n.from = m.from, n.to = m.to PROVE n = m
      <4>1. CASE n \in rv
        <5>1. m.term = t /\ m.from = i
          BY <1>8, <2>2
        <5>2. n.from = i => n.term < t
          BY <1>7, <4>1
        <5>3. n.term < t
          BY <3>3, <5>1, <5>2
        <5> QED BY <1>2, <3>3, <5>1, <5>3
      <4>2. CASE n \notin rv
        BY <1>8, <2>2, <3>3, <4>2
      <4> QED BY <4>1, <4>2
    <3> QED BY <3>1, <3>2, <3>3
  <2> QED BY <2>1, <2>2
<1>10. ASSUME NEW m \in rvr'
       PROVE  m.from # m.to /\ (m.granted => <<m.term, m.from, m.to>> \in granted')
  BY <1>3 DEF ElectionInv
<1>11. ASSUME NEW k \in Server, role'[k] = "candidate"
       PROVE  votes_received'[k] <= Cardinality(Counted(k)')
  <2>1. CASE k = i
    <3>1. i \in Counted(i)'
      <4>1. [term |-> t, from |-> i, to |-> i, granted |-> TRUE] \notin rvr'
        BY <1>10
      <4> QED BY <1>1, <1>3, <4>1 DEF Counted
    <3>2. {i} \subseteq Counted(i)' /\ Counted(i)' \subseteq Server
      BY <3>1 DEF Counted
    <3>3. Cardinality({i}) <= Cardinality(Counted(i)')
      BY <3>2, ServersCount
    <3>4. Cardinality({i}) = 1
      BY FS_Singleton
    <3> QED BY <1>1, <1>3, <2>1, <3>3, <3>4
  <2>2. CASE k # i
    <3>1. role[k] = "candidate" /\ current_term'[k] = current_term[k]
          /\ votes_received'[k] = votes_received[k]
      BY <1>1, <1>3, <1>4, <1>11, <2>2
    <3>2. Counted(k)' = Counted(k)
      BY <1>3, <2>2, <3>1 DEF Counted
    <3> QED BY <3>1, <3>2 DEF ElectionInv
  <2> QED BY <2>1, <2>2
<1>12. OneVotePerTerm'
  <2>1. ASSUME NEW a \in granted', NEW b \in granted', a[1] = b[1], a[2] = b[2]
        PROVE  a[3] = b[3]
    <3>1. CASE a \in granted /\ b \in granted
      BY <2>1, <3>1 DEF ElectionInv, OneVotePerTerm
    <3>2. CASE a = <<t, i, i>> \/ b = <<t, i, i>>
      BY <1>2, <1>3, <1>5, <2>1, <3>2
    <3> QED BY <1>3, <3>1, <3>2
  <2> QED BY <2>1 DEF OneVotePerTerm
<1>13. ElectedByMajority'
  <2>1. ASSUME NEW e \in elected'
        PROVE  2 * Cardinality({v \in Server : <<e[1], v, e[2]>> \in granted'})
               > Cardinality(Server)
    <3>1. CASE e \in elected
      BY <1>3, <3>1, MoreVotes DEF ElectionInv
    <3>2. CASE e = <<t, i>> /\ 1 >= majority_count(i)
      <4> DEFINE W == {v \in Server : <<e[1], v, e[2]>> \in granted'}
      <4>1. {i} \subseteq W /\ W \subseteq Server
        BY <1>3, <3>2
      <4> HIDE DEF W
      <4>2. Cardinality({i}) <= Cardinality(W) /\ Cardinality(W) \in Nat
        BY <4>1, ServersCount
      <4>3. Cardinality({i}) = 1
        BY FS_Singleton
      <4>4. Cardinality(W) >= majority_count(i)
        BY <1>1, <3>2, <4>2, <4>3, MajorityIsMoreThanHalf
      <4>5. 2 * Cardinality(W) > Cardinality(Server)
        BY <1>1, <4>2, <4>4, MajorityIsMoreThanHalf
      <4> QED BY <4>5 DEF W
    <3> QED BY <1>4, <3>1, <3>2
  <2> QED BY <2>1 DEF ElectedByMajority
<1> QED BY <1>1, <1>3, <1>6, <1>9, <1>10, <1>11, <1>12, <1>13 DEF ElectionInv

LEMMA RequestVoteStep ==
  ASSUME TypeOK, ElectionInv, NEW m \in rv, handle_request_vote(m) PROVE ElectionInv'
<1> DEFINE i == m.to
           c == m.from
           grant == /\ m.term >= current_term[i]
                    /\ VoteIn(i, m.term) \in {Nil, c}
                    /\ UpToDate(m, log[i])
           answer == [term |-> current_term'[i], from |-> i, to |-> c, granted |-> grant]
<1>1. /\ current_term \in [Server -> Nat] /\ voted_for \in [Server -> Server \cup {Nil}]
      /\ role \in [Server -> {"follower", "candidate", "leader"}]
      /\ votes_received \in [Server -> Nat]
      /\ granted \subseteq Nat \X Server \X Server
      /\ rv \subseteq RequestVote /\ rvr \subseteq VoteResponse
      /\ peers = [k \in Server |-> Server \ {k}]
  BY DEF TypeOK, ElectionInv
<1>2. m.term \in Nat /\ i \in Server /\ c \in Server
  BY <1>1 DEF RequestVote
<1>3. c # i /\ <<m.term, i, c>> \notin granted /\ m.term <= current_term[c]
  BY DEF ElectionInv
<1>4. /\ grant \in BOOLEAN
      /\ grant => m.term >= current_term[i] /\ VoteIn(i, m.term) \in {Nil, c}
  OBVIOUS
<1>5. /\ current_term' = [current_term EXCEPT ![i] = IF m.term > @ THEN m.term ELSE @]
      /\ \/ m.term > current_term[i] /\ role' = [role EXCEPT ![i] = "follower"]
         \/ /\ ~(m.term > current_term[i])
            /\ role' = role /\ votes_received' = votes_received
      /\ \A k \in Server \ {i} : role'[k] = role[k] /\ votes_received'[k] = votes_received[k]
  <2>1. CASE m.term > current_term[i]
    BY <1>1, <2>1 DEF handle_request_vote, become_follower_locked
  <2>2. CASE ~(m.term > current_term[i])
    BY <1>1, <2>2 DEF handle_request_vote
  <2> QED BY <2>1, <2>2
<1>6. /\ voted_for' = [voted_for EXCEPT ![i] = IF grant THEN c ELSE VoteIn(i, m.term)]
      /\ granted' = IF grant THEN granted \cup {<<m.term, i, c>>} ELSE granted
      /\ rv' = rv \ {m} /\ peers' = peers /\ elected' = elected
  BY DEF handle_request_vote
<1>7. rvr' = rvr \cup {answer}
  <2>1. c \in peers[i]
    BY <1>1, <1>2, <1>3
  <2> QED BY <2>1 DEF handle_request_vote
<1> HIDE DEF grant
<1>8. /\ current_term'[i] \in Nat /\ current_term'[i] >= current_term[i]
      /\ current_term'[i] >= m.term
      /\ current_term'[i] = current_term[i] => m.term <= current_term[i]
      /\ grant => current_term'[i] = m.term
      /\ \A k \in Server \ {i} : current_term'[k] = current_term[k]
      /\ \A k \in Server : current_term'[k] >= current_term[k] /\ current_term'[k] \in Nat
  BY <1>1, <1>2, <1>4, <1>5
<1>9. ASSUME NEW g \in granted
      PROVE  /\ g[1] \in Nat /\ g[2] \in Server /\ g[3] \in Server
             /\ g[1] <= current_term[g[2]] /\ g[1] <= current_term[g[3]]
             /\ g[1] = current_term[g[2]] => voted_for[g[2]] = g[3]
             /\ g = <<g[1], g[2], g[3]>>
  <2>1. g[1] \in Nat /\ g[2] \in Server /\ g[3] \in Server /\ g = <<g[1], g[2], g[3]>>
    BY <1>1
  <2>2. /\ g[1] <= current_term[g[2]] /\ g[1] <= current_term[g[3]]
        /\ g[1] = current_term[g[2]] => voted_for[g[2]] = g[3]
    BY DEF ElectionInv
  <2> QED BY <2>1, <2>2
<1>10. ASSUME grant, NEW g \in granted, g[1] = m.term, g[2] = i PROVE FALSE
  <2>1. m.term = current_term[i]
    BY <1>1, <1>2, <1>4, <1>9, <1>10
  <2>2. VoteIn(i, m.term) = g[3]
    BY <1>1, <1>2, <1>9, <1>10, <2>1 DEF VoteIn
  <2>3. g[3] = c
    BY <1>4, <1>9, <1>10, <2>2, ServerAssumption
  <2> QED BY <1>3, <1>9, <1>10, <2>3
<1>11. ASSUME NEW g \in granted'
       PROVE  /\ g[1] <= current_term'[g[2]] /\ g[1] <= current_term'[g[3]]
              /\ g[1] = current_term'[g[2]] => voted_for'[g[2]] = g[3]
  <2>1. CASE g \in granted
    <3>1. g[1] <= current_term'[g[2]] /\ g[1] <= current_term'[g[3]]
      BY <1>1, <1>8, <1>9, <2>1
    <3>2. ASSUME g[1] = current_term'[g[2]] PROVE voted_for'[g[2]] = g[3]
      <4>1. g[1] = current_term[g[2]] /\ voted_for[g[2]] = g[3]
        BY <1>1, <1>8, <1>9, <2>1, <3>2
      <4>2. CASE g[2] # i
        BY <1>1, <1>6, <1>9, <2>1, <4>1, <4>2
      <4>3. CASE g[2] = i
        <5>1. ~grant
          BY <1>8, <1>10, <2>1, <3>2, <4>3
        <5>2. VoteIn(i, m.term) = voted_for[i]
          <6>1. current_term'[i] = current_term[i]
            BY <3>2, <4>1, <4>3
          <6>2. m.term <= current_term[i] /\ current_term[i] \in Nat
            BY <1>1, <1>2, <1>8, <6>1
          <6> QED BY <1>2, <6>2 DEF VoteIn
        <5> QED BY <1>1, <1>2, <1>6, <4>1, <4>3, <5>1, <5>2
      <4> QED BY <4>2, <4>3
    <3> QED BY <3>1, <3>2
  <2>2. CASE grant /\ g = <<m.term, i, c>>
    <3>1. g[1] = m.term /\ g[2] = i /\ g[3] = c
      BY <2>2
    <3>2. voted_for'[i] = c
      BY <1>1, <1>2, <1>6, <2>2
    <3>3. m.term <= current_term'[c]
      BY <1>2, <1>3, <1>8
    <3> QED BY <1>8, <2>2, <3>1, <3>2, <3>3
  <2> QED BY <1>6, <2>1, <2>2
<1>12. ASSUME NEW n \in rv'
       PROVE  /\ n.from # n.to /\ n.term <= current_term'[n.from]
              /\ <<n.term, n.to, n.from>> \notin granted'
              /\ \A o \in rv' : o.term = n.term /\ o.from = n.from /\ o.to = n.to => o = n
  <2>1. n \in rv /\ n # m
    BY <1>6
  <2>2. /\ n.from # n.to /\ n.term <= current_term[n.from]
        /\ <<n.term, n.to, n.from>> \notin granted
        /\ \A o \in rv : o.term = n.term /\ o.from = n.from /\ o.to = n.to => o = n
    BY <2>1 DEF ElectionInv
  <2>3. n.term \in Nat /\ n.from \in Server
    BY <1>1, <2>1 DEF RequestVote
  <2>4. n.term <= current_term'[n.from]
    BY <1>1, <1>8, <2>2, <2>3
  <2>5. <<n.term, n.to, n.from>> # <<m.term, i, c>>
    BY <2>1, <2>2
  <2> QED BY <1>6, <2>2, <2>4, <2>5
<1>13. ASSUME NEW n \in rvr'
       PROVE  n.from # n.to /\ (n.granted => <<n.term, n.from, n.to>> \in granted')
  <2>1. CASE n \in rvr
    BY <1>6, <2>1 DEF ElectionInv
  <2>2. CASE n = answer
    <3>1. n.from = i /\ n.to = c /\ n.granted = grant /\ n.term = current_term'[i]
      BY <2>2
    <3> QED BY <1>3, <1>6, <1>8, <3>1
  <2> QED BY <1>7, <2>1, <2>2
<1>14. ASSUME NEW k \in Server, role'[k] = "candidate"
       PROVE  votes_received'[k] <= Cardinality(Counted(k)')
  <2>1. role[k] = "candidate" /\ votes_received'[k] = votes_received[k]
        /\ current_term'[k] = current_term[k]
    BY <1>1, <1>2, <1>5, <1>14
  <2>2. ASSUME NEW v \in Counted(k) PROVE v \in Counted(k)'
    <3> DEFINE vote == [term |-> current_term[k], from |-> v, to |-> k, granted |-> TRUE]
    <3>1. v \in Server /\ <<current_term[k], v, k>> \in granted /\ vote \notin rvr
      BY DEF Counted
    <3>2. vote # answer
      <4>1. SUFFICES ASSUME vote = answer PROVE FALSE
        OBVIOUS
      <4>2. /\ vote.term = answer.term /\ vote.from = answer.from
            /\ vote.to = answer.to /\ vote.granted = answer.granted
        BY <4>1
      <4>3. v = i /\ k = c /\ current_term[k] = current_term'[i] /\ grant
        BY <4>2
      <4> QED BY <1>3, <1>8, <3>1, <4>3
    <3>3. vote \notin rvr'
      BY <1>7, <3>1, <3>2
    <3>4. <<current_term[k], v, k>> \in granted'
      BY <1>6, <3>1
    <3> QED BY <2>1, <3>1, <3>3, <3>4 DEF Counted
  <2>3. Counted(k) \subseteq Counted(k)' /\ Counted(k)' \subseteq Server
    BY <2>2 DEF Counted
  <2>4. Cardinality(Counted(k)) <= Cardinality(Counted(k)')
        /\ Cardinality(Counted(k)) \in Nat /\ Cardinality(Counted(k)') \in Nat
    BY <2>3, ServersCount
  <2>5. votes_received[k] <= Cardinality(Counted(k)) /\ votes_received[k] \in Nat
    BY <1>1, <2>1 DEF ElectionInv
  <2> QED BY <2>1, <2>4, <2>5
<1>15. OneVotePerTerm'
  <2>1. ASSUME NEW a \in granted', NEW b \in granted', a[1] = b[1], a[2] = b[2]
        PROVE  a[3] = b[3]
    <3>1. CASE a \in granted /\ b \in granted
      BY <2>1, <3>1 DEF ElectionInv, OneVotePerTerm
    <3>2. CASE a \notin granted
      <4>1. grant /\ a = <<m.term, i, c>>
        BY <1>6, <3>2
      <4>2. b \notin granted
        BY <1>10, <2>1, <4>1
      <4> QED BY <1>6, <4>1, <4>2
    <3>3. CASE b \notin granted
      <4>1. grant /\ b = <<m.term, i, c>>
        BY <1>6, <3>3
      <4>2. a \notin granted
        BY <1>10, <2>1, <4>1
      <4> QED BY <1>6, <4>1, <4>2
    <3> QED BY <3>1, <3>2, <3>3
  <2> QED BY <2>1 DEF OneVotePerTerm
<1>16. ElectedByMajority'
  <2>1. granted \subseteq granted'
    BY <1>6
  <2>2. ElectedByMajority
    BY DEF ElectionInv
  <2> QED BY <1>6, <2>1, <2>2, MoreVotes DEF ElectedByMajority
<1> QED BY <1>1, <1>6, <1>11, <1>12, <1>13, <1>14, <1>15, <1>16 DEF ElectionInv

LEMMA RequestVoteResponseStep ==
  ASSUME TypeOK, ElectionInv, NEW m \in rvr, handle_request_vote_response(m)
  PROVE  ElectionInv'
<1> DEFINE i == m.to
           counts == role[i] = "candidate" /\ m.term = current_term[i] /\ m.granted
           won == counts /\ votes_received[i] + 1 >= majority_count(i)
<1>1. /\ current_term \in [Server -> Nat] /\ voted_for \in [Server -> Server \cup {Nil}]
      /\ role \in [Server -> {"follower", "candidate", "leader"}]
      /\ votes_received \in [Server -> Nat]
      /\ granted \subseteq Nat \X Server \X Server
      /\ rvr \subseteq VoteResponse
      /\ peers = [k \in Server |-> Server \ {k}]
  BY DEF TypeOK, ElectionInv
<1>2. m.term \in Nat /\ i \in Server /\ m.from \in Server
  BY <1>1 DEF VoteResponse
<1>3. peers' = peers /\ rv' = rv /\ granted' = granted /\ rvr' = rvr \ {m}
  BY DEF handle_request_vote_response, IsVote
<1>4. CASE /\ m.term > current_term[i]
           /\ become_follower_locked(i, m.term, Nil)
           /\ voted_for' = [voted_for EXCEPT ![i] = VoteIn(i, m.term)]
           /\ UNCHANGED elected
  <2>1. rvr' \subseteq rvr /\ m.term >= current_term[i]
    BY <1>1, <1>2, <1>3, <1>4
  <2> QED BY <1>2, <1>3, <1>4, <2>1, FollowStep
<1>5. CASE /\ votes_received' = [votes_received EXCEPT ![i] = IF counts THEN @ + 1 ELSE @]
           /\ IF won
              THEN become_leader_locked(i, m.term)
              ELSE UNCHANGED <<role, elected>>
           /\ UNCHANGED <<current_term, voted_for>>
  <2>1. ASSUME NEW k \in Server
        PROVE  /\ Counted(k) \subseteq Counted(k)' /\ Counted(k)' \subseteq Server
               /\ Counted(k)' \subseteq {v \in Server : <<current_term[k], v, k>> \in granted}
               /\ Cardinality(Counted(k)) \in Nat /\ Cardinality(Counted(k)') \in Nat
               /\ Cardinality(Counted(k)) <= Cardinality(Counted(k)')
    <3>1. /\ Counted(k) \subseteq Counted(k)' /\ Counted(k)' \subseteq Server
          /\ Counted(k)' \subseteq {v \in Server : <<current_term[k], v, k>> \in granted}
      BY <1>3, <1>5 DEF Counted
    <3> QED BY <3>1, ServersCount
  <2>2. ASSUME counts PROVE votes_received[i] + 1 <= Cardinality(Counted(i)')
    <3>1. m = [term |-> current_term[i], from |-> m.from, to |-> i, granted |-> TRUE]
      BY <1>1, <2>2 DEF VoteResponse
    <3>2. <<current_term[i], m.from, i>> \in granted
      BY <2>2 DEF ElectionInv
    <3>3. m.from \notin Counted(i)
      BY <3>1 DEF Counted
    <3>4. m.from \in Counted(i)'
      BY <1>2, <1>3, <1>5, <3>1, <3>2 DEF Counted
    <3>5. IsFiniteSet(Counted(i)) /\ Counted(i) \subseteq Server
      BY ServersCount DEF Counted
    <3>6. Cardinality(Counted(i) \cup {m.from}) = Cardinality(Counted(i)) + 1
      BY <3>3, <3>5, FS_AddElement
    <3>7. Counted(i) \cup {m.from} \subseteq Counted(i)' /\ Counted(i)' \subseteq Server
      BY <1>2, <2>1, <3>4
    <3>8. Cardinality(Counted(i)) + 1 <= Cardinality(Counted(i)')
      BY <3>6, <3>7, ServersCount
    <3>9. votes_received[i] <= Cardinality(Counted(i))
      BY <1>2, <2>2 DEF ElectionInv
    <3> QED BY <1>1, <1>2, <2>1, <3>8, <3>9
  <2>3. /\ won => role'[i] = "leader"
        /\ ~won => role' = role
        /\ \A k \in Server \ {i} : role'[k] = role[k]
        /\ ~won => elected' = elected
        /\ won => elected' = elected \cup {<<m.term, i>>}
    BY <1>1, <1>2, <1>5 DEF become_leader_locked
  <2>4. counts \in BOOLEAN /\ won \in BOOLEAN /\ (won => counts)
        /\ (won => votes_received[i] + 1 >= majority_count(i) /\ m.term = current_term[i])
    OBVIOUS
  <2>5. /\ counts => votes_received'[i] = votes_received[i] + 1
        /\ ~counts => votes_received'[i] = votes_received[i]
        /\ \A k \in Server \ {i} : votes_received'[k] = votes_received[k]
    BY <1>1, <1>2, <1>5
  <2> HIDE DEF counts, won
  <2>6. ASSUME NEW k \in Server, role'[k] = "candidate"
        PROVE  votes_received'[k] <= Cardinality(Counted(k)')
    <3>1. CASE k = i /\ counts
      BY <2>2, <2>5, <3>1
    <3>2. CASE k # i \/ ~counts
      <4>1. role[k] = "candidate" /\ votes_received'[k] = votes_received[k]
        BY <2>3, <2>4, <2>5, <2>6, <3>2
      <4>2. votes_received[k] <= Cardinality(Counted(k)) /\ votes_received[k] \in Nat
        BY <1>1, <4>1 DEF ElectionInv
      <4> QED BY <2>1, <4>1, <4>2
    <3> QED BY <3>1, <3>2
  <2>7. ElectedByMajority'
    <3>1. ASSUME NEW e \in elected'
          PROVE  2 * Cardinality({v \in Server : <<e[1], v, e[2]>> \in granted'})
                 > Cardinality(Server)
      <4>1. CASE e \in elected
        BY <1>3, <4>1 DEF ElectionInv, ElectedByMajority
      <4>2. CASE won /\ e = <<m.term, i>>
        <5> DEFINE W == {v \in Server : <<e[1], v, e[2]>> \in granted'}
        <5>1. Counted(i)' \subseteq W /\ W \subseteq Server
          BY <1>2, <1>3, <2>1, <2>4, <4>2
        <5> HIDE DEF W
        <5>2. Cardinality(Counted(i)') <= Cardinality(W) /\ Cardinality(W) \in Nat
          BY <5>1, ServersCount
        <5>3. Cardinality(W) >= majority_count(i)
          BY <1>1, <1>2, <2>1, <2>2, <2>4, <4>2, <5>2, MajorityIsMoreThanHalf
        <5>4. 2 * Cardinality(W) > Cardinality(Server)
          BY <1>1, <1>2, <5>2, <5>3, MajorityIsMoreThanHalf
        <5> QED BY <5>4 DEF W
      <4> QED BY <2>3, <2>4, <4>1, <4>2
    <3> QED BY <3>1 DEF ElectedByMajority
  <2>8. (peers = [k \in Server |-> Server \ {k}])'
    BY <1>1, <1>3
  <2>9. \A g \in granted' :
          /\ g[1] <= current_term'[g[2]] /\ g[1] <= current_term'[g[3]]
          /\ g[1] = current_term'[g[2]] => voted_for'[g[2]] = g[3]
    BY <1>3, <1>5 DEF ElectionInv
  <2>10. \A n \in rv' :
          /\ n.from # n.to /\ n.term <= current_term'[n.from]
          /\ <<n.term, n.to, n.from>> \notin granted'
          /\ \A o \in rv' : o.term = n.term /\ o.from = n.from /\ o.to = n.to => o = n
    BY <1>3, <1>5 DEF ElectionInv
  <2>11. \A n \in rvr' :
          n.from # n.to /\ (n.granted => <<n.term, n.from, n.to>> \in granted')
    BY <1>3 DEF ElectionInv
  <2>12. OneVotePerTerm'
    BY <1>3 DEF ElectionInv, OneVotePerTerm
  <2> QED BY <2>6, <2>7, <2>8, <2>9, <2>10, <2>11, <2>12 DEF ElectionInv
<1> QED BY <1>4, <1>5 DEF handle_request_vote_response, IsVote

LEMMA AppendEntriesStep ==
  ASSUME TypeOK, ElectionInv, NEW m \in BagToSet(ae), handle_append_entries(m)
  PROVE  ElectionInv'
<1> DEFINE i == m.to
<1>1. i \in Server /\ m.term \in Nat /\ current_term[i] \in Nat
  BY DEF TypeOK, AppendEntries
<1>2. /\ voted_for' = [voted_for EXCEPT ![i] = VoteIn(i, m.term)]
      /\ UNCHANGED <<peers, rv, rvr, granted, elected>>
  BY DEF handle_append_entries, history
<1>3. CASE m.term >= current_term[i]
  <2>1. become_follower_locked(i, m.term, m.from)
    BY <1>3 DEF handle_append_entries
  <2> QED BY <1>1, <1>2, <1>3, <2>1, FollowStep
<1>4. CASE ~(m.term >= current_term[i])
  <2>1. VoteIn(i, m.term) = voted_for[i]
    BY <1>1, <1>4 DEF VoteIn
  <2>2. voted_for' = voted_for
    BY <1>2, <2>1 DEF TypeOK
  <2>3. UNCHANGED <<role, current_term, votes_received>>
    BY <1>4 DEF handle_append_entries
  <2> QED BY <1>2, <2>2, <2>3, OtherStep
<1> QED BY <1>3, <1>4

LEMMA AppendResponseStep ==
  ASSUME TypeOK, ElectionInv, NEW m \in BagToSet(aer), handle_append_response(m)
  PROVE  ElectionInv'
<1>1. m.to \in Server /\ m.term \in Nat /\ current_term[m.to] \in Nat
  BY DEF TypeOK, AppendResponse
<1>2. UNCHANGED <<peers, rv, rvr, granted, elected>>
  BY DEF handle_append_response, history
<1>3. CASE /\ m.term > current_term[m.to]
           /\ become_follower_locked(m.to, m.term, Nil)
           /\ voted_for' = [voted_for EXCEPT ![m.to] = VoteIn(m.to, m.term)]
  <2>1. m.term >= current_term[m.to]
    BY <1>1, <1>3
  <2> QED BY <1>1, <1>2, <1>3, <2>1, FollowStep
<1>4. CASE UNCHANGED votes
  BY <1>2, <1>4, OtherStep DEF votes
<1> QED BY <1>3, <1>4 DEF handle_append_response

\* The steps that only send, lose or append.
LEMMA OtherSteps ==
  ASSUME ElectionInv,
         \/ \E i \in Server : ticker_timeout(i) \/ ticker_heartbeat(i)
         \/ \E i \in Server, th \in Thread, j \in Server : send_append_to_peer(i, th, j)
         \/ \E i \in Server, c \in Command : raft_submit_command(i, c)
         \/ \E m \in BagToSet(cl) : handle_client_forward(m)
         \/ lose
         \/ UNCHANGED vars
  PROVE  ElectionInv'
<1>1. UNCHANGED <<votes, peers, rv, rvr, history>>
  BY DEF ticker_timeout, ticker_heartbeat, send_append_to_peer, raft_submit_command,
         handle_client_forward, lose, vars
<1> QED BY <1>1, OtherStep DEF votes, history

LEMMA ElectionNext == ASSUME TypeOK, ElectionInv, [Next]_vars PROVE ElectionInv'
<1>1. ASSUME NEW i \in Server, ticker_loop(i) PROVE ElectionInv'
  BY <1>1, StartElectionStep, OtherSteps DEF ticker_loop
<1>2. CASE raft_handle_line
  BY <1>2, RequestVoteStep, RequestVoteResponseStep, AppendEntriesStep, AppendResponseStep,
     OtherSteps DEF raft_handle_line
<1> QED BY <1>1, <1>2, OtherSteps DEF Next

LEMMA ElectionInit == Init => ElectionInv
  BY DEF Init, NodeInit, ElectionInv, OneVotePerTerm, ElectedByMajority

\* What nodes remember of their votes, the vote lines in flight and the votes
\* ever cast agree in every state of the program.
THEOREM VotesAgree == Spec => []ElectionInv
<1> QED BY TypeCorrect, ElectionInit, ElectionNext, PTL DEF Spec

\* A node votes for one candidate per term.
THEOREM OneVote == Spec => []OneVotePerTerm
<1>1. ElectionInv => OneVotePerTerm
  BY DEF ElectionInv
<1> QED BY <1>1, VotesAgree, PTL

\* Whoever was elected has the votes of a majority of the cluster.
THEOREM MajorityElects == Spec => []ElectedByMajority
<1>1. ElectionInv => ElectedByMajority
  BY DEF ElectionInv
<1> QED BY <1>1, VotesAgree, PTL

\* Two majorities have a voter in common, who voted once.
LEMMA MajoritiesShareAVoter == ASSUME ElectionInv PROVE ElectionSafety
<1>1. ASSUME NEW a \in elected, NEW b \in elected, a[1] = b[1] PROVE a[2] = b[2]
  <2> DEFINE V == {v \in Server : <<a[1], v, a[2]>> \in granted}
             W == {v \in Server : <<b[1], v, b[2]>> \in granted}
  <2>1. 2 * Cardinality(V) > Cardinality(Server) /\ 2 * Cardinality(W) > Cardinality(Server)
    BY DEF ElectionInv, ElectedByMajority
  <2>2. V \subseteq Server /\ W \subseteq Server
    OBVIOUS
  <2> HIDE DEF V, W
  <2>3. Cardinality(V) \in Nat /\ Cardinality(W) \in Nat /\ Cardinality(Server) \in Nat
    BY <2>2, ServersCount, ServerAssumption, FS_CardinalityType
  <2>4. Cardinality(V) + Cardinality(W) > Cardinality(Server)
    BY <2>1, <2>3
  <2>5. V \cap W # {}
    BY <2>2, <2>4, ServerAssumption, FS_MajoritiesIntersect
  <2>6. PICK v \in Server : <<a[1], v, a[2]>> \in granted /\ <<b[1], v, b[2]>> \in granted
    BY <2>5 DEF V, W
  <2>7. OneVotePerTerm
    BY DEF ElectionInv
  <2> QED BY <1>1, <2>6, <2>7 DEF OneVotePerTerm
<1> QED BY <1>1 DEF ElectionSafety

\* At most one node is elected in a term.
THEOREM ElectionSafe == Spec => []ElectionSafety
<1>1. ElectionInv => ElectionSafety
  BY MajoritiesShareAVoter
<1> QED BY <1>1, VotesAgree, PTL

(***************************************************************************)
(* Elections are those of Voting.                                          *)
(***************************************************************************)

\* A vote as start_election and handle_request_vote cast it is a vote of Voting: the
\* voter's later votes would have taken its term past that of the ballot, and one of
\* the same term it would remember.
LEMMA VotesAreCast ==
  ASSUME TypeOK, ElectionInv, NEW b \in Nat \X Server \X Server,
         granted' = granted \cup {b}, b[1] >= current_term[b[2]],
         b[1] = current_term[b[2]] => voted_for[b[2]] \in {Nil, b[3]}
  PROVE  granted' = granted \/ \E a \in granted' : Polls!Cast(a)
<1>1. SUFFICES ASSUME b \notin granted PROVE Polls!Cast(b)
  OBVIOUS
<1>2. ASSUME NEW a \in granted, a[2] = b[2] PROVE a[1] < b[1]
  <2>1. a \in Nat \X Server \X Server /\ current_term[b[2]] \in Nat
    BY DEF TypeOK
  <2>2. a[1] <= current_term[b[2]] /\ (a[1] = current_term[b[2]] => voted_for[b[2]] = a[3])
    BY <1>2 DEF ElectionInv
  <2>3. CASE a[1] = b[1]
    <3>1. a[1] = current_term[b[2]]
      BY <2>1, <2>2, <2>3
    <3>2. a[3] = b[3]
      BY <2>1, <2>2, <2>3, <3>1, ServerAssumption
    <3>3. a = b
      BY <1>2, <2>1, <2>3, <3>2
    <3> QED BY <1>1, <3>3
  <2>4. CASE a[1] # b[1]
    BY <2>1, <2>2, <2>4
  <2> QED BY <2>3, <2>4
<1> QED BY <1>2 DEF Polls!Cast

\* Voting has a Cardinality of its own, with the same definition.
LEMMA SamePolls == ASSUME NEW S PROVE Polls!Cardinality(S) = Cardinality(S)
  BY DEF Polls!Cardinality, Cardinality

\* Whoever takes office has a majority in that state.
LEMMA WinnersWin ==
  ASSUME ElectionInv', NEW w, elected' = elected \cup {w}
  PROVE  \E e \in elected' : Polls!Win(e)
<1>1. ElectedByMajority'
  BY DEF ElectionInv
<1>2. w \in elected'
  OBVIOUS
<1>3. 2 * Cardinality({v \in Server : <<w[1], v, w[2]>> \in granted'}) > Cardinality(Server)
  BY <1>1, <1>2, Zenon DEF ElectedByMajority
<1>4. Polls!Win(w)
  BY <1>3, SamePolls, Zenon DEF Polls!Win
<1> QED BY <1>2, <1>4

\* Every step of the program is a step of Voting, or none.
LEMMA VotingStep ==
  ASSUME TypeOK, ElectionInv, ElectionInv', [Next]_vars
  PROVE  [Polls!Next]_<<granted, elected>>
<1>1. ASSUME NEW i \in Server, start_election(i) PROVE Polls!Next
  <2> DEFINE t == current_term[i] + 1
  <2>1. t \in Nat /\ t >= current_term[i] /\ t # current_term[i]
    BY DEF TypeOK
  <2>2. granted' = granted \cup {<<t, i, i>>}
    BY <1>1 DEF start_election
  <2>3. elected' = elected \/ elected' = elected \cup {<<t, i>>}
    BY <1>1 DEF start_election, become_leader_locked
  <2> HIDE DEF t
  <2>4. granted' = granted \/ \E b \in granted' : Polls!Cast(b)
    BY <2>1, <2>2, VotesAreCast
  <2>5. elected' = elected \/ \E e \in elected' : Polls!Win(e)
    BY <2>3, WinnersWin
  <2> QED BY <2>4, <2>5 DEF Polls!Next
<1>2. ASSUME NEW m \in rv, handle_request_vote(m) PROVE Polls!Next
  <2>1. /\ m.term \in Nat /\ m.to \in Server /\ m.from \in Server
        /\ current_term[m.to] \in Nat
    BY DEF TypeOK, RequestVote
  <2>2. elected' = elected
    BY <1>2 DEF handle_request_vote
  <2>3. \/ granted' = granted
        \/ /\ granted' = granted \cup {<<m.term, m.to, m.from>>}
           /\ m.term >= current_term[m.to] /\ VoteIn(m.to, m.term) \in {Nil, m.from}
    BY <1>2 DEF handle_request_vote
  <2>4. granted' = granted \/ \E b \in granted' : Polls!Cast(b)
    BY <2>1, <2>3, VotesAreCast DEF VoteIn
  <2> QED BY <2>2, <2>4 DEF Polls!Next
<1>3. ASSUME NEW m \in rvr, handle_request_vote_response(m) PROVE Polls!Next
  <2>1. granted' = granted
    BY <1>3 DEF handle_request_vote_response
  <2>2. elected' = elected \/ elected' = elected \cup {<<m.term, m.to>>}
    BY <1>3 DEF handle_request_vote_response, become_leader_locked
  <2> QED BY <2>1, <2>2, WinnersWin DEF Polls!Next
<1>4. ASSUME UNCHANGED <<granted, elected>> PROVE [Polls!Next]_<<granted, elected>>
  BY <1>4
<1>5. ASSUME NEW i \in Server, ticker_loop(i) PROVE [Polls!Next]_<<granted, elected>>
  BY <1>1, <1>4, <1>5 DEF ticker_loop, ticker_timeout, ticker_heartbeat, history
<1>6. CASE raft_handle_line
  BY <1>2, <1>3, <1>4, <1>6 DEF raft_handle_line, handle_append_entries,
     handle_append_response, handle_client_forward, history
<1>7. CASE UNCHANGED vars
  BY <1>4, <1>7 DEF vars, history
<1> QED BY <1>4, <1>5, <1>6, <1>7 DEF Next, send_append_to_peer, raft_submit_command, lose, history

\* The elections of the program are those of Voting, in every cluster.
THEOREM VotingIsImplemented == Spec => ElectionsAreVoting
<1>1. Init => Polls!Init
  BY DEF Init, NodeInit, Polls!Init
<1> QED BY <1>1, VotingStep, TypeCorrect, VotesAgree, PTL DEF Spec, ElectionsAreVoting, Polls!Spec
(***************************************************************************)
(* Logs: terms ascend, the entries of a term come from its leader, a       *)
(* leader only appends, and logs match.                                    *)
(*                                                                         *)
(* The argument is about links: an entry together with the term of the     *)
(* entry before it, in a log or in an AE line under way.  A line that is   *)
(* sent repeats a link of its sender's log, whoever the sender is; a       *)
(* follower that stores it has checked the term before it.  So only a      *)
(* leader that appends makes a link, in its own term, and there is one     *)
(* leader of a term.                                                       *)
(***************************************************************************)


\* Log l has an entry of term t at n, behind one of term p.
InLog(l, n, t, p) == n \in 1 .. Len(l) /\ l[n].term = t /\ TermAt(l, n - 1) = p

\* AE line m brings an entry of term t for index n, to go behind one of term p.
InLine(m, n, t, p) ==
    m.entry # <<>> /\ n = m.prev_index + 1 /\ m.entry[1].term = t /\ m.prev_term = p

Link(n, t, p) ==
    \/ \E i \in Server : InLog(log[i], n, t, p)
    \/ \E m \in BagToSet(ae) : InLine(m, n, t, p)

OneLink == \A n, t, p, q \in Nat : Link(n, t, p) /\ Link(n, t, q) => p = q

LinksAscend == \A n, t, p \in Nat : Link(n, t, p) => p <= t

LinksElected == \A n, t, p \in Nat : Link(n, t, p) => \E l \in Server : <<t, l>> \in elected

Has(l, n, t) == n \in 1 .. Len(l) /\ l[n].term = t

LeaderHasLinks ==
    \A i \in Server, n, t, p \in Nat :
        role[i] = "leader" /\ current_term[i] = t /\ Link(n, t, p) => Has(log[i], n, t)

\* Nobody is in office in a term for the second time.
Offices ==
    /\ \A i \in Server, t \in Nat : <<t, i>> \in elected => t >= 1 /\ t <= current_term[i]
    /\ \A i \in Server :
          /\ role[i] = "leader" => <<current_term[i], i>> \in elected
          /\ role[i] = "candidate" => current_term[i] >= 1 /\ <<current_term[i], i>> \notin elected

TermsKnown ==
    /\ \A i \in Server : \A n \in 1 .. Len(log[i]) : log[i][n].term <= current_term[i]
    /\ \A m \in BagToSet(ae) : /\ m.prev_index = 0 => m.prev_term = 0
                               /\ m.entry # <<>> => m.entry[1].term <= m.term

LinkInv ==
    OneLink /\ LinksAscend /\ LinksElected /\ LeaderHasLinks /\ Offices /\ TermsKnown /\ LogMatching

(***************************************************************************)
(* Offices.                                                                *)
(***************************************************************************)

\* What a step does to the role and the term of node i.
Same(i) == role'[i] = role[i] /\ current_term'[i] = current_term[i]
Follows(i) == role'[i] = "follower" /\ current_term'[i] >= current_term[i]
Stands(i) == role'[i] = "candidate" /\ current_term'[i] = current_term[i] + 1
Wins(i) ==
    /\ role'[i] = "leader" /\ current_term'[i] >= current_term[i] /\ current_term'[i] >= 1
    /\ <<current_term'[i], i>> \notin elected
    /\ elected' = elected \cup {<<current_term'[i], i>>}

OfficeStep ==
    \/ elected' = elected /\ \A i \in Server : Same(i) \/ Follows(i) \/ Stands(i)
    \/ /\ \E i \in Server : Wins(i) /\ \A j \in Server \ {i} : Same(j)
       /\ log' = log /\ ae' = ae

LEMMA OfficesKept ==
  ASSUME TypeOK, TypeOK', Offices, OfficeStep PROVE Offices'
<1>1. current_term \in [Server -> Nat] /\ current_term' \in [Server -> Nat]
  BY DEF TypeOK
<1>2. CASE elected' = elected /\ \A i \in Server : Same(i) \/ Follows(i) \/ Stands(i)
  <2> SUFFICES ASSUME NEW i \in Server
               PROVE  /\ \A t \in Nat : <<t, i>> \in elected' => t >= 1 /\ t <= current_term'[i]
                      /\ role'[i] = "leader" => <<current_term'[i], i>> \in elected'
                      /\ role'[i] = "candidate" =>
                            current_term'[i] >= 1 /\ <<current_term'[i], i>> \notin elected'
    BY DEF Offices
  <2>2. CASE Same(i)
    BY <1>2, <2>2 DEF Offices, Same
  <2>3. CASE Follows(i)
    <3>1. \A t \in Nat : <<t, i>> \in elected => t >= 1 /\ t <= current_term[i]
      BY DEF Offices
    <3> QED BY <1>1, <1>2, <2>3, <3>1 DEF Follows
  <2>4. CASE Stands(i)
    <3>1. \A t \in Nat : <<t, i>> \in elected => t >= 1 /\ t <= current_term[i]
      BY DEF Offices
    <3>2. current_term[i] \in Nat /\ current_term'[i] = current_term[i] + 1
      BY <1>1, <2>4 DEF Stands
    <3> QED BY <1>2, <2>4, <3>1, <3>2 DEF Stands
  <2> QED BY <1>2, <2>2, <2>3, <2>4
<1>3. ASSUME NEW i \in Server, Wins(i), \A j \in Server \ {i} : Same(j) PROVE Offices'
  <2>1. \A j \in Server \ {i} : \A t : <<t, j>> \in elected' => <<t, j>> \in elected
    BY <1>3 DEF Wins
  <2>2. \A t \in Nat : <<t, i>> \in elected' => t >= 1 /\ t <= current_term'[i]
    <3>1. \A t \in Nat : <<t, i>> \in elected => t >= 1 /\ t <= current_term[i]
      BY DEF Offices
    <3> QED BY <1>1, <1>3, <3>1 DEF Wins
  <2>3. <<current_term'[i], i>> \in elected' /\ role'[i] = "leader"
    BY <1>3 DEF Wins
  <2>4. \A j \in Server \ {i} : \A t : <<t, j>> \in elected => <<t, j>> \in elected'
    BY <1>3 DEF Wins
  <2> QED BY <1>3, <2>1, <2>2, <2>3, <2>4 DEF Offices, Same
<1> QED BY <1>2, <1>3 DEF OfficeStep

\* A node that hears of its own or a later term and follows.
LEMMA FollowOffice ==
  ASSUME TypeOK, NEW i \in Server, NEW t \in Nat, NEW l, become_follower_locked(i, t, l),
         elected' = elected
  PROVE  OfficeStep /\ Follows(i)
<1>1. Follows(i) /\ \A j \in Server \ {i} : Same(j)
  BY DEF TypeOK, become_follower_locked, Follows, Same
<1> QED BY <1>1 DEF OfficeStep

LEMMA SameOffice ==
  ASSUME UNCHANGED <<role, current_term, elected>> PROVE OfficeStep
  BY DEF OfficeStep, Same

LEMMA StartElectionOffice ==
  ASSUME TypeOK, Offices, NEW i \in Server, start_election(i) PROVE OfficeStep
<1> DEFINE t == current_term[i] + 1
<1>1. t \in Nat /\ t >= 1 /\ current_term[i] \in Nat /\ t > current_term[i]
  BY DEF TypeOK
<1>2. /\ current_term' = [current_term EXCEPT ![i] = t] /\ UNCHANGED <<log, ae>>
  BY DEF start_election, logs
<1>3. current_term'[i] = t /\ \A j \in Server \ {i} : current_term'[j] = current_term[j]
  BY <1>2 DEF TypeOK
<1>4. <<t, i>> \notin elected
  <2>1. <<t, i>> \in elected => t <= current_term[i]
    BY <1>1, Zenon DEF Offices
  <2> QED BY <1>1, <2>1
<1> HIDE DEF t
<1>5. CASE become_leader_locked(i, t)
  <2>1. role'[i] = "leader" /\ \A j \in Server \ {i} : role'[j] = role[j]
    BY <1>5 DEF TypeOK, become_leader_locked
  <2>2. elected' = elected \cup {<<t, i>>}
    BY <1>5 DEF become_leader_locked
  <2>3. Wins(i)
    BY <1>1, <1>3, <1>4, <2>1, <2>2 DEF Wins
  <2>4. \A j \in Server \ {i} : Same(j)
    BY <1>3, <2>1 DEF Same
  <2> QED BY <1>2, <2>3, <2>4 DEF OfficeStep
<1>6. CASE role' = [role EXCEPT ![i] = "candidate"] /\ UNCHANGED elected
  <2>1. role'[i] = "candidate" /\ \A j \in Server \ {i} : role'[j] = role[j]
    BY <1>6 DEF TypeOK
  <2> QED BY <1>3, <1>6, <2>1 DEF OfficeStep, Stands, Same, t
<1> QED BY <1>5, <1>6 DEF start_election, t

LEMMA RequestVoteOffice ==
  ASSUME TypeOK, NEW m \in rv, handle_request_vote(m) PROVE OfficeStep
<1>1. m.to \in Server /\ m.term \in Nat
  BY DEF TypeOK, RequestVote
<1>2. elected' = elected
  BY DEF handle_request_vote
<1>3. become_follower_locked(m.to, m.term, Nil) \/ UNCHANGED <<role, current_term>>
  BY DEF handle_request_vote
<1> QED BY <1>1, <1>2, <1>3, FollowOffice, SameOffice

LEMMA RequestVoteResponseOffice ==
  ASSUME TypeOK, Offices, NEW m \in rvr, handle_request_vote_response(m) PROVE OfficeStep
<1> DEFINE i == m.to
<1>1. i \in Server /\ m.term \in Nat /\ current_term[i] \in Nat
  BY DEF TypeOK, VoteResponse
<1>2. CASE become_follower_locked(i, m.term, Nil) /\ UNCHANGED elected
  BY <1>1, <1>2, FollowOffice
<1>3. CASE UNCHANGED <<role, current_term, elected>>
  BY <1>3, SameOffice
<1>4. CASE IsVote(i, m) /\ become_leader_locked(i, m.term) /\ UNCHANGED current_term
  <2>1. role[i] = "candidate" /\ m.term = current_term[i]
    BY <1>4 DEF IsVote
  <2>2. <<m.term, i>> \notin elected /\ m.term >= 1
    BY <1>1, <2>1 DEF Offices
  <2>3. role'[i] = "leader" /\ \A j \in Server \ {i} : role'[j] = role[j]
    BY <1>1, <1>4 DEF TypeOK, become_leader_locked
  <2>4. elected' = elected \cup {<<m.term, i>>} /\ current_term' = current_term
    BY <1>4 DEF become_leader_locked
  <2>5. UNCHANGED <<log, ae>>
    BY DEF handle_request_vote_response, logs
  <2> QED BY <1>1, <2>1, <2>2, <2>3, <2>4, <2>5 DEF OfficeStep, Wins, Same
<1> QED BY <1>2, <1>3, <1>4 DEF handle_request_vote_response

LEMMA AppendEntriesOffice ==
  ASSUME TypeOK, NEW m \in BagToSet(ae), handle_append_entries(m)
  PROVE  /\ OfficeStep /\ elected' = elected
         /\ IF m.term >= current_term[m.to] THEN Follows(m.to) /\ current_term'[m.to] = m.term
            ELSE UNCHANGED <<role, current_term>>
         /\ \A j \in Server \ {m.to} : Same(j)
<1>1. m.to \in Server /\ m.term \in Nat /\ current_term[m.to] \in Nat /\ elected' = elected
  BY DEF TypeOK, AppendEntries, handle_append_entries, history
<1>2. CASE m.term >= current_term[m.to]
  <2>1. become_follower_locked(m.to, m.term, m.from)
    BY <1>2 DEF handle_append_entries
  <2>2. current_term'[m.to] = m.term /\ \A j \in Server \ {m.to} : Same(j)
    BY <1>1, <1>2, <2>1 DEF TypeOK, become_follower_locked, Same
  <2> QED BY <1>1, <1>2, <2>1, <2>2, FollowOffice
<1>3. CASE ~(m.term >= current_term[m.to])
  <2>1. UNCHANGED <<role, current_term>>
    BY <1>3 DEF handle_append_entries
  <2> QED BY <1>1, <1>3, <2>1, SameOffice DEF Same
<1> QED BY <1>2, <1>3

LEMMA AppendResponseOffice ==
  ASSUME TypeOK, NEW m \in BagToSet(aer), handle_append_response(m) PROVE OfficeStep
<1>1. m.to \in Server /\ m.term \in Nat /\ elected' = elected
  BY DEF TypeOK, AppendResponse, handle_append_response, history
<1>2. become_follower_locked(m.to, m.term, Nil) \/ UNCHANGED <<role, current_term>>
  BY DEF handle_append_response, votes
<1> QED BY <1>1, <1>2, FollowOffice, SameOffice

\* Every step of the program is one of those for the offices.
LEMMA NextOffice == ASSUME TypeOK, Offices, [Next]_vars PROVE OfficeStep
<1>1. ASSUME NEW i \in Server, ticker_loop(i) PROVE OfficeStep
  <2>1. CASE start_election(i)
    BY <2>1, StartElectionOffice
  <2>2. CASE ticker_timeout(i) \/ ticker_heartbeat(i)
    BY <2>2, SameOffice DEF ticker_timeout, ticker_heartbeat, votes, history
  <2> QED BY <1>1, <2>1, <2>2 DEF ticker_loop
<1>2. CASE raft_handle_line
  <2>1. ASSUME NEW m \in BagToSet(cl), handle_client_forward(m) PROVE OfficeStep
    BY <2>1, SameOffice DEF handle_client_forward, votes, history
  <2> QED
    BY <1>2, <2>1, RequestVoteOffice, RequestVoteResponseOffice, AppendEntriesOffice,
       AppendResponseOffice DEF raft_handle_line
<1>3. ASSUME NEW i \in Server, NEW th \in Thread, NEW j \in Server, send_append_to_peer(i, th, j)
      PROVE  OfficeStep
  BY <1>3, SameOffice DEF send_append_to_peer, votes, history
<1>4. ASSUME NEW i \in Server, NEW c \in Command, raft_submit_command(i, c) PROVE OfficeStep
  BY <1>4, SameOffice DEF raft_submit_command, votes, history
<1>5. CASE lose
  BY <1>5, SameOffice DEF lose, votes, history
<1>6. CASE UNCHANGED vars
  BY <1>6, SameOffice DEF vars, votes, history
<1> QED BY <1>1, <1>2, <1>3, <1>4, <1>5, <1>6 DEF Next

(***************************************************************************)
(* Links.                                                                  *)
(***************************************************************************)

NoNewLinks == \A n, t, p \in Nat : Link(n, t, p)' => Link(n, t, p)

Extends(l, k) == Len(l) <= Len(k) /\ \A n \in 1 .. Len(l) : k[n] = l[n]

LeadersKeep == \A i \in Server : role[i] = "leader" /\ role'[i] = "leader" => Extends(log[i], log'[i])

LEMMA TermsGrow ==
  ASSUME TypeOK, TypeOK', OfficeStep
  PROVE  \A i \in Server : /\ current_term[i] \in Nat /\ current_term'[i] \in Nat
                           /\ current_term'[i] >= current_term[i]
<1>1. \A i \in Server : current_term[i] \in Nat /\ current_term'[i] \in Nat
  BY DEF TypeOK
<1>2. \A i \in Server : Same(i) \/ Follows(i) \/ Stands(i) \/ Wins(i)
  BY DEF OfficeStep
<1>3. \A i \in Server : \/ current_term'[i] = current_term[i]
                         \/ current_term'[i] >= current_term[i]
                         \/ current_term'[i] = current_term[i] + 1
  BY <1>2, Zenon DEF Same, Follows, Stands, Wins
<1> QED BY <1>1, <1>3

\* A step that brings no link, whoever wins or loses office in it.
LEMMA OldLinks ==
  ASSUME TypeOK, TypeOK', OneLink, LinksAscend, LinksElected, LeaderHasLinks, Offices,
         ElectionSafety', OfficeStep, NoNewLinks, LeadersKeep
  PROVE  OneLink' /\ LinksAscend' /\ LinksElected' /\ LeaderHasLinks'
<1>1. OneLink' /\ LinksAscend'
  BY DEF OneLink, LinksAscend, NoNewLinks
<1>2. LinksElected'
  <2>1. elected \subseteq elected'
    BY DEF OfficeStep, Wins
  <2> SUFFICES ASSUME NEW n \in Nat, NEW t \in Nat, NEW p \in Nat, Link(n, t, p)'
               PROVE  \E l \in Server : <<t, l>> \in elected'
    BY DEF LinksElected
  <2>2. Link(n, t, p)
    BY DEF NoNewLinks
  <2>3. PICK l \in Server : <<t, l>> \in elected
    BY <2>2 DEF LinksElected
  <2> QED BY <2>1, <2>3
<1>3. LeaderHasLinks'
  <2> SUFFICES ASSUME NEW i \in Server, NEW n \in Nat, NEW t \in Nat, NEW p \in Nat,
                      role'[i] = "leader", current_term'[i] = t, Link(n, t, p)'
               PROVE  Has(log'[i], n, t)
    BY DEF LeaderHasLinks
  <2>2. Link(n, t, p)
    BY DEF NoNewLinks
  <2>3. CASE Same(i)
    <3>1. role[i] = "leader" /\ current_term[i] = t
      BY <2>3 DEF Same
    <3>2. Has(log[i], n, t)
      BY <2>2, <3>1 DEF LeaderHasLinks
    <3>3. Extends(log[i], log'[i])
      BY <3>1 DEF LeadersKeep
    <3>4. Len(log[i]) \in Nat /\ Len(log'[i]) \in Nat
      BY DEF TypeOK
    <3> QED BY <3>2, <3>3, <3>4 DEF Has, Extends
  <2>4. CASE Wins(i)
    <3>1. PICK l \in Server : <<t, l>> \in elected
      BY <2>2 DEF LinksElected
    <3>2. <<t, l>> \in elected' /\ <<t, i>> \in elected'
      BY <2>4, <3>1 DEF Wins
    <3>3. l = i
      <4> DEFINE a == <<t, l>>  b == <<t, i>>
      <4>1. a[1] = b[1] => a[2] = b[2]
        BY <3>2 DEF ElectionSafety
      <4> QED BY <4>1
    <3> QED BY <2>4, <3>1, <3>3 DEF Wins
  <2>5. Same(i) \/ Wins(i)
    BY DEF OfficeStep, Follows, Stands
  <2> QED BY <2>3, <2>4, <2>5
<1> QED BY <1>1, <1>2, <1>3

\* A step that leaves the logs alone and sends no AE line.
LEMMA QuietStep ==
  ASSUME TypeOK, TypeOK', LinkInv, ElectionSafety', OfficeStep,
         log' = log, BagToSet(ae') \subseteq BagToSet(ae)
  PROVE  LinkInv'
<1>1. NoNewLinks
  BY DEF NoNewLinks, Link
<1>2. LeadersKeep
  BY DEF LeadersKeep, Extends, TypeOK
<1>3. OneLink' /\ LinksAscend' /\ LinksElected' /\ LeaderHasLinks' /\ Offices'
  BY <1>1, <1>2, OldLinks, OfficesKept DEF LinkInv
<1>4. TermsKnown'
  <2>1. \A i \in Server : \A n \in 1 .. Len(log'[i]) : log'[i][n].term <= current_term'[i]
    <3> SUFFICES ASSUME NEW i \in Server, NEW n \in 1 .. Len(log[i])
                 PROVE  log[i][n].term <= current_term'[i]
      OBVIOUS
    <3>1. log[i][n] \in Entry
      BY DEF TypeOK
    <3>2. log[i][n].term \in Nat /\ log[i][n].term <= current_term[i]
      BY <3>1 DEF LinkInv, TermsKnown, Entry
    <3> QED BY <3>2, TermsGrow
  <2> QED BY <2>1 DEF LinkInv, TermsKnown
<1>5. LogMatching'
  BY DEF LinkInv, LogMatching
<1> QED BY <1>3, <1>4, <1>5 DEF LinkInv

(***************************************************************************)
(* Sending.                                                                *)
(***************************************************************************)

\* What build_append_locked sends is a link of the sender's log, if it is one.
LEMMA SentLink ==
  ASSUME TypeOK, TermsKnown, NEW i \in Server, NEW j \in Server
  PROVE  LET m == build_append_locked(i, j)
         IN  /\ \A n, t, p \in Nat : InLine(m, n, t, p) => InLog(log[i], n, t, p)
             /\ m.prev_index = 0 => m.prev_term = 0
             /\ m.entry # <<>> => m.entry[1].term <= m.term
<1> DEFINE k == next_index[i][j]
           prev == IF k <= Len(log[i]) THEN k - 1 ELSE Len(log[i])
           sent == IF k <= Len(log[i])
                   THEN <<[log[i][k] EXCEPT !.cmd = OnWire(@)]>> ELSE <<>>
           m == build_append_locked(i, j)
<1>1. k \in Nat \ {0} /\ log[i] \in Seq(Entry) /\ Len(log[i]) \in Nat
  BY DEF TypeOK
<1>2. /\ m.prev_index = prev /\ m.prev_term = TermAt(log[i], prev)
      /\ m.entry = sent /\ m.term = current_term[i]
  BY DEF build_append_locked
<1>3. ASSUME sent # <<>>
      PROVE  k \in 1 .. Len(log[i]) /\ prev = k - 1 /\ sent[1].term = log[i][k].term
  <2>1. k \in 1 .. Len(log[i]) /\ prev = k - 1
    BY <1>1, <1>3
  <2>2. log[i][k] \in Entry
    BY <1>1, <2>1
  <2>3. sent[1] = [log[i][k] EXCEPT !.cmd = OnWire(@)]
    BY <2>1
  <2>4. [log[i][k] EXCEPT !.cmd = OnWire(@)].term = log[i][k].term
    BY <2>2 DEF Entry
  <2> QED BY <2>1, <2>3, <2>4
<1>4. prev = 0 => TermAt(log[i], prev) = 0
  BY DEF TermAt
<1> HIDE DEF sent, prev, m
<1>5. m.entry # <<>> => m.entry[1].term <= m.term
  BY <1>2, <1>3 DEF TermsKnown
<1>6. ASSUME NEW n \in Nat, NEW t \in Nat, NEW p \in Nat, InLine(m, n, t, p)
      PROVE  InLog(log[i], n, t, p)
  <2>1. sent # <<>> /\ n = prev + 1 /\ sent[1].term = t /\ TermAt(log[i], prev) = p
    BY <1>2, <1>6 DEF InLine
  <2>2. n = k /\ n - 1 = prev
    BY <1>1, <1>3, <2>1
  <2> QED BY <1>3, <2>1, <2>2 DEF InLog
<1> QED BY <1>2, <1>4, <1>5, <1>6 DEF m

LEMMA SendAppendLinks ==
  ASSUME TypeOK, TypeOK', LinkInv, ElectionSafety', NEW i \in Server, NEW th \in Thread,
         NEW j \in Server, send_append_to_peer(i, th, j)
  PROVE  LinkInv'
<1>1. /\ UNCHANGED <<role, current_term, elected, log>>
      /\ BagToSet(ae') = BagToSet(ae) \cup {build_append_locked(i, j)}
  BY AddLine DEF send_append_to_peer, votes, logs, history
<1>2. OfficeStep
  BY <1>1, SameOffice
<1>3. TermsKnown
  BY DEF LinkInv
<1>4. NoNewLinks
  BY <1>1, <1>3, SentLink DEF NoNewLinks, Link
<1>5. LeadersKeep
  BY <1>1 DEF LeadersKeep, Extends, TypeOK
<1>6. OneLink' /\ LinksAscend' /\ LinksElected' /\ LeaderHasLinks' /\ Offices'
  BY <1>2, <1>4, <1>5, OldLinks, OfficesKept DEF LinkInv
<1>7. TermsKnown'
  BY <1>1, <1>3, SentLink DEF TermsKnown
<1>8. LogMatching'
  BY <1>1 DEF LinkInv, LogMatching
<1> QED BY <1>6, <1>7, <1>8 DEF LinkInv

(***************************************************************************)
(* Storing.                                                                *)
(***************************************************************************)

\* What storing entry e at n leaves of log l: nothing but e at n is new, and
\* nothing is behind it then.
LEMMA StoredShape ==
  ASSUME NEW l \in Seq(Entry), NEW n \in Nat \ {0}, NEW e \in Entry
  PROVE  LET s == Stored(l, n, e) IN
         \/ s = l
         \/ /\ n - 1 <= Len(l) /\ Len(s) \in {n - 1, n}
            /\ \A k \in 1 .. n - 1 : s[k] = l[k]
            /\ Len(s) = n => s[n] = e
<1> DEFINE cut == SubSeq(l, 1, n - 1)
           conflict == n <= Len(l) /\ TermAt(l, n) # e.term
           kept == IF conflict THEN cut ELSE l
<1>1. Len(l) \in Nat
  OBVIOUS
<1>2. conflict => /\ cut \in Seq(Entry) /\ Len(cut) = n - 1 /\ n - 1 <= Len(l)
                  /\ \A k \in 1 .. n - 1 : cut[k] = l[k]
  OBVIOUS
<1>3. Stored(l, n, e) = IF n = Len(kept) + 1 /\ Len(kept) < RAFT_MAX_LOG
                        THEN Append(kept, e) ELSE kept
  BY Zenon DEF Stored
<1>4. CASE conflict
  <2>1. kept = cut
    BY <1>4
  <2> HIDE DEF cut, conflict, kept
  <2>2. CASE Stored(l, n, e) = cut
    BY <1>2, <1>4, <2>2
  <2>3. CASE Stored(l, n, e) = Append(cut, e)
    BY <1>2, <1>4, <2>3
  <2> QED BY <1>3, <2>1, <2>2, <2>3
<1>5. CASE ~conflict
  <2>1. kept = l
    BY <1>5
  <2> HIDE DEF cut, conflict, kept
  <2>2. CASE n = Len(l) + 1 /\ Stored(l, n, e) = Append(l, e)
    BY <1>1, <2>2
  <2> QED BY <1>3, <2>1, <2>2
<1> QED BY <1>4, <1>5

\* The links of a log in which an AE line was stored are its old ones and
\* the line's.
LEMMA StoredLinks ==
  ASSUME NEW l \in Seq(Entry), NEW m \in AppendEntries, m.entry # <<>>, Consistent(l, m),
         m.prev_index = 0 => m.prev_term = 0,
         NEW n \in Nat, NEW t \in Nat, NEW p \in Nat,
         InLog(Stored(l, m.prev_index + 1, m.entry[1]), n, t, p)
  PROVE  InLog(l, n, t, p) \/ InLine(m, n, t, p)
<1> DEFINE prev == m.prev_index  e == m.entry[1]  s == Stored(l, prev + 1, e)
<1>1. prev \in Nat /\ e \in Entry /\ Len(l) \in Nat
  BY DEF AppendEntries
<1>2. TermAt(l, prev) = m.prev_term
  BY DEF Consistent, TermAt
<1>3. prev + 1 \in Nat \ {0} /\ (prev + 1) - 1 = prev
  BY <1>1
<1>4. s \in Seq(Entry)
  BY <1>1, <1>3, StoredType
<1>5. \/ s = l
      \/ /\ prev <= Len(l) /\ Len(s) \in {prev, prev + 1}
         /\ \A k \in 1 .. prev : s[k] = l[k]
         /\ Len(s) = prev + 1 => s[prev + 1] = e
  <2> HIDE DEF prev, e
  <2> QED BY <1>1, <1>3, StoredShape DEF s
<1>6. InLog(s, n, t, p)
  OBVIOUS
<1> HIDE DEF prev, e, s
<1>7. CASE s = l
  BY <1>6, <1>7
<1>8. CASE /\ prev <= Len(l) /\ Len(s) \in {prev, prev + 1}
           /\ \A k \in 1 .. prev : s[k] = l[k]
           /\ Len(s) = prev + 1 => s[prev + 1] = e
  <2>1. n \in 1 .. Len(s) /\ s[n].term = t /\ TermAt(s, n - 1) = p
    BY <1>6 DEF InLog
  <2>2. TermAt(s, n - 1) = TermAt(l, n - 1)
    BY <1>1, <1>8, <2>1 DEF TermAt
  <2>3. CASE n <= prev
    BY <1>1, <1>8, <2>1, <2>2, <2>3 DEF InLog
  <2>4. CASE n = prev + 1
    <3>1. s[n] = e /\ n - 1 = prev
      BY <1>1, <1>8, <2>1, <2>4
    <3> QED BY <1>2, <2>1, <2>2, <2>4, <3>1 DEF InLine, prev, e
  <2> QED BY <1>1, <1>8, <2>1, <2>3, <2>4
<1> QED BY <1>5, <1>7, <1>8

\* Log s is what log l was, up to where it was cut, and one entry at most.
Near(l, s) ==
    \E c \in 0 .. Len(l) : Len(s) \in {c, c + 1} /\ \A k \in 1 .. c : s[k] = l[k]

LEMMA NearItself == ASSUME NEW l, Len(l) \in Nat PROVE Near(l, l)
  BY DEF Near

LEMMA LinksOfLogs ==
  ASSUME OneLink', NEW i \in Server, NEW j \in Server, NEW n \in Nat
  PROVE  \A t, p, q \in Nat : InLog(log'[i], n, t, p) /\ InLog(log'[j], n, t, q) => p = q
<1>1. \A t, p \in Nat : /\ InLog(log'[i], n, t, p) => Link(n, t, p)'
                        /\ InLog(log'[j], n, t, p) => Link(n, t, p)'
  BY DEF Link, InLog, TermAt
<1> QED BY <1>1 DEF OneLink

LEMMA LogsStillMatch ==
  ASSUME TypeOK, TypeOK', LogMatching, OneLink', \A i \in Server : Near(log[i], log'[i])
  PROVE  LogMatching'
<1> SUFFICES ASSUME NEW i \in Server, NEW j \in Server,
                    NEW n \in 1 .. Smaller(Len(log'[i]), Len(log'[j])),
                    log'[i][n].term = log'[j][n].term, NEW k \in 1 .. n
             PROVE  log'[i][k].term = log'[j][k].term
  BY DEF LogMatching
<1>1. PICK c \in 0 .. Len(log[i]) :
         Len(log'[i]) \in {c, c + 1} /\ \A h \in 1 .. c : log'[i][h] = log[i][h]
  BY DEF Near
<1>2. PICK d \in 0 .. Len(log[j]) :
         Len(log'[j]) \in {d, d + 1} /\ \A h \in 1 .. d : log'[j][h] = log[j][h]
  BY DEF Near
<1>3. /\ Len(log[i]) \in Nat /\ Len(log[j]) \in Nat /\ Len(log'[i]) \in Nat /\ Len(log'[j]) \in Nat
      /\ log'[i] \in Seq(Entry) /\ log'[j] \in Seq(Entry)
  <2>1. /\ log[i] \in Seq(Entry) /\ log[j] \in Seq(Entry)
        /\ log'[i] \in Seq(Entry) /\ log'[j] \in Seq(Entry)
    BY DEF TypeOK
  <2> HIDE DEF Entry
  <2> QED BY <2>1
<1>4. n \in Nat /\ n >= 1 /\ n <= Len(log'[i]) /\ n <= Len(log'[j]) /\ n <= c + 1 /\ n <= d + 1
  BY <1>1, <1>2, <1>3 DEF Smaller
\* Where both logs are as they were.
<1>5. ASSUME NEW h \in Nat, h >= 1, h <= c, h <= d, log[i][h].term = log[j][h].term, NEW g \in 1 .. h
      PROVE  log'[i][g].term = log'[j][g].term
  <2>1. h \in 1 .. Smaller(Len(log[i]), Len(log[j]))
    BY <1>1, <1>2, <1>3, <1>5 DEF Smaller
  <2>2. log[i][g].term = log[j][g].term
    BY <1>5, <2>1 DEF LogMatching
  <2>3. g \in 1 .. c /\ g \in 1 .. d
    BY <1>3, <1>5
  <2> QED BY <1>1, <1>2, <2>2, <2>3
<1>6. CASE n <= c /\ n <= d
  <2>1. n \in 1 .. c /\ n \in 1 .. d
    BY <1>4, <1>6
  <2>2. log'[i][n] = log[i][n] /\ log'[j][n] = log[j][n]
    BY <1>1, <1>2, <2>1
  <2>3. log[i][n].term = log[j][n].term
    BY <2>2
  <2> QED BY <1>4, <1>5, <1>6, <2>3
<1>7. CASE ~(n <= c /\ n <= d)
  <2> DEFINE t == log'[i][n].term  p == TermAt(log'[i], n - 1)  q == TermAt(log'[j], n - 1)
  <2>1. n - 1 \in 0 .. Len(log'[i]) /\ n - 1 \in 0 .. Len(log'[j])
    BY <1>3, <1>4
  <2>2. p \in Nat /\ q \in Nat
    BY <1>3, <2>1, TermAtType
  <2>3. t \in Nat
    <3>1. log'[i][n] \in Entry
      BY <1>3, <1>4
    <3> QED BY <3>1 DEF Entry
  <2>4. InLog(log'[i], n, t, p) /\ InLog(log'[j], n, t, q)
    BY <1>3, <1>4 DEF InLog
  <2>6. p = q
    <3> HIDE DEF t, p, q
    <3>1. \A t1, p1, q1 \in Nat :
            InLog(log'[i], n, t1, p1) /\ InLog(log'[j], n, t1, q1) => p1 = q1
      BY <1>4, LinksOfLogs
    <3> QED BY <2>2, <2>3, <2>4, <3>1
  <2>7. CASE k = n
    BY <2>7
  <2>8. CASE k # n
    <3>1. k \in 1 .. n - 1 /\ n - 1 \in Nat /\ n - 1 >= 1 /\ n - 1 <= c /\ n - 1 <= d
      BY <1>4, <2>8
    <3>2. log'[i][n - 1].term = log'[j][n - 1].term
      BY <2>6, <3>1 DEF TermAt
    <3>3. log'[i][n - 1] = log[i][n - 1] /\ log'[j][n - 1] = log[j][n - 1]
      <4>1. n - 1 \in 1 .. c /\ n - 1 \in 1 .. d
        BY <3>1, <1>3
      <4> HIDE DEF t, p, q
      <4> QED BY <1>1, <1>2, <4>1
    <3>4. log[i][n - 1].term = log[j][n - 1].term
      BY <3>2, <3>3
    <3> QED BY <1>5, <3>1, <3>4
  <2> QED BY <2>7, <2>8
<1> QED BY <1>6, <1>7

LEMMA AppendEntriesLinks ==
  ASSUME TypeInv, TypeInv', LinkInv, ElectionSafety', NEW m \in BagToSet(ae),
         handle_append_entries(m)
  PROVE  LinkInv' /\ LeadersKeep
<1> DEFINE i == m.to
           success == m.term >= current_term[i] /\ Consistent(log[i], m)
           s == Stored(log[i], m.prev_index + 1, m.entry[1])
           new == IF success /\ m.entry # <<>> THEN s ELSE log[i]
<1>1. TypeOK /\ TypeOK' /\ m \in AppendEntries
  BY DEF TypeInv, TypeOK
<1>2. /\ i \in Server /\ m.prev_index \in Nat /\ m.entry \in Seq(Entry) /\ m.term \in Nat
      /\ log[i] \in Seq(Entry) /\ current_term[i] \in Nat
  BY <1>1 DEF AppendEntries, TypeOK
<1>3. log' = [log EXCEPT ![i] = new] /\ BagToSet(ae') \subseteq BagToSet(ae)
  BY RemoveLine DEF handle_append_entries
<1>4. log'[i] = new /\ \A j \in Server \ {i} : log'[j] = log[j]
  BY <1>1, <1>2, <1>3 DEF TypeOK
<1>5. /\ OfficeStep /\ elected' = elected /\ \A j \in Server \ {i} : Same(j)
      /\ m.term >= current_term[i] => role'[i] = "follower" /\ current_term'[i] = m.term
  BY <1>1, AppendEntriesOffice DEF Follows
<1>6. /\ m.prev_index = 0 => m.prev_term = 0
      /\ m.entry # <<>> => m.entry[1].term <= m.term
  BY DEF LinkInv, TermsKnown
<1>7. \A n, t, p \in Nat : InLog(new, n, t, p) =>
         InLog(log[i], n, t, p) \/ (m.term >= current_term[i] /\ InLine(m, n, t, p))
  <2>1. CASE success /\ m.entry # <<>>
    <3>1. new = Stored(log[i], m.prev_index + 1, m.entry[1]) /\ Consistent(log[i], m)
      BY <2>1
    <3> HIDE DEF s, new
    <3> QED BY <1>1, <1>2, <1>6, <2>1, <3>1, StoredLinks
  <2>2. CASE ~(success /\ m.entry # <<>>)
    <3>1. new = log[i]
      BY <2>2
    <3> HIDE DEF new
    <3> QED BY <3>1
  <2> QED BY <2>1, <2>2
<1>8. Near(log[i], new)
  <2>1. CASE new = log[i]
    BY <1>2, <2>1 DEF Near
  <2>2. CASE m.entry # <<>> /\ new = s
    <3>1. m.prev_index + 1 \in Nat \ {0} /\ m.entry[1] \in Entry
          /\ (m.prev_index + 1) - 1 = m.prev_index
      BY <1>2, <2>2
    <3>2. \/ s = log[i]
          \/ /\ m.prev_index <= Len(log[i]) /\ Len(s) \in {m.prev_index, m.prev_index + 1}
             /\ \A k \in 1 .. m.prev_index : s[k] = log[i][k]
      BY <1>2, <3>1, StoredShape
    <3> HIDE DEF s, new
    <3>3. m.prev_index <= Len(log[i]) => m.prev_index \in 0 .. Len(log[i])
      BY <1>2
    <3> QED BY <2>1, <2>2, <3>2, <3>3 DEF Near
  <2> QED BY <2>1, <2>2
<1>9. ~(m.term >= current_term[i]) => new = log[i]
  OBVIOUS
<1> HIDE DEF new, i
<1>10. NoNewLinks
  <2> SUFFICES ASSUME NEW n \in Nat, NEW t \in Nat, NEW p \in Nat, Link(n, t, p)'
               PROVE  Link(n, t, p)
    BY DEF NoNewLinks
  <2>1. CASE \E x \in BagToSet(ae') : InLine(x, n, t, p)
    BY <1>3, <2>1 DEF Link
  <2>2. ASSUME NEW j \in Server, InLog(log'[j], n, t, p) PROVE Link(n, t, p)
    <3>1. CASE j = i
      BY <1>4, <1>7, <2>2, <3>1 DEF Link
    <3>2. CASE j # i
      BY <1>4, <2>2, <3>2 DEF Link
    <3> QED BY <3>1, <3>2
  <2>3. (\E j \in Server : InLog(log'[j], n, t, p)) \/ \E x \in BagToSet(ae') : InLine(x, n, t, p)
    BY DEF Link, InLog, InLine, TermAt
  <2> QED BY <2>1, <2>2, <2>3
<1>11. LeadersKeep
  <2>1. \A j \in Server : role'[j] = "leader" => log'[j] = log[j]
    BY <1>4, <1>5, <1>9
  <2>2. \A j \in Server : Len(log[j]) \in Nat
    BY <1>1 DEF TypeOK
  <2> QED BY <2>1, <2>2 DEF LeadersKeep, Extends
<1>12. OneLink' /\ LinksAscend' /\ LinksElected' /\ LeaderHasLinks' /\ Offices'
  BY <1>1, <1>5, <1>10, <1>11, OldLinks, OfficesKept DEF LinkInv
<1>13. TermsKnown'
  <2>1. ASSUME NEW j \in Server, NEW n \in 1 .. Len(log'[j])
        PROVE  log'[j][n].term <= current_term'[j]
    <3>1. CASE j # i
      BY <1>4, <1>5, <3>1 DEF LinkInv, TermsKnown, Same
    <3>2. CASE j = i
      <4> DEFINE t == new[n].term  p == TermAt(new, n - 1)
      <4>1. new \in Seq(Entry) /\ n \in 1 .. Len(new)
        BY <1>1, <1>2, <1>4, <3>2 DEF TypeOK
      <4>2. n \in Nat /\ n - 1 \in 0 .. Len(new) /\ new[n] \in Entry
        BY <4>1
      <4>3. t \in Nat /\ p \in Nat
        BY <4>1, <4>2, TermAtType DEF Entry
      <4>4. InLog(new, n, t, p)
        BY <4>1 DEF InLog
      <4>5. CASE InLog(log[i], n, t, p)
        <5>1. t <= current_term[i]
          BY <1>2, <4>5 DEF InLog, LinkInv, TermsKnown
        <5>2. current_term[i] <= current_term'[i] /\ current_term'[i] \in Nat
          BY <1>1, <1>2, <1>5, TermsGrow
        <5> QED BY <1>2, <1>4, <3>2, <4>3, <5>1, <5>2
      <4>6. CASE m.term >= current_term[i] /\ InLine(m, n, t, p)
        BY <1>4, <1>5, <1>6, <3>2, <4>6 DEF InLine
      <4> QED BY <1>7, <4>2, <4>3, <4>4, <4>5, <4>6
    <3> QED BY <3>1, <3>2
  <2> QED BY <1>3, <2>1 DEF LinkInv, TermsKnown
<1>14. \A j \in Server : Near(log[j], log'[j])
  <2>1. \A j \in Server : Len(log[j]) \in Nat
    BY <1>1 DEF TypeOK
  <2>2. \A j \in Server \ {i} : Near(log[j], log'[j])
    BY <1>4, <2>1 DEF Near
  <2> QED BY <1>4, <1>8, <2>2
<1>15. LogMatching'
  BY <1>1, <1>12, <1>14, LogsStillMatch DEF LinkInv
<1> QED BY <1>11, <1>12, <1>13, <1>15 DEF LinkInv

(***************************************************************************)
(* Writing.                                                                *)
(***************************************************************************)

\* A leader appends: the only step that makes a link.
LEMMA LeaderAppends ==
  ASSUME TypeOK, TypeOK', LinkInv, ElectionSafety, NEW i \in Server, role[i] = "leader",
         NEW e \in Entry, e.term = current_term[i],
         log' = [log EXCEPT ![i] = Append(log[i], e)],
         UNCHANGED <<role, current_term, elected, ae>>
  PROVE  LinkInv' /\ LeadersKeep
<1> DEFINE new == Append(log[i], e)  len == Len(log[i])  last == LastTerm(log[i])
<1>1. /\ log[i] \in Seq(Entry) /\ len \in Nat /\ current_term[i] \in Nat /\ last \in Nat
      /\ new \in Seq(Entry) /\ Len(new) = len + 1 /\ new[len + 1] = e
      /\ \A k \in 1 .. len : new[k] = log[i][k]
  BY LastTermType DEF TypeOK
<1>2. log'[i] = new /\ \A j \in Server \ {i} : log'[j] = log[j]
  BY DEF TypeOK
<1>3. <<current_term[i], i>> \in elected
  BY DEF LinkInv, Offices
<1> HIDE DEF new, len, last
<1>4. ASSUME NEW n \in Nat, NEW t \in Nat, NEW p \in Nat, InLog(new, n, t, p)
      PROVE  InLog(log[i], n, t, p) \/ (n = len + 1 /\ t = current_term[i] /\ p = last)
  <2>1. n \in 1 .. len + 1 /\ new[n].term = t /\ TermAt(new, n - 1) = p
    BY <1>1, <1>4 DEF InLog
  <2>2. TermAt(new, n - 1) = TermAt(log[i], n - 1)
    BY <1>1, <2>1 DEF TermAt
  <2>3. CASE n <= len
    BY <1>1, <2>1, <2>2, <2>3 DEF InLog, len
  <2>4. CASE n = len + 1
    BY <1>1, <2>1, <2>2, <2>4 DEF LastTerm, last, len
  <2> QED BY <1>1, <2>1, <2>3, <2>4
<1>5. ASSUME NEW n \in Nat, NEW t \in Nat, NEW p \in Nat, Link(n, t, p)'
      PROVE  Link(n, t, p) \/ (n = len + 1 /\ t = current_term[i] /\ p = last)
  <2>1. (\E j \in Server : InLog(log'[j], n, t, p)) \/ \E x \in BagToSet(ae) : InLine(x, n, t, p)
    BY <1>5 DEF Link, InLog, InLine, TermAt
  <2>2. ASSUME NEW j \in Server, InLog(log'[j], n, t, p)
        PROVE  Link(n, t, p) \/ (n = len + 1 /\ t = current_term[i] /\ p = last)
    <3>1. CASE j = i
      BY <1>2, <1>4, <2>2, <3>1 DEF Link
    <3>2. CASE j # i
      BY <1>2, <2>2, <3>2 DEF Link
    <3> QED BY <3>1, <3>2
  <2> QED BY <2>1, <2>2 DEF Link
\* Nobody else has the link that is new.
<1>6. \A p \in Nat : ~Link(len + 1, current_term[i], p)
  <2> SUFFICES ASSUME NEW p \in Nat, Link(len + 1, current_term[i], p) PROVE FALSE
    OBVIOUS
  <2>1. Has(log[i], len + 1, current_term[i])
    BY <1>1 DEF LinkInv, LeaderHasLinks
  <2> QED BY <1>1, <2>1 DEF Has, len
<1>7. OneLink'
  <2> SUFFICES ASSUME NEW n \in Nat, NEW t \in Nat, NEW p \in Nat, NEW q \in Nat,
                      Link(n, t, p)', Link(n, t, q)'
               PROVE  p = q
    BY DEF OneLink
  <2> QED BY <1>5, <1>6 DEF LinkInv, OneLink
<1>8. LinksAscend'
  <2>1. last <= current_term[i]
    <3>1. last = IF len = 0 THEN 0 ELSE log[i][len].term
      BY DEF last, len, LastTerm, TermAt
    <3>2. CASE len = 0
      BY <1>1, <3>1, <3>2
    <3>3. CASE len # 0
      <4>1. len \in 1 .. Len(log[i])
        BY <1>1, <3>3 DEF len
      <4>2. log[i][len].term <= current_term[i]
        BY <4>1 DEF LinkInv, TermsKnown
      <4> QED BY <3>1, <3>3, <4>2
    <3> QED BY <3>2, <3>3
  <2> SUFFICES ASSUME NEW n \in Nat, NEW t \in Nat, NEW p \in Nat, Link(n, t, p)' PROVE p <= t
    BY DEF LinksAscend
  <2> QED BY <1>5, <2>1 DEF LinkInv, LinksAscend
<1>9. LinksElected'
  <2> SUFFICES ASSUME NEW n \in Nat, NEW t \in Nat, NEW p \in Nat, Link(n, t, p)'
               PROVE  \E l \in Server : <<t, l>> \in elected
    BY DEF LinksElected
  <2> QED BY <1>3, <1>5 DEF LinkInv, LinksElected
<1>10. LeaderHasLinks'
  <2> SUFFICES ASSUME NEW j \in Server, NEW n \in Nat, NEW t \in Nat, NEW p \in Nat,
                      role[j] = "leader", current_term[j] = t, Link(n, t, p)'
               PROVE  Has(log'[j], n, t)
    BY DEF LeaderHasLinks
  <2>1. CASE Link(n, t, p)
    <3>1. Has(log[j], n, t)
      BY <2>1 DEF LinkInv, LeaderHasLinks
    <3>2. CASE j = i
      BY <1>1, <1>2, <3>1, <3>2 DEF Has, len
    <3>3. CASE j # i
      BY <1>2, <3>1, <3>3
    <3> QED BY <3>2, <3>3
  <2>2. CASE n = len + 1 /\ t = current_term[i]
    <3>1. <<current_term[j], j>> \in elected /\ current_term[j] = current_term[i]
      BY <2>2 DEF LinkInv, Offices
    <3>2. j = i
      <4> DEFINE a == <<current_term[j], j>>  b == <<current_term[i], i>>
      <4>1. a[1] = b[1] => a[2] = b[2]
        BY <1>3, <3>1 DEF ElectionSafety
      <4> QED BY <3>1, <4>1
    <3> QED BY <1>1, <1>2, <2>2, <3>2 DEF Has
  <2> QED BY <1>5, <2>1, <2>2
<1>11. Offices'
  BY DEF LinkInv, Offices
<1>12. TermsKnown'
  <2>1. ASSUME NEW j \in Server, NEW n \in 1 .. Len(log'[j]) PROVE log'[j][n].term <= current_term[j]
    <3>1. CASE j # i
      BY <1>2, <3>1 DEF LinkInv, TermsKnown
    <3>2. CASE j = i /\ n <= len
      BY <1>1, <1>2, <3>2 DEF LinkInv, TermsKnown, len
    <3>3. CASE j = i /\ n = len + 1
      BY <1>1, <1>2, <3>3
    <3> QED BY <1>1, <1>2, <3>1, <3>2, <3>3
  <2> QED BY <2>1 DEF LinkInv, TermsKnown
<1>13. LogMatching'
  <2>1. \A j \in Server : Len(log[j]) \in Nat
    BY DEF TypeOK
  <2>2. \A j \in Server \ {i} : Near(log[j], log'[j])
    BY <1>2, <2>1, NearItself
  <2>3. Near(log[i], log'[i])
    BY <1>1, <1>2 DEF Near, len
  <2> QED BY <1>7, <2>2, <2>3, LogsStillMatch DEF LinkInv
<1>14. LeadersKeep
  <2>1. \A j \in Server : Len(log[j]) \in Nat
    BY DEF TypeOK
  <2>2. Extends(log[i], log'[i])
    BY <1>1, <1>2 DEF Extends, len
  <2> QED BY <1>2, <2>1, <2>2 DEF LeadersKeep, Extends
<1> QED BY <1>7, <1>8, <1>9, <1>10, <1>11, <1>12, <1>13, <1>14 DEF LinkInv

LEMMA SubmitLinks ==
  ASSUME TypeOK, TypeOK', LinkInv, ElectionSafety, ElectionSafety', NEW i \in Server,
         NEW c \in Command, NEW pending, Submit(i, c, pending),
         UNCHANGED <<role, current_term, elected, ae>>
  PROVE  LinkInv' /\ LeadersKeep
<1> DEFINE e == [term |-> current_term[i], cmd |-> c]
<1>1. e \in Entry /\ e.term = current_term[i]
  BY DEF TypeOK, Entry
<1>2. OfficeStep
  BY SameOffice
<1>3. CASE log' = log
  <2>1. LeadersKeep
    BY <1>3 DEF LeadersKeep, Extends, TypeOK
  <2> QED BY <1>2, <1>3, <2>1, QuietStep
<1>4. CASE role[i] = "leader" /\ log' = [log EXCEPT ![i] = Append(log[i], e)]
  <2> HIDE DEF e
  <2> QED BY <1>1, <1>4, LeaderAppends
<1>5. CASE /\ role[i] = "leader"
           /\ log' = [log EXCEPT ![i] = append_entry_locked(log[i], current_term[i], c)]
  <2>1. CASE append_entry_locked(log[i], current_term[i], c) = log[i]
    BY <1>3, <1>5, <2>1 DEF TypeOK
  <2>2. CASE append_entry_locked(log[i], current_term[i], c) = Append(log[i], e)
    BY <1>4, <1>5, <2>2
  <2> QED BY <2>1, <2>2 DEF append_entry_locked
<1> QED BY <1>3, <1>5 DEF Submit, logs

(***************************************************************************)
(* Every step.                                                             *)
(***************************************************************************)

LEMMA LinkInit == NodeInit => LinkInv
<1> SUFFICES ASSUME NodeInit PROVE LinkInv
  OBVIOUS
<1>1. /\ \A i \in Server : log[i] = <<>> /\ role[i] = "follower"
      /\ elected = {} /\ BagToSet(ae) = {}
  BY NoLine DEF NodeInit
<1>2. \A n, t, p : ~Link(n, t, p)
  BY <1>1 DEF Link, InLog
<1>3. OneLink /\ LinksAscend /\ LinksElected /\ LeaderHasLinks
  BY <1>2 DEF OneLink, LinksAscend, LinksElected, LeaderHasLinks
<1>4. Offices
  BY <1>1 DEF Offices
<1>5. \A i \in Server : Len(log[i]) = 0 /\ 1 .. Len(log[i]) = {}
  BY <1>1
<1>6. TermsKnown
  BY <1>1, <1>5 DEF TermsKnown
<1>7. LogMatching
  <2>1. \A i, j \in Server : 1 .. Smaller(Len(log[i]), Len(log[j])) = {}
    BY <1>5 DEF Smaller
  <2> QED BY <2>1 DEF LogMatching
<1> QED BY <1>3, <1>4, <1>6, <1>7 DEF LinkInv

LEMMA LinkNext ==
  ASSUME TypeInv, TypeInv', LinkInv, ElectionSafety, ElectionSafety', [Next]_vars
  PROVE  LinkInv' /\ LeadersKeep
<1>1. TypeOK /\ TypeOK' /\ Offices
  BY DEF TypeInv, LinkInv
<1>2. ASSUME log' = log, BagToSet(ae') \subseteq BagToSet(ae)
      PROVE  LinkInv' /\ LeadersKeep
  <2>1. LeadersKeep
    BY <1>1, <1>2 DEF LeadersKeep, Extends, TypeOK
  <2> QED BY <1>1, <1>2, <2>1, NextOffice, QuietStep
<1>3. ASSUME NEW i \in Server, ticker_loop(i) PROVE LinkInv' /\ LeadersKeep
  <2>1. log' = log /\ ae' = ae
    BY <1>3 DEF ticker_loop, start_election, ticker_timeout, ticker_heartbeat, logs
  <2> QED BY <1>2, <2>1
<1>4. ASSUME NEW m \in rv, handle_request_vote(m) PROVE LinkInv' /\ LeadersKeep
  <2>1. log' = log /\ ae' = ae
    BY <1>4 DEF handle_request_vote, logs
  <2> QED BY <1>2, <2>1
<1>5. ASSUME NEW m \in rvr, handle_request_vote_response(m) PROVE LinkInv' /\ LeadersKeep
  <2>1. log' = log /\ ae' = ae
    BY <1>5 DEF handle_request_vote_response, logs
  <2> QED BY <1>2, <2>1
<1>6. ASSUME NEW m \in BagToSet(ae), handle_append_entries(m) PROVE LinkInv' /\ LeadersKeep
  BY <1>6, AppendEntriesLinks
<1>7. ASSUME NEW m \in BagToSet(aer), handle_append_response(m) PROVE LinkInv' /\ LeadersKeep
  <2>1. log' = log /\ ae' = ae
    BY <1>7 DEF handle_append_response, recompute_commit_locked, logs
  <2> QED BY <1>2, <2>1
<1>8. ASSUME NEW m \in BagToSet(cl), handle_client_forward(m) PROVE LinkInv' /\ LeadersKeep
  <2>1. UNCHANGED <<role, current_term, elected, ae>>
    BY <1>8 DEF handle_client_forward, votes, history
  <2>2. CASE UNCHANGED logs
    BY <1>2, <2>1, <2>2 DEF logs
  <2>3. CASE OnWire(m.cmd) \in Command /\ Submit(m.to, OnWire(m.cmd), cl (-) SetToBag({m}))
    <3>1. m.to \in Server
      BY <1>1 DEF TypeOK, ClientForward
    <3> QED BY <1>1, <2>1, <2>3, <3>1, SubmitLinks
  <2> QED BY <1>8, <2>2, <2>3 DEF handle_client_forward
<1>9. ASSUME NEW i \in Server, NEW c \in Command, raft_submit_command(i, c)
      PROVE  LinkInv' /\ LeadersKeep
  <2>1. UNCHANGED <<role, current_term, elected, ae>> /\ Submit(i, c, cl)
    BY <1>9 DEF raft_submit_command, votes, history
  <2> QED BY <1>1, <2>1, SubmitLinks
<1>10. ASSUME NEW i \in Server, NEW th \in Thread, NEW j \in Server, send_append_to_peer(i, th, j)
       PROVE  LinkInv' /\ LeadersKeep
  <2>1. log' = log
    BY <1>10 DEF send_append_to_peer, logs
  <2>2. LeadersKeep
    BY <1>1, <2>1 DEF LeadersKeep, Extends, TypeOK
  <2> QED BY <1>1, <1>10, <2>2, SendAppendLinks
<1>11. CASE lose
  <2>1. log' = log /\ BagToSet(ae') \subseteq BagToSet(ae)
    BY <1>11, RemoveLine DEF lose, logs
  <2> QED BY <1>2, <2>1
<1>12. CASE UNCHANGED vars
  BY <1>2, <1>12 DEF vars, logs
<1> QED BY <1>3, <1>4, <1>5, <1>6, <1>7, <1>8, <1>9, <1>10, <1>11, <1>12 DEF Next, raft_handle_line

(***************************************************************************)
(* The theorems.                                                           *)
(***************************************************************************)

LogInv == TypeInv /\ LinkInv

LEMMA LogInit == Init => LogInv
  BY TypeInit, LinkInit DEF LogInv, Init

LEMMA LogNext ==
  ASSUME LogInv, ElectionSafety, ElectionSafety', [Next]_vars PROVE LogInv' /\ LeadersKeep
<1>1. TypeInv'
  BY TypeNext DEF LogInv
<1> QED BY <1>1, LinkNext DEF LogInv

\* Links are sound in every state of the program.
THEOREM LogsAreSound == Spec => []LogInv
<1>1. LogInv /\ ElectionSafety /\ ElectionSafety' /\ [Next]_vars => LogInv'
  BY LogNext
<1> QED BY <1>1, LogInit, ElectionSafe, PTL DEF Spec

\* Logs that share an entry of a term at an index agree before it, whoever sends
\* AE lines and in whichever order they arrive.
THEOREM LogsMatch == Spec => []LogMatching
<1>1. LogInv => LogMatching
  BY DEF LogInv, LinkInv
<1> QED BY <1>1, LogsAreSound, PTL

\* What the links say of leaders and of terms.
LEMMA OwnsByLinks == ASSUME LogInv PROVE LeaderOwnsItsTerm
<1> SUFFICES ASSUME NEW i \in Server, NEW j \in Server, role[i] = "leader",
                    NEW n \in 1 .. Len(log[j]), log[j][n].term = current_term[i]
             PROVE  n <= Len(log[i]) /\ log[i][n].term = current_term[i]
  BY DEF LeaderOwnsItsTerm
<1> DEFINE t == current_term[i]  p == TermAt(log[j], n - 1)
<1>1. log[j] \in Seq(Entry) /\ t \in Nat /\ n \in Nat
  BY DEF LogInv, TypeInv, TypeOK
<1>2. p \in Nat
  BY <1>1, TermAtType
<1>3. Link(n, t, p)
  BY DEF Link, InLog
<1> HIDE DEF p
<1>4. Has(log[i], n, t)
  BY <1>1, <1>2, <1>3 DEF LogInv, LinkInv, LeaderHasLinks
<1>5. Len(log[i]) \in Nat
  BY DEF LogInv, TypeInv, TypeOK
<1> QED BY <1>4, <1>5 DEF Has

LEMMA AscendByLinks == ASSUME LogInv PROVE TermsAscend
<1> SUFFICES ASSUME NEW i \in Server, NEW n \in 1 .. Len(log[i])
             PROVE  /\ log[i][n].term <= current_term[i]
                    /\ n > 1 => log[i][n - 1].term <= log[i][n].term
  BY DEF TermsAscend
<1> DEFINE t == log[i][n].term  p == TermAt(log[i], n - 1)
<1>1. log[i] \in Seq(Entry) /\ n \in Nat /\ n - 1 \in 0 .. Len(log[i])
  <2>1. log[i] \in Seq(Entry)
    BY DEF LogInv, TypeInv, TypeOK
  <2> HIDE DEF Entry
  <2> QED BY <2>1
<1>2. t \in Nat
  <2>1. log[i][n] \in Entry
    BY <1>1
  <2> QED BY <2>1 DEF Entry
<1>3. p \in Nat
  BY <1>1, TermAtType
<1>4. Link(n, t, p)
  BY DEF Link, InLog
<1>5. p <= t
  <2> HIDE DEF t, p
  <2> QED BY <1>1, <1>2, <1>3, <1>4 DEF LogInv, LinkInv, LinksAscend
<1>6. n > 1 => p = log[i][n - 1].term
  BY DEF TermAt
<1>7. t <= current_term[i]
  BY DEF LogInv, LinkInv, TermsKnown
<1> QED BY <1>5, <1>6, <1>7

\* While a node leads, it has every entry of its term that any log has.
THEOREM LeaderOwns == Spec => []LeaderOwnsItsTerm
  BY OwnsByLinks, LogsAreSound, PTL

\* The terms along a log ascend, up to the node's own.
THEOREM TermsAreAscending == Spec => []TermsAscend
  BY AscendByLinks, LogsAreSound, PTL

LEMMA KeptIsPrefix ==
  ASSUME TypeOK, TypeOK', LeadersKeep, NEW i \in Server, role[i] = "leader", role'[i] = "leader"
  PROVE  IsPrefix(log[i], log'[i])
<1>1. Extends(log[i], log'[i])
  BY DEF LeadersKeep
<1>2. log[i] \in Seq(Entry) /\ log'[i] \in Seq(Entry)
  BY DEF TypeOK
<1> HIDE DEF Entry
<1> QED BY <1>1, <1>2 DEF IsPrefix, Extends

\* As long as a node leads it only appends to its log.
THEOREM LeadersOnlyAppend == Spec => LeaderAppendOnly
<1>1. LogInv /\ ElectionSafety /\ ElectionSafety' /\ [Next]_vars =>
        [\A i \in Server : role[i] = "leader" /\ role'[i] = "leader" =>
            IsPrefix(log[i], log'[i])]_vars
  BY LogNext, KeptIsPrefix DEF LogInv, TypeInv
<1> QED BY <1>1, LogsAreSound, ElectionSafe, PTL DEF Spec, LeaderAppendOnly

(***************************************************************************)
(* The leaders that nodes name.                                            *)
(***************************************************************************)

\* i was elected in a term of 1 .. t.
WasElected(i, t) == \E k \in 1 .. t : <<k, i>> \in elected

\* A name comes from an AE line (or from winning), a line from a thread that
\* still sends, and a thread that sends was started by a leader, which may have
\* lost its office since.
NamesInv ==
    /\ NamedLeaderWasElected
    /\ \A i \in Server, th \in Thread : sending[i][th] # {} => WasElected(i, current_term[i])
    /\ \A m \in BagToSet(ae) : WasElected(m.from, m.term)

\* Where a step can take a name, a send that is owed and an AE line from.
NameStep ==
    \A i \in Server :
        \/ leader_id'[i] \in {leader_id[i], Nil}
        \/ leader_id'[i] = i /\ role'[i] = "leader"
        \/ \E m \in BagToSet(ae) : leader_id'[i] = m.from /\ m.term <= current_term'[i]

OwedStep ==
    \A i \in Server, th \in Thread :
        sending'[i][th] # {} => sending[i][th] # {} \/ role[i] = "leader" \/ role'[i] = "leader"

LineStep ==
    \A m \in BagToSet(ae') :
        \/ m \in BagToSet(ae)
        \/ /\ m.from \in Server /\ m.term = current_term[m.from]
           /\ \E th \in Thread : sending[m.from][th] # {}

LEMMA LeaderWasElected ==
  ASSUME Offices, NEW i \in Server, current_term[i] \in Nat, role[i] = "leader"
  PROVE  WasElected(i, current_term[i])
<1>1. <<current_term[i], i>> \in elected /\ current_term[i] >= 1
  BY DEF Offices
<1> QED BY <1>1 DEF WasElected

LEMMA NamesKept ==
  ASSUME TypeOK, TypeOK', Offices, OfficeStep, NamesInv, NameStep, OwedStep, LineStep
  PROVE  NamesInv'
<1>1. Offices'
  BY OfficesKept
<1>2. \A i \in Server : /\ current_term[i] \in Nat /\ current_term'[i] \in Nat
                        /\ current_term'[i] >= current_term[i]
  BY TermsGrow
<1>3. elected \subseteq elected'
  BY DEF OfficeStep, Wins
<1>4. ASSUME NEW i, NEW t \in Nat, NEW u \in Nat, t <= u, WasElected(i, t)
      PROVE  \E k \in 1 .. u : <<k, i>> \in elected'
  <2>1. PICK k \in 1 .. t : <<k, i>> \in elected
    BY <1>4 DEF WasElected
  <2>2. k \in 1 .. u
    BY <1>4
  <2> QED BY <1>3, <2>1, <2>2
<1>5. \A i \in Server : role'[i] = "leader" =>
         \E k \in 1 .. current_term'[i] : <<k, i>> \in elected'
  <2> SUFFICES ASSUME NEW i \in Server, role'[i] = "leader"
               PROVE  \E k \in 1 .. current_term'[i] : <<k, i>> \in elected'
    OBVIOUS
  <2>1. <<current_term'[i], i>> \in elected' /\ current_term'[i] >= 1
    BY <1>1, <1>2 DEF Offices
  <2> QED BY <1>2, <2>1
<1>6. \A m \in BagToSet(ae) : m.term \in Nat
  BY DEF TypeOK, AppendEntries
<1>7. ASSUME NEW i \in Server, leader_id'[i] # Nil
      PROVE  \E k \in 1 .. current_term'[i] : <<k, leader_id'[i]>> \in elected'
  <2>1. CASE leader_id'[i] = leader_id[i]
    <3>1. WasElected(leader_id[i], current_term[i])
      BY <1>7, <2>1 DEF NamesInv, NamedLeaderWasElected, WasElected
    <3> QED BY <1>2, <1>4, <2>1, <3>1
  <2>2. CASE leader_id'[i] = i /\ role'[i] = "leader"
    BY <1>5, <2>2
  <2>3. ASSUME NEW m \in BagToSet(ae), leader_id'[i] = m.from, m.term <= current_term'[i]
        PROVE  \E k \in 1 .. current_term'[i] : <<k, leader_id'[i]>> \in elected'
    <3>1. WasElected(m.from, m.term)
      BY DEF NamesInv
    <3> QED BY <1>2, <1>4, <1>6, <2>3, <3>1
  <2> QED BY <1>7, <2>1, <2>2, <2>3 DEF NameStep
<1>8. ASSUME NEW i \in Server, NEW th \in Thread, sending'[i][th] # {}
      PROVE  \E k \in 1 .. current_term'[i] : <<k, i>> \in elected'
  <2>1. CASE role'[i] = "leader"
    BY <1>5, <2>1
  <2>2. CASE sending[i][th] # {} \/ role[i] = "leader"
    <3>1. WasElected(i, current_term[i])
      BY <1>2, <2>2, LeaderWasElected DEF NamesInv
    <3> QED BY <1>2, <1>4, <3>1
  <2> QED BY <1>8, <2>1, <2>2 DEF OwedStep
<1>9. ASSUME NEW m \in BagToSet(ae') PROVE \E k \in 1 .. m.term : <<k, m.from>> \in elected'
  <2>1. CASE m \in BagToSet(ae)
    <3>1. WasElected(m.from, m.term)
      BY <2>1 DEF NamesInv
    <3> QED BY <1>4, <1>6, <2>1, <3>1
  <2>2. CASE /\ m.from \in Server /\ m.term = current_term[m.from]
             /\ \E th \in Thread : sending[m.from][th] # {}
    <3>1. WasElected(m.from, m.term)
      BY <2>2 DEF NamesInv
    <3>2. m.term \in Nat /\ m.term <= m.term
      BY <1>2, <2>2
    <3> QED BY <1>4, <3>1, <3>2
  <2> QED BY <2>1, <2>2 DEF LineStep
<1> QED BY <1>7, <1>8, <1>9 DEF NamesInv, NamedLeaderWasElected, WasElected

LEMMA FollowNames ==
  ASSUME TypeOK, NEW i \in Server, NEW t \in Nat, NEW l, become_follower_locked(i, t, l)
  PROVE  /\ leader_id'[i] = l /\ current_term'[i] >= t
         /\ \A j \in Server \ {i} : leader_id'[j] = leader_id[j]
  BY DEF TypeOK, become_follower_locked

LEMMA LeadNames ==
  ASSUME TypeOK, NEW i \in Server, NEW t \in Nat, become_leader_locked(i, t)
  PROVE  /\ leader_id'[i] = i /\ role'[i] = "leader"
         /\ \A j \in Server \ {i} : leader_id'[j] = leader_id[j]
  BY DEF TypeOK, become_leader_locked

\* A thread takes on sends for i alone.
LEMMA SendingNames ==
  ASSUME TypeOK, NEW i \in Server, NEW th \in Thread, NEW S,
         sending' = [sending EXCEPT ![i][th] = S],
         S # {} => sending[i][th] # {} \/ role[i] = "leader" \/ role'[i] = "leader"
  PROVE  OwedStep
<1> SUFFICES ASSUME NEW j \in Server, NEW u \in Thread, sending'[j][u] # {}
             PROVE  sending[j][u] # {} \/ role[j] = "leader" \/ role'[j] = "leader"
  BY DEF OwedStep
<1>1. sending \in [Server -> [Thread -> SUBSET Server]]
  BY DEF TypeOK
<1>2. CASE j = i /\ u = th
  <2>1. sending'[i][th] = S
    BY <1>1
  <2> QED BY <1>2, <2>1
<1>3. CASE ~(j = i /\ u = th)
  <2>1. sending'[j][u] = sending[j][u]
    BY <1>1, <1>3
  <2> QED BY <2>1
<1> QED BY <1>2, <1>3

LEMMA NamesNext ==
  ASSUME TypeOK, TypeOK', Offices, NamesInv, [Next]_vars PROVE NamesInv'
<1> USE DEF votes, logs, progress, threads, history
<1>1. OfficeStep
  BY NextOffice
<1>2. ASSUME UNCHANGED <<leader_id, sending>>, BagToSet(ae') \subseteq BagToSet(ae) PROVE NamesInv'
  <2>1. NameStep /\ OwedStep /\ LineStep
    BY <1>2 DEF NameStep, OwedStep, LineStep
  <2> QED BY <1>1, <2>1, NamesKept
<1>3. ASSUME NameStep, OwedStep, BagToSet(ae') \subseteq BagToSet(ae) PROVE NamesInv'
  <2>1. LineStep
    BY <1>3 DEF LineStep
  <2> QED BY <1>1, <1>3, <2>1, NamesKept
<1>4. ASSUME UNCHANGED sending PROVE OwedStep
  BY <1>4 DEF OwedStep
<1>5. ASSUME UNCHANGED leader_id PROVE NameStep
  BY <1>5 DEF NameStep
<1>6. ASSUME NEW i \in Server, NEW t \in Nat, become_follower_locked(i, t, Nil) PROVE NameStep
  BY <1>6, FollowNames DEF NameStep
<1>7. ASSUME NEW i \in Server, NEW t \in Nat, become_leader_locked(i, t) PROVE NameStep
  BY <1>7, LeadNames DEF NameStep
<1>8. ASSUME NEW i \in Server, NEW th \in Thread, broadcast_append(i, th),
             role[i] = "leader" \/ role'[i] = "leader"
      PROVE  OwedStep
  BY <1>8, SendingNames DEF broadcast_append
<1>9. "ticker" \in Thread /\ "pool" \in Thread
  BY DEF Thread
<1>10. ASSUME NEW i \in Server, ticker_loop(i) PROVE NamesInv'
  <2>1. CASE ticker_timeout(i)
    BY <1>2, <2>1 DEF ticker_timeout
  <2>2. CASE ticker_heartbeat(i)
    <3>1. OwedStep
      BY <1>8, <1>9, <2>2 DEF ticker_heartbeat
    <3> QED BY <1>3, <1>5, <2>2, <3>1 DEF ticker_heartbeat
  <2>3. CASE start_election(i)
    <3> DEFINE t == current_term[i] + 1
    <3>1. t \in Nat /\ ae' = ae
      BY <2>3 DEF TypeOK, start_election
    <3>2. CASE become_leader_locked(i, t) /\ broadcast_append(i, "ticker")
      <4>1. role'[i] = "leader"
        BY <3>1, <3>2, LeadNames
      <4> QED BY <1>3, <1>7, <1>8, <1>9, <3>1, <3>2, <4>1
    <3>3. CASE leader_id' = [leader_id EXCEPT ![i] = Nil] /\ UNCHANGED sending
      <4>1. NameStep
        BY <3>3 DEF NameStep, TypeOK
      <4> QED BY <1>3, <1>4, <3>1, <3>3, <4>1
    <3> QED BY <2>3, <3>2, <3>3 DEF start_election
  <2> QED BY <1>10, <2>1, <2>2, <2>3 DEF ticker_loop
<1>11. ASSUME NEW m \in rv, handle_request_vote(m) PROVE NamesInv'
  <2>1. m.to \in Server /\ m.term \in Nat
    BY DEF TypeOK, RequestVote
  <2>2. UNCHANGED <<sending, ae>>
    BY <1>11 DEF handle_request_vote
  <2>3. become_follower_locked(m.to, m.term, Nil) \/ UNCHANGED leader_id
    BY <1>11 DEF handle_request_vote
  <2> QED BY <1>3, <1>4, <1>5, <1>6, <2>1, <2>2, <2>3
<1>12. ASSUME NEW m \in rvr, handle_request_vote_response(m) PROVE NamesInv'
  <2>1. m.to \in Server /\ m.term \in Nat
    BY DEF TypeOK, VoteResponse
  <2>2. ae' = ae
    BY <1>12 DEF handle_request_vote_response
  <2>3. CASE become_follower_locked(m.to, m.term, Nil) /\ UNCHANGED sending
    BY <1>3, <1>4, <1>6, <2>1, <2>2, <2>3
  <2>4. CASE become_leader_locked(m.to, m.term) /\ broadcast_append(m.to, "pool")
    <3>1. role'[m.to] = "leader"
      BY <2>1, <2>4, LeadNames
    <3> QED BY <1>3, <1>7, <1>8, <1>9, <2>1, <2>2, <2>4, <3>1
  <2>5. CASE UNCHANGED <<leader_id, sending>>
    BY <1>2, <2>2, <2>5
  <2> QED BY <1>12, <2>3, <2>4, <2>5 DEF handle_request_vote_response
<1>13. ASSUME NEW m \in BagToSet(ae), handle_append_entries(m) PROVE NamesInv'
  <2>1. m.to \in Server /\ m.term \in Nat
    BY DEF TypeOK, AppendEntries
  <2>2. UNCHANGED sending /\ BagToSet(ae') \subseteq BagToSet(ae)
    BY <1>13, RemoveLine DEF handle_append_entries
  <2>3. CASE become_follower_locked(m.to, m.term, m.from)
    <3>1. /\ leader_id'[m.to] = m.from /\ current_term'[m.to] >= m.term
          /\ \A j \in Server \ {m.to} : leader_id'[j] = leader_id[j]
      BY <2>1, <2>3, FollowNames
    <3>2. m.term <= current_term'[m.to]
      BY <2>1, <3>1 DEF TypeOK
    <3>3. NameStep
      BY <3>1, <3>2 DEF NameStep
    <3> QED BY <1>3, <1>4, <2>2, <3>3
  <2>4. CASE UNCHANGED leader_id
    BY <1>2, <2>2, <2>4
  <2> QED BY <1>13, <2>3, <2>4 DEF handle_append_entries
<1>14. ASSUME NEW m \in BagToSet(aer), handle_append_response(m) PROVE NamesInv'
  <2>1. m.to \in Server /\ m.from \in Server /\ m.term \in Nat
    BY DEF TypeOK, AppendResponse
  <2>2. ae' = ae
    BY <1>14 DEF handle_append_response
  <2>3. CASE become_follower_locked(m.to, m.term, Nil) /\ UNCHANGED sending
    BY <1>3, <1>4, <1>6, <2>1, <2>2, <2>3
  <2>4. CASE UNCHANGED <<leader_id, sending>>
    BY <1>2, <2>2, <2>4
  <2>5. CASE /\ role[m.to] = "leader" /\ UNCHANGED leader_id
             /\ sending' = [sending EXCEPT ![m.to]["pool"] = @ \cup {m.from}]
    <3>1. OwedStep
      BY <1>9, <2>1, <2>5, SendingNames
    <3> QED BY <1>3, <1>5, <2>2, <2>5, <3>1
  <2> QED BY <1>14, <2>3, <2>4, <2>5 DEF handle_append_response
<1>15. ASSUME NEW i \in Server, NEW c \in Command, NEW pending, Submit(i, c, pending),
              UNCHANGED <<leader_id, ae>>
       PROVE  NamesInv'
  <2>1. CASE role[i] = "leader" /\ broadcast_append(i, "pool")
    BY <1>3, <1>5, <1>8, <1>9, <1>15, <2>1
  <2>2. CASE UNCHANGED sending
    BY <1>2, <1>15, <2>2
  <2> QED BY <1>15, <2>1, <2>2 DEF Submit
<1>16. ASSUME NEW i \in Server, NEW c \in Command, raft_submit_command(i, c) PROVE NamesInv'
  BY <1>15, <1>16 DEF raft_submit_command
<1>17. ASSUME NEW m \in BagToSet(cl), handle_client_forward(m) PROVE NamesInv'
  <2>1. m.to \in Server /\ UNCHANGED <<leader_id, ae>>
    BY <1>17 DEF TypeOK, ClientForward, handle_client_forward
  <2>2. CASE OnWire(m.cmd) \in Command /\ Submit(m.to, OnWire(m.cmd), cl (-) SetToBag({m}))
    BY <1>15, <2>1, <2>2
  <2>3. CASE UNCHANGED sending
    BY <1>2, <2>1, <2>3
  <2> QED BY <1>17, <2>2, <2>3 DEF handle_client_forward
<1>18. ASSUME NEW i \in Server, NEW th \in Thread, NEW j \in Server, send_append_to_peer(i, th, j)
       PROVE  NamesInv'
  <2>1. /\ UNCHANGED leader_id /\ sending[i][th] # {}
        /\ sending' = [sending EXCEPT ![i][th] = @ \ {j}]
        /\ BagToSet(ae') = BagToSet(ae) \cup {build_append_locked(i, j)}
    BY <1>18, AddLine DEF send_append_to_peer
  <2>2. OwedStep
    BY <2>1, SendingNames
  <2>3. LineStep
    <3>1. build_append_locked(i, j).from = i /\ build_append_locked(i, j).term = current_term[i]
      BY DEF build_append_locked
    <3> QED BY <2>1, <3>1 DEF LineStep
  <2> QED BY <1>1, <1>5, <2>1, <2>2, <2>3, NamesKept
<1>19. CASE lose
  BY <1>2, <1>19, RemoveLine DEF lose
<1>20. CASE UNCHANGED vars
  BY <1>2, <1>20 DEF vars
<1> QED BY <1>10, <1>11, <1>12, <1>13, <1>14, <1>16, <1>17, <1>18, <1>19, <1>20
        DEF Next, raft_handle_line

LEMMA NamesInit == Init => NamesInv
<1> SUFFICES ASSUME Init PROVE NamesInv
  OBVIOUS
<1>1. \A i \in Server : leader_id[i] = Nil /\ \A th \in Thread : sending[i][th] = {}
  BY DEF Init, NodeInit
<1> QED BY <1>1, NoLine DEF Init, NodeInit, NamesInv, NamedLeaderWasElected

\* The leader a node names, and sends its clients' writes to, did win an election,
\* though perhaps of an earlier term than the node's, whichever lines arrive late.
THEOREM NamedLeaders == Spec => []NamedLeaderWasElected
<1>1. LogInv /\ LogInv' /\ NamesInv /\ [Next]_vars => NamesInv'
  BY NamesNext DEF LogInv, LinkInv, TypeInv
<1>2. NamesInv => NamedLeaderWasElected
  BY DEF NamesInv
<1> QED BY <1>1, <1>2, NamesInit, LogsAreSound, PTL DEF Spec

(***************************************************************************)
(* Clusters of at most two nodes, whatever the other bounds:               *)
(* nodes apply the same entries, and what one has applied all of them      *)
(* hold.  A cluster of three does neither (a deposed node's thread goes on *)
(* sending, in the new leader's term), so the argument has to say what two *)
(* nodes have that three have not.                                         *)
(*                                                                         *)
(* It is that a majority is everybody.  Whoever stands with the vote of    *)
(* the other node has a log as long as the other's, the other does not     *)
(* write as long as that candidacy lasts, and so the logs always fit: what *)
(* one node has beyond the other was appended while the other had no more. *)
(* No line in flight, of whichever term, ever makes a node cut its log.    *)
(***************************************************************************)

AtMostTwo == Cardinality(Server) \in {1, 2}

\* Logs hold the same entries as far as both go, and terms never descend along a log.
LogsFit ==
    /\ \A i, j \in Server : \A n \in 1 .. Smaller(Len(log[i]), Len(log[j])) :
          Alike(log[i][n], log[j][n])
    /\ \A i \in Server : \A n \in 1 .. Len(log[i]) : \A k \in 1 .. n :
          log[i][k].term <= log[i][n].term

\* An AE line repeats a part of its sender's log.
Repeats(m) ==
    /\ m.prev_index <= Len(log[m.from])
    /\ m.prev_term = TermAt(log[m.from], m.prev_index)
    /\ m.entry # <<>> => /\ m.prev_index + 1 <= Len(log[m.from])
                         /\ Alike(m.entry[1], log[m.from][m.prev_index + 1])

\* It does, and what it calls committed every node has.
LineFits(m) == Repeats(m) /\ \A k \in Server : m.commit <= Len(log[k])

\* An RV line describes a part of its sender's log.
RequestFits(m) ==
    /\ m.last_index <= Len(log[m.from])
    /\ m.last_term = TermAt(log[m.from], m.last_index)

\* An AER line acknowledges what its sender has.
AnswerFits(m) == m.success => m.match_index <= Len(log[m.from])

\* Who stands or leads with the vote of j has all that j has.
Ahead(c, j) ==
    role[c] # "follower" /\ <<current_term[c], j, c>> \in granted => Len(log[j]) <= Len(log[c])

\* What i has applied is in every log.
AppliedFits(i) ==
    /\ \A k \in Server : Len(applied[i]) <= Len(log[k])
    /\ \A n \in 1 .. Len(applied[i]) : Alike(applied[i][n], log[i][n])

LinesFit ==
    /\ \A m \in BagToSet(ae) : LineFits(m)
    /\ \A m \in rv : RequestFits(m)
    /\ \A m \in BagToSet(aer) : AnswerFits(m)

AllAhead == \A c, j \in Server : Ahead(c, j)
MatchFits == \A i, j \in Server : match_index[i][j] <= Len(log[j])
AllApplied == \A i \in Server : AppliedFits(i)

PairInv == LogsFit /\ LinesFit /\ AllAhead /\ MatchFits /\ AllApplied

(***************************************************************************)
(* Two nodes.                                                              *)
(***************************************************************************)

LEMMA NoThirdOf ==
  ASSUME NEW D, IsFiniteSet(D), Cardinality(D) <= 2, NEW a \in D, NEW b \in D, NEW c \in D
  PROVE  a = b \/ b = c \/ a = c
<1> SUFFICES ASSUME a # b, b # c, a # c PROVE FALSE
  OBVIOUS
<1>1. Cardinality({a}) = 1 /\ IsFiniteSet({a})
  BY FS_Singleton
<1>2. Cardinality({a} \cup {b}) = 2 /\ IsFiniteSet({a} \cup {b})
  <2> DEFINE T == {a}
  <2>1. b \notin T
    OBVIOUS
  <2> HIDE DEF T
  <2>2. Cardinality(T \cup {b}) = Cardinality(T) + 1 /\ IsFiniteSet(T \cup {b})
    BY <1>1, <2>1, FS_AddElement DEF T
  <2> QED BY <1>1, <2>2 DEF T
<1>3. Cardinality({a} \cup {b} \cup {c}) = 3
  <2> DEFINE T == {a} \cup {b}
  <2>1. c \notin T
    OBVIOUS
  <2> HIDE DEF T
  <2>2. Cardinality(T \cup {c}) = Cardinality(T) + 1
    BY <1>2, <2>1, FS_AddElement DEF T
  <2> QED BY <1>2, <2>2 DEF T
<1>4. {a} \cup {b} \cup {c} \subseteq D
  OBVIOUS
<1>5. 3 <= Cardinality(D) /\ Cardinality(D) \in Nat
  BY <1>3, <1>4, FS_Subset, FS_CardinalityType
<1> QED BY <1>5

LEMMA NoThird ==
  ASSUME AtMostTwo, NEW a \in Server, NEW b \in Server, NEW c \in Server
  PROVE  a = b \/ b = c \/ a = c
  BY NoThirdOf, ServerAssumption DEF AtMostTwo

\* A majority is everybody.
LEMMA AllVoted ==
  ASSUME AtMostTwo, ElectionInv, NEW t, NEW i, <<t, i>> \in elected, NEW j \in Server
  PROVE  <<t, j, i>> \in granted
<1> DEFINE e == <<t, i>>  V == {v \in Server : <<e[1], v, e[2]>> \in granted}
<1>1. 2 * Cardinality(V) > Cardinality(Server)
  BY DEF ElectionInv, ElectedByMajority
<1>2. V \in SUBSET Server
  OBVIOUS
<1> HIDE DEF V
<1>3. Cardinality(V) \in Nat /\ Cardinality(V) <= Cardinality(Server)
  BY <1>2, ServersCount
<1>4. Cardinality(V) = Cardinality(Server)
  BY <1>1, <1>3 DEF AtMostTwo
<1>5. V = Server
  BY <1>2, <1>4, ServerAssumption, FS_Subset
<1> QED BY <1>5 DEF V

\* What the leader commits, its peer has.
LEMMA AllMatch ==
  ASSUME AtMostTwo, peers = [k \in Server |-> Server \ {k}], NEW i \in Server, NEW match,
         NEW n \in Committable(i, match), NEW j \in Server \ {i}
  PROVE  match[j] >= n
<1> DEFINE S == {k \in peers[i] : match[k] >= n}
<1>1. peers[i] = Server \ {i} /\ S \in SUBSET peers[i]
  OBVIOUS
<1>2. IsFiniteSet(Server \ {i}) /\ Cardinality(Server \ {i}) = Cardinality(Server) - 1
  BY ServerAssumption, FS_RemoveElement
<1>3. 1 + Cardinality(S) >= majority_count(i)
  BY DEF Committable
<1> HIDE DEF S
<1>4. Cardinality(S) \in Nat /\ Cardinality(S) <= Cardinality(peers[i])
  BY <1>1, <1>2, FS_Subset, FS_CardinalityType
<1>5. majority_count(i) = (Cardinality(Server) \div 2) + 1
  BY <1>1, <1>2 DEF majority_count, AtMostTwo
<1>6. Cardinality(S) = Cardinality(peers[i])
  BY <1>1, <1>2, <1>3, <1>4, <1>5 DEF AtMostTwo
<1>7. S = peers[i]
  BY <1>1, <1>2, <1>6, FS_Subset
<1> QED BY <1>1, <1>7 DEF S

LEMMA LeaderAhead ==
  ASSUME AtMostTwo, ElectionInv, Offices, AllAhead, NEW i \in Server, role[i] = "leader",
         NEW j \in Server
  PROVE  Len(log[j]) <= Len(log[i])
<1>1. <<current_term[i], i>> \in elected
  BY DEF Offices
<1>2. <<current_term[i], j, i>> \in granted
  BY <1>1, AllVoted
<1> QED BY <1>2 DEF AllAhead, Ahead

\* As long as c stands or leads with the vote of i, i does not lead.
LEMMA VoterDoesNotLead ==
  ASSUME AtMostTwo, TypeOK, ElectionInv, Offices, NEW i \in Server, role[i] = "leader",
         NEW c \in Server \ {i}
  PROVE  <<current_term[c], i, c>> \notin granted
<1> SUFFICES ASSUME <<current_term[c], i, c>> \in granted PROVE FALSE
  OBVIOUS
<1>1. <<current_term[i], i>> \in elected
  BY DEF Offices
<1>2. <<current_term[i], c, i>> \in granted /\ <<current_term[i], i, i>> \in granted
  BY <1>1, AllVoted
<1>3. current_term[i] \in Nat /\ current_term[c] \in Nat
  BY DEF TypeOK
<1>4. \A t, v, k : <<t, v, k>> \in granted =>
         t <= current_term[v] /\ (t = current_term[v] => voted_for[v] = k)
  <2> SUFFICES ASSUME NEW t, NEW v, NEW k, <<t, v, k>> \in granted
               PROVE  t <= current_term[v] /\ (t = current_term[v] => voted_for[v] = k)
    OBVIOUS
  <2> DEFINE g == <<t, v, k>>
  <2>1. g[1] <= current_term[g[2]] /\ (g[1] = current_term[g[2]] => voted_for[g[2]] = g[3])
    BY DEF ElectionInv
  <2> QED BY <2>1
<1>5. current_term[c] <= current_term[i] /\ current_term[i] <= current_term[c]
  BY <1>2, <1>4
<1>6. current_term[c] = current_term[i]
  BY <1>3, <1>5
<1> QED BY <1>2, <1>4, <1>6

(***************************************************************************)
(* Logs that only grow.                                                    *)
(***************************************************************************)

LogsGrow == \A i \in Server : Extends(log[i], log'[i])

LEMMA LogTypes ==
  ASSUME TypeOK, NEW i \in Server
  PROVE  log[i] \in Seq(Entry) /\ Len(log[i]) \in Nat
  BY DEF TypeOK

LEMMA LogLengths ==
  ASSUME TypeOK PROVE \A i \in Server : Len(log[i]) \in Nat /\ Len(applied[i]) \in Nat
<1> SUFFICES ASSUME NEW i \in Server PROVE Len(log[i]) \in Nat /\ Len(applied[i]) \in Nat
  OBVIOUS
<1>1. log[i] \in Seq(Entry) /\ applied[i] \in Seq(Entry)
  BY DEF TypeOK
<1> HIDE DEF Entry
<1> QED BY <1>1

LEMMA NoGrowth == ASSUME TypeOK, log' = log PROVE LogsGrow
  BY LogTypes DEF LogsGrow, Extends

LEMMA LogsLonger ==
  ASSUME TypeOK, TypeOK', LogsGrow
  PROVE  \A i \in Server : /\ Len(log[i]) \in Nat /\ Len(log'[i]) \in Nat
                           /\ Len(log[i]) <= Len(log'[i])
<1> SUFFICES ASSUME NEW i \in Server
             PROVE  /\ Len(log[i]) \in Nat /\ Len(log'[i]) \in Nat
                    /\ Len(log[i]) <= Len(log'[i])
  OBVIOUS
<1>1. log[i] \in Seq(Entry) /\ log'[i] \in Seq(Entry)
  BY DEF TypeOK
<1> HIDE DEF Entry
<1>2. Len(log[i]) \in Nat /\ Len(log'[i]) \in Nat
  BY <1>1
<1> QED BY <1>2 DEF LogsGrow, Extends

LEMMA ExtendedTerm ==
  ASSUME NEW l, NEW k, Len(l) \in Nat, Extends(l, k), NEW n \in 0 .. Len(l)
  PROVE  TermAt(k, n) = TermAt(l, n)
<1>1. CASE n = 0
  BY <1>1 DEF TermAt
<1>2. CASE n # 0
  <2>1. n \in 1 .. Len(l)
    BY <1>2
  <2> QED BY <1>2, <2>1 DEF TermAt, Extends
<1> QED BY <1>1, <1>2

\* What a line says of a log stays true of it.
LEMMA LinesStay ==
  ASSUME TypeOK, TypeOK', LogsGrow
  PROVE  /\ \A m \in AppendEntries : Repeats(m) => Repeats(m)'
         /\ \A m \in AppendEntries : LineFits(m) => LineFits(m)'
         /\ \A m \in RequestVote : RequestFits(m) => RequestFits(m)'
         /\ \A m \in AppendResponse : AnswerFits(m) => AnswerFits(m)'
<1>1. \A i \in Server : /\ Len(log[i]) \in Nat /\ Len(log'[i]) \in Nat
                        /\ Len(log[i]) <= Len(log'[i])
  BY LogsLonger
<1>2. ASSUME NEW m \in AppendEntries, Repeats(m) PROVE Repeats(m)'
  <2>1. m.from \in Server /\ m.prev_index \in Nat
    BY DEF AppendEntries
  <2>2. Extends(log[m.from], log'[m.from])
    BY <2>1 DEF LogsGrow
  <2>3. m.prev_index \in 0 .. Len(log[m.from]) /\ Len(log[m.from]) \in Nat
    BY <1>1, <1>2, <2>1 DEF Repeats
  <2>4. TermAt(log'[m.from], m.prev_index) = TermAt(log[m.from], m.prev_index)
    BY <2>2, <2>3, ExtendedTerm
  <2>5. m.entry # <<>> => /\ m.prev_index + 1 <= Len(log'[m.from])
                          /\ Alike(m.entry[1], log'[m.from][m.prev_index + 1])
    <3>1. m.entry # <<>> => m.prev_index + 1 \in 1 .. Len(log[m.from])
      BY <1>2, <2>3 DEF Repeats
    <3> QED BY <1>1, <1>2, <2>1, <2>2, <3>1 DEF Repeats, Extends
  <2>6. m.prev_index <= Len(log'[m.from])
    BY <1>1, <2>1, <2>3
  <2> QED BY <1>2, <2>4, <2>5, <2>6 DEF Repeats
<1>5. ASSUME NEW m \in AppendEntries, LineFits(m) PROVE LineFits(m)'
  <2>1. \A k \in Server : m.commit <= Len(log'[k])
    BY <1>1, <1>5 DEF LineFits, AppendEntries
  <2> QED BY <1>2, <1>5, <2>1 DEF LineFits
<1>3. ASSUME NEW m \in RequestVote, RequestFits(m) PROVE RequestFits(m)'
  <2>1. m.from \in Server /\ m.last_index \in Nat
    BY DEF RequestVote
  <2>2. Extends(log[m.from], log'[m.from])
    BY <2>1 DEF LogsGrow
  <2>3. m.last_index \in 0 .. Len(log[m.from]) /\ Len(log[m.from]) \in Nat
    BY <1>1, <1>3, <2>1 DEF RequestFits
  <2>4. TermAt(log'[m.from], m.last_index) = TermAt(log[m.from], m.last_index)
    BY <2>2, <2>3, ExtendedTerm
  <2>5. m.last_index <= Len(log'[m.from])
    BY <1>1, <2>1, <2>3
  <2> QED BY <1>3, <2>4, <2>5 DEF RequestFits
<1>4. ASSUME NEW m \in AppendResponse, AnswerFits(m) PROVE AnswerFits(m)'
  <2>1. m.from \in Server /\ m.match_index \in Nat
    BY DEF AppendResponse
  <2> QED BY <1>1, <1>4, <2>1 DEF AnswerFits
<1> QED BY <1>2, <1>3, <1>4, <1>5

\* A step that puts no line into flight.
LEMMA NoNewLines ==
  ASSUME TypeOK, TypeOK', LogsGrow, LinesFit,
         BagToSet(ae') \subseteq BagToSet(ae), rv' \subseteq rv, BagToSet(aer') \subseteq BagToSet(aer)
  PROVE  LinesFit'
<1>1. /\ BagToSet(ae) \subseteq AppendEntries /\ rv \subseteq RequestVote
      /\ BagToSet(aer) \subseteq AppendResponse
  BY DEF TypeOK
<1> QED BY <1>1, LinesStay DEF LinesFit

LEMMA SameMatch ==
  ASSUME TypeOK, TypeOK', LogsGrow, MatchFits, match_index' = match_index PROVE MatchFits'
<1>1. \A i \in Server : /\ Len(log[i]) \in Nat /\ Len(log'[i]) \in Nat
                        /\ Len(log[i]) <= Len(log'[i])
  BY LogsLonger
<1>2. \A i, j \in Server : match_index[i][j] \in Nat
  BY DEF TypeOK
<1> QED BY <1>1, <1>2 DEF MatchFits

\* Nobody takes a vote, an office or an entry.
LEMMA SameAhead ==
  ASSUME AllAhead, log' = log, granted' = granted,
         \A i \in Server : \/ role'[i] = "follower"
                           \/ role[i] # "follower" /\ current_term'[i] = current_term[i]
  PROVE  AllAhead'
<1> SUFFICES ASSUME NEW c \in Server, NEW j \in Server PROVE Ahead(c, j)'
  BY DEF AllAhead
<1>1. Ahead(c, j)
  BY DEF AllAhead
<1> QED BY <1>1 DEF Ahead

\* What apply_committed_locked leaves.
LEMMA ApplyShape ==
  ASSUME NEW a \in Seq(Entry), NEW l \in Seq(Entry), NEW n \in Nat,
         n <= Len(a) \/ n <= Len(l)
  PROVE  LET r == apply_committed_locked(a, l, n)
         IN  /\ Len(r) \in Nat /\ (Len(r) = Len(a) \/ Len(r) = n)
             /\ \A k \in 1 .. Len(r) : r[k] = IF k <= Len(a) THEN a[k] ELSE l[k]
<1> DEFINE s == SubSeq(l, Len(a) + 1, n)
<1> HIDE DEF Entry
<1>1. CASE Len(a) < n
  <2>1. /\ s \in Seq(Entry) /\ Len(s) = n - Len(a)
        /\ \A k \in 1 .. n - Len(a) : s[k] = l[Len(a) + k]
    BY <1>1
  <2>2. apply_committed_locked(a, l, n) = a \o s
    BY <1>1 DEF apply_committed_locked
  <2> HIDE DEF s
  <2>3. /\ Len(a \o s) = Len(a) + Len(s)
        /\ \A k \in 1 .. Len(a) + Len(s) : (a \o s)[k] = IF k <= Len(a) THEN a[k] ELSE s[k - Len(a)]
    BY <2>1, ConcatProperties
  <2>4. Len(a \o s) = n
    BY <2>1, <2>3
  <2>5. ASSUME NEW k \in 1 .. n PROVE (a \o s)[k] = IF k <= Len(a) THEN a[k] ELSE l[k]
    <3>1. CASE k <= Len(a)
      BY <2>1, <2>3, <2>5, <3>1
    <3>2. CASE ~(k <= Len(a))
      <4>1. k - Len(a) \in 1 .. n - Len(a) /\ Len(a) + (k - Len(a)) = k
        BY <3>2
      <4> QED BY <2>1, <2>3, <3>2, <4>1
    <3> QED BY <3>1, <3>2
  <2> QED BY <2>2, <2>4, <2>5
<1>2. CASE ~(Len(a) < n)
  BY <1>2 DEF apply_committed_locked
<1> QED BY <1>1, <1>2

\* A node applies through n what every node has.
LEMMA ApplyFits ==
  ASSUME TypeOK, TypeOK', LogsGrow, AllApplied, NEW i \in Server, NEW n \in Nat,
         \A k \in Server : n <= Len(log'[k]),
         applied' = [applied EXCEPT ![i] = apply_committed_locked(@, log'[i], n)]
  PROVE  AllApplied'
<1>1. \A k \in Server : /\ Len(log[k]) \in Nat /\ Len(log'[k]) \in Nat
                        /\ Len(log[k]) <= Len(log'[k])
                        /\ applied[k] \in Seq(Entry) /\ log'[k] \in Seq(Entry)
  BY LogsLonger DEF TypeOK
<1>2. \A j, k \in Server : Len(applied[j]) <= Len(log[k])
  BY DEF AllApplied, AppliedFits
<1>3. \A j, k \in Server : Len(applied[j]) \in Nat /\ Len(applied[j]) <= Len(log'[k])
  <2> TAKE j, k \in Server
  <2>1. /\ Len(applied[j]) \in Nat /\ Len(log[k]) \in Nat /\ Len(log'[k]) \in Nat
        /\ Len(log[k]) <= Len(log'[k])
    BY <1>1
  <2>2. Len(applied[j]) <= Len(log[k])
    BY <1>2
  <2> QED BY <2>1, <2>2
<1>4. \A j \in Server : \A k \in 1 .. Len(applied[j]) : Alike(applied[j][k], log'[j][k])
  <2> SUFFICES ASSUME NEW j \in Server, NEW k \in 1 .. Len(applied[j])
               PROVE  Alike(applied[j][k], log'[j][k])
    OBVIOUS
  <2>1. k \in 1 .. Len(log[j])
    BY <1>1, <1>2, <1>3
  <2>2. log'[j][k] = log[j][k]
    BY <2>1 DEF LogsGrow, Extends
  <2> QED BY <2>2 DEF AllApplied, AppliedFits
<1>5. ASSUME NEW j \in Server \ {i} PROVE AppliedFits(j)'
  <2>1. applied'[j] = applied[j]
    BY DEF TypeOK
  <2> QED BY <1>3, <1>4, <2>1 DEF AppliedFits
<1>6. AppliedFits(i)'
  <2> DEFINE r == apply_committed_locked(applied[i], log'[i], n)
  <2>1. applied'[i] = r
    BY DEF TypeOK
  <2>2. /\ Len(r) \in Nat /\ (Len(r) = Len(applied[i]) \/ Len(r) = n)
        /\ \A k \in 1 .. Len(r) : r[k] = IF k <= Len(applied[i]) THEN applied[i][k] ELSE log'[i][k]
    BY <1>1, ApplyShape
  <2> HIDE DEF r
  <2>3. \A k \in Server : Len(r) <= Len(log'[k])
    BY <1>3, <2>2
  <2>4. \A k \in 1 .. Len(r) : Alike(r[k], log'[i][k])
    <3> SUFFICES ASSUME NEW k \in 1 .. Len(r) PROVE Alike(r[k], log'[i][k])
      OBVIOUS
    <3>1. CASE k <= Len(applied[i])
      BY <1>3, <1>4, <2>2, <3>1
    <3>2. CASE ~(k <= Len(applied[i]))
      BY <2>2, <3>2 DEF Alike
    <3> QED BY <3>1, <3>2
  <2> QED BY <2>1, <2>3, <2>4 DEF AppliedFits
<1> QED BY <1>5, <1>6 DEF AllApplied

LEMMA SameApplied ==
  ASSUME TypeOK, TypeOK', AllApplied, UNCHANGED <<log, applied>> PROVE AllApplied'
  BY DEF AllApplied, AppliedFits

\* A step that elections, logs and lines of a log are none of.
LEMMA QuietPair ==
  ASSUME TypeOK, TypeOK', PairInv,
         UNCHANGED <<log, applied, granted>>, MatchFits',
         \A i \in Server : \/ role'[i] = "follower"
                           \/ role[i] # "follower" /\ current_term'[i] = current_term[i],
         BagToSet(ae') \subseteq BagToSet(ae), rv' \subseteq rv, BagToSet(aer') \subseteq BagToSet(aer)
  PROVE  PairInv'
<1>1. LogsGrow
  BY NoGrowth
<1>2. LogsFit'
  BY DEF PairInv, LogsFit
<1>3. LinesFit'
  BY <1>1, NoNewLines DEF PairInv
<1>4. AllAhead' /\ AllApplied'
  BY SameAhead, SameApplied DEF PairInv
<1> QED BY <1>2, <1>3, <1>4 DEF PairInv

(***************************************************************************)
(* Elections.                                                              *)
(***************************************************************************)

LEMMA LeadMatch ==
  ASSUME TypeOK, MatchFits, NEW i \in Server, NEW t, become_leader_locked(i, t), log' = log
  PROVE  MatchFits'
<1> SUFFICES ASSUME NEW a \in Server, NEW b \in Server
             PROVE  match_index'[a][b] <= Len(log[b])
  BY DEF MatchFits
<1>1. match_index[a][b] <= Len(log[b]) /\ Len(log[b]) \in Nat
  BY LogTypes DEF MatchFits
<1>2. match_index'[a][b] \in {0, match_index[a][b]}
  BY DEF TypeOK, become_leader_locked
<1> QED BY <1>1, <1>2

LEMMA StartElectionPair ==
  ASSUME TypeInv, TypeInv', ElectionInv, PairInv, NEW i \in Server, start_election(i)
  PROVE  PairInv'
<1> DEFINE t == current_term[i] + 1
           asked == {[term |-> t, from |-> i, to |-> j, last_index |-> Len(log[i]),
                      last_term |-> LastTerm(log[i])] : j \in peers[i]}
<1>1. TypeOK /\ TypeOK' /\ current_term[i] \in Nat /\ Len(log[i]) \in Nat
  BY LogTypes DEF TypeInv, TypeOK
<1>2. /\ UNCHANGED <<log, applied, ae, aer>> /\ granted' = granted \cup {<<t, i, i>>}
      /\ current_term' = [current_term EXCEPT ![i] = t]
  BY DEF start_election, logs
<1>3. \/ become_leader_locked(i, t) /\ UNCHANGED rv
      \/ /\ role' = [role EXCEPT ![i] = "candidate"] /\ rv' = rv \cup asked
         /\ UNCHANGED match_index
  BY DEF start_election, progress
<1> HIDE DEF asked
<1>4. LogsGrow /\ LogsFit'
  BY <1>1, <1>2, NoGrowth DEF PairInv, LogsFit
<1>5. LinesFit'
  <2>1. BagToSet(ae) \subseteq AppendEntries /\ rv \subseteq RequestVote
        /\ BagToSet(aer) \subseteq AppendResponse
    BY <1>1 DEF TypeOK
  <2>2. rv' \subseteq rv \cup asked
    BY <1>3 DEF become_leader_locked
  <2>3. \A m \in asked : RequestFits(m)
    BY <1>1 DEF asked, RequestFits, LastTerm
  <2>4. \A m \in rv' : RequestFits(m)
    BY <2>2, <2>3 DEF PairInv, LinesFit
  <2> QED BY <1>2, <2>4 DEF PairInv, LinesFit, LineFits, Repeats, RequestFits, AnswerFits
<1>6. MatchFits'
  <2>1. CASE become_leader_locked(i, t)
    BY <1>1, <1>2, <2>1, LeadMatch DEF PairInv
  <2>2. CASE UNCHANGED match_index
    BY <1>2, <2>2 DEF PairInv, MatchFits
  <2> QED BY <1>3, <2>1, <2>2
<1>7. AllAhead'
  <2> SUFFICES ASSUME NEW c \in Server, NEW j \in Server, role'[c] # "follower",
                      <<current_term'[c], j, c>> \in granted'
               PROVE  Len(log[j]) <= Len(log[c])
    BY <1>2 DEF AllAhead, Ahead
  <2>1. CASE c = i /\ j = i
    BY <1>1, <2>1
  <2>2. CASE c = i /\ j # i
    <3>1. <<t, j, i>> \in granted
      BY <1>1, <1>2, <2>2 DEF TypeOK
    <3>2. t <= current_term[i]
      <4> DEFINE g == <<t, j, i>>
      <4>1. g[1] <= current_term[g[3]]
        BY <3>1 DEF ElectionInv
      <4> QED BY <4>1
    <3> QED BY <1>1, <3>2
  <2>3. CASE c # i
    <3>1. current_term'[c] = current_term[c] /\ <<current_term[c], j, c>> \in granted
      BY <1>1, <1>2, <2>3 DEF TypeOK
    <3>2. role'[c] = role[c]
      BY <1>1, <1>3, <2>3 DEF TypeOK, become_leader_locked
    <3> QED BY <3>1, <3>2 DEF PairInv, AllAhead, Ahead
  <2> QED BY <2>1, <2>2, <2>3
<1>8. AllApplied'
  BY <1>1, <1>2, SameApplied DEF PairInv
<1> QED BY <1>4, <1>5, <1>6, <1>7, <1>8 DEF PairInv

\* A log that is up to date beside one that it fits is no shorter.
LEMMA UpToDateAhead ==
  ASSUME TypeOK, LogsFit, NEW m \in RequestVote, RequestFits(m), NEW j \in Server,
         UpToDate(m, log[j])
  PROVE  Len(log[j]) <= Len(log[m.from])
<1> DEFINE c == m.from  n == m.last_index
<1>1. c \in Server /\ n \in Nat /\ m.last_term \in Nat
  BY DEF RequestVote
<1>2. /\ log[c] \in Seq(Entry) /\ log[j] \in Seq(Entry)
      /\ Len(log[c]) \in Nat /\ Len(log[j]) \in Nat
  BY <1>1, LogTypes
<1>3. n <= Len(log[c]) /\ m.last_term = TermAt(log[c], n)
  BY DEF RequestFits
<1> HIDE DEF c, n
<1>4. CASE n >= Len(log[j])
  BY <1>1, <1>2, <1>3, <1>4 DEF c
<1>5. CASE n < Len(log[j])
  <2>1. LastTerm(log[j]) = log[j][Len(log[j])].term /\ LastTerm(log[j]) \in Nat
    BY <1>1, <1>2, <1>5, LastTermType DEF LastTerm, TermAt
  <2>2. m.last_term > LastTerm(log[j])
    BY <1>1, <1>2, <1>5, <2>1 DEF UpToDate, n
  <2>3. n \in 1 .. Len(log[j]) /\ n \in 1 .. Smaller(Len(log[c]), Len(log[j]))
    BY <1>1, <1>2, <1>3, <1>5, <2>1, <2>2 DEF TermAt, Smaller
  <2>4. log[c][n].term = log[j][n].term
    BY <1>1, <2>3 DEF LogsFit, Alike
  <2>5. Len(log[j]) \in 1 .. Len(log[j]) /\ n \in 1 .. Len(log[j])
    BY <1>2, <2>3
  <2>6. log[j][n].term <= log[j][Len(log[j])].term
    BY <2>5 DEF LogsFit
  <2>7. m.last_term = log[j][n].term
    BY <1>3, <2>3, <2>4 DEF TermAt
  <2> QED BY <1>1, <2>1, <2>2, <2>6, <2>7
<1> QED BY <1>1, <1>2, <1>4, <1>5

LEMMA RequestVotePair ==
  ASSUME TypeInv, TypeInv', PairInv, NEW m \in rv, handle_request_vote(m)
  PROVE  PairInv'
<1> DEFINE i == m.to
<1>1. TypeOK /\ TypeOK' /\ m \in RequestVote /\ i \in Server /\ m.term \in Nat
  BY DEF TypeInv, TypeOK, RequestVote
<1>2. /\ UNCHANGED <<log, applied, match_index, ae, aer>> /\ rv' \subseteq rv
      /\ \/ granted' = granted
         \/ granted' = granted \cup {<<m.term, i, m.from>>} /\ UpToDate(m, log[i])
  BY DEF handle_request_vote, logs, progress
<1>3. \A c \in Server : \/ role'[c] = "follower"
                        \/ role[c] # "follower" /\ current_term'[c] = current_term[c]
  <2>1. CASE become_follower_locked(i, m.term, Nil)
    BY <1>1, <2>1 DEF TypeOK, become_follower_locked
  <2>2. CASE UNCHANGED <<role, current_term>>
    BY <1>1, <2>2 DEF TypeOK
  <2> QED BY <2>1, <2>2 DEF handle_request_vote
<1> HIDE DEF i
<1>4. LogsGrow /\ LogsFit' /\ MatchFits'
  BY <1>1, <1>2, NoGrowth DEF PairInv, LogsFit, MatchFits
<1>5. LinesFit' /\ AllApplied'
  BY <1>1, <1>2, <1>4, NoNewLines, SameApplied DEF PairInv
<1>6. AllAhead'
  <2> SUFFICES ASSUME NEW c \in Server, NEW j \in Server, role'[c] # "follower",
                      <<current_term'[c], j, c>> \in granted'
               PROVE  Len(log[j]) <= Len(log[c])
    BY <1>2 DEF AllAhead, Ahead
  <2>1. CASE <<current_term'[c], j, c>> \in granted
    BY <1>3, <2>1 DEF PairInv, AllAhead, Ahead
  <2>2. CASE <<current_term'[c], j, c>> = <<m.term, i, m.from>> /\ UpToDate(m, log[i])
    <3>1. j = i /\ c = m.from
      BY <2>2
    <3>2. RequestFits(m)
      BY DEF PairInv, LinesFit
    <3> QED BY <1>1, <2>2, <3>1, <3>2, UpToDateAhead DEF PairInv
  <2> QED BY <1>2, <2>1, <2>2
<1> QED BY <1>4, <1>5, <1>6 DEF PairInv

LEMMA RequestVoteResponsePair ==
  ASSUME TypeInv, TypeInv', PairInv, NEW m \in rvr, handle_request_vote_response(m)
  PROVE  PairInv'
<1> DEFINE i == m.to
<1>1. TypeOK /\ TypeOK' /\ i \in Server /\ m.term \in Nat
  BY DEF TypeInv, TypeOK, VoteResponse
<1>2. UNCHANGED <<log, applied, granted, rv, ae, aer>>
  BY DEF handle_request_vote_response, logs
<1>3. CASE become_follower_locked(i, m.term, Nil) /\ UNCHANGED match_index
  <2>1. \A c \in Server : \/ role'[c] = "follower"
                          \/ role[c] = role'[c] /\ current_term'[c] = current_term[c]
    BY <1>1, <1>3 DEF TypeOK, become_follower_locked
  <2>2. MatchFits'
    BY <1>2, <1>3 DEF PairInv, MatchFits
  <2> QED BY <1>1, <1>2, <2>1, <2>2, QuietPair
<1>4. CASE IsVote(i, m) /\ become_leader_locked(i, m.term) /\ UNCHANGED current_term
  <2>1. role[i] # "follower" /\ \A c \in Server \ {i} : role'[c] = role[c]
    BY <1>1, <1>4 DEF TypeOK, become_leader_locked, IsVote
  <2>2. MatchFits'
    BY <1>1, <1>2, <1>4, LeadMatch DEF PairInv
  <2> QED BY <1>1, <1>2, <1>4, <2>1, <2>2, QuietPair
<1>5. CASE UNCHANGED <<role, current_term, match_index>>
  <2>1. MatchFits'
    BY <1>2, <1>5 DEF PairInv, MatchFits
  <2> QED BY <1>1, <1>2, <1>5, <2>1, QuietPair
<1> QED BY <1>3, <1>4, <1>5 DEF handle_request_vote_response, progress

(***************************************************************************)
(* Replication.                                                            *)
(***************************************************************************)

LEMMA SentRepeats ==
  ASSUME TypeOK, NEW i \in Server, NEW j \in Server
  PROVE  Repeats(build_append_locked(i, j))
<1> DEFINE k == next_index[i][j]
           prev == IF k <= Len(log[i]) THEN k - 1 ELSE Len(log[i])
           sent == IF k <= Len(log[i])
                   THEN <<[log[i][k] EXCEPT !.cmd = OnWire(@)]>> ELSE <<>>
           m == build_append_locked(i, j)
<1>1. k \in Nat \ {0} /\ log[i] \in Seq(Entry) /\ Len(log[i]) \in Nat
  BY DEF TypeOK
<1>2. /\ m.from = i /\ m.prev_index = prev /\ m.prev_term = TermAt(log[i], prev)
      /\ m.entry = sent
  BY DEF build_append_locked
<1>3. prev <= Len(log[i])
  BY <1>1
<1>4. sent # <<>> => prev + 1 <= Len(log[i]) /\ Alike(sent[1], log[i][prev + 1])
  <2>1. ASSUME k <= Len(log[i]) PROVE prev + 1 = k /\ Alike(sent[1], log[i][k])
    <3>1. log[i][k] \in Entry /\ prev + 1 = k
      BY <1>1, <2>1
    <3>2. sent[1] = [log[i][k] EXCEPT !.cmd = OnWire(@)]
      BY <2>1
    <3>3. /\ [log[i][k] EXCEPT !.cmd = OnWire(@)].term = log[i][k].term
          /\ [log[i][k] EXCEPT !.cmd = OnWire(@)].cmd = OnWire(log[i][k].cmd)
      BY <3>1 DEF Entry
    <3>4. \A c : OnWire(OnWire(c)) = OnWire(c)
      BY DEF OnWire
    <3> QED BY <3>1, <3>2, <3>3, <3>4 DEF Alike
  <2>2. sent # <<>> => k <= Len(log[i])
    OBVIOUS
  <2> QED BY <2>1, <2>2
<1> HIDE DEF sent, prev, m
<1> QED BY <1>2, <1>3, <1>4 DEF Repeats, m

LEMMA SentFits ==
  ASSUME TypeInv, PairInv, NEW i \in Server, NEW j \in Server
  PROVE  LineFits(build_append_locked(i, j))
<1>1. \A n \in Server : commit_index[i] <= Len(log[n])
  <2>1. commit_index[i] \in Nat /\ Len(applied[i]) \in Nat /\ commit_index[i] <= Len(applied[i])
    BY DEF TypeInv, TypeOK, AppliedCoversCommit
  <2>2. \A n \in Server : Len(log[n]) \in Nat /\ Len(applied[i]) <= Len(log[n])
    BY LogTypes DEF TypeInv, PairInv, AllApplied, AppliedFits
  <2> QED BY <2>1, <2>2
<1>2. build_append_locked(i, j).commit = commit_index[i]
  BY DEF build_append_locked
<1>3. Repeats(build_append_locked(i, j))
  BY SentRepeats DEF TypeInv
<1> QED BY <1>1, <1>2, <1>3 DEF LineFits

LEMMA SendAppendPair ==
  ASSUME TypeInv, TypeInv', PairInv, NEW i \in Server, NEW th \in Thread, NEW j \in Server,
         send_append_to_peer(i, th, j)
  PROVE  PairInv'
<1>1. /\ UNCHANGED <<log, applied, match_index, granted, role, current_term, rv, aer>>
      /\ BagToSet(ae') = BagToSet(ae) \cup {build_append_locked(i, j)}
  BY AddLine DEF send_append_to_peer, votes, logs, progress, history
<1>2. LineFits(build_append_locked(i, j))
  BY SentFits
<1>3. \A m \in BagToSet(ae') : LineFits(m)
  BY <1>1, <1>2 DEF PairInv, LinesFit
<1>4. LinesFit'
  BY <1>1, <1>3 DEF PairInv, LinesFit, LineFits, Repeats, RequestFits, AnswerFits
<1> QED BY <1>1, <1>4 DEF PairInv, LogsFit, AllAhead, Ahead, MatchFits, AllApplied, AppliedFits

\* A node stores what an AE line of its peer brings: at the end, or not at all.
LEMMA StoredGrows ==
  ASSUME TypeOK, LogsFit, NEW m \in AppendEntries, Repeats(m), NEW i \in Server,
         m.entry # <<>>, Consistent(log[i], m)
  PROVE  LET s == Stored(log[i], m.prev_index + 1, m.entry[1])
         IN  \/ s = log[i]
             \/ /\ s = Append(log[i], m.entry[1]) /\ m.prev_index = Len(log[i])
                /\ Len(log[i]) + 1 <= Len(log[m.from])
                /\ Alike(m.entry[1], log[m.from][Len(log[i]) + 1])
<1> DEFINE f == m.from  n == m.prev_index + 1  e == m.entry[1]  l == log[i]
<1>1. f \in Server /\ n \in Nat /\ n >= 1 /\ e \in Entry
  BY DEF AppendEntries
<1>2. l \in Seq(Entry) /\ Len(l) \in Nat /\ Len(log[f]) \in Nat
  BY <1>1, LogTypes
<1>3. n <= Len(log[f]) /\ Alike(e, log[f][n])
  BY DEF Repeats
<1>4. ~(n <= Len(l) /\ TermAt(l, n) # e.term)
  <2> SUFFICES ASSUME n <= Len(l) PROVE TermAt(l, n) = e.term
    OBVIOUS
  <2>1. n \in 1 .. Smaller(Len(l), Len(log[f]))
    BY <1>1, <1>2, <1>3 DEF Smaller
  <2>2. Alike(log[i][n], log[f][n])
    BY <1>1, <2>1 DEF LogsFit
  <2> QED BY <1>1, <1>3, <2>2 DEF TermAt, Alike
<1>5. Stored(l, n, e) = IF n = Len(l) + 1 /\ Len(l) < RAFT_MAX_LOG THEN Append(l, e) ELSE l
  <2> HIDE DEF l, n, e
  <2> QED BY <1>4, Zenon DEF Stored
<1>6. m.prev_index \in Nat
  BY DEF AppendEntries
<1>7. CASE n = Len(l) + 1
  <2>1. m.prev_index = Len(l)
    BY <1>2, <1>6, <1>7
  <2>2. Len(l) + 1 <= Len(log[f]) /\ Alike(e, log[f][Len(l) + 1])
    BY <1>3, <1>7, Zenon
  <2>3. Stored(l, n, e) \in {l, Append(l, e)}
    BY <1>5, Zenon
  <2> QED BY <2>1, <2>2, <2>3, Zenon
<1>8. CASE n # Len(l) + 1
  BY <1>5, <1>8
<1> QED BY <1>7, <1>8

\* What one more entry, which another log has there, leaves of LogsFit.
LEMMA AppendFits ==
  ASSUME TypeOK, TypeOK', LogsFit, NEW i \in Server, NEW e \in Entry,
         log'[i] = Append(log[i], e), \A j \in Server \ {i} : log'[j] = log[j],
         \A j \in Server \ {i} : Len(log[i]) + 1 <= Len(log[j]) =>
             Alike(e, log[j][Len(log[i]) + 1]),
         \A k \in 1 .. Len(log[i]) : log[i][k].term <= e.term
  PROVE  LogsFit' /\ LogsGrow
<1> DEFINE len == Len(log[i])
<1>1. /\ \A j \in Server : Len(log[j]) \in Nat
      /\ log[i] \in Seq(Entry) /\ Len(log'[i]) = len + 1 /\ log'[i][len + 1] = e
      /\ \A k \in 1 .. len : log'[i][k] = log[i][k]
  BY LogTypes
<1> HIDE DEF len
<1>2. ASSUME NEW j \in Server \ {i}, NEW n \in 1 .. Smaller(Len(log'[i]), Len(log[j]))
      PROVE  Alike(log'[i][n], log[j][n])
  <2>1. n \in 1 .. len + 1 /\ n <= Len(log[j])
    BY <1>1, <1>2 DEF Smaller
  <2>2. CASE n = len + 1
    BY <1>1, <2>1, <2>2 DEF len
  <2>3. CASE n # len + 1
    <3>1. n \in 1 .. len /\ n \in 1 .. Smaller(Len(log[i]), Len(log[j]))
      BY <1>1, <2>1, <2>3 DEF Smaller, len
    <3>2. Alike(log[i][n], log[j][n])
      BY <3>1 DEF LogsFit
    <3> QED BY <1>1, <3>1, <3>2
  <2> QED BY <2>2, <2>3
<1>3. ASSUME NEW a \in Server, NEW b \in Server, NEW n \in 1 .. Smaller(Len(log'[a]), Len(log'[b]))
      PROVE  Alike(log'[a][n], log'[b][n])
  <2>1. CASE a = b
    BY <2>1 DEF Alike
  <2>2. CASE a = i /\ b # i
    <3>1. log'[b] = log[b]
      BY <2>2
    <3>2. n \in 1 .. Smaller(Len(log'[i]), Len(log[b]))
      BY <1>3, <2>2, <3>1
    <3> QED BY <1>2, <2>2, <3>1, <3>2
  <2>3. CASE a # i /\ b = i
    <3>1. log'[a] = log[a] /\ Len(log'[a]) \in Nat /\ Len(log'[i]) \in Nat
      BY <1>1, <2>3
    <3>2. n \in 1 .. Smaller(Len(log'[i]), Len(log[a]))
      BY <1>3, <2>3, <3>1 DEF Smaller
    <3>3. Alike(log'[i][n], log[a][n])
      BY <1>2, <2>3, <3>2
    <3> QED BY <2>3, <3>1, <3>3 DEF Alike
  <2>4. CASE a # i /\ b # i
    BY <1>3, <2>4 DEF LogsFit
  <2> QED BY <2>1, <2>2, <2>3, <2>4
<1>4. ASSUME NEW j \in Server, NEW n \in 1 .. Len(log'[j]), NEW k \in 1 .. n
      PROVE  log'[j][k].term <= log'[j][n].term
  <2>1. CASE j # i
    BY <1>4, <2>1 DEF LogsFit
  <2>2. CASE j = i /\ n = len + 1
    <3>1. CASE k = n
      BY <1>1, <2>2, <3>1 DEF Entry
    <3>2. CASE k # n
      <4>1. k \in 1 .. len
        BY <1>1, <2>2, <3>2 DEF len
      <4> QED BY <1>1, <2>2, <4>1 DEF len
    <3> QED BY <3>1, <3>2
  <2>3. CASE j = i /\ n # len + 1
    <3>1. n \in 1 .. len /\ k \in 1 .. len
      BY <1>1, <2>3 DEF len
    <3>2. log[i][k].term <= log[i][n].term
      BY <3>1 DEF LogsFit, len
    <3> QED BY <1>1, <2>3, <3>1, <3>2
  <2> QED BY <2>1, <2>2, <2>3
<1>5. LogsGrow
  <2>1. Extends(log[i], log'[i])
    BY <1>1 DEF Extends, len
  <2>2. ASSUME NEW j \in Server \ {i} PROVE Extends(log[j], log'[j])
    <3>1. log'[j] = log[j] /\ Len(log[j]) \in Nat
      BY <1>1
    <3> QED BY <3>1 DEF Extends
  <2> QED BY <2>1, <2>2 DEF LogsGrow
<1> QED BY <1>3, <1>4, <1>5 DEF LogsFit

LEMMA AppendEntriesPair ==
  ASSUME AtMostTwo, TypeInv, TypeInv', PairInv, NEW m \in BagToSet(ae), handle_append_entries(m)
  PROVE  PairInv'
<1> DEFINE i == m.to  f == m.from  e == m.entry[1]
           success == m.term >= current_term[i] /\ Consistent(log[i], m)
           new == IF success /\ m.entry # <<>>
                  THEN Stored(log[i], m.prev_index + 1, e) ELSE log[i]
           commit == IF success /\ m.commit > commit_index[i]
                     THEN Smaller(m.commit, Len(new)) ELSE commit_index[i]
           answer == [term |-> current_term'[i], from |-> i, to |-> f,
                      success |-> success, match_index |-> IF success THEN Len(new) ELSE 0]
<1>1. TypeOK /\ TypeOK' /\ m \in AppendEntries /\ LogsFit
      /\ LineFits(m) /\ Repeats(m)
  BY DEF TypeInv, TypeOK, PairInv, LinesFit, LineFits
<1>2. /\ i \in Server /\ f \in Server /\ m.prev_index \in Nat /\ m.entry \in Seq(Entry)
      /\ m.term \in Nat /\ m.commit \in Nat /\ commit_index[i] \in Nat
  BY <1>1 DEF AppendEntries, TypeOK
<1>3. /\ log' = [log EXCEPT ![i] = new] /\ UNCHANGED <<match_index, granted, rv>>
      /\ applied' = [applied EXCEPT ![i] = apply_committed_locked(@, new, commit)]
      /\ BagToSet(ae') \subseteq BagToSet(ae)
      /\ BagToSet(aer') \subseteq BagToSet(aer) \cup {answer}
  <2>1. /\ log' = [log EXCEPT ![i] = new] /\ UNCHANGED <<match_index, granted, rv>>
        /\ applied' = [applied EXCEPT ![i] = apply_committed_locked(@, new, commit)]
    BY DEF handle_append_entries, progress, history
  <2>2. BagToSet(ae') \subseteq BagToSet(ae)
    BY RemoveLine DEF handle_append_entries
  <2>3. aer' = aer (+) SetToBag({answer}) \/ aer' = aer
    BY Zenon DEF handle_append_entries
  <2> HIDE DEF answer
  <2>4. BagToSet(aer') \subseteq BagToSet(aer) \cup {answer}
    BY <2>3, AddLine
  <2> QED BY <2>1, <2>2, <2>4
<1>4. log'[i] = new /\ \A j \in Server \ {i} : log'[j] = log[j]
  BY <1>1, <1>2, <1>3 DEF TypeOK
<1>5. \/ new = log[i]
      \/ /\ new = Append(log[i], e) /\ m.entry # <<>> /\ m.term >= current_term[i]
         /\ Len(log[i]) + 1 <= Len(log[f]) /\ Alike(e, log[f][Len(log[i]) + 1])
  <2>1. CASE success /\ m.entry # <<>>
    <3>1. new = Stored(log[i], m.prev_index + 1, e)
      BY <2>1
    <3> QED BY <1>1, <1>2, <2>1, <3>1, StoredGrows
  <2>2. CASE ~(success /\ m.entry # <<>>)
    BY <2>2
  <2> QED BY <2>1, <2>2
<1>6. \A c \in Server : \/ role'[c] = "follower"
                        \/ role[c] # "follower" /\ current_term'[c] = current_term[c]
  <2>1. CASE become_follower_locked(i, m.term, f)
    BY <1>1, <1>2, <2>1 DEF TypeOK, become_follower_locked
  <2>2. CASE UNCHANGED <<role, current_term>>
    BY <1>1, <2>2 DEF TypeOK
  <2> QED BY <2>1, <2>2 DEF handle_append_entries
<1>7. m.term >= current_term[i] => role'[i] = "follower"
  <2> SUFFICES ASSUME m.term >= current_term[i] PROVE role'[i] = "follower"
    OBVIOUS
  <2>1. become_follower_locked(i, m.term, f)
    BY DEF handle_append_entries
  <2>2. role' = [role EXCEPT ![i] = "follower"]
    BY <2>1 DEF become_follower_locked
  <2>3. role \in [Server -> {"follower", "candidate", "leader"}]
    BY <1>1 DEF TypeOK
  <2> HIDE DEF i
  <2> QED BY <1>2, <2>2, <2>3
<1>8. \A k \in Server : Len(log[k]) \in Nat
  BY <1>1, LogTypes
<1> HIDE DEF i, f, e, new
<1>9. LogsFit' /\ LogsGrow
  <2>1. CASE new = log[i]
    <3>1. log' = log
      BY <1>1, <1>3, <2>1 DEF TypeOK
    <3> QED BY <1>1, <3>1, NoGrowth DEF LogsFit
  <2>2. CASE /\ new = Append(log[i], e) /\ m.entry # <<>>
             /\ Len(log[i]) + 1 <= Len(log[f]) /\ Alike(e, log[f][Len(log[i]) + 1])
    <3> DEFINE n == Len(log[i]) + 1
    <3>1. e \in Entry
      BY <1>2, <2>2 DEF e
    <3>2. ASSUME NEW j \in Server, n <= Len(log[j]) PROVE Alike(e, log[j][n])
      <4>1. n \in 1 .. Smaller(Len(log[f]), Len(log[j]))
        BY <1>2, <1>8, <2>2, <3>2 DEF Smaller
      <4> QED BY <1>1, <1>2, <2>2, <4>1 DEF LogsFit, Alike
    <3>3. ASSUME NEW k \in 1 .. Len(log[i]) PROVE log[i][k].term <= e.term
      <4>1. k \in 1 .. Smaller(Len(log[i]), Len(log[f])) /\ n \in 1 .. Len(log[f]) /\ k \in 1 .. n
        BY <1>2, <1>8, <2>2 DEF Smaller
      <4>2. log[i][k].term = log[f][k].term /\ log[f][k].term <= log[f][n].term
        BY <1>1, <1>2, <4>1 DEF LogsFit, Alike
      <4> QED BY <2>2, <4>2 DEF Alike
    <3>4. log'[i] = Append(log[i], e)
      BY <1>4, <2>2
    <3>5. \A j \in Server \ {i} : Len(log[i]) + 1 <= Len(log[j]) =>
             Alike(e, log[j][Len(log[i]) + 1])
      BY <3>2
    <3> HIDE DEF n
    <3> QED BY <1>1, <1>2, <1>4, <3>1, <3>3, <3>4, <3>5, AppendFits
  <2> QED BY <1>5, <2>1, <2>2
<1>10. \A k \in Server : Len(log'[k]) \in Nat /\ Len(log[k]) <= Len(log'[k])
  BY <1>1, <1>9, LogsLonger
<1>11. LinesFit'
  <2>1. /\ BagToSet(ae) \subseteq AppendEntries /\ rv \subseteq RequestVote
        /\ BagToSet(aer) \subseteq AppendResponse
    BY <1>1 DEF TypeOK
  <2>2. ASSUME NEW x, x = answer PROVE AnswerFits(x)'
    <3>1. x.from = i /\ x.success = success /\ (x.success => x.match_index = Len(new))
      BY <2>2
    <3> QED BY <1>2, <1>4, <1>10, <3>1 DEF AnswerFits
  <2> HIDE DEF answer
  <2>3. \A x \in BagToSet(aer') : AnswerFits(x)'
    BY <1>1, <1>3, <1>9, <2>1, <2>2, LinesStay DEF PairInv, LinesFit
  <2>4. \A x \in BagToSet(ae') : LineFits(x)'
    BY <1>1, <1>3, <1>9, <2>1, LinesStay DEF PairInv, LinesFit
  <2>5. \A x \in rv : RequestFits(x)'
    BY <1>1, <1>9, <2>1, LinesStay DEF PairInv, LinesFit
  <2> QED BY <1>3, <2>3, <2>4, <2>5 DEF LinesFit
<1>12. MatchFits'
  BY <1>1, <1>3, <1>9, SameMatch DEF PairInv
<1>13. AllAhead'
  <2>1. CASE new = log[i]
    <3>1. log' = log
      BY <1>1, <1>3, <2>1 DEF TypeOK
    <3> QED BY <1>3, <1>6, <3>1, SameAhead DEF PairInv
  <2>2. CASE m.term >= current_term[i] /\ new = Append(log[i], e) /\ Len(log[i]) + 1 <= Len(log[f])
    <3> SUFFICES ASSUME NEW c \in Server, NEW j \in Server, role'[c] # "follower",
                        <<current_term'[c], j, c>> \in granted'
                 PROVE  Len(log'[j]) <= Len(log'[c])
      BY DEF AllAhead, Ahead
    <3>1. c # i /\ f # i
      BY <1>2, <1>7, <1>8, <2>2
    <3>2. c = f
      BY <1>2, <3>1, NoThird
    <3>3. CASE j = i
      <4>1. Len(log'[i]) = Len(log[i]) + 1
        BY <1>1, <1>2, <1>4, <2>2, LogTypes
      <4> QED BY <1>4, <2>2, <3>1, <3>2, <3>3, <4>1
    <3>4. CASE j # i
      BY <1>3, <1>4, <1>6, <3>1, <3>4 DEF PairInv, AllAhead, Ahead
    <3> QED BY <3>3, <3>4
  <2> QED BY <1>5, <2>1, <2>2
<1>14. AllApplied'
  <2>1. commit \in Nat /\ \A k \in Server : commit <= Len(log'[k])
    <3>1. CASE success /\ m.commit > commit_index[i]
      <4>1. commit = Smaller(m.commit, Len(new)) /\ Len(new) \in Nat
        BY <1>2, <1>4, <1>10, <3>1
      <4>2. commit \in Nat /\ commit <= m.commit
        BY <1>2, <4>1 DEF Smaller
      <4>3. \A k \in Server : m.commit <= Len(log[k])
        BY <1>1 DEF LineFits
      <4> HIDE DEF commit
      <4> QED BY <1>2, <1>8, <1>10, <4>2, <4>3
    <3>2. CASE ~(success /\ m.commit > commit_index[i])
      <4>1. commit = commit_index[i]
        BY <3>2
      <4>2. commit_index[i] <= Len(applied[i]) /\ Len(applied[i]) \in Nat
        BY <1>2 DEF TypeInv, TypeOK, AppliedCoversCommit
      <4>3. \A k \in Server : Len(applied[i]) <= Len(log[k])
        BY <1>2 DEF PairInv, AllApplied, AppliedFits
      <4> QED BY <1>2, <1>8, <1>10, <4>1, <4>2, <4>3
    <3> QED BY <3>1, <3>2
  <2> HIDE DEF commit
  <2>2. applied' = [applied EXCEPT ![i] = apply_committed_locked(@, log'[i], commit)]
    BY <1>3, <1>4
  <2> QED BY <1>1, <1>2, <1>9, <2>1, <2>2, ApplyFits DEF PairInv
<1> QED BY <1>9, <1>11, <1>12, <1>13, <1>14 DEF PairInv

LEMMA AppendResponsePair ==
  ASSUME AtMostTwo, TypeInv, TypeInv', peers = [k \in Server |-> Server \ {k}], PairInv,
         NEW m \in BagToSet(aer), handle_append_response(m)
  PROVE  PairInv'
<1> DEFINE i == m.to  j == m.from  match == [match_index[i] EXCEPT ![j] = m.match_index]
<1>1. /\ TypeOK /\ TypeOK' /\ i \in Server /\ j \in Server /\ m.term \in Nat
      /\ m.match_index \in Nat /\ AnswerFits(m)
  BY DEF TypeInv, TypeOK, AppendResponse, PairInv, LinesFit
<1>2. /\ UNCHANGED <<log, granted, rv, ae>> /\ BagToSet(aer') \subseteq BagToSet(aer)
  BY RemoveLine DEF handle_append_response, recompute_commit_locked, logs, history
<1>3. CASE /\ become_follower_locked(i, m.term, Nil)
           /\ UNCHANGED <<logs, progress, sending>>
  <2>1. \A c \in Server : \/ role'[c] = "follower"
                          \/ role[c] = role'[c] /\ current_term'[c] = current_term[c]
    BY <1>1, <1>3 DEF TypeOK, become_follower_locked
  <2>2. MatchFits'
    BY <1>2, <1>3 DEF PairInv, MatchFits, progress
  <2> QED BY <1>1, <1>2, <1>3, <2>1, <2>2, QuietPair DEF logs
<1>4. CASE UNCHANGED <<votes, logs, match_index>>
  <2>1. MatchFits'
    BY <1>2, <1>4 DEF PairInv, MatchFits
  <2> QED BY <1>1, <1>2, <1>4, <2>1, QuietPair DEF logs, votes
<1>5. CASE /\ m.success /\ match_index' = [match_index EXCEPT ![i] = match]
           /\ recompute_commit_locked(i, match) /\ UNCHANGED votes
  <2>1. /\ match[j] = m.match_index /\ match_index'[i] = match
        /\ \A k \in Server \ {j} : match[k] = match_index[i][k]
        /\ \A a \in Server \ {i} : match_index'[a] = match_index[a]
    <3>1. match_index \in [Server -> [Server -> Nat]] /\ match_index[i] \in [Server -> Nat]
      BY <1>1 DEF TypeOK
    <3>2. match[j] = m.match_index /\ \A k \in Server \ {j} : match[k] = match_index[i][k]
      BY <1>1, <3>1
    <3> HIDE DEF match
    <3> QED BY <1>1, <1>5, <3>1, <3>2
  <2> HIDE DEF match
  <2>2. \A k \in Server : match[k] <= Len(log[k])
    BY <1>1, <1>5, <2>1 DEF PairInv, MatchFits, AnswerFits
  <2>3. MatchFits'
    BY <1>2, <2>1, <2>2 DEF PairInv, MatchFits
  <2>4. LogsGrow /\ LogsFit'
    BY <1>1, <1>2, NoGrowth DEF PairInv, LogsFit
  <2>5. LinesFit'
    BY <1>1, <1>2, <2>4, NoNewLines DEF PairInv
  <2>6. AllAhead'
    BY <1>2, <1>5 DEF PairInv, AllAhead, Ahead, votes
  <2>7. AllApplied'
    <3>1. CASE UNCHANGED applied
      BY <1>1, <1>2, <3>1, SameApplied DEF PairInv
    <3>2. ASSUME NEW n \in Committable(i, match),
                 applied' = [applied EXCEPT ![i] = apply_committed_locked(@, log[i], n)]
          PROVE  AllApplied'
      <4>1. n \in Nat /\ n <= Len(log[i])
        <5>1. n \in (commit_index[i] + 1) .. Len(log[i])
          BY DEF Committable
        <5>2. commit_index[i] \in Nat /\ Len(log[i]) \in Nat
          BY <1>1 DEF TypeOK
        <5> QED BY <5>1, <5>2
      <4>2. ASSUME NEW k \in Server PROVE n <= Len(log'[k])
        <5>1. CASE k = i
          BY <1>2, <4>1, <5>1
        <5>2. CASE k # i
          <6>1. match[k] >= n
            BY <1>1, <3>2, <5>2, AllMatch
          <6>2. Len(log[k]) \in Nat
            BY <1>1, LogTypes
          <6>3. match[k] \in Nat
            <7>1. match_index' \in [Server -> [Server -> Nat]]
              BY <1>1 DEF TypeOK
            <7> QED BY <1>1, <2>1, <7>1
          <6>4. match[k] <= Len(log[k]) /\ log'[k] = log[k]
            BY <1>2, <2>2
          <6> HIDE DEF j, i
          <6> QED BY <4>1, <6>1, <6>2, <6>3, <6>4
        <5> QED BY <5>1, <5>2
      <4>3. applied' = [applied EXCEPT ![i] = apply_committed_locked(@, log'[i], n)]
        BY <1>2, <3>2
      <4> QED BY <1>1, <2>4, <4>1, <4>2, <4>3, ApplyFits DEF PairInv
    <3> QED BY <1>5, <3>1, <3>2 DEF recompute_commit_locked
  <2> QED BY <2>3, <2>4, <2>5, <2>6, <2>7 DEF PairInv
<1> QED BY <1>3, <1>4, <1>5 DEF handle_append_response, progress

(***************************************************************************)
(* Client writes.                                                          *)
(***************************************************************************)

LEMMA SubmitPair ==
  ASSUME AtMostTwo, TypeInv, TypeInv', ElectionInv, Offices, TermsKnown, PairInv,
         NEW i \in Server, NEW c \in Command, NEW pending, Submit(i, c, pending),
         UNCHANGED <<votes, granted, rv, ae, aer, match_index>>
  PROVE  PairInv'
<1> DEFINE e == [term |-> current_term[i], cmd |-> c]
           new == append_entry_locked(log[i], current_term[i], c)
           commit == IF peers[i] = {} THEN Len(new) ELSE commit_index[i]
<1>1. /\ TypeOK /\ TypeOK' /\ LogsFit /\ e \in Entry /\ e.term = current_term[i]
      /\ UNCHANGED <<role, current_term>>
  BY DEF TypeInv, TypeOK, PairInv, Entry, votes
<1>2. \A j \in Server : log[j] \in Seq(Entry) /\ Len(log[j]) \in Nat
  BY <1>1, LogTypes
<1>3. new = log[i] \/ new = Append(log[i], e)
  BY DEF append_entry_locked
<1> HIDE DEF e, new
<1>4. CASE UNCHANGED <<log, applied>>
  <2>1. MatchFits'
    BY <1>4 DEF PairInv, MatchFits
  <2> QED BY <1>1, <1>4, <2>1, QuietPair
<1>5. CASE /\ role[i] = "leader" /\ log' = [log EXCEPT ![i] = new]
           /\ applied' = [applied EXCEPT ![i] = apply_committed_locked(@, new, commit)]
  <2>1. log'[i] = new /\ \A j \in Server \ {i} : log'[j] = log[j]
    BY <1>1, <1>5 DEF TypeOK
  <2>2. \A j \in Server : Len(log[j]) <= Len(log[i])
    BY <1>5, LeaderAhead DEF PairInv
  <2>3. LogsFit' /\ LogsGrow
    <3>1. CASE new = log[i]
      <4>1. log' = log
        BY <1>1, <1>5, <3>1 DEF TypeOK
      <4> QED BY <1>1, <4>1, NoGrowth DEF LogsFit
    <3>2. CASE new = Append(log[i], e)
      <4>1. \A k \in 1 .. Len(log[i]) : log[i][k].term <= e.term
        BY <1>1 DEF TermsKnown
      <4>2. \A j \in Server : ~(Len(log[i]) + 1 <= Len(log[j]))
        BY <1>2, <2>2
      <4> QED BY <1>1, <2>1, <3>2, <4>1, <4>2, AppendFits
    <3> QED BY <1>3, <3>1, <3>2
  <2>4. \A k \in Server : Len(log'[k]) \in Nat /\ Len(log[k]) <= Len(log'[k])
    BY <1>1, <2>3, LogsLonger
  <2>5. LinesFit' /\ MatchFits'
    BY <1>1, <2>3, NoNewLines, SameMatch DEF PairInv
  <2>6. AllAhead'
    <3> SUFFICES ASSUME NEW a \in Server, NEW j \in Server, role[a] # "follower",
                        <<current_term[a], j, a>> \in granted
                 PROVE  Len(log'[j]) <= Len(log'[a])
      BY <1>1 DEF AllAhead, Ahead
    <3>1. CASE a = i
      <4>1. CASE j = i
        BY <2>4, <3>1, <4>1
      <4>2. CASE j # i
        BY <1>2, <2>1, <2>2, <2>4, <3>1, <4>2
      <4> QED BY <4>1, <4>2
    <3>2. CASE a # i
      <4>1. j # i
        BY <1>1, <1>5, <3>2, VoterDoesNotLead
      <4> QED BY <2>1, <3>2, <4>1 DEF PairInv, AllAhead, Ahead
    <3> QED BY <3>1, <3>2
  <2>7. commit \in Nat /\ \A k \in Server : commit <= Len(log'[k])
    <3>1. CASE peers[i] = {}
      <4>1. \A k \in Server : k = i
        BY <3>1 DEF ElectionInv
      <4> QED BY <2>1, <2>4, <3>1, <4>1
    <3>2. CASE peers[i] # {}
      <4>1. commit = commit_index[i]
        BY <3>2
      <4>2. commit_index[i] \in Nat /\ commit_index[i] <= Len(applied[i]) /\ Len(applied[i]) \in Nat
        BY DEF TypeInv, TypeOK, AppliedCoversCommit
      <4>3. \A k \in Server : Len(applied[i]) <= Len(log[k])
        BY DEF PairInv, AllApplied, AppliedFits
      <4> QED BY <1>2, <2>4, <4>1, <4>2, <4>3
    <3> QED BY <3>1, <3>2
  <2> HIDE DEF commit
  <2>8. applied' = [applied EXCEPT ![i] = apply_committed_locked(@, log'[i], commit)]
    BY <1>5, <2>1
  <2>9. AllApplied'
    BY <1>1, <2>3, <2>7, <2>8, ApplyFits DEF PairInv
  <2> QED BY <2>3, <2>5, <2>6, <2>9 DEF PairInv
<1> QED BY <1>4, <1>5 DEF Submit, logs, new

(***************************************************************************)
(* Every step, and the theorems.                                           *)
(***************************************************************************)

LEMMA PairInit == Init => PairInv
<1> SUFFICES ASSUME Init PROVE PairInv
  OBVIOUS
<1>1. /\ \A i \in Server : /\ log[i] = <<>> /\ applied[i] = <<>> /\ role[i] = "follower"
                           /\ \A j \in Server : match_index[i][j] = 0
      /\ rv = {} /\ BagToSet(ae) = {} /\ BagToSet(aer) = {}
  BY NoLine DEF Init, NodeInit
<1>2. Len(<<>>) = 0
  OBVIOUS
<1> QED BY <1>1, <1>2 DEF PairInv, LogsFit, LinesFit, AllAhead, Ahead, MatchFits, AllApplied,
                          AppliedFits, Smaller

LEMMA PairNext ==
  ASSUME AtMostTwo, TypeInv, TypeInv', ElectionInv, LinkInv, PairInv, [Next]_vars
  PROVE  PairInv'
<1> USE DEF votes, logs, progress, threads, history
<1>1. /\ TypeOK /\ TypeOK' /\ Offices /\ TermsKnown
      /\ peers = [k \in Server |-> Server \ {k}]
  BY DEF TypeInv, LinkInv, ElectionInv
<1>2. ASSUME UNCHANGED <<role, current_term, log, applied, match_index, granted, rv>>,
             BagToSet(ae') \subseteq BagToSet(ae), BagToSet(aer') \subseteq BagToSet(aer)
      PROVE  PairInv'
  <2>1. MatchFits'
    BY <1>2 DEF PairInv, MatchFits
  <2> QED BY <1>1, <1>2, <2>1, QuietPair
<1>3. ASSUME NEW i \in Server, ticker_loop(i) PROVE PairInv'
  <2>1. CASE ticker_timeout(i) \/ ticker_heartbeat(i)
    BY <1>2, <2>1 DEF ticker_timeout, ticker_heartbeat
  <2> QED BY <1>3, <2>1, StartElectionPair DEF ticker_loop
<1>4. CASE raft_handle_line
  <2>1. ASSUME NEW m \in BagToSet(cl), handle_client_forward(m) PROVE PairInv'
    <3>1. /\ m.to \in Server
          /\ UNCHANGED <<votes, granted, rv, ae, aer, match_index, role, current_term>>
      BY <1>1, <2>1 DEF TypeOK, ClientForward, handle_client_forward
    <3>2. CASE OnWire(m.cmd) \in Command /\ Submit(m.to, OnWire(m.cmd), cl (-) SetToBag({m}))
      BY <1>1, <3>1, <3>2, SubmitPair
    <3>3. CASE UNCHANGED logs
      BY <1>2, <3>1, <3>3
    <3> QED BY <2>1, <3>2, <3>3 DEF handle_client_forward
  <2> QED
    BY <1>1, <1>4, <2>1, RequestVotePair, RequestVoteResponsePair, AppendEntriesPair,
       AppendResponsePair DEF raft_handle_line
<1>5. ASSUME NEW i \in Server, NEW th \in Thread, NEW j \in Server, send_append_to_peer(i, th, j)
      PROVE  PairInv'
  BY <1>5, SendAppendPair
<1>6. ASSUME NEW i \in Server, NEW c \in Command, raft_submit_command(i, c) PROVE PairInv'
  <2>1. UNCHANGED <<votes, granted, rv, ae, aer, match_index>> /\ Submit(i, c, cl)
    BY <1>6 DEF raft_submit_command
  <2> QED BY <1>1, <2>1, SubmitPair
<1>7. CASE lose
  BY <1>2, <1>7, RemoveLine DEF lose
<1>8. CASE UNCHANGED vars
  BY <1>2, <1>8 DEF vars
<1> QED BY <1>3, <1>4, <1>5, <1>6, <1>7, <1>8 DEF Next

\* The logs of two nodes always fit, and hold all that either has applied.
THEOREM PairsFit ==
  ASSUME AtMostTwo PROVE Spec => []PairInv
<1>1. LogInv /\ LogInv' /\ ElectionInv /\ PairInv /\ [Next]_vars => PairInv'
  BY PairNext DEF LogInv
<1> QED BY <1>1, PairInit, LogsAreSound, VotesAgree, PTL DEF Spec

\* Two nodes never apply different entries at the same position, in whatever
\* order AE lines arrive and whoever leads in between.
THEOREM PairsApplyTheSame ==
  ASSUME AtMostTwo PROVE Spec => []StateMachineSafety
<1>1. ASSUME PairInv, TypeOK PROVE StateMachineSafety
  <2> SUFFICES ASSUME NEW i \in Server, NEW j \in Server,
                      NEW n \in 1 .. Smaller(Len(applied[i]), Len(applied[j]))
               PROVE  Alike(applied[i][n], applied[j][n])
    BY DEF StateMachineSafety
  <2>1. /\ Len(applied[i]) \in Nat /\ Len(applied[j]) \in Nat
        /\ Len(log[i]) \in Nat /\ Len(log[j]) \in Nat
    BY <1>1, LogLengths
  <2>2. AppliedFits(i) /\ AppliedFits(j)
    BY <1>1 DEF PairInv, AllApplied
  <2>3. /\ n \in 1 .. Len(applied[i]) /\ n \in 1 .. Len(applied[j])
        /\ n \in 1 .. Smaller(Len(log[i]), Len(log[j]))
    BY <2>1, <2>2 DEF AppliedFits, Smaller
  <2>4. Alike(applied[i][n], log[i][n]) /\ Alike(applied[j][n], log[j][n])
    BY <2>2, <2>3 DEF AppliedFits
  <2>5. Alike(log[i][n], log[j][n])
    BY <1>1, <2>3 DEF PairInv, LogsFit
  <2> QED BY <2>4, <2>5 DEF Alike
<1> QED BY <1>1, PairsFit, TypeCorrect, PTL

\* What one of two nodes has applied both of them hold: no commit is ever made by
\* one of them alone, and none is ever cut off a log.
THEOREM PairsKeepWhatIsApplied ==
  ASSUME AtMostTwo PROVE Spec => []AppliedOnMajority
<1>1. ASSUME PairInv, TypeOK PROVE AppliedOnMajority
  <2> SUFFICES ASSUME NEW i \in Server, NEW n \in 1 .. Len(applied[i])
               PROVE  2 * Cardinality({j \in Server : n <= Len(log[j])
                              /\ Alike(log[j][n], applied[i][n])}) > Cardinality(Server)
    BY DEF AppliedOnMajority
  <2>1. ASSUME NEW j \in Server
        PROVE  n <= Len(log[j]) /\ Alike(log[j][n], applied[i][n])
    <3>1. Len(applied[i]) \in Nat /\ Len(log[i]) \in Nat /\ Len(log[j]) \in Nat
      BY <1>1, LogLengths
    <3>2. AppliedFits(i)
      BY <1>1 DEF PairInv, AllApplied
    <3>3. n <= Len(log[j]) /\ n \in 1 .. Smaller(Len(log[i]), Len(log[j]))
      BY <3>1, <3>2 DEF AppliedFits, Smaller
    <3>4. Alike(applied[i][n], log[i][n]) /\ Alike(log[i][n], log[j][n])
      BY <1>1, <3>2, <3>3 DEF PairInv, AppliedFits, LogsFit
    <3> QED BY <3>3, <3>4 DEF Alike
  <2> DEFINE holders == {j \in Server : n <= Len(log[j]) /\ Alike(log[j][n], applied[i][n])}
  <2>2. holders = Server
    BY <2>1
  <2> HIDE DEF holders
  <2>3. 2 * Cardinality(holders) > Cardinality(Server)
    BY <2>2 DEF AtMostTwo
  <2> QED BY <2>3 DEF holders
<1> QED BY <1>1, PairsFit, TypeCorrect, PTL

=============================================================================
