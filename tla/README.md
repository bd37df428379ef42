# A TLA+ verification of raft_kv

`raft_kv` is a small replicated key-value database: a few processes on a network
that elect a leader with Raft, replicate `set` and `del` commands and apply
them to a store in memory. This directory holds TLA+ models of it, the TLC
configurations that check them and machine-checked proofs about them. Paths
below are those of the repository.

## The system

| Part | State | Operations |
| --- | --- | --- |
| Consensus core, `src/raft_core.cpp` and the sending half of `src/network.cpp` | role, current_term, voted_for, leader_id, votes_received, the log, commit_index, last_applied, and per peer next_index and match_index | `ticker_loop`, `start_election`, handlers of RV, RVR, AE, AER and CL lines, `raft_submit_command`, `broadcast_append`, `send_append_to_peer` |
| Membership, `src/raft_core.cpp:130-277`, `src/common.cpp:91-144` | the peer array | JOIN, PEER and LEAVE lines, `request_cluster_join`, `request_cluster_leave` |
| Key-value store, `src/kv_store.cpp` | an array of slots and a count | `kv_apply`, `kv_get`, `parse_kv_command` |
| Worker pool, `src/network.cpp:146-242` | a queue of lines, stop, a mutex and a condition variable | `pool_init`, `pool_submit`, `pool_worker`, `pool_destroy` |
| Connections, `src/network.cpp:244-434` | a buffer per connection | `accept_connections`, `read_connection`, `dispatch_complete_lines`, `network_loop` |
| Lifecycle, `src/node.cpp`, `src/main.cpp` | running, the threads | `raft_node_init`, `start`, `stop`, `destroy`, the signal handler, `stdin_loop` |
| Log file, configuration, build tool, tests | | not stateful parts of the running system |

How they interact. The network thread reads bytes, cuts them into lines and
queues each line in the pool. Pool workers take lines and run
`raft_handle_line`, concurrently with each other, with the ticker thread (which
starts elections and sends heartbeats) and with the console thread (which submits
commands). All of them share the node, under one mutex that is held for the
decision and released before anything is sent; each outgoing line has a TCP
connection of its own, is sent once and is not retried. So lines are lost,
delayed and reordered, and threads of one node interleave at every release of
the mutex. Committed entries go to the store under the same mutex.

What is hard, part by part, is listed line by line under `hazards` in
`PROJECT.json`. In short: decisions taken under the mutex and acted on after it
(the ticker's decision to stand, a leader's broadcast that goes on when it no
longer leads); answers that do not say what they answer (RVR and AER lines carry
a term only); logs that are cut and applied while old lines are under way; the
limits of the log; membership that changes without agreement; nothing persisted
across a restart; shutdown by signal and cancellation.

What makes each part correct. Core: one leader per term, one vote per node and
term, logs that agree before any entry they share, a leader that never rewrites
its log, entries of a term that all come from its leader, replicas that apply
the same entries, applied entries that a majority holds. Membership: every live
node comes to know every other, and who has quit is forgotten. Store: it behaves
like a map. Commands: what a user typed is what every node applies. Pool: every
line submitted before the stop is handled exactly once, and every worker ends.
Connections: the lines handled are the lines sent. Lifecycle: what is told to stop
says so to the others, outlives no thread that uses it, and ends.

## The modules

| Module | Contents |
| --- | --- |
| `RaftCore.tla` | the consensus core on a fixed cluster: state, actions, properties |
| `Voting.tla` | what elections promise: votes and winners, and nothing else |
| `RaftMembership.tla` | `RaftCore` composed with `Membership`: votes, logs and majorities on a cluster that changes |
| `RaftRestart.tla` | `RaftCore` with processes that are killed and start again with nothing |
| `Membership.tla` | JOIN, PEER and LEAVE lines and the peer array, alone |
| `KvMap.tla` | what the store promises: a map of bounded size |
| `KvStore.tla` | the store as it is: slots, searches and a count |
| `Commands.tla` | words: how a command is read from the console and from CL and AE lines |
| `ThreadPool.tla` | the job list, the condition variable, the workers and their end |
| `Connections.tla` | descriptors, epoll events, buffers, and the cutting of bytes into lines |
| `Lifecycle.tla` | the threads of a process, the node mutex, signals, start and end |
| `MCRaftCore`, `MCMembership`, `MCRaftMembership`, `MCConnections`, `MCCommands` | small instances for TLC: symmetry, ways to launch a cluster, streams of bytes, lines typed |
| `RaftCoreProofs.tla` | types and elections; `RaftCore` implements `Voting`; links between entries and the four properties of logs; named leaders won an election; clusters of one or two nodes apply the same, and keep it |
| `MembershipProofs.tla` | no peer array outgrows its size or has its own node in it |
| `RaftMembershipProofs.tla` | on a cluster that changes: what is committed is applied, no vote counts twice, what is counted was cast, one leader per term among those that stay; logs match and leaders only append as long as no term has two leaders; one node and a newcomer apply the same |
| `CommandsProofs.tla` | lines that fit are read as they stand, and commands survive the wire |
| `KvStoreProofs.tla` | `KvStore` implements `KvMap` |
| `ThreadPoolProofs.tla` | the list is what is pending, no pointer dangles, no worker oversleeps |
| `ConnectionsProofs.tla` | slots and events belong to the client that has the descriptor; lines do not depend on the pieces that bytes come in; buffers hold |
| `LifecycleProofs.tla` | main outlives all threads; LEAVE is said before the stop; sections of the mutex exclude each other |

### RaftCore and the code

The variables are the fields of `RaftNode` under their own names. An index of
an entry is its position in the sequence `log`; op, key and value are one model
value, the command; `last_applied` is the length of `applied`, which keeps the
entries handed to the store. `rv`, `rvr`, `ae`, `aer` and `cl` are the lines in
flight: vote lines as sets (a node sends each at most once per term), the others
as bags, since the same line is sent again and again. `granted` and `elected`
are history: the votes ever cast and the elections ever won.

An action is one critical section of the node mutex. What a thread carries out
of one critical section into the next is state: `start_vote[i]`, the decision of
the ticker to start an election, and `sending[i][th]`, the peers to which thread
`th` has yet to build and send an AE line. `send_append_to_peer` builds the line
from the state of *that* moment, whatever the role, as the code does.

| Action | Code |
| --- | --- |
| `ticker_timeout`, `ticker_heartbeat`, `start_election` | `ticker_loop`, `start_election` |
| `handle_request_vote`, `handle_request_vote_response` | the handlers of RV and RVR, `become_follower_locked`, `become_leader_locked` |
| `send_append_to_peer` | one turn of the loop in `broadcast_append`, `build_append_locked` |
| `handle_append_entries`, `handle_append_response` | the handlers of AE and AER, with commit and apply |
| `raft_submit_command`, `handle_client_forward` | a command from the console or from a CL line |
| `lose` | a line that `connect_send` cannot deliver, or that nobody reads |

Abstracted: clocks (a node that does not lead may time out whenever its ticker
looks, a leader may send a heartbeat whenever its ticker looks), the text of
lines except that "-" stands for an absent value, the store (its place is taken
by the sequence of applied entries). The cluster is a full mesh given by
`--peer` options; a cluster that changes is `RaftMembership`'s. Two sends
to the same peer owed by pool workers of one node at the same moment are one.
Lines are not duplicated: TCP does not, and no code sends a vote line twice.
Vote lines are never dropped because one left in flight for ever is the same.

`Voting` keeps only `granted` and `elected`, as votes and winners: a voter votes
in terms that ascend, and whoever wins has a majority at that moment. Its step
is what any number of lines, threads and roles may amount to.

### Membership and the code

`peers[i]` is the set of ids in the peer array (`add_peer_locked`,
`remove_peer_locked`), bounded by `RAFT_MAX_PEERS`. `lines` is the bag of JOIN,
PEER and LEAVE lines. A handler changes the array in one section of the mutex and
copies the peers it tells of it in later ones: in between it is a `tasks` record
(`announce_peer_to_known_nodes`, `send_peer_catalog`,
`announce_leave_to_known_nodes`). `state` is that of the process; lines to a process
that does not listen are not delivered, and those not yet handled when it ends
are lost. A way to launch a cluster (`Launches`) says which nodes have met before,
whom later ones name in `--peer`, who may quit, and whether lines may be lost.
Addresses are ids: a node that comes back on another port is not modelled.

### RaftMembership and the code

`G!` is `Membership` on the same `peers`. Each of its actions takes along what
it does to the core: a new peer starts with `next_index` behind the log
(`AddedProgress`), one that leaves takes the vote cast for it and the leader it
was with it (`VoteAfterLeave`), a node that learnt of a peer from a PEER line sends
it an AE line whatever its role (`do_membership_task`). The actions of `RaftCore` are
used as they are, since they look at `peers` at every step. Three things are finer
than there: a leader that finds itself alone commits in two more steps
(`check_alone`, which reads `peer_count` without the mutex, and `commit_alone`);
a send owed to a peer that was removed is skipped; and with `racing` an answer
goes to another peer, because `send_to_peer` (`src/network.cpp:67`) searches
the array while LEAVE shifts it. The race on the array is one of data: the model
lets the answer reach any peer the array held. The copy of peer ids that a
broadcast makes is merged with the decision to broadcast.

### RaftRestart and the code

`raft_node_init(i)` is the death of process i between any two sections together
with its next start: all its fields have their first values, lines to it are gone, lines
from it may still arrive. JOIN and PEER lines between nodes that know each other
change nothing and are left out.


### KvStore, KvMap and the code

`items` is the array of slots, one of which is `Unused` when its `used` is 0;
`count` is the code's. `kv_apply` has one disjunct per way out of the
function, `kv_get` searches the same way. `answer` is what the last call
returned and the value it read: it is what callers see, and what `KvStore` and
`KvMap` are compared by. The map of `KvMap` is the refinement mapping's
`Contents`: each stored key with the value of the slot that has it. Keys and
values that `is_valid_token` turns down are one value, `Invalid`. The callers
hold the node mutex, so calls do not overlap.

### Commands and the code

A word is a piece of a token (`from`, `to` and their distance are what `sscanf`
and `is_valid_token` look at), a line is a sequence of words, and an empty word
leaves no trace in it. A piece may be a "-" without having been typed as one, when a word
is cut before a last '-' (`Hyphens`). `sscanf` is the one of the C library with the widths of
`"%15s %63s %255s"`, three times `NextField`: it cuts a word that is too long and reads on
in the rest of it.
`words_of` prints a command as CL and AE lines end, "-" for what is absent;
`decode_cl` and `decode_ae` read it. A command goes from the console through up to
`MaxHops` CL lines into a log and through up to `MaxCopies` AE lines from log to
log. What `get`, `state` and `show` print changes no state.

### ThreadPool and the code

`head`, `tail` and `next` are the linked list, `allocated` and `freed` say which jobs
are memory. A worker is at the mutex (`lock`), in `pthread_cond_wait` (`wait`),
in `raft_handle_line` (`handle`) or has `ended`; a section under the pool's mutex
is one action. A signal wakes one waiting worker, any of them, and a wait may
end by itself. `calloc` may fail, and the line is gone. The network thread is
the only one that submits, and `raft_node_destroy` joins it before it destroys
the pool. `Linked` are the jobs that the loop of `pool_destroy` reaches and frees; that they are
those pending, each leading to the next line's, is `ListIsPending`.

### Connections and the code

Clients and the kernel are external and modelled by what the code relies on: a
client sends a stream of bytes, TCP hands it over in pieces of any size, a
connection is closed (its FIN arrives) or reset, `accept` returns the lowest
free descriptor, `epoll_wait` a batch of ready descriptors in any order. `batch`
is the rest of the events array that `network_loop` works through, so that
descriptors may be closed and accepted again below an event of the same batch; an
event carries the client it was reported for, which the code does not know and
`SlotsMatch` speaks of. One step is one turn of a loop: one `accept`, one
`recv` with all the lines `dispatch_complete_lines` cuts off what it returned. A byte
is a newline, a carriage return or another one; a line that is handed on is cut to
`RAFT_MAX_LINE - 1` bytes and loses a carriage return at its end.

### Lifecycle and the code

`pc[t]` says where a thread is: at the mutex (`lock`, `leave`, `join`), in a section of
it (`locked`, `leaving`, `joining`), in `raft_node_stop`, in a wait. The handler of a
signal runs inside the main thread, on top of what that was doing, which
`interrupted` remembers; a second signal interrupts the first one's handler. On Linux a
signal to the process goes to its main thread as long as that takes it, and no code
blocks signals. `raft_node_start` may fail after any number of its threads were
created; `raft_node_destroy` joins the network thread and the ticker, cancels the console
thread, and joins the pool. The cancellation takes effect where the console thread reads,
prints, logs or sends, in a section of the mutex too.

## Fairness

* `ThreadPool`: each worker that can go on does (the mutex is free again after a few
  statements, and a job ends: `connect_send` waits at most 250 ms for a
  connection and sends without blocking), and so does `raft_node_destroy`. Nobody
  promises that the network thread ends or that a wait does. That a job ends
  also needs the node mutex to be released, which the cancellation of the console
  thread may prevent (see `hazards`, `src/node.cpp:225`): `Lifecycle` has that case.
* `Lifecycle`: each thread that can go on does, and who waits for the node mutex
  gets it at last (strong fairness): it is held for a few statements, and its
  holders sleep or wait for work between two sections. The user may type nothing
  for ever, and no signal need come.
* `Membership`: lines that arrive and tasks that are owed are worked on, and the user
  starts the nodes of the launch. Nobody need quit.
* `Connections`: the network thread goes on, and what a client has sent arrives,
  with the end of it. `connect_send` closes each connection after its line. A
  client that vanishes without a FIN is outside this: the code has no timeout on
  its connections, and one of these stays open.
* `RaftRestart`: of each node, the ticker, the sends owed and the handling of AE and AER
  lines come round again and again (strong fairness, because a send waits for room
  among the lines in flight, which is a bound of the model). Losses may happen as
  often as the rest of this allows.
* `RaftCore`, `RaftMembership`, `KvStore` and `Commands` state none. Their runs are
  about safety: the random timers of the program promise nothing that makes an
  election end.

Deadlock is not checked where a model may stop: elections, logs and restarts are bounded,
a process or pool that has ended is the end, clients have nothing more to send, and a
command reaches its last copy. `kv_store` checks it. What must not stop has a liveness
property instead.

## Runs

| Run | Instance and bounds | Shows |
| --- | --- | --- |
| `core_cluster` | 3 nodes, 2 elections, 3 entries, 1 line in flight, no send owed when a write is broadcast | `AppliedCoversCommit`, one leader per term, `ElectionInv`, elections are those of `Voting`, log matching, ascending terms, leaders that own their term and only append |
| `core_pair` | 2 nodes, 2 elections, 2 entries, 2 lines in flight, losses, CL lines, the value "-" | types; where a commit needs both nodes, both hold what is applied and apply the same terms and writes, but for a "-" lost on the wire; writes are forwarded only to nodes that won an election |
| `raft_membership` | 3 nodes, 2 elections, 2 entries, 2 commands, 4 launches | no vote is counted twice, those that stay elect one leader per term, and a node that joins a lone leader applies the writes which that applies |
| `raft_restart` | 2 nodes, 1 election, 2 entries, 2 lines in flight, losses, 2 restarts | a leader that goes on leading brings the other to its log and commit index |
| `membership` | 5 nodes, tables of 3, 4 launches | all come to know each other; quitters are forgotten; no table outgrows its array |
| `kv_store` | 4 keys, 3 slots, 2 values, and invalid ones | the store answers as a map does, has no key twice, counts right |
| `thread_pool` | 3 workers, 4 lines | no job lost, doubled or overslept; every job is handled and the pool ends |
| `connections` | 3 clients, streams of up to 5 bytes, lines of 2, 2 descriptors, batches of 3 | buffers keep their bound, lines are those of a line-by-line reader, no slot is taken for another client's, all lines are handed on |
| `lifecycle` | 2 workers, 2 signals, 2 lines | LEAVE is said first, main is last, the process ends but for two named reasons: a signal in a section of the main thread, the console thread cancelled in one |
| `commands` | 4 operations, keys and values around their limits, 1 to 4 words, 2 hops, 3 copies | commands that fit are read, and what was accepted arrives unchanged |
| `doc_state_machine`, `doc_leave` | 3 and 5 nodes | the disagreements below |

Bounds of the core: `MaxElections` bounds the elections started or decided on;
`RAFT_MAX_LOG` is the capacity of the log, so a full log is reached in every
run with entries; `MaxInFlight` the AE and AER lines in flight together,
`MaxForwards` the CL lines; `MaxOwed` and `MaxOwedBeat` the AE
sends that threads of the cluster may still owe when a write or a heartbeat starts
another broadcast (an election won always starts one). Two elections are what a
stale leader and a new one need; two entries are what it takes
for a conflict to have something after it, three for something before it too. One line in flight still leaves old
lines waiting, because sends that are owed are built late (an election may be lost and
another won in between), and a candidate's vote lines are not bounded at all. What holds in `core_cluster` beyond these
bounds is proved.

Bounds of the others: `Launches` has the README's demo (all contact the first
node), newcomers at different members, two that quit at once, and a fifth node at full tables
over a lossy wire in `membership`; in `raft_membership` a third node that joins two, one
of three that leaves, with and without the race on the array, and a second node that joins
one with writes under way, which is the only one that needs AE lines and losses
(`appends`, `writes` and `lossy` of the launch). `MaxRestarts` lets both nodes
restart or one of them twice. `Streams` of one client has short, cut and empty lines,
carriage returns at the limit, a line without an end and one that fills the
buffer, the others send a line and make room for descriptors to be used again;
`RAFT_MAX_CONN` refuses the third descriptor, so that at most `MaxEvents` are ready at once,
and a batch may be any part of them that has all hang-ups. `Signals` come once each, at any
point of the main thread (`SignalAt`), so that one interrupts the other; `MaxJobs` lines keep
both workers busy at the stop. `Typed` are lines below, at and above each field width; the
limits themselves are small, which changes nothing that `sscanf` tells apart.
`kv_store` has a key more than slots, so the store fills and
gaps open before, between and behind what is stored; `thread_pool` has a line
more than workers, so the list also grows while all are busy. Each property is broken by at least one
plausible slip in the code (`mutants` in `PROJECT.json`), inside the bounds of
the run that checks it: the operators named `..._half`, `..._forgotten` and so
on, each before the operator it stands in for.

### Where code and documentation disagree

Two runs expect a counterexample:

* `doc_state_machine`: a leader in the middle of a broadcast hears of a later
  term, follows, and goes on sending: `build_append_locked`
  (`src/network.cpp:92`) writes its present term and its own log, so a follower takes the line
  for one of the new leader's. It cuts off what that leader has committed, and two
  nodes apply different entries at one position (`README.md:3-4`).
  `StateMachineSafety` holds for two nodes and fails for three.
* `doc_leave`: a PEER line about a node, still under way when that node quits, puts it
  back into a peer list after its LEAVE was handled (`src/raft_core.cpp:257`), for good
  (`README.md:50-51`). Where nobody joins, quitters are forgotten (`QuitIsForgotten`).

Each of the following has a configuration of its own (`tlc -config doc_x.cfg M`), with which
TLC finds a counterexample at once. They are beside the regular runs: some have the same
cause as the two above, others state what the documentation only suggests.

| Configuration, module | What happens |
| --- | --- |
| `doc_majority`, `MCRaftCore` | a follower with an old tail answers a matching heartbeat with its whole length (`src/raft_core.cpp:365`), the leader counts its own entries as stored there and commits one that nobody else has |
| `doc_append_leader`, `MCRaftCore` | the `<leader_id>` of an AE line (`README.md:81`) may be a node that never led the line's `<term>` |
| `doc_dash_value`, `MCRaftCore` | the value "-" is a token (`README.md:86`), but the wire uses it for an absent value (`src/raft_core.cpp:498`); the leader stores it and its followers refuse it |
| `doc_dash_key`, `MCCommands` | the key "-" is lost on a follower; when that one leads, its AE line for the entry is a field short, and no node takes it |
| `doc_overlong`, `MCCommands` | a key longer than its field is cut and the rest of it is read as the value (`src/kv_store.cpp:81`) |
| `doc_two_leaders`, `MCRaftMembership` | the nodes of the demo elect before they have met, each with the majority of the cluster it knows |
| `doc_vote_twice`, `MCRaftMembership` | a LEAVE of the node voted for resets `voted_for` (`src/common.cpp:133`), and the voter votes again in that term |
| `doc_answer_race`, `MCRaftMembership` | an answer goes to the wrong candidate, which counts it, while LEAVE shifts the array |
| `doc_known_leader`, `MCRaftMembership` | a node that never led sends an AE line to a newcomer, which then names it as leader (`src/raft_core.cpp:262`) |
| `doc_lone_commit`, `MCRaftMembership` | a leader that was alone when it looked commits an entry after a peer has joined (`src/raft_core.cpp:426`) |
| `doc_restart`, `RaftRestart` | a restarted node votes again in a term in which it has voted (`src/node.cpp:151`), and the term gets two leaders |
| `doc_signal_lost`, `Lifecycle` | the handler clears `running` before `raft_node_start` sets it (`src/node.cpp:184`) |
| `doc_signal_locked`, `Lifecycle` | the handler waits for the node mutex that the thread it interrupts holds (`src/main.cpp:13`) |
| `doc_signal_cancel`, `Lifecycle` | the console thread is cancelled while it holds the mutex (`src/node.cpp:225`), and a worker waits for it for ever |

## Proofs

`tlapm` checks every theorem for all values of the constants, from the
assumptions named in the modules: for `RaftCore`, the set of servers is finite and not
empty, `Nil` is not a server, `Blank` is not a command, and the bounds are numbers; for the others
see below. No theorem has a bound on the number of nodes, workers, clients, lines or bytes but for the pairs,
of fixed membership or growing from one to two.

* **Types.** `TypeOK` alone is not inductive: `apply_committed_locked` reads the
  log up to `commit_index`, and a follower that cuts its log may hold a
  `commit_index` beyond it. What keeps the read inside the log is that whatever
  is committed has been applied, `AppliedCoversCommit`. Together they are
  inductive (`TypeInv`), with one lemma per action: `TypeCorrect`, `CommitIsApplied`.
* **Elections.** `votes_received` counts lines, and a line names neither request nor
  candidate, so the count says something about votes only if no vote is counted
  and still in flight. `ElectionInv` relates what nodes remember (`voted_for`
  as long as the term lasts), what is in flight (a request not yet answered, an
  answer that reports a vote), what was ever cast, and the count: a candidate
  has counted no more votes than were cast for it in its term and are not under
  way. `VotesAgree` proves it; `OneVote` and `MajorityElects` are parts of
  it; `ElectionSafe` follows because two majorities share a voter. The ticker's
  decision to stand after having become leader and lines of any age are covered.
  `VotingIsImplemented`: every step is a step of `Voting` or none. A voter's earlier
  votes are in terms it has reached, and one of its present term it remembers, so a new
  ballot is later than all of them; that a winner has a majority is `ElectionInv` after the step.
* **Logs.** A leader that was deposed sends AE lines with terms it did not win, so it
  does not help to say who sent a line. The proof speaks of links instead:
  an entry with the term of the entry before it, in a log or in a line. Whoever
  sends a line repeats a link of its own log; a follower that stores the entry has
  compared the term before it, so its log gets the same link; and only a leader that appends
  makes a new one, of its own term, at the end of its log. There is one leader per term
  (`ElectionSafe`), and it appends only (`LeadersOnlyAppend`), so there is one term before
  an entry of a given term and index (`OneLink`), and logs match by descending along
  links (`LogsMatch`). `LinkInv` also has the links a leader finds in its own log (`LeaderOwns`) and
  terms that ascend along links (`TermsAreAscending`). All this is true of the code although
  `StateMachineSafety` is not: what a stale leader can bring about is that a
  committed entry is cut off, not that two logs contradict themselves.
* **Named leaders.** A name comes from winning or from an AE line, an AE line from a thread that still
  sends, and such a thread was started by a leader, which may have lost its office since but did win an
  election by its present term (`NamesInv`). `NamedLeaders`: writes go to nodes that led.
* **Pairs.** `StateMachineSafety` and `AppliedOnMajority` are false of three nodes (see `doc_state_machine`), so
  they are proved where the code does have them: assuming `AtMostTwo`. There a majority is everybody. Who stands or
  leads with the other's vote has a log at least as long, the logs have the same entries as far as both go (`Alike`:
  the same term, and the same write but for a "-" that the wire loses), what a
  line calls committed both hold, and so no line of any age makes a node cut its log (`PairInv`, by `PairsFit`; it
  rests on `ElectionInv` and `LogInv`). `PairsApplyTheSame`, `PairsKeepWhatIsApplied`.
* **Membership.** From `PeersAssumption` (finitely many nodes, arrays of a size) and `LaunchAssumption` (what a way
  to launch a cluster is, `IsLaunch`), `TablesFit`: `add_peer_locked` refuses its own node, a peer it has and one
  too many, and what lines and tasks name are nodes, although tasks copy the array later than the line they come
  from changed it.
* **Clusters that change.** From the assumptions of `RaftCore`, `PeersAssumption` (`RAFT_MAX_PEERS` is a number)
  and `LaunchAssumption` (launches are those of `Membership`, with writes that are commands). `GossipIsMembership`:
  seen through the peer arrays and their lines, a step of the composition is one of `Membership` or none, so what
  is proved of that module holds here. `CommitIsAppliedAnywhere`: the per-action lemmas of `RaftCoreProofs` ask
  nothing about who knows whom, so they serve again, and only a lone leader's commit, JOIN, PEER and LEAVE lines
  and their tasks are new. Votes: `ElectionInv` is false here, because LEAVE makes a voter forget
  (`doc_vote_twice`) and a majority may be one of a part of the cluster (`doc_two_leaders`). What is left is an
  argument about requests instead of voters. A candidate asks a peer once per term (`AskedOnce`: a request under
  way has not been answered, a term is stood in once), so a vote is cast once per voter, candidate and term, and an
  answer is counted once. `CountedOnce` therefore counts: votes counted and answers under way with a vote are
  together no more than votes cast. It says so of all candidates of a term at once, since an answer may reach one
  it is not for (`doc_answer_race`): `NoVoteCountsTwice`. With launches that are not `racing`, answers reach whom
  they are for, and `CountedByCandidate` says it candidate by candidate: `CountedWasCast`.
* **Nodes that stay.** What `ElectionInv` says of all voters is left of the nodes that never quit. LEAVE lines are
  about nodes that quit (`KnownInv`), so a node that stays is never taken out of an array and a vote for it is never
  forgotten within its term (`StayersVotes`); what it counts as a majority is never less than `LeastMajority`, the
  majority of those it knew at first and that stay (`ElectedByLeast`, with `CountedByCandidate`). `MajoritiesMeet`
  is a condition on how a cluster is launched: the least majorities of any two nodes that stay together exceed the
  number of nodes launched. Under it, `StayersLeadAlone`. All launches of `raft_membership` satisfy it, and that run
  evaluates it of them (`WaysMeet`): two members and a newcomer, three members one of which leaves, one and a
  newcomer. The condition admits little growth: one newcomer to a lone node or to two members, to a greater
  even number only if it knows all of them but one from the start, and none to an odd number from three on. That is
  the code's doing: when n4 joins n1, n2 and n3 by n1, n2 and n3 may elect one of them before they hear of it, while
  n4, which knows n1 only, is elected in the same term with the vote of n1. Nor does the repository's demo satisfy
  the condition (1 + 2 is not more than 3), and there `doc_two_leaders` finds two leaders.
* **Logs of clusters that change.** The argument about links never asks who knows whom. It asks that a leader be
  the only one of its term, and that is not true of every cluster that changes: see `MajoritiesMeet` above. So it
  is a premise, on the behaviour and not on the launch. As long as no term has had two leaders, logs match, leaders
  own their terms and terms ascend (`ChangingLogsMatch`), and leaders only append (`ChangingLeadersAppend`),
  whoever joins, leaves or quits. A lone leader's commit, PEER lines and the AE lines that they make nodes send
  which do not lead are what the steps add. `elected` only grows, so before a state
  with one leader per term there is none without it (`SafeBefore`), and the invariant may be conditional. Where the
  premise fails, logs may disagree: two leaders write entries of one term.
* **One node that becomes two.** Of clusters of at most two nodes that nobody quits (`NobodyQuits`) and where not
  both start without the other (which is what `MajoritiesMeet` says of two). `PairInv` is false here: the first
  node commits what it has alone. Each node's own log holds what it has applied (`AllOwnApplied`), so the two apply
  the same (`Alike`) if logs fit and only grow. A vote no longer shows that a log is as long as the voter's, since
  the voter may have led alone and written in between; a vote that the candidate counted or may still count does
  (`Backed`), because it came in an answer, and a node answers only its peers. As long as the first does not know
  the second, or leads without its vote (`Without`), the second has never been elected, is not being sent a vote by
  the first, and has no more than the first (`NewcomersBehind`); at most one of two can lead alone
  (`OneLeadsAlone`, by `MajoritiesMeet`). So who leads has all there is (`LeaderLonger`), and an AE line finds
  nothing to cut. `DuoInv`, by `DuosFit`; `GrowingPairApplies`. Commits need not be by a majority in such a cluster
  (`doc_lone_commit`).
* **Commands.** From `WordsAssumption` and `CommandsAssumption` (lines are of words, which are not empty; the
  tokens the program prints are tokens; keys and values may have a byte, and "set" fits its field). `sscanf` yields
  up to three words within their widths (`ScanFinds`), and exactly the words that are there if they fit (`OneFits`,
  `TwoFit`, `ThreeFit`), so that a line between nodes can be followed word by word. `WireInv`: what is submitted is
  valid, what is in a log is valid or has lost a "-" (`Kept`), and either is what was accepted unless a "-" was in
  it. An entry without its key survives only if its value is too long for a key and is cut into both
  (`CopiedIsKept`). `CommandsTyped`, `PlainCommandsSurvive`, `FittingLinesParse`.
* **Store.** From `TokenAssumption`, `SlotAssumption` and `UnusedAssumption` (an invalid
  token is no key and no value, the number of slots is a number, a free slot holds no item)
  `KvCorrect` proves `KvInv`: types, each key in one slot, the count that of the
  slots in use. `KeysDiffer` is what makes the map well defined and each search
  meet the only slot with its key, so that `StoreIsAMap` can match each way out of `kv_apply` and
  `kv_get` with a step of the map; that the store is full exactly when the map is follows
  from as many keys as slots in use.
* **Connections.** From `ConnectionAssumption` (among others, that clients are finitely many and "none" is none of
  them), `SlotInv`: slots name the client that has the descriptor, an event of the batch
  the client of its descriptor, which is open, and no two events of a batch have the same
  descriptor. The last is what the argument needs: `close_connection` may make an event of the
  same descriptor stale, and there is none left in the batch; a client is accepted at a
  descriptor that was free or closed by an event already handled. `SlotsAgree`.
  Lines: `ReadOn` says that to read bytes t after s gives the lines of s followed by those of t read into what
  s left in the buffer; it rests on how the newlines of a sequence are those of its parts (`CutNewlines`, `CutCounts`,
  `CutStarts`, `CutLines`, `WhatIsLeft`). With it `LineInv` is inductive: what was handed on and
  what is in the buffer are those of one read of all the bytes, and the buffer keeps a byte free
  (`PiecesDoNotMatter`, `BuffersHold`). That one read of all is what the reader finds that looks at one byte
  after the other (`Reference`, a recursive function) is shown by exhibiting it as the solution of the reader's
  equation, and that there is one solution only by the least length at which two would differ. `LinesAreRight`.
* **Worker pool.** From `WorkerAssumption`, `LinesAssumption` and `NullAssumption` (workers are finitely many and
  there is one, NULL is no job), `PoolInv`: a job that has left the list is in the hands of one worker or was
  handled and freed by it; each job in the list leads to the next; the memory behind the last line is untouched; a
  worker ends on an empty list after the stop. The last is why `pool_destroy` finds nothing left to free, and why
  nothing submitted is dropped. `NothingDangles`, `ListIsWhatIsPending`, and `NobodyOversleeps`: a signal may wake
  any waiting worker, and one that was not waiting may take the job first, but then there is a worker less to wake
  or a job less to take.
* **Lifecycle.** From `LifecycleAssumption` (there are workers, none of which is one of the other four threads or
  the name of the free mutex), `LifeInv`. Handlers nest in the main thread, so it speaks of `base`, where that
  thread is with its handlers left out: only the main thread's own steps change it. It relates `base` to the
  threads that have ended, and a worker's end to the stop and the empty queue. `MainIsLast`, for any signals at any
  points; and `RunningNodesLeave`, since a thread that clears the flag has seen it clear or has sent LEAVE.
  `SectionsExclude`: handlers of signals run on top of sections, and one that waits for the mutex is stuck if it
  interrupted its own holder, so main is in one section at most, however deep the handlers nest (`MutexInv`); a
  thread that is cancelled in a section keeps the mutex for ever, and is in none any more.

Only model-checked: restarts (`RaftRestart`) and every liveness property. Liveness and ENABLED are outside what the
prover can do. Every invariant of the other runs is stated by a theorem; those about leaders and logs of
clusters that change are conditional, on how the cluster is launched (`MajoritiesMeet`, `NobodyQuits`) or on one
leader per term in the behaviour (`ElectionSafety`): the code elects two where majorities do not meet
(`doc_two_leaders`).

## What is not modelled, and what is left

Not modelled:

* the event log (nothing reads it), what `state` and `show` print, the configuration
  (`raft_config_from_args`: once, before any thread starts), socket options, the build
  tool, the tests, and the generated documentation under `docs/` with its scripts;
* failures of `epoll_ctl`, `calloc` and `set_nonblock` when a connection is accepted, which close
  it as a refused descriptor is closed; clients that vanish without a FIN;
* that a cluster whose majority is up elects a leader: the timers are random and the
  model has no time, so nothing could be assumed that would not be the property itself;
* lines sent twice: no code sends a vote line twice, and TCP does not;
* peers whose address changes, and a node that comes back under its id elsewhere;
* in `RaftMembership`, CL lines and AER lines that go astray.

Left to do:

1. Restarts of three nodes with a voter that forgets, and writes to a cluster that grows past
   two; both are beyond what TLC can do in minutes and want an abstraction of their own.
2. Prove of `RaftRestart` what holds of nodes that were not restarted.
