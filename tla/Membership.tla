----------------------------- MODULE Membership -----------------------------
(***************************************************************************)
(* How nodes come to know each other (src/src/raft_core.cpp:130-277 and    *)
(* src/src/common.cpp:91-144): a node that starts sends JOIN to the peers  *)
(* of its command line, PEER lines spread whom a node has learnt of, and   *)
(* LEAVE lines that a node quits.  What an added or removed peer means for *)
(* terms, votes and logs is in RaftMembership.                             *)
(*                                                                         *)
(* A handler changes the peers in one critical section and copies those it *)
(* sends to in later ones.  What it has yet to do in between is a task.    *)
(***************************************************************************)
EXTENDS Integers, FiniteSets, Bags

CONSTANTS
    Server,
    RAFT_MAX_PEERS,
    Launches    \* bound: how the cluster is launched, one way per behaviour:
                \*   members   nodes that have met before the behaviour begins
                \*   contacts  the --peer options of each node started later
                \*   quitters  the nodes that may quit
                \*   lossy     whether lines may be lost

ASSUME PeersAssumption == IsFiniteSet(Server) /\ RAFT_MAX_PEERS \in Nat

IsLaunch(l) ==
    /\ l.members \subseteq Server /\ Cardinality(l.members) <= RAFT_MAX_PEERS + 1
    /\ l.contacts \in [DOMAIN l.contacts -> SUBSET Server]
    /\ DOMAIN l.contacts \subseteq Server \ l.members
    /\ \A i \in DOMAIN l.contacts :
          i \notin l.contacts[i] /\ Cardinality(l.contacts[i]) <= RAFT_MAX_PEERS
    /\ l.quitters \subseteq Server /\ l.lossy \in BOOLEAN

ASSUME LaunchAssumption == \A l \in Launches : IsLaunch(l)

VARIABLES
    launch,     \* the one of Launches
    state,      \* "off", then "up", "leaving" once it has said LEAVE, "gone"
    peers,      \* ids in node->peers
    tasks,      \* what handlers have yet to do, after their first section
    lines       \* JOIN, PEER and LEAVE lines in flight

vars == <<launch, state, peers, tasks, lines>>

Line == [kind : {"JOIN", "PEER", "LEAVE"}, about : Server, to : Server]

\* Node at is about to do step; about is the node that the line named, cause
\* its kind ("START" for raft_node_start).
Task == [at : Server, step : {"join", "announce", "catalog", "farewell"},
         about : Server, cause : {"START", "JOIN", "PEER", "LEAVE"}]

\* raft_node_init gives a node the peers of its options; members know each other.
Init ==
    /\ launch \in Launches
    /\ state = [i \in Server |-> IF i \in launch.members THEN "up" ELSE "off"]
    /\ peers = [i \in Server |-> CASE i \in launch.members -> launch.members \ {i}
                                   [] i \in DOMAIN launch.contacts -> launch.contacts[i]
                                   [] OTHER -> {}]
    /\ tasks = EmptyBag
    /\ lines = EmptyBag

Running(i) == state[i] \in {"up", "leaving"}
One(x) == SetToBag({x})

\* The lines of this kind about node x that reach the nodes of To: connect_send
\* fails where no process listens.
Sent(kind, x, To) == SetToBag({[kind |-> kind, about |-> x, to |-> j] : j \in {k \in To : Running(k)}})

-----------------------------------------------------------------------------
(* Starting and quitting.                                                  *)

\* raft_node_start; a node is started after those it contacts.
raft_node_start(i) ==
    /\ i \in DOMAIN launch.contacts /\ state[i] = "off"
    /\ \A c \in launch.contacts[i] : state[c] # "off"
    /\ state' = [state EXCEPT ![i] = "up"]
    /\ tasks' = tasks (+) One([at |-> i, step |-> "join", about |-> i, cause |-> "START"])
    /\ UNCHANGED <<launch, peers, lines>>

request_cluster_join(t) ==
    /\ t.step = "join"
    /\ tasks' = tasks (-) One(t)
    /\ lines' = lines (+) Sent("JOIN", t.at, peers[t.at])
    /\ UNCHANGED <<launch, state, peers>>

\* raft_node_stop, from the console: the node still handles the lines it has.
request_cluster_leave(i) ==
    /\ i \in launch.quitters /\ state[i] = "up"
    /\ state' = [state EXCEPT ![i] = "leaving"]
    /\ lines' = lines (+) Sent("LEAVE", i, peers[i])
    /\ UNCHANGED <<launch, peers, tasks>>

\* raft_node_destroy has joined all threads: lines not handled yet are lost.
raft_node_destroy(i) ==
    /\ state[i] = "leaving"
    /\ \A t \in BagToSet(tasks) : t.at # i
    /\ state' = [state EXCEPT ![i] = "gone"]
    /\ lines' = [m \in {l \in DOMAIN lines : l.to # i} |-> lines[m]]
    /\ UNCHANGED <<launch, peers, tasks>>

-----------------------------------------------------------------------------
(* The peer array.                                                         *)

\* Mutant: the array may grow by one too many.
CanAdd_one_more(i, x) == x # i /\ x \notin peers[i] /\ Cardinality(peers[i]) <= RAFT_MAX_PEERS

\* add_peer_locked returns 1.
CanAdd(i, x) == x # i /\ x \notin peers[i] /\ Cardinality(peers[i]) < RAFT_MAX_PEERS

add_peer_locked(i, x) == peers' = [peers EXCEPT ![i] = IF CanAdd(i, x) THEN @ \cup {x} ELSE @]

\* Mutant: no peer is shifted, so the one at the end is dropped instead.
remove_peer_locked_at_end(i, x) ==
    peers' = [peers EXCEPT ![i] = IF x \in @ THEN @ \ {CHOOSE y \in @ : TRUE} ELSE @]

remove_peer_locked(i, x) == peers' = [peers EXCEPT ![i] = @ \ {x}]

-----------------------------------------------------------------------------
(* Handlers and what they do after their first critical section.           *)

handle_join(m) ==
    LET i == m.to  x == m.about IN
    /\ m.kind = "JOIN"
    /\ lines' = lines (-) One(m)
    /\ add_peer_locked(i, x)
    /\ tasks' = tasks (+) One([at |-> i, about |-> x, cause |-> "JOIN",
                               step |-> IF CanAdd(i, x) THEN "announce" ELSE "catalog"])
    /\ UNCHANGED <<launch, state>>

handle_peer_announce(m) ==
    LET i == m.to  x == m.about IN
    /\ m.kind = "PEER"
    /\ lines' = lines (-) One(m)
    /\ add_peer_locked(i, x)
    /\ tasks' = IF CanAdd(i, x)
                THEN tasks (+) One([at |-> i, about |-> x, cause |-> "PEER", step |-> "announce"])
                ELSE tasks
    /\ UNCHANGED <<launch, state>>

handle_leave(m) ==
    LET i == m.to  x == m.about IN
    /\ m.kind = "LEAVE"
    /\ lines' = lines (-) One(m)
    /\ remove_peer_locked(i, x)
    /\ tasks' = IF x \in peers[i]
                THEN tasks (+) One([at |-> i, about |-> x, cause |-> "LEAVE", step |-> "farewell"])
                ELSE tasks
    /\ UNCHANGED <<launch, state>>

\* Mutant: only JOIN lines are passed on.
Announced_from_join(t) == IF t.cause = "JOIN" THEN peers[t.at] \ {t.about} ELSE {}

\* Whom the node of task t tells of the peer it has learnt of.
Announced(t) == peers[t.at] \ {t.about}

announce_peer_to_known_nodes(t) ==
    /\ t.step = "announce"
    /\ lines' = lines (+) Sent("PEER", t.about, Announced(t))
    /\ tasks' = IF t.cause = "JOIN" THEN tasks (-) One(t) (+) One([t EXCEPT !.step = "catalog"])
                ELSE tasks (-) One(t)
    /\ UNCHANGED <<launch, state, peers>>

\* The nodes of which node i tells a node that joins, itself among them.
Catalog(i) == {i} \cup peers[i]

\* The catalog goes to the address in the JOIN line, also if the table is full.
send_peer_catalog(t) ==
    /\ t.step = "catalog"
    /\ tasks' = tasks (-) One(t)
    /\ lines' = IF Running(t.about)
                THEN lines (+) SetToBag({[kind |-> "PEER", about |-> j, to |-> t.about] : j \in Catalog(t.at)})
                ELSE lines
    /\ UNCHANGED <<launch, state, peers>>

announce_leave_to_known_nodes(t) ==
    /\ t.step = "farewell"
    /\ tasks' = tasks (-) One(t)
    /\ lines' = lines (+) Sent("LEAVE", t.about, peers[t.at] \ {t.about})
    /\ UNCHANGED <<launch, state, peers>>

\* A line that is lost although its receiver runs.
lose ==
    /\ launch.lossy
    /\ \E m \in BagToSet(lines) : lines' = lines (-) One(m)
    /\ UNCHANGED <<launch, state, peers, tasks>>

handle_line(m) ==
    /\ BagIn(m, lines)
    /\ handle_join(m) \/ handle_peer_announce(m) \/ handle_leave(m)

do_task(t) ==
    /\ BagIn(t, tasks)
    /\ \/ request_cluster_join(t) \/ announce_peer_to_known_nodes(t)
       \/ send_peer_catalog(t) \/ announce_leave_to_known_nodes(t)

Work ==
    \/ \E m \in BagToSet(lines) : handle_line(m)
    \/ \E t \in BagToSet(tasks) : do_task(t)

Next ==
    \/ \E i \in Server : raft_node_start(i) \/ request_cluster_leave(i) \/ raft_node_destroy(i)
    \/ Work
    \/ lose

\* Workers handle what arrives, and the user starts all nodes.
Spec ==
    /\ Init /\ [][Next]_vars
    /\ WF_vars(Work) /\ \A i \in Server : WF_vars(raft_node_start(i))

-----------------------------------------------------------------------------
(* Properties.                                                             *)

\* A peer array holds no more than RAFT_MAX_PEERS ids, and never its own node's.
TypeOK ==
    /\ state \in [Server -> {"off", "up", "leaving", "gone"}]
    /\ peers \in [Server -> SUBSET Server]
    /\ \A i \in Server : i \notin peers[i] /\ Cardinality(peers[i]) <= RAFT_MAX_PEERS
    /\ BagToSet(tasks) \subseteq Task /\ BagToSet(lines) \subseteq Line

Quiet == tasks = EmptyBag /\ lines = EmptyBag
Nodes == launch.members \cup DOMAIN launch.contacts

\* Nobody quits, no line is lost, and a table has room for all others.
Meeting ==
    launch.quitters = {} /\ ~launch.lossy /\ Cardinality(Nodes) <= RAFT_MAX_PEERS + 1

\* All nodes come to know each other for good, whoever they contacted, in whatever
\* order their lines are handled, and between whichever two sections of a handler
\* a peer is added: "every node eventually shows peers=3 in a four-node cluster"
\* (README.md:32-33).
AllMeet ==
    Meeting => <>[](\A i \in Nodes : peers[i] = Nodes \ {i})

\* Node x has quit, and a node that stays lists it.
Lingers(x) == state[x] = "gone" /\ \E i \in Server : state[i] = "up" /\ x \in peers[i]

\* No LEAVE line is lost, and no PEER line is under way that could undo one.
Parting == DOMAIN launch.contacts = {} /\ ~launch.lossy

\* Whoever quits is forgotten for good, also when several quit at once and pass on
\* each other's LEAVE lines (handle_leave), as long as nobody joins.
QuitIsForgotten ==
    Parting => <>[](\A x \in Server : ~Lingers(x))

\* When a node quits, "the remaining nodes remove it from their peer lists"
\* (README.md:50-51): once nothing is under way any more, none lists it, also
\* when another node joins.
QuitterIsRemoved ==
    ~launch.lossy /\ Quiet => \A x \in Server : ~Lingers(x)

=============================================================================
