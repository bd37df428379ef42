----------------------------- MODULE ThreadPool -----------------------------
(***************************************************************************)
(* The worker pool (src/src/network.cpp:146-242).  The network thread      *)
(* submits each line it reads as a job; workers take jobs from a linked    *)
(* list, asleep on a condition variable while it is empty.  When the node  *)
(* is destroyed the network thread has ended (node.cpp:218-228), and       *)
(* pool_destroy stops the workers and joins them.                          *)
(*                                                                         *)
(* An action is a section in which the pool's mutex is held, or one that   *)
(* does without it.  Jobs are numbered in the order of their lines.        *)
(***************************************************************************)
EXTENDS Integers, FiniteSets

CONSTANTS
    Worker,     \* the threads of the pool
    NULL,
    MaxLines    \* bound: the lines that the network thread reads

ASSUME WorkerAssumption == Worker # {} /\ IsFiniteSet(Worker)
ASSUME LinesAssumption == MaxLines \in Nat
ASSUME NullAssumption == NULL \notin Nat

Job == 1 .. MaxLines

VARIABLES
    head, tail, next,   \* the list of jobs
    stop,
    worker,             \* [pc, job] of each worker, pc as below
    reading,            \* the network thread runs
    lines,              \* the lines it has read
    allocated, freed,   \* the jobs ever allocated, and those freed
    handled,            \* the jobs handled
    destroyed           \* pool_destroy has joined the workers and cleared up

vars == <<head, tail, next, stop, worker, reading, lines, allocated, freed, handled, destroyed>>

\* A worker is about to lock the mutex (151), waits on the condition variable
\* (153), handles a job (166) or has ended (169).
PC == {"lock", "wait", "handle", "ended"}

In(pc) == {w \in Worker : worker[w].pc = pc}
Idle(pc) == [pc |-> pc, job |-> NULL]

Init ==
    /\ head = NULL /\ tail = NULL /\ next = [j \in Job |-> NULL]
    /\ stop = FALSE
    /\ worker = [w \in Worker |-> Idle("lock")]
    /\ reading = TRUE /\ lines = 0
    /\ allocated = {} /\ freed = {} /\ handled = {}
    /\ destroyed = FALSE

-----------------------------------------------------------------------------
\* Mutant: nobody is signalled.
signal_none == UNCHANGED worker

\* pthread_cond_signal: one of the workers that wait goes on, if any does.
signal ==
    \/ In("wait") = {} /\ UNCHANGED worker
    \/ \E w \in In("wait") : worker' = [worker EXCEPT ![w] = Idle("lock")]

\* Mutant: a single worker is told to stop.
broadcast_one == signal

\* pthread_cond_broadcast: all of them do.
broadcast == worker' = [w \in Worker |-> IF w \in In("wait") THEN Idle("lock") ELSE worker[w]]

\* The network thread has read a line; pool_submit drops it if calloc fails.
pool_submit ==
    /\ reading /\ lines < MaxLines
    /\ lines' = lines + 1
    /\ \/ UNCHANGED <<head, tail, next, worker, allocated>>
       \/ /\ allocated' = allocated \cup {lines'}
          /\ tail' = lines'
          /\ IF tail = NULL
             THEN head' = lines' /\ UNCHANGED next
             ELSE next' = [next EXCEPT ![tail] = lines'] /\ UNCHANGED head
          /\ signal
    /\ UNCHANGED <<stop, reading, freed, handled, destroyed>>

\* Mutant: the last job taken stays the tail.
dequeue_keeping_tail == head' = next[head] /\ UNCHANGED tail

dequeue ==
    /\ head' = next[head]
    /\ tail' = IF head' = NULL THEN NULL ELSE tail

\* Mutant: a worker ends as soon as it is told to stop.
MayEnd_at_once == stop

MayEnd == stop /\ head = NULL

MayWait == head = NULL /\ ~ stop

\* Worker w locks the mutex and finds out what to do.
pool_worker_look(w) ==
    /\ worker[w].pc = "lock"
    /\ \/ /\ MayWait
          /\ worker' = [worker EXCEPT ![w] = Idle("wait")]
          /\ UNCHANGED <<head, tail>>
       \/ /\ MayEnd
          /\ worker' = [worker EXCEPT ![w] = Idle("ended")]
          /\ UNCHANGED <<head, tail>>
       \/ /\ ~ MayWait /\ ~ MayEnd
          /\ worker' = [worker EXCEPT ![w] = [pc |-> "handle", job |-> head]]
          /\ dequeue
    /\ UNCHANGED <<next, stop, reading, lines, allocated, freed, handled, destroyed>>

\* Worker w has handled its job and frees it.
pool_worker_handle(w) ==
    /\ worker[w].pc = "handle"
    /\ handled' = handled \cup {worker[w].job}
    /\ freed' = freed \cup {worker[w].job}
    /\ worker' = [worker EXCEPT ![w] = Idle("lock")]
    /\ UNCHANGED <<head, tail, next, stop, reading, lines, allocated, destroyed>>

\* A wait on a condition variable may end without a signal.
wake_up(w) ==
    /\ worker[w].pc = "wait"
    /\ worker' = [worker EXCEPT ![w] = Idle("lock")]
    /\ UNCHANGED <<head, tail, next, stop, reading, lines, allocated, freed, handled, destroyed>>

\* The network thread finds running = 0 between two lines, and is joined.
network_loop_end ==
    /\ reading /\ reading' = FALSE
    /\ UNCHANGED <<head, tail, next, stop, worker, lines, allocated, freed, handled, destroyed>>

\* pool_destroy tells the workers to stop (223-226).
pool_destroy_stop ==
    /\ ~ reading /\ ~ stop
    /\ stop' = TRUE
    /\ broadcast
    /\ UNCHANGED <<head, tail, next, reading, lines, allocated, freed, handled, destroyed>>

\* The jobs in the list: those in every set that has the head and, with a job,
\* the one behind it.
Linked ==
    {j \in Job : \A T \in SUBSET Job :
        head \in T \cup {NULL} /\ (\A k \in T : next[k] \in T \cup {NULL}) => j \in T}

\* It joins them and frees what is left in the list (228-241).
pool_destroy_join ==
    /\ stop /\ ~ destroyed
    /\ In("ended") = Worker
    /\ freed' = freed \cup Linked
    /\ destroyed' = TRUE
    /\ UNCHANGED <<head, tail, next, stop, worker, reading, lines, allocated, handled>>

pool_worker(w) == pool_worker_look(w) \/ pool_worker_handle(w)
pool_destroy == pool_destroy_stop \/ pool_destroy_join

Next ==
    \/ pool_submit \/ network_loop_end
    \/ pool_destroy
    \/ \E w \in Worker : pool_worker(w) \/ wake_up(w)

\* A worker that can run does, its job ends, and so does raft_node_destroy.
\* When the node is stopped is not known, and a wait need not end by itself.
Fairness == (\A w \in Worker : WF_vars(pool_worker(w))) /\ WF_vars(pool_destroy)

Spec == Init /\ [][Next]_vars /\ Fairness

-----------------------------------------------------------------------------
Live == allocated \ freed

\* Where the mutex is free, no pointer the pool will follow dangles: the ends of
\* the list and the jobs at hand are NULL or not freed.
TypeOK ==
    /\ ~ destroyed => {head, tail} \subseteq Live \cup {NULL}
    /\ next \in [Job -> Job \cup {NULL}]
    /\ stop \in BOOLEAN /\ reading \in BOOLEAN /\ destroyed \in BOOLEAN
    /\ worker \in [Worker -> [pc : PC, job : Job \cup {NULL}]]
    /\ \A w \in Worker : IF worker[w].pc = "handle" THEN worker[w].job \in Live
                                                  ELSE worker[w].job = NULL
    /\ lines \in 0 .. MaxLines
    /\ allocated \subseteq 1 .. lines /\ freed \subseteq allocated /\ handled \subseteq freed

Taken == handled \cup {worker[w].job : w \in In("handle")}
Pending == allocated \ Taken

IsFirst(x, S) == IF S = {} THEN x = NULL ELSE x \in S /\ \A y \in S : x <= y
IsLast(x, S) == IF S = {} THEN x = NULL ELSE x \in S /\ \A y \in S : x >= y

\* The list is what was submitted and nobody has taken, in the order of the
\* lines: it starts with the first, goes on from each to the next and ends with
\* the last, so no job is lost, taken twice or put behind one already freed.
ListIsPending ==
    ~ destroyed =>
        /\ IsFirst(head, Pending) /\ IsLast(tail, Pending)
        /\ \A j \in Pending : IsFirst(next[j], {k \in Pending : k > j})

\* While a worker sleeps there is, for each job pending, a worker on its way
\* to take one: a signal is not wasted on a worker that is late, nor needed by
\* one that is busy.
NoneOversleeps == In("wait") # {} => Cardinality(Pending) <= Cardinality(In("lock"))

\* A job that was submitted is handled, also one submitted just before the stop.
LinesHandled == \A j \in Job : j \in allocated ~> j \in handled

\* Once the network thread has ended, so do the workers and raft_node_destroy.
PoolEnds == ~ reading ~> destroyed

=============================================================================
