------------------------------ MODULE Lifecycle -----------------------------
(***************************************************************************)
(* The life of one process (src/src/main.cpp and src/src/node.cpp): the    *)
(* threads it starts, the node mutex they share, and how they end, by the  *)
(* console's "quit" or by a signal whose handler runs inside the thread it *)
(* interrupts.                                                             *)
(*                                                                         *)
(* A thread's pc says where it is.  The handler calls raft_node_stop on    *)
(* top of what its thread was doing, which interrupted remembers.  What    *)
(* threads do with the node is one section under the mutex; jobs stands    *)
(* for the pool's queue, of which ThreadPool has the detail.               *)
(***************************************************************************)
EXTENDS Integers, SequencesExt

CONSTANTS
    Worker,
    Signals,        \* bound: the signals that may come, each at most once
    SignalAt,       \* bound: the pcs of main at which one may come
    MaxJobs         \* bound: lines that may arrive

ASSUME LifecycleAssumption ==
    Worker # {} /\ Worker \cap {"main", "network", "ticker", "stdin", "free"} = {} /\ MaxJobs \in Nat

VARIABLES
    pc,
    running,        \* node->running
    mutex,          \* who holds node->mutex, or "free"
    arrived, jobs,  \* lines that have arrived, and that are queued
    stop,           \* pool.stop
    cancelled,      \* pthread_cancel(stdin_thread) was called
    interrupted,    \* interrupted[t]: where thread t goes on after its handlers
    pending,        \* signals that may still come
    left            \* history: LEAVE lines were sent

vars == <<pc, running, mutex, arrived, jobs, stop, cancelled, interrupted, pending, left>>

Thread == {"main", "network", "ticker", "stdin"} \cup Worker

\* Threads wait for the mutex at the first and hold it at the second.
Section == [lock |-> "locked", leave |-> "leaving", join |-> "joining"]

Go(t, to) == pc' = [pc EXCEPT ![t] = to]

Init ==
    /\ pc = [t \in Thread |-> IF t = "main" THEN "create" ELSE IF t \in Worker THEN "idle" ELSE "none"]
    /\ running = FALSE /\ mutex = "free"
    /\ arrived = 0 /\ jobs = 0 /\ stop = FALSE
    /\ cancelled = FALSE
    /\ interrupted = [t \in Thread |-> <<>>]
    /\ pending = Signals
    /\ left = FALSE

-----------------------------------------------------------------------------
(* The mutex.                                                              *)

pthread_mutex_lock(t) ==
    /\ pc[t] \in DOMAIN Section /\ mutex = "free"
    /\ mutex' = t
    /\ Go(t, Section[pc[t]])
    /\ UNCHANGED <<running, arrived, jobs, stop, cancelled, interrupted, pending, left>>

unlock(t) == mutex' = "free"

-----------------------------------------------------------------------------
(* raft_node_stop, called by the console thread or by the handler.         *)

\* Mutant: the flag is cleared first.
raft_node_stop_clearing_first(t) ==
    /\ pc[t] = "stop"
    /\ running' = FALSE
    /\ Go(t, "stopped")
    /\ UNCHANGED <<mutex, arrived, jobs, stop, cancelled, interrupted, pending, left>>

raft_node_stop(t) ==
    /\ pc[t] = "stop"
    /\ Go(t, IF running THEN "leave" ELSE "stopped")
    /\ UNCHANGED <<running, mutex, arrived, jobs, stop, cancelled, interrupted, pending, left>>

\* The peers are copied under the mutex, and LEAVE is sent to them after it.
request_cluster_leave(t) ==
    /\ pc[t] = "leaving"
    /\ unlock(t)
    /\ left' = TRUE
    /\ Go(t, "stopped")
    /\ UNCHANGED <<running, arrived, jobs, stop, cancelled, interrupted, pending>>

\* Mutant: a handler leaves the flag as it is.
raft_node_stop_end_console_only(t) ==
    /\ pc[t] = "stopped"
    /\ IF interrupted[t] # <<>>
       THEN /\ Go(t, Last(interrupted[t]))
            /\ interrupted' = [interrupted EXCEPT ![t] = Front(@)]
            /\ UNCHANGED running
       ELSE Go(t, "ended") /\ UNCHANGED interrupted /\ running' = FALSE
    /\ UNCHANGED <<mutex, arrived, jobs, stop, cancelled, pending, left>>

raft_node_stop_end(t) ==
    /\ pc[t] = "stopped"
    /\ running' = FALSE
    /\ IF interrupted[t] # <<>>
       THEN /\ Go(t, Last(interrupted[t]))
            /\ interrupted' = [interrupted EXCEPT ![t] = Front(@)]
       ELSE Go(t, "ended") /\ UNCHANGED interrupted
    /\ UNCHANGED <<mutex, arrived, jobs, stop, cancelled, pending, left>>

\* The signal interrupts the main thread, which takes it on Linux.
handle_signal(s) ==
    /\ s \in pending /\ pc["main"] \in SignalAt
    /\ pending' = pending \ {s}
    /\ interrupted' = [interrupted EXCEPT !["main"] = Append(@, pc["main"])]
    /\ Go("main", "stop")
    /\ UNCHANGED <<running, mutex, arrived, jobs, stop, cancelled, left>>

-----------------------------------------------------------------------------
(* The main thread.                                                        *)

\* The threads that raft_node_start creates, in this order.
Created == <<"network", "ticker", "stdin">>

\* raft_node_start, where create_server or pthread_create may fail.
raft_node_start ==
    /\ pc["main"] = "create"
    /\ \/ /\ running' = TRUE
          /\ \E n \in 0 .. Len(Created) :
                pc' = [t \in Thread |->
                        CASE t = "main" -> IF n = Len(Created) THEN "join" ELSE "destroy"
                          [] t \in Range(SubSeq(Created, 1, n)) -> "loop"
                          [] OTHER -> pc[t]]
       \/ Go("main", "destroy") /\ UNCHANGED running
    /\ UNCHANGED <<mutex, arrived, jobs, stop, cancelled, interrupted, pending, left>>

request_cluster_join ==
    /\ pc["main"] = "joining"
    /\ unlock("main")
    /\ Go("main", "sleep")
    /\ UNCHANGED <<running, arrived, jobs, stop, cancelled, interrupted, pending, left>>

main_wakes ==
    /\ pc["main"] = "sleep" /\ ~running
    /\ Go("main", "destroy")
    /\ UNCHANGED <<running, mutex, arrived, jobs, stop, cancelled, interrupted, pending, left>>

\* raft_node_destroy; the flag is set still where not all threads could be created.
raft_node_destroy_start ==
    /\ pc["main"] = "destroy"
    /\ running' = FALSE
    /\ Go("main", "join threads")
    /\ UNCHANGED <<mutex, arrived, jobs, stop, cancelled, interrupted, pending, left>>

Ended(t) == pc[t] \in {"none", "ended"}

\* Mutant: the ticker is not waited for.
join_threads_without_ticker ==
    /\ pc["main"] = "join threads" /\ Ended("network")
    /\ cancelled' = (pc["stdin"] # "none")
    /\ Go("main", "join stdin")
    /\ UNCHANGED <<running, mutex, arrived, jobs, stop, interrupted, pending, left>>

\* It joins network and ticker and cancels the console thread.
join_threads ==
    /\ pc["main"] = "join threads" /\ Ended("network") /\ Ended("ticker")
    /\ cancelled' = (pc["stdin"] # "none")
    /\ Go("main", "join stdin")
    /\ UNCHANGED <<running, mutex, arrived, jobs, stop, interrupted, pending, left>>

join_stdin ==
    /\ pc["main"] = "join stdin" /\ Ended("stdin")
    /\ stop' = TRUE
    /\ Go("main", "join pool")
    /\ UNCHANGED <<running, mutex, arrived, jobs, cancelled, interrupted, pending, left>>

\* The pool is gone, and the mutex is destroyed.
join_pool ==
    /\ pc["main"] = "join pool" /\ \A w \in Worker : Ended(w)
    /\ Go("main", "ended")
    /\ UNCHANGED <<running, mutex, arrived, jobs, stop, cancelled, interrupted, pending, left>>

raft_node_destroy == raft_node_destroy_start \/ join_threads \/ join_stdin \/ join_pool

-----------------------------------------------------------------------------
(* The other threads.                                                      *)

network_loop ==
    /\ pc["network"] = "loop"
    /\ \/ running /\ arrived < MaxJobs /\ jobs' = jobs + 1 /\ arrived' = arrived + 1 /\ UNCHANGED pc
       \/ ~running /\ Go("network", "ended") /\ UNCHANGED <<arrived, jobs>>
    /\ UNCHANGED <<running, mutex, stop, cancelled, interrupted, pending, left>>

ticker_loop ==
    /\ pc["ticker"] = "loop"
    /\ Go("ticker", IF running THEN "lock" ELSE "ended")
    /\ UNCHANGED <<running, mutex, arrived, jobs, stop, cancelled, interrupted, pending, left>>

\* Mutant: a worker that wakes up takes a line without looking.
pool_worker_not_looking(w) ==
    /\ pc[w] = "idle"
    /\ \/ jobs' = jobs - 1 /\ Go(w, "lock")
       \/ jobs = 0 /\ stop /\ Go(w, "ended") /\ UNCHANGED jobs
    /\ UNCHANGED <<running, mutex, arrived, stop, cancelled, interrupted, pending, left>>

pool_worker(w) ==
    /\ pc[w] = "idle"
    /\ \/ jobs > 0 /\ jobs' = jobs - 1 /\ Go(w, "lock")
       \/ jobs = 0 /\ stop /\ Go(w, "ended") /\ UNCHANGED jobs
    /\ UNCHANGED <<running, mutex, arrived, stop, cancelled, interrupted, pending, left>>

\* Mutant: the ticker goes on without the unlock.
section_end_keeping(t) ==
    /\ pc[t] = "locked"
    /\ IF t = "ticker" THEN UNCHANGED mutex ELSE unlock(t)
    /\ Go(t, IF t \in Worker THEN "idle" ELSE "loop")
    /\ UNCHANGED <<running, arrived, jobs, stop, cancelled, interrupted, pending, left>>

\* A section of the ticker, a worker or the console thread ends.
section_end(t) ==
    /\ pc[t] = "locked"
    /\ unlock(t)
    /\ Go(t, IF t \in Worker THEN "idle" ELSE "loop")
    /\ UNCHANGED <<running, arrived, jobs, stop, cancelled, interrupted, pending, left>>

stdin_loop ==
    /\ pc["stdin"] = "loop"
    /\ Go("stdin", IF running THEN "fgets" ELSE "ended")
    /\ UNCHANGED <<running, mutex, arrived, jobs, stop, cancelled, interrupted, pending, left>>

\* A command that uses the node, "quit", or the end of the input; the user may
\* also type nothing for ever.
fgets ==
    /\ pc["stdin"] = "fgets"
    /\ \E to \in {"lock", "stop", "ended"} : Go("stdin", to)
    /\ UNCHANGED <<running, mutex, arrived, jobs, stop, cancelled, interrupted, pending, left>>

\* The cancellation takes effect where the console thread reads, and where it
\* prints, logs or sends, also in a section: the mutex stays as it is.
cancel_stdin ==
    /\ cancelled
    /\ pc["stdin"] \in {"fgets", "locked", "stopped"}
    /\ Go("stdin", "ended")
    /\ UNCHANGED <<running, mutex, arrived, jobs, stop, cancelled, interrupted, pending, left>>

-----------------------------------------------------------------------------
thread(t) ==
    \/ raft_node_stop(t) \/ request_cluster_leave(t) \/ raft_node_stop_end(t)
    \/ section_end(t)
    \/ t = "main" /\ (raft_node_start \/ request_cluster_join \/ main_wakes \/ raft_node_destroy)
    \/ t = "network" /\ network_loop
    \/ t = "ticker" /\ ticker_loop
    \/ t \in Worker /\ pool_worker(t)
    \/ t = "stdin" /\ (stdin_loop \/ cancel_stdin)

Next ==
    \/ \E t \in Thread : thread(t) \/ pthread_mutex_lock(t)
    \/ fgets
    \/ \E s \in Signals : handle_signal(s)

\* Threads that can go on do, and who waits for the mutex gets it at last: it is
\* held for a few statements, and between two of its sections the ticker sleeps.
Spec ==
    /\ Init /\ [][Next]_vars
    /\ \A t \in Thread : WF_vars(thread(t)) /\ SF_vars(pthread_mutex_lock(t))

-----------------------------------------------------------------------------
(* Properties.                                                             *)

\* Thread t is in a section under the mutex, perhaps below handlers of signals.
InSection(t) ==
    \/ pc[t] \in Range(Section)
    \/ \E k \in DOMAIN interrupted[t] : interrupted[t][k] \in Range(Section)

\* Whatever is interrupted or cancelled, whoever is in a section holds the mutex,
\* so two never are.
TypeOK ==
    /\ pc \in [Thread -> {"none", "ended", "loop", "fgets", "idle", "lock", "locked", "join", "joining",
                          "leave", "leaving", "stop", "stopped", "create", "sleep", "destroy",
                          "join threads", "join stdin", "join pool"}]
    /\ running \in BOOLEAN /\ stop \in BOOLEAN /\ cancelled \in BOOLEAN /\ left \in BOOLEAN
    /\ mutex \in Thread \cup {"free"} /\ \A t \in Thread : InSection(t) => mutex = t
    /\ arrived \in 0 .. MaxJobs /\ jobs \in 0 .. arrived
    /\ pending \subseteq Signals

\* When raft_node_destroy returns, and the node goes with main's stack, all other
\* threads have ended and all lines that arrived were handled.
LastIsMain ==
    pc["main"] = "ended" => jobs = 0 /\ \A t \in Thread : Ended(t)

\* A node that was running stops only after it has said LEAVE, also when a signal
\* and "quit" come together (the test of running in raft_node_stop), unless it
\* failed to start and has not joined.
LeaveIsSaid ==
    [][running /\ ~running' => left \/ pc["main"] = "destroy"]_vars

\* The node mutex is held by a thread that does not run any more.
Orphaned == mutex # "free" /\ pc[mutex] = "ended"

\* The handler waits for the mutex that the thread it interrupted holds.
SelfLocked == mutex = "main" /\ pc["main"] = "leave"

\* "quit" ends the process: nothing the other threads do gets in its way, unless
\* the main thread hangs in its handler.
QuitEnds == pc["stdin"] = "stop" ~> pc["main"] = "ended" \/ SelfLocked

\* The handler of a signal finds the node running.
Signalled == pc["main"] = "stop" /\ running

\* The process ends once it has failed to start (with any number of its threads
\* running), was told to stop by the console, or has got a signal at any time after
\* its start, also while another is handled or the threads are joined.  Where it
\* does not, the reason is one of two: a signal came in a section of the main
\* thread, or the console thread was cancelled in one.
StopEnds ==
    Signalled \/ pc["main"] = "destroy" \/ (pc["main"] = "sleep" /\ ~running)
        ~> pc["main"] = "ended" \/ SelfLocked \/ Orphaned

-----------------------------------------------------------------------------
(* What the documentation says and the code does not do.                   *)

\* A node "is stopped with Ctrl+C" (README.md:45-46): the process then ends.
CtrlCEnds == pending # Signals ~> pc["main"] = "ended"

=============================================================================
