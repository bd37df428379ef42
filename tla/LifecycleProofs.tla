--------------------------- MODULE LifecycleProofs ---------------------------
(***************************************************************************)
(* What is proved of Lifecycle, for any workers, any signals at any points *)
(* of the main thread, and any number of lines: main outlives all that use *)
(* the node, a node that ran says LEAVE before it stops, and no two        *)
(* threads are in sections of the node mutex at once.                      *)
(*                                                                         *)
(* Signals nest, so the argument is about base, where the main thread is   *)
(* when its handlers are left out: only the main thread's own steps change *)
(* it, and no handler is on top of them.                                   *)
(***************************************************************************)
EXTENDS Lifecycle, SequenceTheorems, TLAPS

Handler == {"stop", "leave", "leaving", "stopped"}
MainPC == {"create", "join", "joining", "sleep", "destroy", "join threads", "join stdin", "join pool",
           "ended"} \cup Handler

PcOK ==
    /\ pc \in [Thread -> {"none", "ended", "loop", "fgets", "idle", "lock", "locked", "join", "joining",
                          "leave", "leaving", "stop", "stopped", "create", "sleep", "destroy",
                          "join threads", "join stdin", "join pool"}]
    /\ pc["main"] \in MainPC
    /\ pc["network"] \in {"none", "loop", "ended"}
    /\ pc["ticker"] \in {"none", "loop", "lock", "locked", "ended"}
    /\ pc["stdin"] \in {"none", "loop", "fgets", "lock", "locked", "ended"} \cup Handler
    /\ \A w \in Worker : pc[w] \in {"idle", "lock", "locked", "ended"}

stack == interrupted["main"]
base == IF stack = <<>> THEN pc["main"] ELSE stack[1]

StackOK ==
    /\ interrupted \in [Thread -> Seq(MainPC)]
    /\ \A t \in Thread \ {"main"} : interrupted[t] = <<>>
    /\ pc["main"] \in Handler <=> stack # <<>>
    /\ stack # <<>> => stack[1] \notin Handler
    /\ \A k \in 2 .. Len(stack) : stack[k] \in Handler

ShutInv ==
    /\ base = "create" => pc["network"] = "none" /\ pc["ticker"] = "none" /\ pc["stdin"] = "none"
    /\ base \in {"join stdin", "join pool", "ended"} => Ended("network") /\ Ended("ticker")
    /\ base \in {"join pool", "ended"} => Ended("stdin")
    /\ stop \in BOOLEAN
    /\ stop = TRUE => base \in {"join pool", "ended"}
    /\ base = "ended" => \A w \in Worker : Ended(w)
    /\ \A w \in Worker : pc[w] = "ended" => stop = TRUE /\ jobs = 0

LeaveInv == \A t \in Thread : pc[t] = "stopped" /\ running => left

LifeInv == PcOK /\ StackOK /\ ShutInv /\ LeaveInv

LEMMA Threads ==
  /\ "main" \in Thread /\ "network" \in Thread /\ "ticker" \in Thread /\ "stdin" \in Thread
  /\ \A w \in Worker : w \in Thread /\ w \notin {"main", "network", "ticker", "stdin"}
  BY LifecycleAssumption DEF Thread

LEMMA LifeInit == Init => LifeInv
<1> SUFFICES ASSUME Init PROVE LifeInv
  OBVIOUS
<1>1. /\ pc = [t \in Thread |-> IF t = "main" THEN "create" ELSE IF t \in Worker THEN "idle" ELSE "none"]
      /\ interrupted = [t \in Thread |-> <<>>] /\ stop = FALSE /\ running = FALSE
  BY DEF Init
<1>2. PcOK
  BY <1>1, Threads DEF PcOK, MainPC
<1>3. stack = <<>> /\ pc["main"] = "create" /\ base = "create"
  BY <1>1, Threads DEF stack, base
<1>4. StackOK
  BY <1>1, <1>3 DEF StackOK, Handler
<1>5. ShutInv /\ LeaveInv
  BY <1>1, <1>3, Threads DEF ShutInv, LeaveInv
<1> QED BY <1>2, <1>4, <1>5 DEF LifeInv

\* A step of a thread that is not main, and leaves main's handlers alone.
LEMMA OtherThread ==
  ASSUME LifeInv, NEW t \in Thread, t # "main", NEW to, pc' = [pc EXCEPT ![t] = to],
         UNCHANGED <<interrupted, stop>>
  PROVE  /\ pc'["main"] = pc["main"] /\ base' = base /\ StackOK' /\ stack' = stack
         /\ pc'[t] = to /\ \A s \in Thread \ {t} : pc'[s] = pc[s]
<1>1. pc'["main"] = pc["main"] /\ pc'[t] = to /\ \A s \in Thread \ {t} : pc'[s] = pc[s]
  BY Threads DEF LifeInv, PcOK
<1> QED BY <1>1 DEF LifeInv, StackOK, base, stack

\* Such a step of a thread that has neither ended nor still to be created.
LEMMA OtherThreadMoves ==
  ASSUME LifeInv, NEW t \in Thread, t # "main", NEW to, pc' = [pc EXCEPT ![t] = to],
         UNCHANGED <<interrupted, stop>>,
         ~Ended(t), to # "none",
         t \in Worker /\ to = "ended" => stop = TRUE /\ jobs' = 0,
         jobs' = jobs \/ \A w \in Worker : pc[w] # "ended"
  PROVE  StackOK' /\ ShutInv'
<1>1. /\ pc'["main"] = pc["main"] /\ base' = base /\ StackOK' /\ stop' = stop
      /\ pc'[t] = to /\ \A s \in Thread \ {t} : pc'[s] = pc[s]
  BY OtherThread
<1>2. ShutInv
  BY DEF LifeInv
<1>3. base = "create" => pc'["network"] = "none" /\ pc'["ticker"] = "none" /\ pc'["stdin"] = "none"
  BY <1>1, <1>2, Threads DEF ShutInv, Ended
<1>4. \A s \in Thread : Ended(s) => Ended(s)'
  BY <1>1 DEF Ended
<1>5. \A w \in Worker : pc'[w] = "ended" => stop' = TRUE /\ jobs' = 0
  <2>1. \A w \in Worker : pc'[w] = "ended" => stop = TRUE /\ jobs' = 0
    BY <1>1, <1>2, Threads DEF ShutInv
  <2> QED BY <1>1, <2>1
<1>6. /\ base' \in {"join stdin", "join pool", "ended"} => Ended("network")' /\ Ended("ticker")'
      /\ base' \in {"join pool", "ended"} => Ended("stdin")'
      /\ base' = "ended" => \A w \in Worker : Ended(w)'
  BY <1>1, <1>2, <1>4, Threads DEF ShutInv
<1>7. stop' = TRUE => base' \in {"join pool", "ended"}
  BY <1>1, <1>2 DEF ShutInv
<1> QED BY <1>1, <1>2, <1>3, <1>5, <1>6, <1>7 DEF ShutInv

\* Only main and the console thread stop the node.
LEMMA WhoStops ==
  ASSUME LifeInv, NEW t \in Thread, pc[t] \in Handler \cup {"join"}
  PROVE  t = "main" \/ (t = "stdin" /\ pc[t] \in Handler)
  BY DEF LifeInv, PcOK, Handler, Thread

LEMMA StopsStep ==
  ASSUME LifeInv, NEW t \in Thread, t # "main",
         \/ raft_node_stop(t) \/ request_cluster_leave(t) \/ raft_node_stop_end(t)
  PROVE  LifeInv'
<1>1. pc[t] \in Handler
  BY DEF raft_node_stop, request_cluster_leave, raft_node_stop_end, Handler
<1>2. t = "stdin" /\ interrupted[t] = <<>>
  BY <1>1, WhoStops DEF LifeInv, StackOK
<1>3. PICK to \in {"leave", "stopped", "ended"} : pc' = [pc EXCEPT ![t] = to]
  BY <1>2 DEF raft_node_stop, request_cluster_leave, raft_node_stop_end, Go
<1>4. UNCHANGED <<interrupted, stop, jobs>>
  BY <1>2 DEF raft_node_stop, request_cluster_leave, raft_node_stop_end
<1>5. t \notin Worker /\ ~Ended(t)
  BY <1>1, <1>2, Threads DEF Handler, Ended
<1>6. StackOK' /\ ShutInv'
  BY <1>3, <1>4, <1>5, OtherThreadMoves
<1>7. pc'[t] = to /\ \A s \in Thread \ {t} : pc'[s] = pc[s]
  BY <1>3, <1>4, OtherThread
<1>8. PcOK'
  BY <1>2, <1>3, <1>7, Threads DEF LifeInv, PcOK, Handler
<1>9. LeaveInv'
  <2>1. CASE raft_node_stop(t)
    BY <1>2, <1>7, <2>1, Threads DEF raft_node_stop, Go, LifeInv, LeaveInv, PcOK
  <2>2. CASE request_cluster_leave(t)
    BY <2>2 DEF request_cluster_leave, LeaveInv
  <2>3. CASE raft_node_stop_end(t)
    BY <2>3 DEF raft_node_stop_end, LeaveInv
  <2> QED BY <2>1, <2>2, <2>3
<1> QED BY <1>6, <1>8, <1>9 DEF LifeInv

\* The other steps of threads that are not main.
LEMMA WorkStep ==
  ASSUME LifeInv, NEW t \in Thread, t # "main",
         \/ section_end(t) \/ pthread_mutex_lock(t)
         \/ t = "network" /\ network_loop
         \/ t = "ticker" /\ ticker_loop
         \/ t \in Worker /\ pool_worker(t)
         \/ t = "stdin" /\ (stdin_loop \/ cancel_stdin \/ fgets)
  PROVE  LifeInv'
<1>1. UNCHANGED <<running, interrupted, stop, left>>
  BY DEF section_end, pthread_mutex_lock, network_loop, ticker_loop, pool_worker, stdin_loop,
         cancel_stdin, fgets
<1>2. ASSUME NEW to, pc' = [pc EXCEPT ![t] = to], ~Ended(t), to # "none",
             to = "stopped" => pc[t] = "stopped",
             PcOK', t \in Worker /\ to = "ended" => stop = TRUE /\ jobs' = 0,
             jobs' = jobs \/ \A w \in Worker : pc[w] # "ended"
      PROVE  LifeInv'
  <2>1. StackOK' /\ ShutInv'
    BY <1>1, <1>2, OtherThreadMoves
  <2>2. pc'[t] = to /\ \A s \in Thread \ {t} : pc'[s] = pc[s]
    BY <1>1, <1>2, OtherThread
  <2>3. LeaveInv'
    BY <1>1, <1>2, <2>2 DEF LifeInv, LeaveInv
  <2> QED BY <1>2, <2>1, <2>3 DEF LifeInv
\* Main and the threads that do not move are where they were.
<1>3. ASSUME NEW to, pc' = [pc EXCEPT ![t] = to],
             \/ t = "network" /\ to \in {"loop", "ended"}
             \/ t = "ticker" /\ to \in {"loop", "lock", "locked", "ended"}
             \/ t = "stdin" /\ to \in {"loop", "fgets", "lock", "locked", "ended"} \cup Handler
             \/ t \in Worker /\ to \in {"idle", "lock", "locked", "ended"}
      PROVE  PcOK'
  <2>1. pc'[t] = to /\ \A s \in Thread \ {t} : pc'[s] = pc[s]
    BY <1>1, <1>3, OtherThread
  <2> QED BY <1>3, <2>1, Threads DEF LifeInv, PcOK, Handler
<1>4. t = "network" \/ t = "ticker" \/ t = "stdin" \/ t \in Worker
  BY DEF Thread
<1>5. CASE section_end(t)
  <2>1. CASE t \in Worker
    <3>1. pc' = [pc EXCEPT ![t] = "idle"] /\ jobs' = jobs /\ pc[t] = "locked"
      BY <1>5, <2>1 DEF section_end, Go
    <3> QED BY <1>2, <1>3, <2>1, <3>1 DEF Ended
  <2>2. CASE t \notin Worker
    <3>1. pc' = [pc EXCEPT ![t] = "loop"] /\ jobs' = jobs /\ pc[t] = "locked"
      BY <1>5, <2>2 DEF section_end, Go
    <3> QED BY <1>2, <1>3, <1>4, <2>2, <3>1 DEF Ended
  <2> QED BY <2>1, <2>2
<1>6. CASE pthread_mutex_lock(t)
  <2>1. /\ pc[t] \in {"lock", "leave", "join"} /\ pc' = [pc EXCEPT ![t] = Section[pc[t]]]
        /\ jobs' = jobs
    BY <1>6 DEF pthread_mutex_lock, Go, Section
  <2>2. Section["lock"] = "locked" /\ Section["leave"] = "leaving"
    BY DEF Section
  <2>3. CASE pc[t] = "lock"
    <3>1. pc' = [pc EXCEPT ![t] = "locked"] /\ t # "network"
      BY <2>1, <2>2, <2>3 DEF LifeInv, PcOK
    <3> QED BY <1>2, <1>3, <1>4, <2>1, <2>3, <3>1 DEF Ended
  <2>4. CASE pc[t] # "lock"
    <3>1. pc[t] = "leave" /\ t = "stdin"
      BY <2>1, <2>4, WhoStops DEF Handler
    <3>2. pc' = [pc EXCEPT ![t] = "leaving"]
      BY <2>1, <2>2, <3>1
    <3> QED BY <1>2, <1>3, <2>1, <3>1, <3>2, Threads DEF Ended, Handler
  <2> QED BY <2>3, <2>4
<1>7. CASE t = "network" /\ network_loop
  <2>1. pc[t] = "loop"
    BY <1>7 DEF network_loop
  <2>2. \A w \in Worker : pc[w] # "ended"
    BY <1>7, <2>1 DEF LifeInv, ShutInv, Ended
  <2>3. PICK to \in {"loop", "ended"} : pc' = [pc EXCEPT ![t] = to]
    <3>1. pc = [pc EXCEPT ![t] = "loop"]
      BY <2>1 DEF LifeInv, PcOK
    <3> QED BY <1>7, <3>1 DEF network_loop, Go
  <2> QED BY <1>2, <1>3, <1>7, <2>1, <2>2, <2>3, Threads DEF Ended
<1>8. CASE t = "ticker" /\ ticker_loop
  <2>1. PICK to \in {"lock", "ended"} : pc' = [pc EXCEPT ![t] = to]
    BY <1>8 DEF ticker_loop, Go
  <2>2. pc[t] = "loop" /\ jobs' = jobs
    BY <1>8 DEF ticker_loop
  <2> QED BY <1>2, <1>3, <1>8, <2>1, <2>2, Threads DEF Ended
<1>9. CASE t \in Worker /\ pool_worker(t)
  <2>1. pc[t] = "idle"
    BY <1>9 DEF pool_worker
  <2>2. CASE jobs > 0 /\ Go(t, "lock")
    <3>1. pc' = [pc EXCEPT ![t] = "lock"]
      BY <2>2 DEF Go
    <3>2. jobs # 0
      BY <2>2
    <3>3. \A w \in Worker : pc[w] # "ended"
      BY <3>2 DEF LifeInv, ShutInv
    <3> QED BY <1>2, <1>3, <1>9, <2>1, <3>1, <3>3 DEF Ended
  <2>3. CASE jobs = 0 /\ stop /\ Go(t, "ended") /\ UNCHANGED jobs
    BY <1>2, <1>3, <1>9, <2>1, <2>3 DEF Go, Ended
  <2> QED BY <1>9, <2>2, <2>3 DEF pool_worker
<1>10. CASE t = "stdin" /\ (stdin_loop \/ cancel_stdin \/ fgets)
  <2>1. PICK to \in {"fgets", "ended", "lock", "stop"} : pc' = [pc EXCEPT ![t] = to]
    BY <1>10 DEF stdin_loop, cancel_stdin, fgets, Go
  <2>2. pc[t] \in {"loop", "fgets", "locked", "stopped"} /\ jobs' = jobs
    BY <1>10 DEF stdin_loop, cancel_stdin, fgets
  <2> QED BY <1>2, <1>3, <1>10, <2>1, <2>2, Threads DEF Ended, Handler
<1> QED BY <1>5, <1>6, <1>7, <1>8, <1>9, <1>10

\* A step of main's handlers, or of a signal that starts one.
LEMMA HandlerKeeps ==
  ASSUME LifeInv, pc'["main"] \in MainPC, \A t \in Thread \ {"main"} : pc'[t] = pc[t],
         pc' = [pc EXCEPT !["main"] = pc'["main"]],
         base' = base, UNCHANGED <<stop, jobs>>
  PROVE  PcOK' /\ ShutInv'
<1>1. PcOK'
  <2>1. PcOK
    BY DEF LifeInv
  <2>2. pc' \in [Thread -> {"none", "ended", "loop", "fgets", "idle", "lock", "locked", "join", "joining",
                           "leave", "leaving", "stop", "stopped", "create", "sleep", "destroy",
                           "join threads", "join stdin", "join pool"}]
    BY <2>1 DEF PcOK, MainPC, Handler
  <2>3. pc'["network"] = pc["network"] /\ pc'["ticker"] = pc["ticker"] /\ pc'["stdin"] = pc["stdin"]
        /\ \A w \in Worker : pc'[w] = pc[w]
    BY Threads
  <2> HIDE DEF MainPC, Handler
  <2> QED BY <2>1, <2>2, <2>3 DEF PcOK
<1>2. \A t \in Thread \ {"main"} : Ended(t) => Ended(t)'
  BY DEF Ended
<1>3. ShutInv
  BY DEF LifeInv
<1>4. base' = "create" => pc'["network"] = "none" /\ pc'["ticker"] = "none" /\ pc'["stdin"] = "none"
  BY <1>3, Threads DEF ShutInv
<1>5. \A w \in Worker : pc'[w] = "ended" => stop' = TRUE /\ jobs' = 0
  BY <1>3, Threads DEF ShutInv
<1>6. /\ base' \in {"join stdin", "join pool", "ended"} => Ended("network")' /\ Ended("ticker")'
      /\ base' \in {"join pool", "ended"} => Ended("stdin")'
      /\ base' = "ended" => \A w \in Worker : Ended(w)'
  BY <1>2, <1>3, Threads DEF ShutInv
<1>7. stop' \in BOOLEAN /\ (stop' = TRUE => base' \in {"join pool", "ended"})
  BY <1>3 DEF ShutInv
<1> QED BY <1>1, <1>4, <1>5, <1>6, <1>7 DEF ShutInv

LEMMA SignalStep ==
  ASSUME LifeInv, NEW s \in Signals, handle_signal(s) PROVE LifeInv'
<1>1. /\ pc' = [pc EXCEPT !["main"] = "stop"]
      /\ interrupted' = [interrupted EXCEPT !["main"] = Append(stack, pc["main"])]
      /\ UNCHANGED <<running, stop, jobs, left>>
  BY DEF handle_signal, Go, stack
<1>2. /\ pc'["main"] = "stop" /\ \A t \in Thread \ {"main"} : pc'[t] = pc[t]
      /\ stack \in Seq(MainPC) /\ pc["main"] \in MainPC
      /\ stack' = Append(stack, pc["main"])
      /\ \A t \in Thread \ {"main"} : interrupted'[t] = interrupted[t]
  BY <1>1, Threads DEF LifeInv, PcOK, StackOK, stack
<1>3. /\ Len(stack') = Len(stack) + 1 /\ Len(stack) \in Nat /\ stack' \in Seq(MainPC) /\ stack' # <<>>
      /\ stack'[Len(stack) + 1] = pc["main"]
      /\ \A k \in 1 .. Len(stack) : stack'[k] = stack[k]
      /\ stack = <<>> <=> Len(stack) = 0
  <2> HIDE DEF stack, MainPC
  <2> QED BY <1>2
<1>4. stack'[1] = base /\ base \notin Handler
  <2>1. CASE stack = <<>>
    BY <1>3, <2>1 DEF base, LifeInv, StackOK
  <2>2. CASE stack # <<>>
    BY <1>3, <2>2 DEF base, LifeInv, StackOK
  <2> QED BY <2>1, <2>2
<1>5. base' = base
  BY <1>3, <1>4 DEF base
<1>6. \A k \in 2 .. Len(stack') : stack'[k] \in Handler
  <2> SUFFICES ASSUME NEW k \in 2 .. Len(stack') PROVE stack'[k] \in Handler
    OBVIOUS
  <2>1. CASE k <= Len(stack)
    <3>1. k \in 1 .. Len(stack) /\ k \in 2 .. Len(stack)
      BY <1>3, <2>1
    <3> QED BY <1>3, <3>1 DEF LifeInv, StackOK
  <2>2. CASE k = Len(stack) + 1
    <3>1. stack # <<>>
      BY <1>3, <2>2
    <3> QED BY <1>3, <2>2, <3>1 DEF LifeInv, StackOK
  <2> QED BY <1>3, <2>1, <2>2
<1>7. StackOK'
  <2>1. interrupted' \in [Thread -> Seq(MainPC)]
    BY <1>1, <1>2, <1>3, Threads DEF LifeInv, StackOK, stack
  <2>2. \A t \in Thread \ {"main"} : interrupted'[t] = <<>>
    BY <1>2 DEF LifeInv, StackOK
  <2>3. pc'["main"] \in Handler
    BY <1>2 DEF Handler
  <2> QED BY <1>3, <1>4, <1>6, <2>1, <2>2, <2>3 DEF StackOK
<1>8. PcOK' /\ ShutInv'
  <2>1. pc'["main"] \in MainPC
    BY <1>2 DEF MainPC, Handler
  <2> QED BY <1>1, <1>2, <1>5, <2>1, HandlerKeeps
<1>9. LeaveInv'
  BY <1>1, <1>2 DEF LifeInv, LeaveInv
<1> QED BY <1>7, <1>8, <1>9 DEF LifeInv

LEMMA FrontLast ==
  ASSUME NEW S, NEW s \in Seq(S), s # <<>>
  PROVE  /\ Len(s) \in Nat \ {0} /\ Last(s) = s[Len(s)] /\ Last(s) \in S
         /\ Front(s) \in Seq(S) /\ Len(Front(s)) = Len(s) - 1
         /\ \A k \in 1 .. Len(s) - 1 : Front(s)[k] = s[k]
<1> DEFINE n == Len(s) - 1
<1>1. Len(s) \in Nat \ {0} /\ s[Len(s)] \in S /\ n \in Nat /\ n <= Len(s)
  OBVIOUS
<1>2. Front(s) = SubSeq(s, 1, n)
  BY DEF Front
<1>3. n \in Nat /\ n = Len(s) - 1
  BY <1>1
<1> HIDE DEF n
<1>4. /\ SubSeq(s, 1, n) \in Seq(S) /\ Len(SubSeq(s, 1, n)) = n
      /\ \A k \in 1 .. n : SubSeq(s, 1, n)[k] = s[k]
  BY <1>1, <1>3
<1> QED BY <1>1, <1>2, <1>3, <1>4 DEF Last

LEMMA HandlerReturns ==
  ASSUME LifeInv, raft_node_stop_end("main") PROVE LifeInv'
<1>1. pc["main"] = "stopped" /\ stack # <<>>
  BY DEF raft_node_stop_end, LifeInv, StackOK, Handler
<1>2. /\ pc' = [pc EXCEPT !["main"] = Last(stack)]
      /\ interrupted' = [interrupted EXCEPT !["main"] = Front(stack)]
      /\ running' = FALSE /\ UNCHANGED <<stop, jobs, left>>
  BY <1>1 DEF raft_node_stop_end, Go, stack
<1>3. /\ pc'["main"] = Last(stack) /\ \A t \in Thread \ {"main"} : pc'[t] = pc[t]
      /\ stack \in Seq(MainPC) /\ stack' = Front(stack)
      /\ \A t \in Thread \ {"main"} : interrupted'[t] = interrupted[t]
  BY <1>2, Threads DEF LifeInv, PcOK, StackOK, stack
<1>4. /\ Len(stack) \in Nat \ {0} /\ Last(stack) = stack[Len(stack)] /\ Last(stack) \in MainPC
      /\ Front(stack) \in Seq(MainPC) /\ Len(Front(stack)) = Len(stack) - 1
      /\ \A k \in 1 .. Len(stack) - 1 : Front(stack)[k] = stack[k]
  <2> HIDE DEF stack, MainPC
  <2> QED BY <1>1, <1>3, FrontLast
<1>5. base = stack[1] /\ stack[1] \notin Handler
  BY <1>1 DEF base, LifeInv, StackOK
<1>6. CASE Len(stack) = 1
  <2>1. stack' = <<>> /\ pc'["main"] = stack[1]
    BY <1>3, <1>4, <1>6
  <2>2. base' = base
    BY <1>5, <2>1 DEF base
  <2>3. StackOK'
    BY <1>2, <1>3, <1>4, <1>5, <1>6, <2>1 DEF LifeInv, StackOK, stack
  <2>4. PcOK' /\ ShutInv'
    BY <1>2, <1>3, <1>4, <2>2, HandlerKeeps
  <2> QED BY <1>2, <2>3, <2>4 DEF LifeInv, LeaveInv
<1>7. CASE Len(stack) # 1
  <2>1. stack' # <<>> /\ stack'[1] = stack[1] /\ pc'["main"] \in Handler
    BY <1>3, <1>4, <1>7 DEF LifeInv, StackOK
  <2>2. base' = base
    BY <1>5, <2>1 DEF base
  <2>3. \A k \in 2 .. Len(stack') : stack'[k] \in Handler
    BY <1>3, <1>4 DEF LifeInv, StackOK
  <2>4. StackOK'
    <3>1. interrupted' \in [Thread -> Seq(MainPC)]
      BY <1>2, <1>4, Threads DEF LifeInv, StackOK
    <3> QED BY <1>3, <1>5, <2>1, <2>3, <3>1 DEF LifeInv, StackOK
  <2>5. PcOK' /\ ShutInv'
    BY <1>2, <1>3, <1>4, <2>2, HandlerKeeps
  <2> QED BY <1>2, <2>4, <2>5 DEF LifeInv, LeaveInv
<1> QED BY <1>6, <1>7

\* The steps of main in which a handler goes on, and does not return.
LEMMA HandlerStep ==
  ASSUME LifeInv, pc["main"] \in Handler,
         raft_node_stop("main") \/ request_cluster_leave("main") \/ pthread_mutex_lock("main")
  PROVE  LifeInv'
<1>1. UNCHANGED <<interrupted, stop, jobs>> /\ stack # <<>>
  BY DEF raft_node_stop, request_cluster_leave, pthread_mutex_lock, LifeInv, StackOK
<1>2. /\ pc' = [pc EXCEPT !["main"] = "leave"] \/ pc' = [pc EXCEPT !["main"] = "stopped"]
         \/ pc' = [pc EXCEPT !["main"] = "leaving"]
      /\ pc["main"] = "leave" => pc' = [pc EXCEPT !["main"] = "leaving"]
  <2>1. CASE pthread_mutex_lock("main")
    <3>1. pc["main"] = "leave" /\ pc' = [pc EXCEPT !["main"] = Section[pc["main"]]]
      BY <2>1 DEF pthread_mutex_lock, Go, Section, Handler
    <3>2. Section["leave"] = "leaving"
      BY DEF Section
    <3> QED BY <3>1, <3>2
  <2>2. CASE raft_node_stop("main") \/ request_cluster_leave("main")
    BY <2>2 DEF raft_node_stop, request_cluster_leave, Go
  <2> QED BY <2>1, <2>2
<1>3. pc'["main"] \in Handler /\ \A t \in Thread \ {"main"} : pc'[t] = pc[t]
  BY <1>2, Threads DEF LifeInv, PcOK, Handler
<1>4. stack' = stack /\ base' = base
  BY <1>1 DEF stack, base
<1>5. StackOK'
  BY <1>1, <1>3, <1>4 DEF LifeInv, StackOK
<1>6. PcOK' /\ ShutInv'
  <2>1. pc' = [pc EXCEPT !["main"] = pc'["main"]] /\ pc'["main"] \in MainPC
    BY <1>2, <1>3, Threads DEF MainPC, LifeInv, PcOK
  <2> QED BY <1>1, <1>3, <1>4, <2>1, HandlerKeeps
<1>7. LeaveInv'
  <2>1. CASE raft_node_stop("main")
    <3>1. running' = running /\ left' = left /\ (pc'["main"] = "stopped" => ~running)
      BY <2>1, Threads DEF raft_node_stop, Go, LifeInv, PcOK
    <3> QED BY <1>3, <3>1 DEF LifeInv, LeaveInv
  <2>2. CASE request_cluster_leave("main")
    BY <2>2 DEF request_cluster_leave, LeaveInv
  <2>3. CASE pthread_mutex_lock("main")
    <3>1. running' = running /\ left' = left /\ pc["main"] = "leave"
      BY <2>3 DEF pthread_mutex_lock, Section, Handler
    <3>2. pc'["main"] = "leaving"
      BY <1>2, <3>1, Threads DEF LifeInv, PcOK
    <3> QED BY <1>3, <3>1, <3>2 DEF LifeInv, LeaveInv
  <2> QED BY <2>1, <2>2, <2>3
<1> QED BY <1>5, <1>6, <1>7 DEF LifeInv

\* Main goes on by itself, with no handler on top.
LEMMA MainMoves ==
  ASSUME LifeInv, pc["main"] \notin Handler, NEW to \in MainPC \ Handler,
         pc' = [pc EXCEPT !["main"] = to], UNCHANGED interrupted
  PROVE  /\ base = pc["main"] /\ base' = to /\ StackOK' /\ PcOK'
         /\ pc'["main"] = to /\ \A t \in Thread \ {"main"} : pc'[t] = pc[t]
<1>1. stack = <<>> /\ stack' = <<>>
  BY DEF LifeInv, StackOK, stack
<1>2. pc'["main"] = to /\ \A t \in Thread \ {"main"} : pc'[t] = pc[t]
  BY Threads DEF LifeInv, PcOK
<1>3. base = pc["main"] /\ base' = to
  BY <1>1, <1>2 DEF base
<1>4. StackOK'
  BY <1>1, <1>2 DEF LifeInv, StackOK
<1>5. PcOK'
  BY <1>2, Threads DEF LifeInv, PcOK, MainPC, Handler
<1> QED BY <1>2, <1>3, <1>4, <1>5

\* Main's steps up to the point where raft_node_destroy starts to join.
LEMMA MainRuns ==
  ASSUME LifeInv,
         \/ request_cluster_join \/ main_wakes \/ raft_node_destroy_start
         \/ pthread_mutex_lock("main") /\ pc["main"] \notin Handler
  PROVE  LifeInv'
<1>1. PICK to \in {"joining", "sleep", "destroy", "join threads"} :
         /\ pc' = [pc EXCEPT !["main"] = to]
         /\ pc["main"] \in {"join", "joining", "sleep", "destroy"}
  <2>1. CASE pthread_mutex_lock("main") /\ pc["main"] \notin Handler
    <3>1. pc["main"] = "join" /\ pc' = [pc EXCEPT !["main"] = Section[pc["main"]]]
      BY <2>1 DEF pthread_mutex_lock, Go, Section, Handler, MainPC, LifeInv, PcOK
    <3>2. Section["join"] = "joining"
      BY DEF Section
    <3> QED BY <3>1, <3>2
  <2>2. CASE request_cluster_join \/ main_wakes \/ raft_node_destroy_start
    BY <2>2 DEF request_cluster_join, main_wakes, raft_node_destroy_start, Go
  <2> QED BY <2>1, <2>2
<1>2. UNCHANGED <<interrupted, stop, jobs, left>> /\ (running' = running \/ running' = FALSE)
  BY DEF request_cluster_join, main_wakes, raft_node_destroy_start, pthread_mutex_lock
<1>3. to \in MainPC \ Handler /\ pc["main"] \notin Handler
  BY <1>1 DEF MainPC, Handler
<1>4. /\ base = pc["main"] /\ base' = to /\ StackOK' /\ PcOK'
      /\ pc'["main"] = to /\ \A t \in Thread \ {"main"} : pc'[t] = pc[t]
  BY <1>1, <1>2, <1>3, MainMoves
<1>5. stop = FALSE
  BY <1>1, <1>4 DEF LifeInv, ShutInv
<1>6. ShutInv'
  BY <1>1, <1>2, <1>4, <1>5, Threads DEF LifeInv, ShutInv
<1>7. LeaveInv'
  BY <1>1, <1>2, <1>4 DEF LifeInv, LeaveInv
<1> QED BY <1>4, <1>6, <1>7 DEF LifeInv

\* raft_node_start creates some of the threads, none of which is a worker.
\* The first n elements of a sequence.
LEMMA FirstOnes ==
  ASSUME NEW S, NEW s \in Seq(S), NEW n \in Nat, n <= Len(s)
  PROVE  SubSeq(s, 1, n) \in Seq(S)
OBVIOUS

LEMMA StartStep == ASSUME LifeInv, raft_node_start PROVE LifeInv'
<1>1. /\ pc["main"] = "create" /\ pc["main"] \notin Handler
      /\ UNCHANGED <<interrupted, stop, jobs, left>>
  BY DEF raft_node_start, Handler
<1>2. stack = <<>> /\ stack' = <<>> /\ base = "create"
  BY <1>1 DEF LifeInv, StackOK, stack, base
<1>3. /\ pc["network"] = "none" /\ pc["ticker"] = "none" /\ pc["stdin"] = "none" /\ stop = FALSE
      /\ \A w \in Worker : pc[w] # "ended"
  BY <1>2 DEF LifeInv, ShutInv
<1>4. /\ pc'["main"] \in {"join", "destroy"}
      /\ \A t \in {"network", "ticker", "stdin"} : pc'[t] \in {"none", "loop"}
      /\ \A w \in Worker : pc'[w] = pc[w]
      /\ pc' \in [Thread -> {"join", "destroy", "loop", "none", "idle", "lock", "locked", "ended"}]
  <2>1. CASE Go("main", "destroy")
    <3>1. pc' = [pc EXCEPT !["main"] = "destroy"]
      BY <2>1 DEF Go
    <3>2. \A t \in Thread \ {"main"} : pc[t] \in {"none", "idle", "lock", "locked", "ended"}
      BY <1>3, Threads DEF LifeInv, PcOK, Thread
    <3>3. pc'["main"] = "destroy" /\ \A t \in Thread \ {"main"} : pc'[t] = pc[t]
      BY <3>1, Threads DEF LifeInv, PcOK
    <3>4. pc' = [t \in Thread |-> pc'[t]]
      BY <3>1 DEF LifeInv, PcOK
    <3>5. \A t \in Thread : pc'[t] \in {"join", "destroy", "loop", "none", "idle", "lock", "locked", "ended"}
      BY <3>2, <3>3
    <3> QED BY <1>3, <3>3, <3>4, <3>5, Threads
  <2>2. ASSUME NEW n \in 0 .. Len(Created),
               pc' = [t \in Thread |->
                        CASE t = "main" -> IF n = Len(Created) THEN "join" ELSE "destroy"
                          [] t \in Range(SubSeq(Created, 1, n)) -> "loop"
                          [] OTHER -> pc[t]]
        PROVE  /\ pc'["main"] \in {"join", "destroy"}
               /\ \A t \in {"network", "ticker", "stdin"} : pc'[t] \in {"none", "loop"}
               /\ \A w \in Worker : pc'[w] = pc[w]
               /\ pc' \in [Thread -> {"join", "destroy", "loop", "none", "idle", "lock", "locked", "ended"}]
    <3> DEFINE S == Range(SubSeq(Created, 1, n))
    <3>1. S \subseteq {"network", "ticker", "stdin"}
      <4> DEFINE sub == SubSeq(Created, 1, n)
      <4>1. Created \in Seq({"network", "ticker", "stdin"}) /\ Len(Created) = 3
        BY DEF Created
      <4>2. sub \in Seq({"network", "ticker", "stdin"})
        <5> HIDE DEF sub
        <5>1. n \in Nat /\ n <= Len(Created)
          BY <4>1
        <5>2. SubSeq(Created, 1, n) \in Seq({"network", "ticker", "stdin"})
          BY <4>1, <5>1, FirstOnes
        <5> QED BY <5>2 DEF sub
      <4> HIDE DEF sub
      <4>3. \A x \in DOMAIN sub : sub[x] \in {"network", "ticker", "stdin"}
        BY <4>2
      <4> QED BY <4>3, Zenon DEF Range, sub
    <3> DEFINE F(t) == CASE t = "main" -> IF n = Len(Created) THEN "join" ELSE "destroy"
                        [] t \in S -> "loop"
                        [] OTHER -> pc[t]
    <3>2. pc' = [t \in Thread |-> F(t)]
      BY <2>2
    <3> HIDE DEF S
    <3>3. F("main") \in {"join", "destroy"}
      BY <3>1
    <3>4. \A t \in Thread \ {"main"} : F(t) = IF t \in S THEN "loop" ELSE pc[t]
      OBVIOUS
    <3> HIDE DEF F
    <3>5. pc'["main"] \in {"join", "destroy"}
      BY <3>2, <3>3, Threads
    <3>6. \A t \in Thread \ {"main"} : pc'[t] = IF t \in S THEN "loop" ELSE pc[t]
      BY <3>2, <3>4
    <3>7. \A t \in Thread \ {"main"} : pc[t] \in {"none", "idle", "lock", "locked", "ended"}
      BY <1>3, Threads DEF LifeInv, PcOK, Thread
    <3>8. pc' = [t \in Thread |-> pc'[t]]
      BY <3>2
    <3>9. \A t \in Thread : pc'[t] \in {"join", "destroy", "loop", "none", "idle", "lock", "locked", "ended"}
      BY <3>5, <3>6, <3>7
    <3>10. pc' \in [Thread -> {"join", "destroy", "loop", "none", "idle", "lock", "locked", "ended"}]
      BY <3>8, <3>9
    <3> QED BY <1>3, <3>1, <3>5, <3>6, <3>10, Threads
  <2> QED BY <2>1, <2>2 DEF raft_node_start
<1>5. base' \in {"join", "destroy"}
  BY <1>2, <1>4 DEF base
<1>6. PcOK'
  BY <1>4, Threads DEF LifeInv, PcOK, MainPC
<1>7. StackOK'
  BY <1>1, <1>2, <1>4 DEF LifeInv, StackOK, Handler
<1>8. ShutInv'
  BY <1>1, <1>3, <1>4, <1>5 DEF ShutInv
<1>9. LeaveInv'
  BY <1>4 DEF LeaveInv
<1> QED BY <1>6, <1>7, <1>8, <1>9 DEF LifeInv

\* raft_node_destroy joins, and the pool is told to stop.
LEMMA JoinStep ==
  ASSUME LifeInv, join_threads \/ join_stdin \/ join_pool PROVE LifeInv'
<1>1. UNCHANGED <<interrupted, jobs, left, running>>
  BY DEF join_threads, join_stdin, join_pool
<1>2. ASSUME NEW to \in {"join stdin", "join pool", "ended"}, pc' = [pc EXCEPT !["main"] = to],
             pc["main"] \in {"join threads", "join stdin", "join pool"},
             Ended("network"), Ended("ticker"),
             to \in {"join pool", "ended"} => Ended("stdin"),
             to = "ended" => \A w \in Worker : Ended(w),
             stop' \in BOOLEAN, stop' = TRUE => to \in {"join pool", "ended"},
             stop = TRUE => stop' = TRUE
      PROVE  LifeInv'
  <2>1. to \in MainPC \ Handler /\ pc["main"] \notin Handler
    BY <1>2 DEF MainPC, Handler
  <2>2. /\ base = pc["main"] /\ base' = to /\ StackOK' /\ PcOK'
        /\ pc'["main"] = to /\ \A t \in Thread \ {"main"} : pc'[t] = pc[t]
    BY <1>1, <1>2, <2>1, MainMoves
  <2>3. \A t \in Thread \ {"main"} : Ended(t) => Ended(t)'
    BY <2>2 DEF Ended
  <2>4. /\ Ended("network")' /\ Ended("ticker")'
        /\ to \in {"join pool", "ended"} => Ended("stdin")'
        /\ to = "ended" => \A w \in Worker : Ended(w)'
    BY <1>2, <2>3, Threads
  <2>5. \A w \in Worker : pc'[w] = "ended" => stop' = TRUE /\ jobs' = 0
    BY <1>1, <1>2, <2>2, Threads DEF LifeInv, ShutInv
  <2>6. ShutInv'
    BY <1>2, <2>2, <2>4, <2>5 DEF ShutInv
  <2>7. LeaveInv'
    BY <1>1, <1>2, <2>2 DEF LifeInv, LeaveInv
  <2> QED BY <2>2, <2>6, <2>7 DEF LifeInv
<1>3. ASSUME pc["main"] \in {"join threads", "join stdin", "join pool"}
      PROVE  base = pc["main"] /\ stop \in BOOLEAN
  BY <1>3 DEF LifeInv, StackOK, ShutInv, base, Handler
<1>4. CASE join_threads
  <2>1. /\ pc' = [pc EXCEPT !["main"] = "join stdin"] /\ pc["main"] = "join threads"
        /\ Ended("network") /\ Ended("ticker") /\ stop' = stop
    BY <1>4 DEF join_threads, Go
  <2>2. stop # TRUE
    BY <1>3, <2>1 DEF LifeInv, ShutInv
  <2> QED BY <1>2, <1>3, <2>1, <2>2
<1>5. CASE join_stdin
  <2>1. /\ pc' = [pc EXCEPT !["main"] = "join pool"] /\ pc["main"] = "join stdin"
        /\ Ended("stdin") /\ stop' = TRUE
    BY <1>5 DEF join_stdin, Go
  <2>2. Ended("network") /\ Ended("ticker")
    BY <1>3, <2>1 DEF LifeInv, ShutInv
  <2> QED BY <1>2, <2>1, <2>2
<1>6. CASE join_pool
  <2>1. /\ pc' = [pc EXCEPT !["main"] = "ended"] /\ pc["main"] = "join pool"
        /\ (\A w \in Worker : Ended(w)) /\ stop' = stop
    BY <1>6 DEF join_pool, Go
  <2>2. Ended("network") /\ Ended("ticker") /\ Ended("stdin")
    BY <1>3, <2>1 DEF LifeInv, ShutInv
  <2> QED BY <1>2, <1>3, <2>1, <2>2
<1> QED BY <1>4, <1>5, <1>6

LEMMA LifeNext == ASSUME LifeInv, [Next]_vars PROVE LifeInv'
<1>1. ASSUME NEW t \in Thread, t # "main", thread(t) \/ pthread_mutex_lock(t) \/ (t = "stdin" /\ fgets)
      PROVE  LifeInv'
  BY <1>1, StopsStep, WorkStep DEF thread
<1>2. CASE thread("main") \/ pthread_mutex_lock("main")
  <2>1. CASE section_end("main")
    BY <2>1 DEF section_end, LifeInv, PcOK, MainPC, Handler
  <2>2. CASE raft_node_stop("main") \/ request_cluster_leave("main")
    <3>1. pc["main"] \in Handler
      BY <2>2 DEF raft_node_stop, request_cluster_leave, Handler
    <3> QED BY <2>2, <3>1, HandlerStep
  <2>3. CASE pthread_mutex_lock("main")
    BY <2>3, HandlerStep, MainRuns
  <2>4. CASE raft_node_start \/ request_cluster_join \/ main_wakes \/ raft_node_destroy
    BY <2>4, StartStep, MainRuns, JoinStep DEF raft_node_destroy
  <2> QED BY <1>2, <2>1, <2>2, <2>3, <2>4, HandlerReturns, Threads DEF thread
<1>3. ASSUME NEW s \in Signals, handle_signal(s) PROVE LifeInv'
  BY <1>3, SignalStep
<1>4. CASE UNCHANGED vars
  BY <1>4 DEF vars, LifeInv, PcOK, StackOK, ShutInv, LeaveInv, Ended, base, stack
<1>5. CASE fgets
  BY <1>1, <1>5, Threads
<1> QED BY <1>1, <1>2, <1>3, <1>4, <1>5 DEF Next

\* Threads, handlers and joins are as raft_node_destroy needs them.
THEOREM LifeCorrect == Spec => []LifeInv
<1>1. LifeInv /\ [Next]_vars => LifeInv'
  BY LifeNext
<1> QED BY <1>1, LifeInit, PTL DEF Spec

\* Whatever signals come and whichever threads could be created, main is the last
\* to end, and all lines were handled (src/src/node.cpp:202-240).
THEOREM MainIsLast == Spec => []LastIsMain
<1>1. ASSUME LifeInv PROVE LastIsMain
  <2> SUFFICES ASSUME pc["main"] = "ended" PROVE jobs = 0 /\ \A t \in Thread : Ended(t)
    BY DEF LastIsMain
  <2>1. base = "ended"
    BY <1>1 DEF LifeInv, StackOK, base, Handler
  <2>2. \A w \in Worker : Ended(w) /\ pc[w] = "ended"
    BY <1>1, <2>1 DEF LifeInv, ShutInv, PcOK, Ended
  <2>3. jobs = 0
    BY <1>1, <2>2, LifecycleAssumption DEF LifeInv, ShutInv
  <2>4. Ended("network") /\ Ended("ticker") /\ Ended("stdin") /\ Ended("main")
    BY <1>1, <2>1 DEF LifeInv, ShutInv, Ended
  <2> QED BY <2>2, <2>3, <2>4 DEF Thread
<1> QED BY <1>1, LifeCorrect, PTL

\* A node that was running says LEAVE before it stops, also when signals nest or
\* meet the console's "quit" (src/src/node.cpp:188-200).
THEOREM RunningNodesLeave == Spec => LeaveIsSaid
<1>1. ASSUME LifeInv, [Next]_vars
      PROVE  [running /\ ~running' => left \/ pc["main"] = "destroy"]_vars
  <2> SUFFICES ASSUME running, ~running' PROVE left \/ pc["main"] = "destroy"
    OBVIOUS
  <2>1. CASE UNCHANGED vars
    BY <2>1 DEF vars
  <2>2. ASSUME NEW t \in Thread, thread(t) PROVE left \/ pc["main"] = "destroy"
    <3>1. CASE raft_node_stop_end(t)
      BY <1>1, <3>1 DEF raft_node_stop_end, LifeInv, LeaveInv
    <3>2. CASE raft_node_destroy
      BY <3>2 DEF raft_node_destroy, raft_node_destroy_start, join_threads, join_stdin, join_pool
    <3> QED BY <2>2, <3>1, <3>2 DEF thread, raft_node_stop, request_cluster_leave, section_end,
               raft_node_start, request_cluster_join, main_wakes, network_loop, ticker_loop,
               pool_worker, stdin_loop, cancel_stdin, Go
  <2>3. ASSUME NEW t \in Thread, pthread_mutex_lock(t) PROVE FALSE
    BY <2>3 DEF pthread_mutex_lock
  <2>4. CASE fgets \/ \E s \in Signals : handle_signal(s)
    BY <2>4 DEF fgets, handle_signal
  <2> QED BY <1>1, <2>1, <2>2, <2>3, <2>4 DEF Next
<1> QED BY <1>1, LifeCorrect, PTL DEF Spec, LeaveIsSaid

(***************************************************************************)
(* The sections under the mutex.  A handler may run on top of one, but not *)
(* inside another: the place where main is in a section is one only.       *)
(***************************************************************************)

Held == {"locked", "leaving", "joining"}

MutexInv ==
    /\ mutex \in Thread \cup {"free"}
    /\ \A t \in Thread : InSection(t) => mutex = t
    /\ \A k \in DOMAIN stack : stack[k] \in Held =>
          pc["main"] \notin Held /\ \A j \in DOMAIN stack : stack[j] \in Held => j = k

DataOK ==
    /\ running \in BOOLEAN /\ cancelled \in BOOLEAN /\ left \in BOOLEAN
    /\ arrived \in 0 .. MaxJobs /\ jobs \in 0 .. arrived
    /\ pending \subseteq Signals

LEMMA Sections ==
  /\ Range(Section) = Held
  /\ \A s \in DOMAIN Section : Section[s] \in Held /\ s \notin Held
BY DEF Section, Range, Held

\* Whoever is in a section of the mutex, in the words of the proofs.
LEMMA InSectionIs ==
  ASSUME LifeInv, NEW t \in Thread
  PROVE  InSection(t) <=> \/ pc[t] \in Held
                          \/ t = "main" /\ \E k \in DOMAIN stack : stack[k] \in Held
<1>1. t # "main" => interrupted[t] = <<>> /\ DOMAIN interrupted[t] = {}
  BY DEF LifeInv, StackOK
<1> QED BY <1>1, Sections DEF InSection, stack

LEMMA InSectionNext ==
  ASSUME LifeInv', NEW t \in Thread
  PROVE  InSection(t)' <=> \/ pc'[t] \in Held
                           \/ t = "main" /\ \E k \in DOMAIN stack' : stack'[k] \in Held
<1>1. t # "main" => interrupted'[t] = <<>> /\ DOMAIN interrupted'[t] = {}
  BY DEF LifeInv, StackOK
<1> QED BY <1>1, Sections DEF InSection, stack

\* A step in which nobody enters a section.
LEMMA NobodyEnters ==
  ASSUME LifeInv, LifeInv', MutexInv, UNCHANGED <<mutex, interrupted>>,
         \A t \in Thread : pc'[t] = pc[t] \/ pc'[t] \notin Held
  PROVE  MutexInv'
<1>1. stack' = stack
  BY DEF stack
<1>2. \A t \in Thread : InSection(t)' => InSection(t)
  BY <1>1, InSectionIs, InSectionNext
<1> QED BY <1>1, <1>2, Threads DEF MutexInv

\* Thread t leaves its section and unlocks.
LEMMA Unlocks ==
  ASSUME LifeInv, LifeInv', MutexInv, NEW t \in Thread, pc[t] \in Held,
         NEW to, to \notin Held, pc' = [pc EXCEPT ![t] = to],
         mutex' = "free", interrupted' = interrupted
  PROVE  MutexInv'
<1>1. stack' = stack
  BY DEF stack
<1>2. \A s \in Thread \ {t} : ~ InSection(s) /\ pc'[s] = pc[s]
  BY InSectionIs DEF MutexInv, LifeInv, PcOK
<1>3. pc'[t] = to
  BY DEF LifeInv, PcOK
<1>4. t = "main" => \A k \in DOMAIN stack : stack[k] \notin Held
  BY DEF MutexInv
<1>5. t # "main" => \A k \in DOMAIN stack : stack[k] \notin Held
  BY <1>2, InSectionIs, Threads
<1>6. \A s \in Thread : ~ InSection(s)'
  BY <1>1, <1>2, <1>3, <1>4, <1>5, InSectionIs, InSectionNext
<1> QED BY <1>1, <1>4, <1>5, <1>6 DEF MutexInv

LEMMA LockKeeps ==
  ASSUME LifeInv, LifeInv', MutexInv, NEW t \in Thread, pthread_mutex_lock(t)
  PROVE  MutexInv'
<1>1. /\ mutex = "free" /\ mutex' = t /\ interrupted' = interrupted
      /\ pc' = [pc EXCEPT ![t] = Section[pc[t]]]
  BY DEF pthread_mutex_lock, Go
<1>2. \A s \in Thread : ~ InSection(s)
  BY <1>1, LifecycleAssumption DEF MutexInv, Thread
<1>3. stack' = stack /\ \A k \in DOMAIN stack : stack[k] \notin Held
  BY <1>1, <1>2, InSectionIs, Threads DEF stack
<1>4. \A s \in Thread \ {t} : pc'[s] = pc[s]
  BY <1>1 DEF LifeInv, PcOK
<1>5. \A s \in Thread : InSection(s)' => s = t
  BY <1>2, <1>3, <1>4, InSectionIs, InSectionNext
<1> QED BY <1>1, <1>3, <1>5 DEF MutexInv

\* The handler returns to where it was called.
LEMMA ReturnKeeps ==
  ASSUME LifeInv, LifeInv', MutexInv, NEW t \in Thread, raft_node_stop_end(t)
  PROVE  MutexInv'
<1>1. CASE interrupted[t] = <<>>
  BY <1>1, NobodyEnters DEF raft_node_stop_end, Go, Held, LifeInv, PcOK
<1>2. CASE interrupted[t] # <<>>
  <2>1. t = "main" /\ stack # <<>> /\ stack \in Seq(MainPC)
    BY <1>2, Threads DEF LifeInv, StackOK, stack
  <2>2. /\ pc["main"] = "stopped" /\ pc' = [pc EXCEPT !["main"] = Last(stack)]
        /\ interrupted' = [interrupted EXCEPT !["main"] = Front(stack)] /\ mutex' = mutex
    BY <1>2, <2>1 DEF raft_node_stop_end, Go, stack
  <2> DEFINE n == Len(stack)
  <2>3. /\ n \in Nat \ {0} /\ n \in DOMAIN stack /\ Last(stack) = stack[n]
        /\ DOMAIN Front(stack) = 1 .. n - 1 /\ DOMAIN stack = 1 .. n
        /\ \A k \in 1 .. n - 1 : Front(stack)[k] = stack[k] /\ k \in DOMAIN stack /\ k # n
    BY <2>1, FrontLast, LenProperties
  <2>4. stack' = Front(stack) /\ pc'["main"] = stack[n] /\ \A s \in Thread \ {"main"} : pc'[s] = pc[s]
    BY <2>2, <2>3, Threads DEF LifeInv, PcOK, StackOK, stack
  <2>5. \A s \in Thread : InSection(s)' => InSection(s)
    BY <2>3, <2>4, InSectionIs, InSectionNext
  <2>6. \A k \in DOMAIN stack' : stack'[k] \in Held =>
            pc'["main"] \notin Held /\ \A j \in DOMAIN stack' : stack'[j] \in Held => j = k
    BY <2>3, <2>4 DEF MutexInv
  <2> QED BY <2>2, <2>5, <2>6 DEF MutexInv
<1> QED BY <1>1, <1>2

\* A signal leaves the section it interrupts as it is.
LEMMA SignalKeeps ==
  ASSUME LifeInv, LifeInv', MutexInv, NEW s \in Signals, handle_signal(s)
  PROVE  MutexInv'
<1>1. /\ pc' = [pc EXCEPT !["main"] = "stop"] /\ mutex' = mutex
      /\ interrupted' = [interrupted EXCEPT !["main"] = Append(stack, pc["main"])]
  BY DEF handle_signal, Go, stack
<1> DEFINE n == Len(stack)
<1>2. stack \in Seq(MainPC) /\ n \in Nat /\ DOMAIN stack = 1 .. n
  BY Threads, LenProperties DEF LifeInv, StackOK, stack
<1>3. stack' = Append(stack, pc["main"])
  BY <1>1, Threads DEF LifeInv, StackOK, stack
<1>4. /\ DOMAIN stack' = 1 .. n + 1 /\ stack'[n + 1] = pc["main"]
      /\ \A k \in 1 .. n : stack'[k] = stack[k]
  <2>1. pc["main"] \in MainPC
    BY DEF LifeInv, PcOK
  <2> QED BY <1>2, <1>3, <2>1, AppendProperties
<1>5. pc'["main"] = "stop" /\ \A t \in Thread \ {"main"} : pc'[t] = pc[t]
  BY <1>1, Threads DEF LifeInv, PcOK
<1>6. \A k \in 1 .. n + 1 : k \in 1 .. n \/ k = n + 1
  BY <1>2
<1>7. \A t \in Thread : InSection(t)' => InSection(t)
  <2>1. ASSUME NEW k \in DOMAIN stack', stack'[k] \in Held
        PROVE  pc["main"] \in Held \/ \E j \in DOMAIN stack : stack[j] \in Held
    BY <1>2, <1>4, <1>6, <2>1
  <2> QED BY <1>5, <2>1, InSectionIs, InSectionNext DEF Held
<1>8. ASSUME NEW k \in DOMAIN stack', NEW j \in DOMAIN stack', stack'[k] \in Held, stack'[j] \in Held
      PROVE  j = k
  BY <1>2, <1>4, <1>6, <1>8 DEF MutexInv
<1> QED BY <1>1, <1>5, <1>7, <1>8 DEF MutexInv, Held

LEMMA MutexNext == ASSUME LifeInv, MutexInv, [Next]_vars PROVE MutexInv'
<1>1. LifeInv'
  BY LifeNext
<1>2. ASSUME NEW t \in Thread, thread(t) PROVE MutexInv'
  <2>1. CASE request_cluster_leave(t) \/ section_end(t)
    <3>1. PICK to \in {"stopped", "idle", "loop"} : pc' = [pc EXCEPT ![t] = to]
      BY <2>1 DEF request_cluster_leave, section_end, Go
    <3>2. pc[t] \in Held /\ mutex' = "free" /\ interrupted' = interrupted
      BY <2>1 DEF request_cluster_leave, section_end, unlock, Held
    <3>3. to \notin Held
      BY DEF Held
    <3> QED BY <1>1, <3>1, <3>2, <3>3, Unlocks
  <2>2. CASE t = "main" /\ request_cluster_join
    BY <1>1, <2>2, Unlocks DEF request_cluster_join, unlock, Go, Held
  <2>3. CASE raft_node_stop_end(t)
    BY <1>1, <2>3, ReturnKeeps
  <2>4. CASE t = "main" /\ raft_node_start
    <3>1. UNCHANGED <<mutex, interrupted>>
      BY <2>4 DEF raft_node_start
    <3>2. \A s \in Thread : pc'[s] = pc[s] \/ pc'[s] \notin Held
      BY <2>4 DEF raft_node_start, Go, Held, LifeInv, PcOK
    <3> QED BY <1>1, <3>1, <3>2, NobodyEnters
  <2>5. ASSUME NEW s \in Thread, NEW to, pc' = [pc EXCEPT ![s] = to] \/ pc' = pc, to \notin Held,
               UNCHANGED <<mutex, interrupted>>
        PROVE  MutexInv'
    <3>1. \A r \in Thread : pc'[r] = pc[r] \/ pc'[r] \notin Held
      BY <2>5 DEF LifeInv, PcOK
    <3> QED BY <1>1, <2>5, <3>1, NobodyEnters
  <2>6. CASE raft_node_stop(t)
    <3>1. PICK to \in {"leave", "stopped"} : pc' = [pc EXCEPT ![t] = to]
      BY <2>6 DEF raft_node_stop, Go
    <3> QED BY <2>5, <2>6, <3>1 DEF raft_node_stop, Held
  <2>7. CASE t = "main" /\ (main_wakes \/ raft_node_destroy)
    <3>1. PICK to \in {"destroy", "join threads", "join stdin", "join pool", "ended"} :
              pc' = [pc EXCEPT !["main"] = to]
      BY <2>7 DEF main_wakes, raft_node_destroy, raft_node_destroy_start, join_threads, join_stdin,
                  join_pool, Go
    <3>2. UNCHANGED <<mutex, interrupted>>
      BY <2>7 DEF main_wakes, raft_node_destroy, raft_node_destroy_start, join_threads, join_stdin,
                  join_pool
    <3> QED BY <2>5, <2>7, <3>1, <3>2 DEF Held
  <2>8. CASE \/ t = "network" /\ network_loop
             \/ t = "ticker" /\ ticker_loop
             \/ t \in Worker /\ pool_worker(t)
             \/ t = "stdin" /\ (stdin_loop \/ cancel_stdin)
    <3>1. \E to \in {"ended", "lock", "fgets"} : pc' = [pc EXCEPT ![t] = to] \/ pc' = pc
      BY <2>8 DEF network_loop, ticker_loop, pool_worker, stdin_loop, cancel_stdin, Go
    <3>2. UNCHANGED <<mutex, interrupted>>
      BY <2>8 DEF network_loop, ticker_loop, pool_worker, stdin_loop, cancel_stdin
    <3> QED BY <2>5, <3>1, <3>2 DEF Held
  <2> QED BY <1>2, <2>1, <2>2, <2>3, <2>4, <2>6, <2>7, <2>8 DEF thread
<1>3. CASE fgets
  <2>1. PICK to \in {"lock", "stop", "ended"} : pc' = [pc EXCEPT !["stdin"] = to]
    BY <1>3 DEF fgets, Go
  <2>2. \A r \in Thread : pc'[r] = pc[r] \/ pc'[r] \notin Held
    BY <2>1 DEF LifeInv, PcOK, Held
  <2> QED BY <1>1, <1>3, <2>2, NobodyEnters DEF fgets
<1>4. CASE UNCHANGED vars
  <2>1. UNCHANGED <<mutex, interrupted, pc>>
    BY <1>4 DEF vars
  <2> QED BY <1>1, <2>1, NobodyEnters
<1> QED BY <1>1, <1>2, <1>3, <1>4, LockKeeps, SignalKeeps DEF Next

LEMMA DataNext == ASSUME LifeInv, DataOK, [Next]_vars PROVE DataOK'
<1> USE DEF DataOK
<1>1. ASSUME NEW t \in Thread, raft_node_stop(t) \/ request_cluster_leave(t) \/ raft_node_stop_end(t)
                               \/ section_end(t) \/ pthread_mutex_lock(t)
      PROVE  DataOK'
  BY <1>1 DEF raft_node_stop, request_cluster_leave, raft_node_stop_end, section_end, pthread_mutex_lock
<1>2. CASE raft_node_start \/ request_cluster_join \/ main_wakes
  BY <1>2 DEF raft_node_start, request_cluster_join, main_wakes
<1>3. CASE raft_node_destroy
  BY <1>3 DEF raft_node_destroy, raft_node_destroy_start, join_threads, join_stdin, join_pool
<1>4. CASE network_loop
  BY <1>4, LifecycleAssumption DEF network_loop
<1>5. ASSUME NEW w \in Worker, pool_worker(w) PROVE DataOK'
  BY <1>5, LifecycleAssumption DEF pool_worker
<1>6. CASE ticker_loop \/ stdin_loop \/ cancel_stdin \/ fgets
  BY <1>6 DEF ticker_loop, stdin_loop, cancel_stdin, fgets
<1>7. ASSUME NEW s \in Signals, handle_signal(s) PROVE DataOK'
  BY <1>7 DEF handle_signal
<1>8. CASE UNCHANGED vars
  BY <1>8 DEF vars
<1> QED BY <1>1, <1>2, <1>3, <1>4, <1>5, <1>6, <1>7, <1>8 DEF Next, thread

\* Two threads are never in sections of the node mutex at once, whatever signals
\* interrupt and whenever the console thread is cancelled (pthread_mutex_lock and
\* unlock in src/src/node.cpp), and the queue is never taken from when empty.
THEOREM SectionsExclude == Spec => []TypeOK
<1>1. Init => MutexInv /\ DataOK
  <2> SUFFICES ASSUME Init PROVE MutexInv /\ DataOK
    OBVIOUS
  <2>1. DataOK
    <3>1. /\ running = FALSE /\ cancelled = FALSE /\ left = FALSE
          /\ arrived = 0 /\ jobs = 0 /\ pending = Signals
      BY DEF Init
    <3>2. 0 \in 0 .. MaxJobs /\ 0 \in 0 .. 0
      BY LifecycleAssumption
    <3> QED BY <3>1, <3>2 DEF DataOK
  <2>2. stack = <<>> /\ \A t \in Thread : pc[t] \notin Held
    BY Threads DEF Init, stack, Held
  <2>3. \A t \in Thread : ~ InSection(t)
    BY <2>2, LifeInit, InSectionIs
  <2> QED BY <2>1, <2>2, <2>3 DEF Init, MutexInv
<1>2. LifeInv /\ MutexInv /\ DataOK /\ [Next]_vars => LifeInv' /\ MutexInv' /\ DataOK'
  BY LifeNext, MutexNext, DataNext
<1>3. LifeInv /\ MutexInv /\ DataOK => TypeOK
  BY DEF LifeInv, PcOK, ShutInv, MutexInv, DataOK, TypeOK
<1> QED BY <1>1, <1>2, <1>3, LifeInit, PTL DEF Spec

=============================================================================
