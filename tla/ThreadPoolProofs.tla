-------------------------- MODULE ThreadPoolProofs --------------------------
(***************************************************************************)
(* The worker pool, for any number of workers and lines: the list of jobs  *)
(* is what nobody has taken yet, no pointer dangles, and no worker sleeps  *)
(* over a job.                                                             *)
(*                                                                         *)
(* The invariant says why.  A job that has left the list is in the hands   *)
(* of one worker or was handled and freed by it; one that is in the list   *)
(* leads to the next, and the memory behind the last line is untouched.    *)
(* A worker ends on an empty list only, after which no job is submitted,   *)
(* so pool_destroy finds nothing left to free.                             *)
(***************************************************************************)
EXTENDS ThreadPool, FiniteSetTheorems, TLAPS

PoolTypes ==
    /\ next \in [Job -> Job \cup {NULL}]
    /\ stop \in BOOLEAN /\ reading \in BOOLEAN /\ destroyed \in BOOLEAN
    /\ worker \in [Worker -> [pc : PC, job : Job \cup {NULL}]]
    /\ lines \in 0 .. MaxLines
    /\ allocated \subseteq 1 .. lines

\* Each job taken is in the hands of one worker, or handled and freed.
Hands ==
    /\ freed = handled /\ handled \subseteq allocated
    /\ \A w \in Worker : IF worker[w].pc = "handle"
                         THEN worker[w].job \in allocated \ handled
                         ELSE worker[w].job = NULL
    /\ \A v, w \in In("handle") : worker[v].job = worker[w].job => v = w

Links ==
    /\ IsFirst(head, Pending) /\ IsLast(tail, Pending)
    /\ \A j \in Pending : IsFirst(next[j], {k \in Pending : k > j})
    /\ \A j \in Job : j > lines => next[j] = NULL

Ends ==
    /\ stop => ~ reading
    /\ \A w \in Worker : worker[w].pc = "ended" => stop /\ head = NULL

PoolInv == PoolTypes /\ Hands /\ Links /\ Ends /\ NoneOversleeps

(***************************************************************************)
(* Sets.                                                                   *)
(***************************************************************************)

LEMMA PendingFinite ==
  ASSUME PoolTypes
  PROVE  /\ IsFiniteSet(Pending) /\ Cardinality(Pending) \in Nat
         /\ Pending \subseteq 1 .. lines /\ Pending \subseteq Job
<1>1. lines \in Nat /\ lines <= MaxLines /\ allocated \subseteq 1 .. lines
  BY LinesAssumption DEF PoolTypes
<1>2. Pending \subseteq 1 .. lines
  BY <1>1 DEF Pending
<1>3. IsFiniteSet(1 .. lines)
  BY <1>1, FS_Interval
<1>4. IsFiniteSet(Pending)
  BY <1>2, <1>3, FS_Subset
<1>5. 1 .. lines \subseteq Job
  BY <1>1, LinesAssumption DEF Job
<1> QED BY <1>2, <1>4, <1>5, FS_CardinalityType

LEMMA InFinite ==
  ASSUME NEW pc PROVE IsFiniteSet(In(pc)) /\ Cardinality(In(pc)) \in Nat
<1>1. In(pc) \subseteq Worker
  BY DEF In
<1> QED BY <1>1, WorkerAssumption, FS_Subset, FS_CardinalityType

\* Worker w comes to lock the mutex, or has locked it and goes.
LEMMA OneMoreLocks ==
  ASSUME PoolTypes, NEW w \in Worker, worker[w].pc # "lock",
         worker' = [worker EXCEPT ![w] = Idle("lock")]
  PROVE  /\ Cardinality(In("lock")') = Cardinality(In("lock")) + 1
         /\ In("wait")' = In("wait") \ {w} /\ In("handle")' = In("handle") \ {w}
         /\ In("ended")' = In("ended") \ {w}
         /\ \A v \in Worker \ {w} : worker'[v] = worker[v]
<1>1. worker'[w] = Idle("lock") /\ \A v \in Worker \ {w} : worker'[v] = worker[v]
  BY DEF PoolTypes
<1>2. Idle("lock").pc = "lock"
  BY DEF Idle
<1>3. In("lock")' = In("lock") \cup {w} /\ w \notin In("lock")
  BY <1>1, <1>2 DEF In
<1>4. Cardinality(In("lock") \cup {w}) = Cardinality(In("lock")) + 1
  BY <1>3, InFinite, FS_AddElement
<1> QED BY <1>1, <1>2, <1>3, <1>4 DEF In

(***************************************************************************)
(* The steps.                                                              *)
(***************************************************************************)

LEMMA PoolInit == Init => PoolInv
<1> SUFFICES ASSUME Init PROVE PoolInv
  OBVIOUS
<1>1. /\ In("wait") = {} /\ In("handle") = {} /\ Pending = {}
      /\ \A w \in Worker : worker[w] = Idle("lock")
  BY DEF Init, In, Idle, Pending
<1>2. PoolTypes
  <2>1. Idle("lock") \in [pc : PC, job : Job \cup {NULL}]
    BY DEF Idle, PC
  <2>2. 0 \in 0 .. MaxLines
    BY LinesAssumption
  <2> QED BY <2>1, <2>2 DEF Init, PoolTypes
<1>3. Hands
  BY <1>1 DEF Init, Hands, Idle
<1>4. Links
  BY <1>1 DEF Init, Links, IsFirst, IsLast, Job
<1>5. Ends /\ NoneOversleeps
  BY <1>1 DEF Init, Ends, NoneOversleeps, Idle
<1> QED BY <1>2, <1>3, <1>4, <1>5 DEF PoolInv

\* Nobody takes a job, and the list stays as it is.
LEMMA LinksStay ==
  ASSUME PoolInv, Pending' = Pending, UNCHANGED <<head, tail, next, lines>> PROVE Links'
  BY DEF PoolInv, Links, IsFirst, IsLast

\* A signal makes workers that wait go on, and touches no other.
LEMMA SignalStep ==
  ASSUME PoolTypes, signal \/ broadcast \/ UNCHANGED worker
  PROVE  /\ worker' \in [Worker -> [pc : PC, job : Job \cup {NULL}]]
         /\ \A w \in Worker : \/ worker'[w] = worker[w]
                              \/ worker[w].pc = "wait" /\ worker'[w] = Idle("lock")
<1>1. Idle("lock") \in [pc : PC, job : Job \cup {NULL}]
  BY DEF Idle, PC
<1>2. ASSUME NEW w \in In("wait"), worker' = [worker EXCEPT ![w] = Idle("lock")]
      PROVE  /\ worker' \in [Worker -> [pc : PC, job : Job \cup {NULL}]]
             /\ \A v \in Worker : \/ worker'[v] = worker[v]
                                  \/ worker[v].pc = "wait" /\ worker'[v] = Idle("lock")
  <2>1. w \in Worker /\ worker[w].pc = "wait"
    BY DEF In
  <2>2. worker'[w] = Idle("lock") /\ \A v \in Worker \ {w} : worker'[v] = worker[v]
    BY <1>2, <2>1 DEF PoolTypes
  <2> QED BY <1>1, <1>2, <2>1, <2>2 DEF PoolTypes
<1>3. CASE broadcast
  BY <1>1, <1>3 DEF broadcast, PoolTypes, In
<1>4. CASE UNCHANGED worker
  BY <1>4 DEF PoolTypes
<1> QED BY <1>2, <1>3, <1>4 DEF signal

\* Who has a job at hand keeps it when others are signalled.
LEMMA SignalHands ==
  ASSUME PoolTypes, Hands, signal \/ broadcast \/ UNCHANGED worker,
         UNCHANGED <<handled, freed>>, allocated \subseteq allocated'
  PROVE  Hands' /\ Taken' = Taken
<1>1. \A w \in Worker : \/ worker'[w] = worker[w]
                        \/ worker[w].pc = "wait" /\ worker'[w] = Idle("lock")
  BY SignalStep
<1>2. In("handle")' = In("handle")
  BY <1>1 DEF In, Idle
<1>3. \A w \in In("handle") : worker'[w] = worker[w]
  BY <1>1 DEF In
<1>4. Taken' = Taken
  BY <1>2, <1>3 DEF Taken
<1>5. \A w \in Worker : IF worker'[w].pc = "handle"
                        THEN worker'[w].job \in allocated' \ handled'
                        ELSE worker'[w].job = NULL
  BY <1>1 DEF Hands, Idle
<1>6. \A v, w \in In("handle")' : worker'[v].job = worker'[w].job => v = w
  BY <1>2, <1>3 DEF Hands
<1> QED BY <1>4, <1>5, <1>6 DEF Hands

LEMMA SubmitPool == ASSUME PoolInv, pool_submit PROVE PoolInv'
<1> DEFINE n == lines + 1
<1>1. PoolTypes /\ Hands /\ Links /\ Ends /\ NoneOversleeps
  BY DEF PoolInv
<1>2. /\ n \in Job /\ lines' = n /\ lines \in Nat /\ n \in 1 .. n
      /\ reading /\ UNCHANGED <<stop, reading, freed, handled, destroyed>>
  BY <1>1, LinesAssumption DEF pool_submit, PoolTypes, Job
<1> HIDE DEF n
<1>3. \A j \in Pending : j \in Nat /\ j < n /\ j \in Job
  BY <1>1, <1>2, PendingFinite DEF n, Job
<1>4. CASE UNCHANGED <<head, tail, next, worker, allocated>>
  <2>1. PoolTypes'
    BY <1>1, <1>2, <1>4, LinesAssumption DEF PoolTypes, Job, n
  <2>2. Pending' = Pending /\ In("wait")' = In("wait") /\ In("lock")' = In("lock")
    BY <1>2, <1>4 DEF Pending, Taken, In
  <2>3. Links'
    BY <1>1, <1>2, <1>4, <2>2 DEF Links, IsFirst, IsLast, n, Job
  <2>4. Hands' /\ Ends' /\ NoneOversleeps'
    BY <1>1, <1>2, <1>4, <2>2 DEF Hands, Ends, NoneOversleeps, In
  <2> QED BY <2>1, <2>3, <2>4 DEF PoolInv
<1>5. CASE /\ allocated' = allocated \cup {n} /\ tail' = n /\ signal
           /\ IF tail = NULL THEN head' = n /\ UNCHANGED next
              ELSE next' = [next EXCEPT ![tail] = n] /\ UNCHANGED head
  <2>1. Hands' /\ Taken' = Taken
    BY <1>1, <1>2, <1>5, SignalHands
  <2>2. n \notin Taken
    <3>1. Taken \subseteq allocated
      BY <1>1 DEF Taken, Hands, In
    <3>2. \A k \in allocated : k < n
      BY <1>1, <1>2 DEF PoolTypes, n
    <3> QED BY <1>2, <3>1, <3>2 DEF Job
  <2>3. Pending' = Pending \cup {n} /\ n \notin Pending
    BY <1>2, <1>3, <1>5, <2>1, <2>2 DEF Pending, Job
  <2>4. PoolTypes'
    <3>1. allocated' \subseteq 1 .. n
      BY <1>1, <1>2, <1>5 DEF PoolTypes, n
    <3>2. next' \in [Job -> Job \cup {NULL}]
      BY <1>1, <1>2, <1>5 DEF PoolTypes
    <3>3. n \in 0 .. MaxLines
      BY <1>2, LinesAssumption DEF Job
    <3> QED BY <1>1, <1>2, <1>5, <3>1, <3>2, <3>3, SignalStep DEF PoolTypes
  <2>5. \A x \in Pending : x # NULL
    BY <1>3, NullAssumption
  <2>6. Links'
    <3>1. \A j \in Job : j > n => j > lines /\ j # n /\ j \notin Pending
      BY <1>2, <1>3 DEF n, Job
    <3>2. CASE tail = NULL
      <4>1. Pending = {} /\ Pending' = {n}
        BY <1>1, <2>3, <2>5, <3>2 DEF Links, IsLast
      <4>2. next[n] = NULL
        BY <1>1, <1>2 DEF Links, n
      <4>3. {k \in {n} : k > n} = {}
        BY <1>2 DEF n
      <4>4. head' = n /\ tail' = n /\ next' = next
        BY <1>5, <3>2
      <4> QED BY <1>1, <1>2, <3>1, <4>1, <4>2, <4>3, <4>4 DEF Links, IsFirst, IsLast, Job
    <3>3. CASE tail # NULL
      <4>1. tail \in Pending /\ \A y \in Pending : y <= tail
        BY <1>1, <1>3, <3>3 DEF Links, IsLast
      <4>2. /\ next'[tail] = n /\ \A j \in Job \ {tail} : next'[j] = next[j]
            /\ head' = head /\ tail' = n
        BY <1>1, <1>3, <1>5, <3>3, <4>1 DEF PoolTypes
      <4>3. IsFirst(head, Pending') /\ IsLast(n, Pending')
        <5>1. head \in Pending /\ \A y \in Pending : head <= y
          BY <1>1, <4>1 DEF Links, IsFirst
        <5>2. n \in Nat
          BY <1>2 DEF Job
        <5> QED BY <1>3, <2>3, <5>1, <5>2 DEF IsFirst, IsLast
      <4>4. ASSUME NEW j \in Pending' PROVE IsFirst(next'[j], {k \in Pending' : k > j})
        <5> DEFINE B == {k \in Pending : k > j}  D == {k \in Pending' : k > j}
        <5>1. n \in Nat
          BY <1>2 DEF Job
        <5>2. CASE j = n
          <6>1. D = {}
            <7>1. \A k \in Pending' : ~ (k > n)
              BY <1>3, <2>3, <5>1
            <7> QED BY <5>2, <7>1
          <6>2. next'[n] = NULL
            BY <1>1, <1>2, <2>3, <4>1, <4>2 DEF Links, n
          <6> QED BY <5>2, <6>1, <6>2 DEF IsFirst
        <5>3. CASE j = tail
          <6>1. D = {n}
            BY <1>3, <2>3, <4>1, <5>1, <5>3
          <6> QED BY <4>2, <5>1, <5>3, <6>1 DEF IsFirst
        <5>4. CASE j # n /\ j # tail
          <6>1. j \in Pending /\ next'[j] = next[j]
            BY <1>3, <2>3, <4>2, <5>4
          <6>2. tail \in B /\ D = B \cup {n}
            BY <1>3, <2>3, <4>1, <5>1, <5>4, <6>1
          <6>3. IsFirst(next[j], B)
            BY <1>1, <6>1 DEF Links
          <6>4. next[j] \in B /\ \A y \in B : next[j] <= y
            BY <6>2, <6>3 DEF IsFirst
          <6>5. next[j] <= n
            BY <1>3, <5>1, <6>4
          <6> QED BY <6>1, <6>2, <6>4, <6>5 DEF IsFirst
        <5> QED BY <5>2, <5>3, <5>4
      <4>5. \A j \in Job : j > n => next'[j] = NULL
        BY <1>1, <3>1, <4>1, <4>2 DEF Links
      <4> QED BY <1>2, <4>2, <4>3, <4>4, <4>5 DEF Links
    <3> QED BY <3>2, <3>3
  <2>7. Ends'
    BY <1>1, <1>2, <1>5, SignalStep DEF Ends, Idle
  <2>8. NoneOversleeps'
    <3>1. CASE In("wait") = {} /\ UNCHANGED worker
      BY <3>1 DEF NoneOversleeps, In
    <3>2. ASSUME NEW w \in In("wait"), worker' = [worker EXCEPT ![w] = Idle("lock")]
          PROVE  NoneOversleeps'
      <4>1. w \in Worker /\ worker[w].pc # "lock"
        BY DEF In
      <4>2. Cardinality(In("lock")') = Cardinality(In("lock")) + 1
        BY <1>1, <3>2, <4>1, OneMoreLocks
      <4>3. Cardinality(Pending \cup {n}) = Cardinality(Pending) + 1
        BY <1>1, <2>3, PendingFinite, FS_AddElement
      <4>4. Cardinality(Pending) <= Cardinality(In("lock"))
        BY <1>1, <3>2 DEF NoneOversleeps
      <4>5. Cardinality(Pending) \in Nat /\ Cardinality(In("lock")) \in Nat
        BY <1>1, PendingFinite, InFinite
      <4> QED BY <2>3, <4>2, <4>3, <4>4, <4>5 DEF NoneOversleeps
    <3> QED BY <1>5, <3>1, <3>2 DEF signal
  <2> QED BY <2>1, <2>4, <2>6, <2>7, <2>8 DEF PoolInv
<1> QED BY <1>2, <1>4, <1>5 DEF pool_submit, n

\* A worker without a job goes on without one.
LEMMA IdleHands ==
  ASSUME PoolTypes, Hands, NEW w \in Worker, worker[w].pc # "handle",
         NEW pc \in PC, pc # "handle", worker' = [worker EXCEPT ![w] = Idle(pc)],
         UNCHANGED <<allocated, handled, freed>>
  PROVE  /\ worker' \in [Worker -> [pc : PC, job : Job \cup {NULL}]]
         /\ Hands' /\ Pending' = Pending
<1>1. worker'[w] = Idle(pc) /\ \A v \in Worker \ {w} : worker'[v] = worker[v]
  BY DEF PoolTypes
<1>2. Idle(pc) \in [pc : PC, job : Job \cup {NULL}] /\ Idle(pc).pc = pc /\ Idle(pc).job = NULL
  BY DEF Idle
<1>3. worker' \in [Worker -> [pc : PC, job : Job \cup {NULL}]]
  BY <1>2 DEF PoolTypes
<1>4. In("handle")' = In("handle") /\ \A v \in In("handle") : worker'[v] = worker[v]
  BY <1>1, <1>2 DEF In
<1>5. Pending' = Pending
  BY <1>4 DEF Pending, Taken
<1>6. \A v \in Worker : IF worker'[v].pc = "handle" THEN worker'[v].job \in allocated \ handled
                        ELSE worker'[v].job = NULL
  BY <1>1, <1>2 DEF Hands
<1>7. \A u, v \in In("handle")' : worker'[u].job = worker'[v].job => u = v
  BY <1>4 DEF Hands
<1> QED BY <1>3, <1>5, <1>6, <1>7 DEF Hands

LEMMA NothingPending == ASSUME PoolTypes, Links PROVE head = NULL <=> Pending = {}
<1>1. NULL \notin Pending
  BY PendingFinite, NullAssumption, LinesAssumption DEF Job
<1> QED BY <1>1 DEF Links, IsFirst

LEMMA LookPool == ASSUME PoolInv, NEW w \in Worker, pool_worker_look(w) PROVE PoolInv'
<1>1. PoolTypes /\ Hands /\ Links /\ Ends /\ NoneOversleeps
  BY DEF PoolInv
<1>2. /\ worker[w].pc = "lock"
      /\ UNCHANGED <<next, stop, reading, lines, allocated, freed, handled, destroyed>>
  BY DEF pool_worker_look
<1>3. ASSUME NEW pc \in {"wait", "ended"}, worker' = [worker EXCEPT ![w] = Idle(pc)],
             head = NULL, pc = "ended" => stop, UNCHANGED <<head, tail>>
      PROVE  PoolInv'
  <2>1. pc \in PC /\ pc # "handle"
    BY DEF PC
  <2>2. /\ worker' \in [Worker -> [pc : PC, job : Job \cup {NULL}]]
        /\ Hands' /\ Pending' = Pending
    BY <1>1, <1>2, <1>3, <2>1, IdleHands
  <2>3. PoolTypes' /\ Links'
    BY <1>2, <1>3, <2>2, LinksStay DEF PoolInv, PoolTypes
  <2>4. Ends'
    <3>1. worker'[w].pc = pc /\ \A v \in Worker \ {w} : worker'[v] = worker[v]
      BY <1>1, <1>3 DEF PoolTypes, Idle
    <3> QED BY <1>1, <1>2, <1>3, <3>1 DEF Ends
  <2>5. NoneOversleeps'
    <3>1. Pending' = {}
      BY <1>1, <1>3, <2>2, NothingPending
    <3>2. Cardinality(Pending') = 0
      BY <3>1, FS_EmptySet
    <3>3. Cardinality(In("lock")') \in Nat
      <4>1. In("lock")' \subseteq Worker
        BY DEF In
      <4> QED BY <4>1, WorkerAssumption, FS_Subset, FS_CardinalityType
    <3> QED BY <3>2, <3>3 DEF NoneOversleeps
  <2> QED BY <2>2, <2>3, <2>4, <2>5 DEF PoolInv
<1>4. CASE /\ head # NULL /\ dequeue
           /\ worker' = [worker EXCEPT ![w] = [pc |-> "handle", job |-> head]]
  <2>1. /\ worker'[w] = [pc |-> "handle", job |-> head]
        /\ \A v \in Worker \ {w} : worker'[v] = worker[v]
    BY <1>1, <1>4 DEF PoolTypes
  <2>2. head \in Pending /\ \A y \in Pending : head <= y
    BY <1>1, <1>4, NothingPending DEF Links, IsFirst
  <2>3. Pending \subseteq Nat /\ Pending \subseteq Job
    BY <1>1, PendingFinite, LinesAssumption DEF Job
  <2>4. In("handle")' = In("handle") \cup {w} /\ w \notin In("handle")
    BY <1>2, <2>1 DEF In
  <2>5. Taken' = Taken \cup {head}
    <3>1. \A v \in In("handle") : worker'[v] = worker[v]
      BY <2>1, <2>4 DEF In
    <3> QED BY <1>2, <2>1, <2>4, <3>1 DEF Taken
  <2>6. Pending' = Pending \ {head}
    BY <1>2, <2>5 DEF Pending
  <2>7. PoolTypes'
    <3>1. [pc |-> "handle", job |-> head] \in [pc : PC, job : Job \cup {NULL}]
      BY <2>2, <2>3 DEF PC
    <3> QED BY <1>1, <1>2, <1>4, <3>1 DEF PoolTypes
  <2>8. Hands'
    <3>1. head \in allocated /\ head \notin handled
          /\ \A v \in In("handle") : worker[v].job # head
      BY <2>2 DEF Pending, Taken
    <3>2. \A u, v \in In("handle")' : worker'[u].job = worker'[v].job => u = v
      <4>1. \A v \in In("handle") : worker'[v] = worker[v]
        BY <2>1, <2>4 DEF In
      <4> QED BY <1>1, <2>1, <2>4, <3>1, <4>1 DEF Hands
    <3>3. \A v \in Worker : IF worker'[v].pc = "handle" THEN worker'[v].job \in allocated \ handled
                            ELSE worker'[v].job = NULL
      BY <1>1, <2>1, <3>1 DEF Hands
    <3> QED BY <1>1, <1>2, <3>2, <3>3 DEF Hands
  <2>9. Links'
    <3> DEFINE B(j) == {k \in Pending : k > j}
    <3>1. head' = next[head] /\ tail' = IF head' = NULL THEN NULL ELSE tail
      BY <1>4 DEF dequeue
    <3>2. B(head) = Pending' /\ IsFirst(next[head], B(head))
      <4>1. \A k \in Pending : k # head <=> k > head
        BY <2>2, <2>3
      <4>2. B(head) = Pending'
        BY <2>6, <4>1
      <4>3. IsFirst(next[head], B(head))
        BY <1>1, <2>2 DEF Links
      <4> QED BY <4>2, <4>3
    <3>3. IsFirst(head', Pending')
      BY <3>1, <3>2
    <3>4. head' = NULL <=> Pending' = {}
      <4>1. NULL \notin Pending'
        BY <2>3, <2>6, NullAssumption
      <4> QED BY <3>3, <4>1 DEF IsFirst
    <3>5. IsLast(tail', Pending')
      <4>1. CASE Pending' = {}
        BY <3>1, <3>4, <4>1 DEF IsLast
      <4>2. CASE Pending' # {}
        <5>1. tail \in Pending /\ \A y \in Pending : tail >= y
          BY <1>1, <2>2 DEF Links, IsLast
        <5>2. PICK y \in Pending' : TRUE
          BY <4>2
        <5>3. tail # head
          BY <2>2, <2>3, <2>6, <5>1, <5>2
        <5> QED BY <2>6, <3>1, <3>4, <4>2, <5>1, <5>3 DEF IsLast
      <4> QED BY <4>1, <4>2
    <3>6. ASSUME NEW j \in Pending' PROVE IsFirst(next'[j], {k \in Pending' : k > j})
      <4>1. j \in Pending /\ j # head /\ next'[j] = next[j]
        BY <1>2, <2>6
      <4>2. {k \in Pending' : k > j} = B(j)
        BY <2>2, <2>3, <2>6, <4>1
      <4>3. IsFirst(next[j], B(j))
        BY <1>1, <4>1 DEF Links
      <4> QED BY <4>1, <4>2, <4>3
    <3> QED BY <1>1, <1>2, <3>3, <3>5, <3>6 DEF Links
  <2>10. Ends'
    BY <1>1, <1>2, <1>4, <2>1 DEF Ends
  <2>11. NoneOversleeps'
    <3>1. In("wait")' = In("wait") /\ In("lock")' = In("lock") \ {w} /\ w \in In("lock")
      BY <1>2, <2>1 DEF In
    <3>2. Cardinality(In("lock") \ {w}) = Cardinality(In("lock")) - 1
      BY <3>1, InFinite, FS_RemoveElement
    <3>3. Cardinality(Pending \ {head}) = Cardinality(Pending) - 1
      BY <1>1, <2>2, PendingFinite, FS_RemoveElement
    <3>4. Cardinality(Pending) \in Nat /\ Cardinality(In("lock")) \in Nat
      BY <1>1, PendingFinite, InFinite
    <3> QED BY <1>1, <2>6, <3>1, <3>2, <3>3, <3>4 DEF NoneOversleeps
  <2> QED BY <2>7, <2>8, <2>9, <2>10, <2>11 DEF PoolInv
<1> QED BY <1>1, <1>3, <1>4 DEF pool_worker_look, MayWait, MayEnd, PoolTypes

LEMMA HandlePool == ASSUME PoolInv, NEW w \in Worker, pool_worker_handle(w) PROVE PoolInv'
<1> DEFINE job == worker[w].job
<1>1. PoolTypes /\ Hands /\ Links /\ Ends /\ NoneOversleeps
  BY DEF PoolInv
<1>2. /\ worker[w].pc = "handle" /\ worker' = [worker EXCEPT ![w] = Idle("lock")]
      /\ handled' = handled \cup {job} /\ freed' = freed \cup {job}
      /\ UNCHANGED <<head, tail, next, stop, reading, lines, allocated, destroyed>>
  BY DEF pool_worker_handle
<1>3. job \in allocated \ handled /\ w \in In("handle")
  BY <1>1, <1>2 DEF Hands, In
<1>4. /\ Cardinality(In("lock")') = Cardinality(In("lock")) + 1
      /\ In("wait")' = In("wait") \ {w} /\ In("handle")' = In("handle") \ {w}
      /\ \A v \in Worker \ {w} : worker'[v] = worker[v]
  BY <1>1, <1>2, OneMoreLocks
<1>5. worker'[w] = Idle("lock") /\ Idle("lock").pc = "lock" /\ Idle("lock").job = NULL
      /\ Idle("lock") \in [pc : PC, job : Job \cup {NULL}]
  BY <1>1, <1>2 DEF PoolTypes, Idle, PC
<1>6. Taken' = Taken
  <2>1. \A v \in In("handle")' : worker'[v] = worker[v]
    BY <1>4 DEF In
  <2> QED BY <1>2, <1>3, <1>4, <2>1 DEF Taken
<1>7. PoolTypes'
  BY <1>1, <1>2, <1>5 DEF PoolTypes
<1>8. Hands'
  <2>1. \A v \in Worker : IF worker'[v].pc = "handle" THEN worker'[v].job \in allocated \ handled'
                          ELSE worker'[v].job = NULL
    <3>1. \A v \in In("handle") \ {w} : worker[v].job # job
      BY <1>1, <1>3 DEF Hands
    <3> QED BY <1>1, <1>2, <1>4, <1>5, <3>1 DEF Hands, In
  <2>2. \A u, v \in In("handle")' : worker'[u].job = worker'[v].job => u = v
    BY <1>1, <1>4 DEF Hands, In
  <2> QED BY <1>1, <1>2, <1>3, <2>1, <2>2 DEF Hands
<1>9. Pending' = Pending
  BY <1>2, <1>6 DEF Pending
<1>10. Links'
  BY <1>2, <1>9, LinksStay
<1>11. Ends'
  BY <1>1, <1>2, <1>4, <1>5 DEF Ends
<1>12. NoneOversleeps'
  <2>1. Cardinality(Pending) \in Nat /\ Cardinality(In("lock")) \in Nat
    BY <1>1, PendingFinite, InFinite
  <2> QED BY <1>1, <1>4, <1>9, <2>1 DEF NoneOversleeps
<1> QED BY <1>7, <1>8, <1>10, <1>11, <1>12 DEF PoolInv

LEMMA WakePool == ASSUME PoolInv, NEW w \in Worker, wake_up(w) PROVE PoolInv'
<1>1. PoolTypes /\ Hands /\ Links /\ Ends /\ NoneOversleeps
  BY DEF PoolInv
<1>2. /\ worker[w].pc = "wait" /\ worker' = [worker EXCEPT ![w] = Idle("lock")]
      /\ UNCHANGED <<head, tail, next, stop, reading, lines, allocated, freed, handled, destroyed>>
  BY DEF wake_up
<1>3. /\ worker' \in [Worker -> [pc : PC, job : Job \cup {NULL}]]
      /\ Hands' /\ Pending' = Pending
  BY <1>1, <1>2, IdleHands DEF PC
<1>4. /\ Cardinality(In("lock")') = Cardinality(In("lock")) + 1
      /\ In("wait")' = In("wait") \ {w} /\ In("ended")' = In("ended") \ {w}
  BY <1>1, <1>2, OneMoreLocks
<1>5. PoolTypes' /\ Links'
  BY <1>1, <1>2, <1>3, LinksStay DEF PoolTypes
<1>6. Ends'
  BY <1>1, <1>2, <1>4 DEF Ends, In
<1>7. NoneOversleeps'
  <2>1. Cardinality(Pending) \in Nat /\ Cardinality(In("lock")) \in Nat
    BY <1>1, PendingFinite, InFinite
  <2> QED BY <1>1, <1>3, <1>4, <2>1 DEF NoneOversleeps
<1> QED BY <1>3, <1>5, <1>6, <1>7 DEF PoolInv

LEMMA StopPool == ASSUME PoolInv, pool_destroy_stop PROVE PoolInv'
<1>1. PoolTypes /\ Hands /\ Links /\ Ends /\ NoneOversleeps
  BY DEF PoolInv
<1>2. /\ ~ reading /\ stop' = TRUE /\ broadcast
      /\ UNCHANGED <<head, tail, next, reading, lines, allocated, freed, handled, destroyed>>
  BY DEF pool_destroy_stop
<1>3. /\ worker' \in [Worker -> [pc : PC, job : Job \cup {NULL}]]
      /\ \A w \in Worker : \/ worker'[w] = worker[w]
                           \/ worker[w].pc = "wait" /\ worker'[w] = Idle("lock")
  BY <1>1, <1>2, SignalStep
<1>4. Hands' /\ Pending' = Pending
  BY <1>1, <1>2, SignalHands DEF Pending
<1>5. PoolTypes' /\ Links'
  BY <1>1, <1>2, <1>3, <1>4, LinksStay DEF PoolTypes
<1>6. Ends'
  BY <1>1, <1>2, <1>3 DEF Ends, Idle
<1>7. In("wait")' = {}
  BY <1>2 DEF broadcast, In, Idle
<1> QED BY <1>4, <1>5, <1>6, <1>7 DEF PoolInv, NoneOversleeps

\* When all workers have ended, nothing is left in the list.
LEMMA JoinPool == ASSUME PoolInv, pool_destroy_join PROVE PoolInv'
<1>1. PoolTypes /\ Hands /\ Links /\ Ends /\ NoneOversleeps
  BY DEF PoolInv
<1>2. /\ In("ended") = Worker /\ destroyed' = TRUE /\ freed' = freed \cup Linked
      /\ UNCHANGED <<head, tail, next, stop, worker, reading, lines, allocated, handled>>
  BY DEF pool_destroy_join
<1>3. head = NULL
  BY <1>1, <1>2, WorkerAssumption DEF In, Ends
<1>4. Linked = {}
  <2> SUFFICES ASSUME NEW j \in Linked PROVE FALSE
    OBVIOUS
  <2> DEFINE T == {}
  <2>1. T \in SUBSET Job /\ head \in T \cup {NULL} /\ \A k \in T : next[k] \in T \cup {NULL}
    BY <1>3
  <2>2. j \in T
    BY <2>1, Zenon DEF Linked
  <2> QED BY <2>2
<1>5. Pending' = Pending
  BY <1>2 DEF Pending, Taken, In
<1>6. PoolTypes' /\ Links'
  BY <1>1, <1>2, <1>5, LinksStay DEF PoolTypes
<1>7. Hands' /\ Ends' /\ NoneOversleeps'
  BY <1>1, <1>2, <1>4, <1>5 DEF Hands, Ends, NoneOversleeps, In
<1> QED BY <1>6, <1>7 DEF PoolInv

LEMMA PoolNext == ASSUME PoolInv, [Next]_vars PROVE PoolInv'
<1>1. CASE network_loop_end \/ UNCHANGED vars
  <2>1. /\ UNCHANGED <<head, tail, next, stop, worker, lines, allocated, freed, handled, destroyed>>
        /\ reading' \in {FALSE, reading}
    BY <1>1 DEF network_loop_end, vars
  <2>2. Pending' = Pending
    BY <2>1 DEF Pending, Taken, In
  <2>3. Links'
    BY <2>1, <2>2, LinksStay
  <2>4. PoolTypes' /\ Hands'
    BY <2>1 DEF PoolInv, PoolTypes, Hands, In
  <2>5. stop => ~ reading'
    BY <2>1 DEF PoolInv, PoolTypes, Ends
  <2>6. Ends'
    BY <2>1, <2>5 DEF PoolInv, Ends
  <2>7. In("wait")' = In("wait") /\ In("lock")' = In("lock")
    BY <2>1 DEF In
  <2>8. NoneOversleeps'
    BY <2>2, <2>7 DEF PoolInv, NoneOversleeps
  <2> QED BY <2>3, <2>4, <2>6, <2>8 DEF PoolInv
<1> QED BY <1>1, SubmitPool, LookPool, HandlePool, WakePool, StopPool, JoinPool
        DEF Next, pool_worker, pool_destroy

THEOREM PoolIsSound == Spec => []PoolInv
BY PoolInit, PoolNext, PTL DEF Spec

(***************************************************************************)
(* The theorems.                                                           *)
(***************************************************************************)

\* No pointer the pool follows dangles: the ends of the list and the jobs at hand
\* are NULL or not yet freed, for any number of workers.
THEOREM NothingDangles == Spec => []TypeOK
<1>1. ASSUME PoolInv PROVE TypeOK
  <2>1. PoolTypes /\ Hands /\ Links
    BY <1>1 DEF PoolInv
  <2>2. Pending \subseteq Live
    BY <2>1 DEF Hands, Pending, Taken, Live
  <2>3. head \in Pending \cup {NULL} /\ tail \in Pending \cup {NULL}
    BY <2>1 DEF Links, IsFirst, IsLast
  <2>4. \A w \in Worker : IF worker[w].pc = "handle" THEN worker[w].job \in Live
                                                     ELSE worker[w].job = NULL
    BY <2>1 DEF Hands, Live
  <2> QED BY <2>1, <2>2, <2>3, <2>4 DEF TypeOK, PoolTypes, Hands
<1> QED BY <1>1, PoolIsSound, PTL

\* The list is what nobody has taken yet, in the order of the lines.
THEOREM ListIsWhatIsPending == Spec => []ListIsPending
<1>1. PoolInv => ListIsPending
  BY DEF PoolInv, Links, ListIsPending
<1> QED BY <1>1, PoolIsSound, PTL

\* No worker sleeps over a job, whatever signals come late or wake the wrong one.
THEOREM NobodyOversleeps == Spec => []NoneOversleeps
<1>1. PoolInv => NoneOversleeps
  BY DEF PoolInv
<1> QED BY <1>1, PoolIsSound, PTL

=============================================================================
