-------------------------- MODULE ConnectionsProofs --------------------------
(***************************************************************************)
(* What is proved of Connections, for any number of clients and any bytes. *)
(* First, that the slot of a descriptor and the events of a batch are      *)
(* those of the client that has the descriptor.  Then, that the lines      *)
(* handed on are those of a reader that looks at one byte after the other, *)
(* and that buffers do not overflow.                                       *)
(*                                                                         *)
(* What makes pieces harmless is ReadOn: to read t after s is to read t    *)
(* into what s left in the buffer.                                         *)
(***************************************************************************)
EXTENDS Connections, FiniteSetTheorems, SequenceTheorems, WellFoundedInduction, TLAPS

\* Slots and descriptors agree, and a batch has an event at most per descriptor:
\* whoever is accepted at a descriptor while the batch is handled was not in it.
BatchMatches ==
    /\ \A i \in DOMAIN batch : batch[i].fd # Listener =>
          batch[i].client = open[batch[i].fd] /\ batch[i].client # "none"
    /\ \A i, j \in DOMAIN batch : i # j => batch[i].fd # batch[j].fd

SlotInv ==
    /\ open \in [Fd -> Client \cup {"none"}]
    /\ connections = [fd \in Fd |-> [client |-> open[fd], buffer |-> connections[fd].buffer]]
    /\ batch \in Seq(Event)
    /\ BatchMatches

LEMMA ListenerIsNoClient == Listener \notin Fd
<1>1. Cardinality(Client) \in Nat
  BY FS_CardinalityType, ConnectionAssumption
<1> QED BY <1>1 DEF Listener, Fd

\* There are finitely many events to report, one at most per descriptor.
LEMMA ReadyEvents ==
  ASSUME open \in [Fd -> Client \cup {"none"}]
  PROVE  /\ IsFiniteSet(Ready) /\ Ready \subseteq Event
         /\ \A e \in Ready : e.fd # Listener => e.client = open[e.fd] /\ e.client # "none"
         /\ \A d, e \in Ready : d.fd = e.fd => d = e
<1> DEFINE Some == {f \in Fd : open[f] # "none" /\ Readable(open[f])}
           E(fd) == [fd |-> fd, client |-> open[fd], hup |-> fin[open[fd]] # "no"]
           L == [fd |-> Listener, client |-> "none", hup |-> FALSE]
           Queued == {d \in Client : phase[d] = "queued"}
<1>1. Ready = {E(fd) : fd \in Some} \cup {L : c \in Queued}
  BY Zenon DEF Ready
<1>2. IsFiniteSet(Fd)
  BY FS_CardinalityType, FS_Interval, ConnectionAssumption DEF Fd
<1>3. IsFiniteSet(Some) /\ IsFiniteSet(Queued)
  <2>1. Some \subseteq Fd /\ Queued \subseteq Client
    OBVIOUS
  <2> QED BY <1>2, <2>1, FS_Subset, ConnectionAssumption
<1>4. IsFiniteSet({E(fd) : fd \in Some}) /\ IsFiniteSet({L : c \in Queued})
  <2> DEFINE f == [fd \in Some |-> E(fd)]
       T == {E(fd) : fd \in Some}
  <2>a. f \in [Some -> T]
    OBVIOUS
  <2>b. \A t \in T : \E s \in Some : f[s] = t
    OBVIOUS
  <2>1. f \in Surjection(Some, T)
    BY <2>a, <2>b, Zenon DEF Surjection
  <2>2. {L : c \in Queued} \subseteq {L}
    OBVIOUS
  <2>3. IsFiniteSet(T)
    <3> HIDE DEF T, f, Some
    <3> QED BY <1>3, <2>1, FS_Surjection, Zenon
  <2>4. IsFiniteSet({L})
    BY FS_Singleton, Zenon
  <2>5. IsFiniteSet({L : c \in Queued})
    <3> HIDE DEF L, Queued
    <3> QED BY <2>2, <2>4, FS_Subset
  <2> QED BY <2>3, <2>5
<1>5. IsFiniteSet(Ready)
  BY <1>1, <1>4, FS_Union
<1>6. \A fd \in Some : E(fd) \in Event /\ E(fd).fd = fd /\ E(fd).client = open[fd] /\ open[fd] # "none"
  BY DEF Event
<1>7. L \in Event /\ L.fd = Listener
  BY DEF Event
<1> HIDE DEF E, L
<1> QED BY <1>1, <1>5, <1>6, <1>7, ListenerIsNoClient

\* What is left of the batch when its first event has been handled.
LEMMA TailOfBatch ==
  ASSUME batch \in Seq(Event), batch # <<>>
  PROVE  /\ Tail(batch) \in Seq(Event) /\ Head(batch) = batch[1] /\ 1 \in DOMAIN batch
         /\ Head(batch) \in Event
         /\ \A i \in DOMAIN Tail(batch) : i + 1 \in DOMAIN batch /\ i + 1 # 1 /\ Tail(batch)[i] = batch[i + 1]
<1> HIDE DEF Event
<1> QED OBVIOUS

LEMMA TailMatches ==
  ASSUME batch \in Seq(Event), batch # <<>>, BatchMatches, batch' = Tail(batch),
         open \in [Fd -> Client \cup {"none"}],
         open' = open \/ open' = [open EXCEPT ![Head(batch).fd] = "none"]
  PROVE  batch' \in Seq(Event) /\ BatchMatches'
<1>1. \A i \in DOMAIN batch' : batch'[i].fd # Head(batch).fd
  BY TailOfBatch DEF BatchMatches
<1>2. \A i \in DOMAIN batch' : batch'[i].fd # Listener => open'[batch'[i].fd] = open[batch'[i].fd]
  <2>1. \A i \in DOMAIN batch' : batch'[i].fd \in Fd \cup {Listener}
    <3>1. \A i \in DOMAIN batch' : batch'[i] \in Event
      <4> HIDE DEF Event
      <4> QED BY TailOfBatch
    <3> QED BY <3>1 DEF Event
  <2> QED BY <1>1, <2>1
<1>3. \A i, j \in DOMAIN batch' : i # j => i + 1 # j + 1
  <2>1. batch' \in Seq(Event)
    BY TailOfBatch
  <2> HIDE DEF Event
  <2> QED BY <2>1
<1> QED BY <1>2, <1>3, TailOfBatch DEF BatchMatches

LEMMA SlotInit == Init => SlotInv
BY DEF Init, SlotInv, BatchMatches, Closed

LEMMA WaitKeepsSlots ==
  ASSUME SlotInv, epoll_wait
  PROVE  SlotInv'
<1>1. PICK S \in SUBSET Ready \ {{}} : \E b \in SetToSeqs(S) : batch' = b
  BY DEF epoll_wait
<1>2. open' = open /\ connections' = connections
  BY DEF epoll_wait
<1>3. /\ IsFiniteSet(Ready) /\ Ready \subseteq Event
      /\ \A e \in Ready : e.fd # Listener => e.client = open[e.fd] /\ e.client # "none"
      /\ \A d, e \in Ready : d.fd = e.fd => d = e
  BY ReadyEvents DEF SlotInv
<1>4. Cardinality(S) \in Nat
  BY <1>1, <1>3, FS_Subset, FS_CardinalityType
<1>5. /\ batch' \in [1 .. Cardinality(S) -> S]
      /\ \A i, j \in 1 .. Cardinality(S) : i # j => batch'[i] # batch'[j]
  BY <1>1, Zenon DEF SetToSeqs
<1>6. batch' \in Seq(Event) /\ DOMAIN batch' = 1 .. Cardinality(S)
  <2> HIDE DEF Event, Ready
  <2> QED BY <1>1, <1>3, <1>4, <1>5
<1>7. \A i \in DOMAIN batch' : batch'[i] \in Ready
  BY <1>1, <1>5, <1>6
<1>8. BatchMatches'
  <2> HIDE DEF Event, Ready
  <2> QED BY <1>2, <1>3, <1>5, <1>6, <1>7 DEF BatchMatches
<1> QED BY <1>2, <1>6, <1>8 DEF SlotInv

\* Whoever is accepted gets a descriptor that no event of the batch is about.
LEMMA AcceptKeepsSlots ==
  ASSUME SlotInv, accept_connections
  PROVE  SlotInv'
<1>1. CASE batch' = Tail(batch) /\ UNCHANGED <<open, connections>>
  BY <1>1, TailMatches DEF accept_connections, SlotInv
<1>2. CASE UNCHANGED <<open, connections, batch>>
  BY <1>2 DEF SlotInv, BatchMatches
<1>3. ASSUME NEW c \in Client, NEW fd \in Fd, LowestFree(fd), UNCHANGED batch,
             open' = [open EXCEPT ![fd] = c],
             connections' = [connections EXCEPT ![fd] = [client |-> c, buffer |-> <<>>]]
      PROVE  SlotInv'
  <2>1. \A i \in DOMAIN batch : batch[i].fd # Listener => batch[i].fd # fd
    BY <1>3 DEF LowestFree, SlotInv, BatchMatches
  <2>2. BatchMatches'
    BY <2>1, <1>3, ListenerIsNoClient DEF SlotInv, BatchMatches
  <2>3. open' \in [Fd -> Client \cup {"none"}]
    BY <1>3 DEF SlotInv
  <2>4. connections' = [f \in Fd |-> [client |-> open'[f], buffer |-> connections'[f].buffer]]
    BY <1>3 DEF SlotInv
  <2> QED BY <2>2, <2>3, <2>4, <1>3 DEF SlotInv
<1> QED BY <1>1, <1>2, <1>3 DEF accept_connections

LEMMA CloseKeepsSlots ==
  ASSUME SlotInv, batch # <<>>, Head(batch).fd # Listener,
         close_connection(Head(batch).fd), batch' = Tail(batch)
  PROVE  SlotInv'
<1> DEFINE fd == Head(batch).fd
<1>1. fd \in Fd
  BY TailOfBatch DEF SlotInv, Event
<1>2. batch' \in Seq(Event) /\ BatchMatches'
  BY TailMatches DEF SlotInv, close_connection
<1>3. open' \in [Fd -> Client \cup {"none"}]
  BY DEF SlotInv, close_connection
<1>4. connections' = [f \in Fd |-> [client |-> open'[f], buffer |-> connections'[f].buffer]]
  <2> HIDE DEF fd
  <2>1. open' = [open EXCEPT ![fd] = "none"] /\ connections' = [connections EXCEPT ![fd] = Closed]
    BY DEF close_connection, fd
  <2> QED BY <1>1, <2>1 DEF SlotInv, Closed
<1> QED BY <1>2, <1>3, <1>4 DEF SlotInv

LEMMA ReadKeepsSlots ==
  ASSUME SlotInv, read_connection
  PROVE  SlotInv'
<1>1. batch # <<>> /\ Head(batch).fd # Listener
  BY DEF read_connection
<1>2. CASE recv_bytes(Head(batch))
  <2>1. PICK u : connections' = [connections EXCEPT ![Head(batch).fd].buffer = u]
    BY <1>2 DEF recv_bytes
  <2>2. open' = open /\ batch' = batch
    BY <1>2 DEF recv_bytes
  <2>3. \A f \in Fd : connections[f] = [client |-> open[f], buffer |-> connections[f].buffer]
    BY DEF SlotInv
  <2>4. connections' = [f \in Fd |-> IF f = Head(batch).fd
                                    THEN [connections[f] EXCEPT !.buffer = u] ELSE connections[f]]
    BY <2>1 DEF SlotInv
  <2>5. \A f \in Fd : connections'[f] = [client |-> open[f], buffer |-> connections'[f].buffer]
    <3> SUFFICES ASSUME NEW f \in Fd
                 PROVE  connections'[f] = [client |-> open[f], buffer |-> connections'[f].buffer]
      OBVIOUS
    <3>1. [connections[f] EXCEPT !.buffer = u] = [client |-> open[f], buffer |-> u]
      <4> DEFINE r == connections[f]  b == r.buffer
      <4>1. r = [client |-> open[f], buffer |-> b]
        BY <2>3
      <4> HIDE DEF r, b
      <4>2. [r EXCEPT !.buffer = u] = [client |-> open[f], buffer |-> u]
        BY <4>1
      <4> QED BY <4>2 DEF r
    <3> QED BY <2>3, <2>4, <3>1
  <2>6. connections' = [f \in Fd |-> [client |-> open'[f], buffer |-> connections'[f].buffer]]
    BY <2>2, <2>4, <2>5
  <2> QED BY <2>2, <2>6 DEF SlotInv, BatchMatches
<1>3. CASE read_end(Head(batch))
  BY <1>1, <1>3, CloseKeepsSlots DEF read_end
<1>4. CASE read_nothing_more(Head(batch))
  <2>1. batch' = Tail(batch)
    BY <1>4 DEF read_nothing_more
  <2>2. CASE close_connection(Head(batch).fd)
    BY <1>1, <2>1, <2>2, CloseKeepsSlots
  <2>3. CASE UNCHANGED <<phase, open, connections>>
    BY <1>1, <2>1, <2>3, TailMatches DEF SlotInv
  <2> QED BY <1>4, <2>2, <2>3 DEF read_nothing_more
<1> QED BY <1>2, <1>3, <1>4 DEF read_connection

\* The slot of a descriptor is that of the client that has it, whatever is
\* closed and accepted while a batch is handled (src/src/network.cpp:244-434).
THEOREM SlotsAgree == Spec => []SlotsMatch
<1>1. SlotInv /\ [Next]_vars => SlotInv'
  <2> SUFFICES ASSUME SlotInv, [Next]_vars PROVE SlotInv'
    OBVIOUS
  <2>1. ASSUME NEW c \in Client, connect(c) \/ fin_arrives(c) \/ reset(c)
        PROVE  SlotInv'
    BY <2>1 DEF connect, fin_arrives, reset, SlotInv, BatchMatches
  <2>2. CASE network_loop
    BY <2>2, WaitKeepsSlots, AcceptKeepsSlots, ReadKeepsSlots DEF network_loop
  <2>3. CASE UNCHANGED vars
    BY <2>3 DEF vars, SlotInv, BatchMatches
  <2> QED BY <2>1, <2>2, <2>3 DEF Next
<1>2. SlotInv => SlotsMatch
  BY DEF SlotInv, BatchMatches, SlotsMatch
<1> QED BY <1>1, <1>2, SlotInit, PTL DEF Spec

(***************************************************************************)
(* The lines of a buffer.  A buffer may be cut behind any newline: it has  *)
(* the lines of the first part and then those of the second.               *)
(***************************************************************************)

Byte == {"x", "nl", "cr"}
Before(b, i) == {j \in Newlines(b) : j < i}
UpTo(b, i) == {j \in Newlines(b) : j <= i}

LEMMA MaxIs ==
  ASSUME NEW S \in SUBSET Int, NEW x \in S, \A y \in S : y <= x
  PROVE  Max(S) = x
<1> DEFINE P(m) == m \in S /\ \A y \in S : m >= y
<1>1. P(x)
  OBVIOUS
<1>2. ASSUME NEW m, P(m) PROVE m = x
  <2>1. m \in Int /\ x \in Int /\ m >= x /\ m <= x
    BY <1>2
  <2> QED BY <2>1
<1>3. Max(S) = CHOOSE m : P(m)
  BY DEF Max
<1> HIDE DEF P
<1> QED BY <1>1, <1>2, <1>3

LEMMA MaxExists ==
  ASSUME NEW n \in Nat, NEW S \in SUBSET (0 .. n), S # {}
  PROVE  Max(S) \in S /\ \A y \in S : y <= Max(S)
<1> DEFINE T == {n - y : y \in S}
<1>1. T \subseteq Nat /\ T # {}
  <2>1. \A y \in S : n - y \in Nat
    OBVIOUS
  <2> QED BY <2>1
<1>2. PICK t \in T : \A u \in T : <<u, t>> \notin OpToRel(<, Nat)
  <2> HIDE DEF T
  <2> QED BY <1>1, WFMin, NatLessThanWellFounded, Zenon
<1>3. \A u \in T : ~ (u < t)
  <2> HIDE DEF T
  <2> QED BY <1>1, <1>2, Zenon DEF OpToRel
<1>4. PICK x \in S : t = n - x
  BY <1>2
<1>5. \A y \in S : y <= x
  BY <1>3, <1>4
<1>6. S \in SUBSET Int
  OBVIOUS
<1> QED BY <1>5, <1>6, MaxIs

LEMMA NewlinesType ==
  ASSUME NEW b \in Seq(Byte)
  PROVE  /\ Newlines(b) = {i \in 1 .. Len(b) : b[i] = "nl"}
         /\ Newlines(b) \subseteq 1 .. Len(b) /\ Newlines(b) \subseteq Nat
         /\ IsFiniteSet(Newlines(b)) /\ Cardinality(Newlines(b)) \in Nat
         /\ \A i : /\ IsFiniteSet(UpTo(b, i)) /\ Cardinality(UpTo(b, i)) \in Nat
                   /\ IsFiniteSet(Before(b, i)) /\ Cardinality(Before(b, i)) \in Nat
<1>1. Newlines(b) = {i \in 1 .. Len(b) : b[i] = "nl"} /\ Len(b) \in Nat
  BY DEF Newlines
<1>2. IsFiniteSet(1 .. Len(b)) /\ Newlines(b) \in SUBSET (1 .. Len(b))
  BY <1>1, FS_Interval
<1>3. IsFiniteSet(Newlines(b))
  BY <1>2, FS_Subset
<1>4. \A i : UpTo(b, i) \in SUBSET Newlines(b) /\ Before(b, i) \in SUBSET Newlines(b)
  BY DEF UpTo, Before
<1>5. \A i : IsFiniteSet(UpTo(b, i)) /\ IsFiniteSet(Before(b, i))
  BY <1>3, <1>4, FS_Subset
<1> QED BY <1>1, <1>2, <1>3, <1>5, FS_CardinalityType

\* Newlines are counted in their order.
LEMMA CountGrows ==
  ASSUME NEW b \in Seq(Byte), NEW i \in Newlines(b), NEW j \in Newlines(b), i < j
  PROVE  Cardinality(UpTo(b, i)) < Cardinality(UpTo(b, j))
<1>1. Newlines(b) \subseteq Nat /\ IsFiniteSet(UpTo(b, i)) /\ IsFiniteSet(UpTo(b, j))
      /\ Cardinality(UpTo(b, i)) \in Nat /\ Cardinality(UpTo(b, j)) \in Nat
  BY NewlinesType
<1>2. UpTo(b, i) \cup {j} \in SUBSET UpTo(b, j) /\ j \notin UpTo(b, i)
  BY <1>1 DEF UpTo
<1>3. Cardinality(UpTo(b, i) \cup {j}) = Cardinality(UpTo(b, i)) + 1
  BY <1>1, <1>2, FS_AddElement
<1>4. Cardinality(UpTo(b, i) \cup {j}) <= Cardinality(UpTo(b, j))
  BY <1>1, <1>2, FS_Subset
<1> QED BY <1>1, <1>3, <1>4

LEMMA NewlineIs ==
  ASSUME NEW b \in Seq(Byte), NEW i \in Newlines(b)
  PROVE  Newline(b, Cardinality(UpTo(b, i))) = i
<1> DEFINE k == Cardinality(UpTo(b, i))
           P(j) == j \in Newlines(b) /\ Cardinality(UpTo(b, j)) = k
<1>1. Newline(b, k) = CHOOSE j : P(j)
  BY DEF Newline, UpTo
<1>2. ASSUME NEW j, P(j) PROVE j = i
  <2>1. j \in Nat /\ i \in Nat
    BY <1>2, NewlinesType
  <2>2. Cardinality(UpTo(b, i)) = Cardinality(UpTo(b, j)) /\ Cardinality(UpTo(b, i)) \in Nat
    BY <1>2, NewlinesType
  <2>3. ~ (i < j) /\ ~ (j < i)
    BY <1>2, <2>2, CountGrows
  <2> QED BY <2>1, <2>3
<1>3. P(i)
  OBVIOUS
<1> HIDE DEF P, k
<1>4. (CHOOSE j : P(j)) = i
  BY <1>2, <1>3
<1> QED BY <1>1, <1>4 DEF k

LEMMA NewlineExists ==
  ASSUME NEW b \in Seq(Byte), NEW k \in 1 .. Cardinality(Newlines(b))
  PROVE  /\ Newline(b, k) \in Newlines(b)
         /\ Cardinality(UpTo(b, Newline(b, k))) = k
<1> DEFINE N == Newlines(b)
           S == {i \in N : Cardinality(UpTo(b, i)) >= k}
<1>1. /\ N \subseteq 1 .. Len(b) /\ N \subseteq Nat /\ IsFiniteSet(N) /\ Cardinality(N) \in Nat
      /\ Len(b) \in Nat /\ N \in SUBSET (0 .. Len(b))
      /\ \A i : IsFiniteSet(UpTo(b, i)) /\ Cardinality(UpTo(b, i)) \in Nat
  BY NewlinesType
<1>2. N # {}
  BY <1>1, FS_EmptySet
<1>3. S # {}
  <2>1. Max(N) \in N /\ \A y \in N : y <= Max(N)
    BY <1>1, <1>2, MaxExists
  <2>2. UpTo(b, Max(N)) = N
    BY <2>1 DEF UpTo
  <2> QED BY <1>1, <2>1, <2>2
<1>4. PICK i \in S : \A j \in S : ~ (j < i)
  <2> HIDE DEF N
  <2>1. S \subseteq Nat
    BY <1>1
  <2> HIDE DEF S
  <2>2. PICK i \in S : \A j \in S : <<j, i>> \notin OpToRel(<, Nat)
    BY <1>3, <2>1, WFMin, NatLessThanWellFounded, Zenon
  <2>3. \A j \in S : ~ (j < i)
    BY <2>1, <2>2, Zenon DEF OpToRel
  <2> QED BY <2>3
<1>5. Cardinality(UpTo(b, i)) = k
  <2> SUFFICES ASSUME Cardinality(UpTo(b, i)) > k PROVE FALSE
    BY <1>1, <1>4
  <2> DEFINE B == Before(b, i)
  <2>1. B = UpTo(b, i) \ {i} /\ i \in UpTo(b, i) /\ B \in SUBSET (0 .. Len(b))
    BY <1>1 DEF Before, UpTo
  <2> HIDE DEF B
  <2>2. Cardinality(B) = Cardinality(UpTo(b, i)) - 1 /\ IsFiniteSet(B)
    BY <1>1, <2>1, FS_RemoveElement
  <2>3. B # {}
    BY <1>1, <2>2, FS_EmptySet
  <2>4. Max(B) \in B /\ \A y \in B : y <= Max(B)
    BY <1>1, <2>1, <2>3, MaxExists
  <2>5. UpTo(b, Max(B)) = B
    <3>1. Max(B) < i /\ Max(B) \in Nat /\ i \in Nat
      BY <1>1, <2>4 DEF Before, B
    <3>2. \A j \in N : j <= Max(B) <=> j \in B
      <4>1. ASSUME NEW j \in N, j <= Max(B) PROVE j \in B
        BY <1>1, <3>1, <4>1 DEF Before, B
      <4> QED BY <2>4, <4>1
    <3>3. B \subseteq N
      BY DEF Before, B
    <3> QED BY <3>2, <3>3 DEF UpTo
  <2>6. Cardinality(UpTo(b, Max(B))) >= k
    BY <1>1, <2>2, <2>5
  <2>7. Max(B) \in N /\ Max(B) < i
    BY <2>4 DEF Before, B
  <2> QED BY <1>4, <2>6, <2>7
<1> QED BY <1>4, <1>5, NewlineIs

\* As many elements, moved up by m.
LEMMA Moved ==
  ASSUME NEW S \in SUBSET Nat, IsFiniteSet(S), NEW m \in Nat
  PROVE  LET T == {m + j : j \in S}
         IN  IsFiniteSet(T) /\ Cardinality(T) = Cardinality(S)
<1> DEFINE T == {m + j : j \in S}
           f == [j \in S |-> m + j]
<1>1. f \in [S -> T] /\ (\A t \in T : \E j \in S : f[j] = t)
  OBVIOUS
<1>2. \A i, j \in S : f[i] = f[j] => i = j
  OBVIOUS
<1>3. f \in Bijection(S, T)
  <2> HIDE DEF f, T
  <2> QED BY <1>1, <1>2, Zenon DEF Bijection, Injection, IsInjective, Surjection
<1>4. ExistsBijection(S, T)
  <2> HIDE DEF f, T
  <2> QED BY <1>3, Zenon DEF ExistsBijection
<1> HIDE DEF T
<1>5. IsFiniteSet(T) /\ Cardinality(T) = Cardinality(S)
  BY <1>4, FS_Bijection
<1> QED BY <1>5 DEF T

\* Where b may be cut: at its start or behind a newline.
Cut(b, m) == m \in 0 .. Len(b) /\ (m = 0 \/ m \in Newlines(b))
Until(b, m) == SubSeq(b, 1, m)
After(b, m) == SubSeq(b, m + 1, Len(b))

LEMMA CutParts ==
  ASSUME NEW b \in Seq(Byte), NEW m \in 0 .. Len(b)
  PROVE  /\ Until(b, m) \in Seq(Byte) /\ Len(Until(b, m)) = m
         /\ \A i \in 1 .. m : Until(b, m)[i] = b[i]
         /\ After(b, m) \in Seq(Byte) /\ Len(After(b, m)) = Len(b) - m
         /\ \A i \in 1 .. Len(b) - m : After(b, m)[i] = b[m + i]
<1>1. Len(b) \in Nat /\ m \in Nat /\ \A i \in 1 .. Len(b) : b[i] \in Byte
  OBVIOUS
<1>2. \A i \in 1 .. m : b[i] \in Byte
  BY <1>1
<1>3. /\ Until(b, m) \in Seq(Byte) /\ Len(Until(b, m)) = IF 1 <= m THEN m - 1 + 1 ELSE 0
      /\ \A i \in 1 .. m - 1 + 1 : Until(b, m)[i] = b[1 + i - 1]
  BY <1>1, <1>2, SubSeqProperties DEF Until
<1>4. \A i \in m + 1 .. Len(b) : b[i] \in Byte
  BY <1>1
<1>5. /\ After(b, m) \in Seq(Byte)
      /\ Len(After(b, m)) = IF m + 1 <= Len(b) THEN Len(b) - (m + 1) + 1 ELSE 0
      /\ \A i \in 1 .. Len(b) - (m + 1) + 1 : After(b, m)[i] = b[m + 1 + i - 1]
  BY <1>1, <1>4, SubSeqProperties DEF After
<1> QED BY <1>1, <1>3, <1>5

LEMMA CutNewlines ==
  ASSUME NEW b \in Seq(Byte), NEW m \in 0 .. Len(b)
  PROVE  /\ Newlines(Until(b, m)) = {i \in Newlines(b) : i <= m}
         /\ Newlines(After(b, m)) = {i \in 1 .. Len(b) - m : m + i \in Newlines(b)}
         /\ \A i \in Newlines(b) : i <= m \/ (i - m \in Newlines(After(b, m)) /\ i = m + (i - m))
<1>1. Len(b) \in Nat /\ m \in Nat
  OBVIOUS
<1>2. Newlines(b) = {i \in 1 .. Len(b) : b[i] = "nl"}
  BY NewlinesType
<1>3. Newlines(Until(b, m)) = {i \in 1 .. m : Until(b, m)[i] = "nl"}
  BY CutParts, NewlinesType
<1>4. Newlines(After(b, m)) = {i \in 1 .. Len(b) - m : After(b, m)[i] = "nl"}
  BY CutParts, NewlinesType
<1>5. \A i \in 1 .. Len(b) - m : m + i \in 1 .. Len(b)
  BY <1>1
<1>6. Newlines(After(b, m)) = {i \in 1 .. Len(b) - m : m + i \in Newlines(b)}
  <2>1. \A i \in 1 .. Len(b) - m : After(b, m)[i] = b[m + i]
    BY CutParts
  <2>2. \A i \in 1 .. Len(b) - m : After(b, m)[i] = "nl" <=> m + i \in Newlines(b)
    BY <1>2, <1>5, <2>1
  <2> QED BY <1>4, <2>2
<1>7. \A i \in 1 .. m : i \in 1 .. Len(b) /\ i <= m
  BY <1>1
<1>8. Newlines(Until(b, m)) = {i \in Newlines(b) : i <= m}
  <2>1. \A i \in Newlines(b) : i <= m => i \in 1 .. m
    BY <1>1, <1>2
  <2>2. \A i \in 1 .. m : Until(b, m)[i] = b[i]
    BY CutParts
  <2>3. ASSUME NEW i \in Newlines(Until(b, m)) PROVE i \in Newlines(b) /\ i <= m
    BY <1>2, <1>3, <1>7, <2>2
  <2>4. ASSUME NEW i \in Newlines(b), i <= m PROVE i \in Newlines(Until(b, m))
    BY <1>2, <1>3, <2>1, <2>2, <2>4
  <2> QED BY <2>3, <2>4
<1>9. ASSUME NEW i \in Newlines(b), ~ (i <= m)
      PROVE  i - m \in Newlines(After(b, m)) /\ i = m + (i - m)
  <2>1. i \in 1 .. Len(b) /\ i - m \in 1 .. Len(b) - m /\ i = m + (i - m)
    BY <1>1, <1>2, <1>9
  <2> QED BY <1>6, <2>1
<1> QED BY <1>6, <1>8, <1>9

\* How newlines are counted in the parts.
LEMMA CutCounts ==
  ASSUME NEW b \in Seq(Byte), NEW m \in 0 .. Len(b)
  PROVE  LET p == Until(b, m)  q == After(b, m)
         IN  /\ Cardinality(Newlines(b)) = Cardinality(Newlines(p)) + Cardinality(Newlines(q))
             /\ \A i \in Newlines(p) :
                   i \in Newlines(b) /\ UpTo(b, i) = UpTo(p, i) /\ Before(b, i) = Before(p, i)
             /\ \A i \in Newlines(q) :
                   /\ m + i \in Newlines(b)
                   /\ Cardinality(UpTo(b, m + i)) = Cardinality(Newlines(p)) + Cardinality(UpTo(q, i))
                   /\ Before(b, m + i) = Newlines(p) \cup {m + j : j \in Before(q, i)}
<1> DEFINE p == Until(b, m)  q == After(b, m)
<1>1. p \in Seq(Byte) /\ q \in Seq(Byte) /\ Len(b) \in Nat /\ m \in Nat
  BY CutParts
<1>2. /\ Newlines(p) = {i \in Newlines(b) : i <= m}
      /\ Newlines(q) = {i \in 1 .. Len(b) - m : m + i \in Newlines(b)}
      /\ \A i \in Newlines(b) : i <= m \/ (i - m \in Newlines(q) /\ i = m + (i - m))
  BY CutNewlines
<1> HIDE DEF p, q
<1>3. /\ Newlines(b) \subseteq Nat
      /\ Newlines(p) \subseteq Nat /\ IsFiniteSet(Newlines(p)) /\ Cardinality(Newlines(p)) \in Nat
      /\ Newlines(q) \subseteq Nat /\ IsFiniteSet(Newlines(q)) /\ Cardinality(Newlines(q)) \in Nat
      /\ \A i : IsFiniteSet(UpTo(q, i)) /\ Cardinality(UpTo(q, i)) \in Nat
  BY <1>1, NewlinesType
<1>4. ASSUME NEW S \in SUBSET Newlines(q)
      PROVE  Cardinality(Newlines(p) \cup {m + j : j \in S}) = Cardinality(Newlines(p)) + Cardinality(S)
  <2> DEFINE T == {m + j : j \in S}
  <2>1. IsFiniteSet(S) /\ S \in SUBSET Nat /\ Cardinality(S) \in Nat
    BY <1>3, <1>4, FS_Subset, FS_CardinalityType
  <2>2. IsFiniteSet(T) /\ Cardinality(T) = Cardinality(S)
    BY <1>1, <2>1, Moved
  <2>3. \A j \in S : j \in 1 .. Len(b) - m
    BY <1>2, <1>4
  <2>4. Newlines(p) \cap T = {}
    <3> SUFFICES ASSUME NEW j \in S, m + j \in Newlines(p) PROVE FALSE
      OBVIOUS
    <3>1. j \in 1 .. Len(b) - m /\ m + j <= m
      BY <1>2, <2>3
    <3> QED BY <1>1, <3>1
  <2> HIDE DEF T
  <2>5. Cardinality(Newlines(p) \cap T) = 0
    BY <2>4, FS_EmptySet
  <2>6. Cardinality(Newlines(p) \cup T) = Cardinality(Newlines(p)) + Cardinality(T) - 0
    BY <1>3, <2>2, <2>5, FS_Union
  <2> QED BY <1>3, <2>1, <2>2, <2>6 DEF T
<1>5. \A i \in Newlines(q) : m + i \in Newlines(b) /\ i \in Nat /\ i >= 1
  BY <1>1, <1>2
<1>6. Newlines(b) = Newlines(p) \cup {m + j : j \in Newlines(q)}
  BY <1>2, <1>5
<1>7. Cardinality(Newlines(b)) = Cardinality(Newlines(p)) + Cardinality(Newlines(q))
  BY <1>4, <1>6
<1>8. ASSUME NEW i \in Newlines(p)
      PROVE  i \in Newlines(b) /\ UpTo(b, i) = UpTo(p, i) /\ Before(b, i) = Before(p, i)
  <2>1. i <= m /\ i \in Nat /\ i \in Newlines(b)
    BY <1>2, <1>3, <1>8
  <2>2. \A j \in Newlines(b) : j <= i => j <= m
    BY <1>1, <1>3, <2>1
  <2>3. \A j \in Newlines(b) : j < i => j <= m
    BY <1>1, <1>3, <2>1
  <2> QED BY <1>2, <2>1, <2>2, <2>3 DEF UpTo, Before
<1>9. ASSUME NEW i \in Newlines(q)
      PROVE  /\ m + i \in Newlines(b)
             /\ Cardinality(UpTo(b, m + i)) = Cardinality(Newlines(p)) + Cardinality(UpTo(q, i))
             /\ Before(b, m + i) = Newlines(p) \cup {m + j : j \in Before(q, i)}
  <2>1. \A j \in Newlines(p) : j \in Newlines(b) /\ j < m + i /\ j <= m + i
    BY <1>1, <1>2, <1>3, <1>5, <1>9
  <2>2. \A j \in Newlines(q) : (m + j <= m + i <=> j <= i) /\ (m + j < m + i <=> j < i)
    BY <1>1, <1>5, <1>9
  <2>3. UpTo(b, m + i) = Newlines(p) \cup {m + j : j \in UpTo(q, i)}
    BY <1>6, <2>1, <2>2 DEF UpTo
  <2>4. Before(b, m + i) = Newlines(p) \cup {m + j : j \in Before(q, i)}
    BY <1>6, <2>1, <2>2 DEF Before
  <2>5. UpTo(q, i) \in SUBSET Newlines(q)
    BY DEF UpTo
  <2> QED BY <1>4, <1>5, <1>9, <2>3, <2>4, <2>5
<1> QED BY <1>7, <1>8, <1>9 DEF p, q

\* Where the line of a newline starts, and what is in it, in the parts.
LEMMA CutStarts ==
  ASSUME NEW b \in Seq(Byte), NEW m, Cut(b, m)
  PROVE  LET p == Until(b, m)  q == After(b, m)
         IN  /\ \A i \in Newlines(p) : StartOf(b, i) = StartOf(p, i)
             /\ \A i \in Newlines(q) : StartOf(b, m + i) = m + StartOf(q, i)
<1> DEFINE p == Until(b, m)  q == After(b, m)
<1>1. /\ p \in Seq(Byte) /\ q \in Seq(Byte) /\ Len(b) \in Nat /\ m \in Nat /\ Len(q) \in Nat
      /\ Len(p) = m
  BY CutParts DEF Cut
<1>2. /\ Newlines(p) = {i \in Newlines(b) : i <= m} /\ m \in 0 .. Len(b)
      /\ m = 0 \/ m \in Newlines(p)
  BY <1>1, CutNewlines DEF Cut
<1>3. /\ \A i \in Newlines(p) : Before(b, i) = Before(p, i)
      /\ \A i \in Newlines(q) : Before(b, m + i) = Newlines(p) \cup {m + j : j \in Before(q, i)}
  BY <1>2, CutCounts
<1> HIDE DEF p, q
<1>4. Newlines(p) \subseteq 1 .. m /\ Newlines(q) \subseteq 1 .. Len(q)
  BY <1>1, NewlinesType
<1>5. ASSUME NEW i \in Newlines(q)
      PROVE  StartOf(b, m + i) = m + StartOf(q, i)
  <2> DEFINE S == {0} \cup Before(q, i)
             T == {0} \cup (Newlines(p) \cup {m + j : j \in Before(q, i)})
  <2>1. S \in SUBSET (0 .. Len(q)) /\ S # {}
    BY <1>1, <1>4 DEF Before
  <2>2. Max(S) \in S /\ \A y \in S : y <= Max(S)
    <3> HIDE DEF S
    <3> QED BY <1>1, <2>1, MaxExists
  <2>3. Max(S) \in Nat
    BY <1>1, <2>1, <2>2
  <2>4. m + Max(S) \in T
    <3>1. CASE Max(S) = 0
      BY <1>1, <1>2, <3>1
    <3>2. CASE Max(S) \in Before(q, i)
      BY <3>2
    <3> QED BY <2>2, <3>1, <3>2
  <2>5. \A y \in T : y <= m + Max(S)
    <3>1. \A y \in Newlines(p) : y <= m + Max(S)
      BY <1>1, <1>4, <2>3
    <3>2. \A j \in Before(q, i) : m + j <= m + Max(S)
      <4> SUFFICES ASSUME NEW j \in Before(q, i) PROVE m + j <= m + Max(S)
        OBVIOUS
      <4>1. j \in S /\ S \subseteq Int
        BY <2>1
      <4>2. j \in Int /\ j <= Max(S)
        BY <2>2, <4>1
      <4> QED BY <1>1, <2>3, <4>2
    <3>3. 0 <= m + Max(S)
      BY <1>1, <2>3
    <3> QED BY <3>1, <3>2, <3>3
  <2>6. T \in SUBSET Int
    <3>1. \A j \in Before(q, i) : j \in Int
      BY <2>1
    <3> QED BY <1>1, <1>4, <3>1
  <2>7. Max(T) = m + Max(S)
    <3> HIDE DEF S, T
    <3> QED BY <2>4, <2>5, <2>6, MaxIs
  <2>8. StartOf(q, i) = 1 + Max(S) /\ StartOf(b, m + i) = 1 + Max(T)
    BY <1>3 DEF StartOf, Before
  <2> QED BY <1>1, <2>3, <2>7, <2>8
<1>6. \A i \in Newlines(p) : StartOf(b, i) = StartOf(p, i)
  BY <1>3 DEF StartOf, Before
<1> QED BY <1>5, <1>6 DEF p, q

\* A line starts behind the newline before it and ends at its own.
LEMMA StartType ==
  ASSUME NEW b \in Seq(Byte), NEW i \in Newlines(b)
  PROVE  StartOf(b, i) \in 1 .. i
<1> DEFINE S == {0} \cup Before(b, i)
<1>1. i \in 1 .. Len(b) /\ Len(b) \in Nat /\ Newlines(b) \subseteq 1 .. Len(b)
  BY NewlinesType
<1>2. S \in SUBSET (0 .. Len(b)) /\ S # {} /\ \A y \in S : y < i
  BY <1>1 DEF Before
<1>3. StartOf(b, i) = 1 + Max(S)
  BY DEF StartOf, Before
<1> HIDE DEF S
<1>4. Max(S) \in S
  BY <1>1, <1>2, MaxExists
<1>5. Max(S) \in Nat /\ Max(S) < i
  <2>1. Max(S) \in 0 .. Len(b)
    BY <1>2, <1>4
  <2> QED BY <1>1, <1>2, <1>4, <2>1
<1> QED BY <1>1, <1>3, <1>5

LEMMA HandedType == ASSUME NEW l \in Seq(Byte) PROVE Handed(l) \in Seq(Byte)
<1> DEFINE n == IF Len(l) < RAFT_MAX_LINE THEN Len(l) ELSE RAFT_MAX_LINE - 1
           cut == SubSeq(l, 1, n)
<1>1. n \in 0 .. Len(l)
  BY ConnectionAssumption
<1> HIDE DEF n
<1>2. cut \in Seq(Byte)
  BY <1>1, CutParts DEF Until
<1> HIDE DEF cut
<1>3. cut # <<>> => Front(cut) \in Seq(Byte)
  <2> SUFFICES ASSUME cut # <<>> PROVE Front(cut) \in Seq(Byte)
    OBVIOUS
  <2>1. Len(cut) - 1 \in 0 .. Len(cut)
    BY <1>2
  <2> QED BY <1>2, <2>1, CutParts DEF Until, Front
<1> QED BY <1>2, <1>3 DEF Handed, cut, n

Line(b, k) == Handed(SubSeq(b, StartOf(b, Newline(b, k)), Newline(b, k) - 1))

LEMMA LinesType ==
  ASSUME NEW b \in Seq(Byte)
  PROVE  /\ dispatch_complete_lines(b) \in Seq(Seq(Byte))
         /\ Len(dispatch_complete_lines(b)) = Cardinality(Newlines(b))
         /\ \A k \in 1 .. Cardinality(Newlines(b)) : dispatch_complete_lines(b)[k] = Line(b, k)
<1> DEFINE n == Cardinality(Newlines(b))
<1>1. n \in Nat /\ Newlines(b) \subseteq 1 .. Len(b)
  BY NewlinesType
<1>2. dispatch_complete_lines(b) = [k \in 1 .. n |-> Line(b, k)]
  BY DEF dispatch_complete_lines, Line
<1>3. ASSUME NEW k \in 1 .. n PROVE Line(b, k) \in Seq(Byte)
  <2> DEFINE e == Newline(b, k)  a == StartOf(b, e)
  <2>1. e \in Newlines(b)
    BY NewlineExists
  <2>2. e \in 1 .. Len(b) /\ a \in 1 .. e
    BY <1>1, <2>1, StartType
  <2> HIDE DEF e, a
  <2>3. \A i \in a .. e - 1 : b[i] \in Byte
    <3>1. \A i \in 1 .. Len(b) : b[i] \in Byte
      OBVIOUS
    <3> QED BY <2>2, <3>1
  <2>4. SubSeq(b, a, e - 1) \in Seq(Byte)
    BY <2>2, <2>3, SubSeqProperties
  <2> QED BY <2>4, HandedType DEF Line, a, e
<1> HIDE DEF n
<1>4. [k \in 1 .. n |-> Line(b, k)] \in Seq(Seq(Byte))
  BY <1>1, <1>3
<1> QED BY <1>1, <1>2, <1>4 DEF n

\* Where two sequences agree, so do their parts.
LEMMA SameParts ==
  ASSUME NEW s \in Seq(Byte), NEW t \in Seq(Byte), NEW d \in Nat, NEW a \in Nat, NEW z \in Int,
         \A i \in a .. z : s[d + i] = t[i] /\ t[i] \in Byte
  PROVE  SubSeq(s, d + a, d + z) = SubSeq(t, a, z)
<1> DEFINE u == SubSeq(s, d + a, d + z)  v == SubSeq(t, a, z)
<1>1. \A i \in d + a .. d + z : s[i] \in Byte
  <2> SUFFICES ASSUME NEW i \in d + a .. d + z PROVE s[i] \in Byte
    OBVIOUS
  <2>1. i - d \in a .. z /\ d + (i - d) = i
    OBVIOUS
  <2> QED BY <2>1
<1>2. /\ u \in Seq(Byte) /\ Len(u) = IF d + a <= d + z THEN d + z - (d + a) + 1 ELSE 0
      /\ \A i \in 1 .. d + z - (d + a) + 1 : u[i] = s[d + a + i - 1]
  BY <1>1, SubSeqProperties
<1>3. /\ v \in Seq(Byte) /\ Len(v) = IF a <= z THEN z - a + 1 ELSE 0
      /\ \A i \in 1 .. z - a + 1 : v[i] = t[a + i - 1]
  BY SubSeqProperties
<1> HIDE DEF u, v
<1>4. Len(u) = Len(v)
  BY <1>2, <1>3
<1>5. ASSUME NEW i \in 1 .. Len(u) PROVE u[i] = v[i]
  <2>1. i \in 1 .. z - a + 1 /\ i \in 1 .. d + z - (d + a) + 1
    BY <1>2
  <2>2. a + i - 1 \in a .. z /\ d + a + i - 1 = d + (a + i - 1)
    BY <2>1
  <2> QED BY <1>2, <1>3, <2>1, <2>2
<1>6. u = v
  BY <1>2, <1>3, <1>4, <1>5, SeqEqual
<1> QED BY <1>6 DEF u, v

\* The lines of a buffer that is cut are those of its parts.
LEMMA CutLines ==
  ASSUME NEW b \in Seq(Byte), NEW m, Cut(b, m)
  PROVE  dispatch_complete_lines(b)
            = dispatch_complete_lines(Until(b, m)) \o dispatch_complete_lines(After(b, m))
<1> DEFINE p == Until(b, m)  q == After(b, m)
           P == Cardinality(Newlines(p))  Q == Cardinality(Newlines(q))
<1>1. /\ p \in Seq(Byte) /\ q \in Seq(Byte) /\ Len(b) \in Nat /\ m \in 0 .. Len(b) /\ m \in Nat
      /\ Len(p) = m /\ Len(q) = Len(b) - m
      /\ \A i \in 1 .. m : p[i] = b[i]
      /\ \A i \in 1 .. Len(b) - m : q[i] = b[m + i]
  <2>1. m \in 0 .. Len(b) /\ Len(b) \in Nat
    BY DEF Cut
  <2>2. p \in Seq(Byte) /\ Len(p) = m /\ \A i \in 1 .. m : p[i] = b[i]
    BY <2>1, CutParts
  <2>3. q \in Seq(Byte) /\ Len(q) = Len(b) - m /\ \A i \in 1 .. Len(b) - m : q[i] = b[m + i]
    BY <2>1, CutParts
  <2> HIDE DEF p, q
  <2> QED BY <2>1, <2>2, <2>3
<1>2. /\ Cardinality(Newlines(b)) = P + Q
      /\ \A i \in Newlines(p) : i \in Newlines(b) /\ UpTo(b, i) = UpTo(p, i)
      /\ \A i \in Newlines(q) : /\ m + i \in Newlines(b)
                                /\ Cardinality(UpTo(b, m + i)) = P + Cardinality(UpTo(q, i))
  BY <1>1, CutCounts
<1>3. /\ \A i \in Newlines(p) : StartOf(b, i) = StartOf(p, i)
      /\ \A i \in Newlines(q) : StartOf(b, m + i) = m + StartOf(q, i)
  BY CutStarts
<1> HIDE DEF p, q
<1>4. P \in Nat /\ Q \in Nat /\ Newlines(p) \subseteq 1 .. m /\ Newlines(q) \subseteq 1 .. Len(b) - m
  BY <1>1, NewlinesType
<1>5. ASSUME NEW k \in 1 .. P PROVE Line(b, k) = Line(p, k)
  <2> DEFINE e == Newline(p, k)  a == StartOf(p, e)
  <2>1. e \in Newlines(p) /\ Cardinality(UpTo(p, e)) = k
    BY <1>1, NewlineExists
  <2>2. e \in Newlines(b) /\ Cardinality(UpTo(b, e)) = k
    BY <1>2, <2>1
  <2>3. Newline(b, k) = e
    BY <2>2, NewlineIs
  <2>4. StartOf(b, e) = a /\ a \in 1 .. e /\ e \in 1 .. m
    BY <1>1, <1>3, <1>4, <2>1, StartType
  <2>5. Line(b, k) = Handed(SubSeq(b, a, e - 1)) /\ Line(p, k) = Handed(SubSeq(p, a, e - 1))
    BY <2>3, <2>4 DEF Line
  <2> HIDE DEF e, a
  <2>6. \A i \in a .. e - 1 : b[0 + i] = p[i] /\ p[i] \in Byte
    <3>1. \A i \in a .. e - 1 : i \in 1 .. m /\ 0 + i = i
      BY <1>1, <2>4
    <3>2. \A i \in 1 .. m : p[i] \in Byte
      BY <1>1
    <3> QED BY <1>1, <3>1, <3>2
  <2>7. a \in Nat /\ e - 1 \in Int /\ 0 + a = a /\ 0 + (e - 1) = e - 1
    BY <1>1, <2>4
  <2>8. SubSeq(b, 0 + a, 0 + (e - 1)) = SubSeq(p, a, e - 1)
    <3>1. 0 \in Nat /\ b \in Seq(Byte) /\ p \in Seq(Byte)
      BY <1>1
    <3> QED BY <2>6, <2>7, <3>1, SameParts
  <2> QED BY <2>5, <2>7, <2>8
<1>6. ASSUME NEW k \in 1 .. Q PROVE Line(b, P + k) = Line(q, k)
  <2> DEFINE e == Newline(q, k)  a == StartOf(q, e)
  <2>1. e \in Newlines(q) /\ Cardinality(UpTo(q, e)) = k
    BY <1>1, NewlineExists
  <2>2. m + e \in Newlines(b) /\ Cardinality(UpTo(b, m + e)) = P + k
    BY <1>2, <2>1
  <2>3. Newline(b, P + k) = m + e
    BY <2>2, NewlineIs
  <2>4. StartOf(b, m + e) = m + a /\ a \in 1 .. e /\ e \in 1 .. Len(b) - m
    BY <1>1, <1>3, <1>4, <2>1, StartType
  <2>5. Line(b, P + k) = Handed(SubSeq(b, m + a, (m + e) - 1)) /\ Line(q, k) = Handed(SubSeq(q, a, e - 1))
    <3>1. Line(q, k) = Handed(SubSeq(q, a, e - 1))
      BY DEF Line
    <3> HIDE DEF P, e, a
    <3>2. Line(b, P + k) = Handed(SubSeq(b, StartOf(b, Newline(b, P + k)), Newline(b, P + k) - 1))
      BY DEF Line
    <3>3. Line(b, P + k) = Handed(SubSeq(b, StartOf(b, m + e), (m + e) - 1))
      BY <2>3, <3>2
    <3> QED BY <2>4, <3>1, <3>3
  <2> HIDE DEF e, a
  <2>6. \A i \in a .. e - 1 : b[m + i] = q[i] /\ q[i] \in Byte
    <3>1. \A i \in a .. e - 1 : i \in 1 .. Len(b) - m
      BY <1>1, <2>4
    <3>2. \A i \in 1 .. Len(b) - m : q[i] \in Byte
      BY <1>1
    <3> QED BY <1>1, <3>1, <3>2
  <2>7. a \in Nat /\ e - 1 \in Int /\ m + (e - 1) = (m + e) - 1
    BY <1>1, <2>4
  <2>8. SubSeq(b, m + a, m + (e - 1)) = SubSeq(q, a, e - 1)
    <3>1. m \in Nat /\ b \in Seq(Byte) /\ q \in Seq(Byte)
      BY <1>1
    <3> QED BY <2>6, <2>7, <3>1, SameParts
  <2> QED BY <2>5, <2>7, <2>8
<1>7. /\ dispatch_complete_lines(b) \in Seq(Seq(Byte)) /\ Len(dispatch_complete_lines(b)) = P + Q
      /\ \A k \in 1 .. P + Q : dispatch_complete_lines(b)[k] = Line(b, k)
  BY <1>2, LinesType
<1>8. /\ dispatch_complete_lines(p) \in Seq(Seq(Byte)) /\ Len(dispatch_complete_lines(p)) = P
      /\ \A k \in 1 .. P : dispatch_complete_lines(p)[k] = Line(p, k)
  BY <1>1, LinesType
<1>9. /\ dispatch_complete_lines(q) \in Seq(Seq(Byte)) /\ Len(dispatch_complete_lines(q)) = Q
      /\ \A k \in 1 .. Q : dispatch_complete_lines(q)[k] = Line(q, k)
  BY <1>1, LinesType
<1> HIDE DEF P, Q
<1> DEFINE x == dispatch_complete_lines(p)  y == dispatch_complete_lines(q)
<1>10. /\ x \o y \in Seq(Seq(Byte)) /\ Len(x \o y) = P + Q
       /\ \A k \in 1 .. P + Q : (x \o y)[k] = IF k <= P THEN x[k] ELSE y[k - P]
  BY <1>8, <1>9, ConcatProperties
<1>11. ASSUME NEW k \in 1 .. P + Q PROVE dispatch_complete_lines(b)[k] = (x \o y)[k]
  <2>1. CASE k <= P
    BY <1>4, <1>5, <1>7, <1>8, <1>10, <2>1
  <2>2. CASE ~ (k <= P)
    <3>1. k - P \in 1 .. Q /\ k = P + (k - P)
      BY <1>4, <2>2
    <3> QED BY <1>6, <1>7, <1>9, <1>10, <2>2, <3>1
  <2> QED BY <2>1, <2>2
<1>12. dispatch_complete_lines(b) = x \o y
  BY <1>7, <1>10, <1>11, SeqEqual
<1> QED BY <1>12 DEF p, q

\* What is left of a buffer is what is behind its last newline.
LEMMA WhatIsLeft ==
  ASSUME NEW b \in Seq(Byte)
  PROVE  \E m : /\ Cut(b, m) /\ Unfinished(b) = After(b, m)
                /\ \A i \in Newlines(b) : i <= m
                /\ Unfinished(b) \in Seq(Byte) /\ Len(Unfinished(b)) <= Len(b)
                /\ Newlines(Unfinished(b)) = {}
<1> DEFINE S == {0} \cup Newlines(b)
           m == Max(S)
<1>1. Len(b) \in Nat /\ Newlines(b) \subseteq 1 .. Len(b)
  BY NewlinesType
<1>2. S \in SUBSET (0 .. Len(b)) /\ S # {}
  BY <1>1
<1>3. m \in S /\ \A y \in S : y <= m
  <2> HIDE DEF S
  <2> QED BY <1>1, <1>2, MaxExists
<1>4. m \in 0 .. Len(b) /\ (m = 0 \/ m \in Newlines(b)) /\ \A i \in Newlines(b) : i <= m
  BY <1>2, <1>3
<1>5. Unfinished(b) = SubSeq(b, 1 + m, Len(b))
  BY DEF Unfinished
<1> HIDE DEF S, m
<1>6. 1 + m = m + 1
  BY <1>4
<1>7. Unfinished(b) = After(b, m)
  BY <1>5, <1>6 DEF After
<1>8. Unfinished(b) \in Seq(Byte) /\ Len(Unfinished(b)) <= Len(b)
  BY <1>1, <1>4, <1>7, CutParts
<1>9. Newlines(Unfinished(b)) = {}
  <2> SUFFICES ASSUME NEW i \in 1 .. Len(b) - m, m + i \in Newlines(b) PROVE FALSE
    BY <1>4, <1>7, CutNewlines
  <2> QED BY <1>1, <1>4
<1> QED BY <1>4, <1>7, <1>8, <1>9 DEF Cut

\* A buffer without a newline has no lines.
LEMMA NoLines ==
  ASSUME NEW b \in Seq(Byte), Newlines(b) = {}
  PROVE  dispatch_complete_lines(b) = <<>>
<1>1. Len(dispatch_complete_lines(b)) = 0 /\ dispatch_complete_lines(b) \in Seq(Seq(Byte))
  BY LinesType, FS_EmptySet
<1> QED BY <1>1

\* The heart of it: reading t after s is reading t into what is left of s.
LEMMA ReadOn ==
  ASSUME NEW s \in Seq(Byte), NEW t \in Seq(Byte)
  PROVE  /\ Unfinished(s \o t) = Unfinished(Unfinished(s) \o t)
         /\ dispatch_complete_lines(s \o t)
               = dispatch_complete_lines(s) \o dispatch_complete_lines(Unfinished(s) \o t)
<1>1. PICK m : /\ Cut(s, m) /\ Unfinished(s) = After(s, m)
               /\ \A i \in Newlines(s) : i <= m
               /\ Newlines(Unfinished(s)) = {}
  BY WhatIsLeft
<1> DEFINE b == s \o t  u == Unfinished(s)  q == u \o t
<1>2. /\ b \in Seq(Byte) /\ Len(b) = Len(s) + Len(t) /\ Len(s) \in Nat /\ Len(t) \in Nat
      /\ \A i \in 1 .. Len(s) + Len(t) : b[i] = IF i <= Len(s) THEN s[i] ELSE t[i - Len(s)]
  BY ConcatProperties
<1>3. m \in 0 .. Len(s) /\ m \in 0 .. Len(b) /\ m \in Nat
  BY <1>1, <1>2 DEF Cut
<1>4. /\ u \in Seq(Byte) /\ Len(u) = Len(s) - m
      /\ \A i \in 1 .. Len(s) - m : u[i] = s[m + i]
  <2>1. /\ After(s, m) \in Seq(Byte) /\ Len(After(s, m)) = Len(s) - m
        /\ \A i \in 1 .. Len(s) - m : After(s, m)[i] = s[m + i]
    BY <1>3, CutParts
  <2> QED BY <1>1, <2>1
<1> HIDE DEF u, b
<1>5. /\ q \in Seq(Byte) /\ Len(q) = Len(b) - m
      /\ \A i \in 1 .. Len(b) - m : q[i] = b[m + i]
  <2>1. /\ q \in Seq(Byte) /\ Len(q) = Len(u) + Len(t)
        /\ \A i \in 1 .. Len(u) + Len(t) : q[i] = IF i <= Len(u) THEN u[i] ELSE t[i - Len(u)]
    BY <1>4, ConcatProperties
  <2> HIDE DEF q
  <2>2. Len(q) = Len(b) - m
    BY <1>2, <1>3, <1>4, <2>1
  <2>3. ASSUME NEW i \in 1 .. Len(b) - m PROVE q[i] = b[m + i]
    <3>1. i \in 1 .. Len(u) + Len(t) /\ m + i \in 1 .. Len(s) + Len(t)
      BY <1>2, <1>3, <1>4
    <3>2. CASE i <= Len(u)
      <4>1. m + i <= Len(s) /\ i \in 1 .. Len(s) - m
        BY <1>2, <1>3, <1>4, <3>2
      <4> QED BY <1>2, <1>4, <2>1, <3>1, <3>2, <4>1
    <3>3. CASE ~ (i <= Len(u))
      <4>1. ~ (m + i <= Len(s)) /\ (m + i) - Len(s) = i - Len(u)
        BY <1>2, <1>3, <1>4, <3>3
      <4> QED BY <1>2, <2>1, <3>1, <3>3, <4>1
    <3> QED BY <3>2, <3>3
  <2> QED BY <2>1, <2>2, <2>3
<1>6. After(b, m) = q
  <2>1. /\ After(b, m) \in Seq(Byte) /\ Len(After(b, m)) = Len(b) - m
        /\ \A i \in 1 .. Len(b) - m : After(b, m)[i] = b[m + i]
    BY <1>2, <1>3, CutParts
  <2> HIDE DEF q
  <2> QED BY <1>5, <2>1, SeqEqual
<1>7. Until(b, m) = Until(s, m)
  <2>1. /\ Until(b, m) \in Seq(Byte) /\ Len(Until(b, m)) = m
        /\ \A i \in 1 .. m : Until(b, m)[i] = b[i]
    BY <1>2, <1>3, CutParts
  <2>2. /\ Until(s, m) \in Seq(Byte) /\ Len(Until(s, m)) = m
        /\ \A i \in 1 .. m : Until(s, m)[i] = s[i]
    BY <1>3, CutParts
  <2>3. \A i \in 1 .. m : i \in 1 .. Len(s) + Len(t) /\ i <= Len(s)
    BY <1>2, <1>3
  <2>4. \A i \in 1 .. m : Until(b, m)[i] = Until(s, m)[i]
    BY <1>2, <2>1, <2>2, <2>3
  <2> QED BY <2>1, <2>2, <2>4, SeqEqual
<1>8. Cut(b, m)
  <2>1. m \in Newlines(s) => m \in Newlines(b)
    <3>1. Newlines(b) = {i \in 1 .. Len(b) : b[i] = "nl"} /\ Newlines(s) = {i \in 1 .. Len(s) : s[i] = "nl"}
      BY <1>2, NewlinesType
    <3> QED BY <1>2, <3>1
  <2> QED BY <1>1, <1>3, <2>1 DEF Cut
<1>9. dispatch_complete_lines(b) = dispatch_complete_lines(Until(s, m)) \o dispatch_complete_lines(q)
  <2> HIDE DEF q
  <2>1. dispatch_complete_lines(b)
           = dispatch_complete_lines(Until(b, m)) \o dispatch_complete_lines(After(b, m))
    BY <1>2, <1>8, CutLines
  <2> QED BY <1>6, <1>7, <2>1
<1>10. dispatch_complete_lines(s) = dispatch_complete_lines(Until(s, m))
  <2>1. dispatch_complete_lines(s) = dispatch_complete_lines(Until(s, m)) \o dispatch_complete_lines(u)
    BY <1>1, CutLines DEF u
  <2>2. dispatch_complete_lines(u) = <<>>
    BY <1>1, <1>4, NoLines DEF u
  <2>3. dispatch_complete_lines(Until(s, m)) \in Seq(Seq(Byte))
    BY <1>3, CutParts, LinesType
  <2> QED BY <2>1, <2>2, <2>3, ConcatEmptySeq
<1>11. Unfinished(b) = Unfinished(q)
  <2> HIDE DEF q
  <2>1. PICK n : Cut(q, n) /\ Unfinished(q) = After(q, n) /\ \A i \in Newlines(q) : i <= n
    BY <1>5, WhatIsLeft
  <2>2. PICK k : Cut(b, k) /\ Unfinished(b) = After(b, k) /\ \A i \in Newlines(b) : i <= k
    BY <1>2, WhatIsLeft
  <2>3. /\ Newlines(q) = {i \in 1 .. Len(b) - m : m + i \in Newlines(b)}
        /\ \A i \in Newlines(b) : i <= m \/ (i - m \in Newlines(q) /\ i = m + (i - m))
    BY <1>2, <1>3, <1>6, CutNewlines
  <2>4. Newlines(b) \subseteq Nat /\ Newlines(q) \subseteq Nat /\ n \in 0 .. Len(q) /\ k \in 0 .. Len(b)
    BY <1>2, <1>5, <2>1, <2>2, NewlinesType DEF Cut
  <2>5. m <= k
    BY <1>3, <1>8, <2>2, <2>4 DEF Cut
  <2>6. k <= m + n
    <3>1. CASE k <= m
      BY <1>3, <1>5, <2>4, <3>1
    <3>2. CASE ~ (k <= m)
      <4>1. k \in Newlines(b)
        BY <1>3, <2>2, <2>4, <3>2 DEF Cut
      <4>2. k - m \in Newlines(q) /\ k = m + (k - m)
        BY <2>3, <3>2, <4>1
      <4>3. k - m <= n
        BY <2>1, <4>2
      <4> QED BY <1>2, <1>3, <1>5, <2>4, <4>3
    <3> QED BY <3>1, <3>2
  <2>7. m + n <= k
    <3>1. CASE n = 0
      BY <1>3, <2>5, <3>1
    <3>2. CASE n \in Newlines(q)
      BY <2>2, <2>3, <3>2
    <3> QED BY <2>1, <3>1, <3>2 DEF Cut
  <2>8. k = m + n
    BY <1>2, <1>3, <1>5, <2>4, <2>6, <2>7
  <2>9. After(b, k) = After(q, n)
    <3>1. /\ After(b, k) \in Seq(Byte) /\ Len(After(b, k)) = Len(b) - k
          /\ \A i \in 1 .. Len(b) - k : After(b, k)[i] = b[k + i]
      BY <1>2, <2>4, CutParts
    <3>2. /\ After(q, n) \in Seq(Byte) /\ Len(After(q, n)) = Len(q) - n
          /\ \A i \in 1 .. Len(q) - n : After(q, n)[i] = q[n + i]
      BY <1>5, <2>4, CutParts
    <3>3. Len(b) - k = Len(q) - n /\ Len(b) \in Nat /\ n \in Nat
      BY <1>2, <1>3, <1>5, <2>4, <2>8
    <3>4. ASSUME NEW i \in 1 .. Len(b) - k PROVE After(b, k)[i] = After(q, n)[i]
      <4>1. n + i \in 1 .. Len(b) - m /\ m + (n + i) = k + i
        BY <1>3, <2>4, <2>8, <3>3
      <4> QED BY <1>5, <3>1, <3>2, <3>3, <4>1
    <3> QED BY <3>1, <3>2, <3>3, <3>4, SeqEqual
  <2> QED BY <2>1, <2>2, <2>9
<1> QED BY <1>9, <1>10, <1>11 DEF b, u, q

(***************************************************************************)
(* What was read of each client, the lines submitted and the buffers.      *)
(***************************************************************************)

Read(c) == Until(stream[c], taken[c])
ReadNext(c) == Until(stream'[c], taken'[c])

\* Nothing is read of a client before it is accepted, at one descriptor.
ClientInv ==
    /\ phase \in [Client -> {"idle", "queued", "open", "done"}]
    /\ stream \in [Client -> Seq(Byte)]
    /\ taken \in [Client -> Nat] /\ \A c \in Client : taken[c] <= Len(stream[c])
    /\ fin \in [Client -> {"no", "fin", "reset"}]
    /\ \A c \in Client : phase[c] \in {"idle", "queued"} => taken[c] = 0
    /\ \A fd \in Fd : open[fd] # "none" => phase[open[fd]] = "open"
    /\ \A f, g \in Fd : open[f] # "none" /\ open[f] = open[g] => f = g

\* The lines submitted are those that a single read of the same bytes would have
\* found, and the buffers hold what it would have left.
OneReader ==
    /\ submitted = [c \in Client |-> dispatch_complete_lines(Read(c))]
    /\ \A fd \in Fd : open[fd] # "none" => connections[fd].buffer = Unfinished(Read(open[fd]))

BuffersFit ==
    \A fd \in Fd : connections[fd].buffer \in Seq(Byte) /\ Len(connections[fd].buffer) < 2 * RAFT_MAX_LINE

LineInv == SlotInv /\ ClientInv /\ OneReader /\ BuffersFit

LEMMA ReadType ==
  ASSUME ClientInv, NEW c \in Client
  PROVE  /\ Read(c) \in Seq(Byte) /\ taken[c] \in 0 .. Len(stream[c]) /\ stream[c] \in Seq(Byte)
         /\ taken[c] = 0 => Read(c) = <<>>
<1>1. taken[c] \in 0 .. Len(stream[c]) /\ stream[c] \in Seq(Byte)
  BY DEF ClientInv
<1>2. Read(c) \in Seq(Byte) /\ Len(Read(c)) = taken[c]
  BY <1>1, CutParts DEF Read
<1> QED BY <1>1, <1>2

LEMMA EmptyBuffer == /\ <<>> \in Seq(Byte) /\ Len(<<>>) = 0 /\ 0 < 2 * RAFT_MAX_LINE
                     /\ Unfinished(<<>>) = <<>> /\ dispatch_complete_lines(<<>>) = <<>>
<1>1. <<>> \in Seq(Byte) /\ Len(<<>>) = 0
  OBVIOUS
<1>2. Newlines(<<>>) = {}
  BY DEF Newlines
<1>3. Unfinished(<<>>) \in Seq(Byte) /\ Len(Unfinished(<<>>)) <= 0
  BY <1>1, WhatIsLeft
<1>4. Unfinished(<<>>) = <<>>
  BY <1>3
<1>5. dispatch_complete_lines(<<>>) = <<>>
  BY <1>1, <1>2, NoLines
<1> QED BY <1>1, <1>4, <1>5, ConnectionAssumption

LEMMA NothingRead == ASSUME NEW s \in Seq(Byte) PROVE Until(s, 0) = <<>>
<1>1. Until(s, 0) \in Seq(Byte) /\ Len(Until(s, 0)) = 0
  BY CutParts
<1> QED BY <1>1

LEMMA LineInit == Init => LineInv
<1> SUFFICES ASSUME Init PROVE LineInv
  OBVIOUS
<1>1. SlotInv
  BY SlotInit
<1>2. /\ phase = [c \in Client |-> "idle"] /\ stream = [c \in Client |-> <<>>]
      /\ taken = [c \in Client |-> 0] /\ fin = [c \in Client |-> "no"]
      /\ open = [fd \in Fd |-> "none"] /\ connections = [fd \in Fd |-> Closed]
      /\ submitted = [c \in Client |-> <<>>]
  BY DEF Init
<1>3. ClientInv
  BY <1>2, EmptyBuffer DEF ClientInv
<1>4. \A c \in Client : Read(c) = <<>>
  BY <1>2, <1>3, ReadType
<1>5. OneReader
  BY <1>2, <1>4, EmptyBuffer DEF OneReader
<1>6. BuffersFit
  BY <1>2, EmptyBuffer DEF BuffersFit, Closed
<1> QED BY <1>1, <1>3, <1>5, <1>6 DEF LineInv

\* A step that reads nothing and changes no buffer.
LEMMA NobodyReads ==
  ASSUME LineInv, SlotInv', ClientInv', UNCHANGED <<taken, submitted, connections>>,
         \A fd \in Fd : open'[fd] # "none" => open'[fd] = open[fd],
         \A c \in Client : stream'[c] = stream[c] \/ taken[c] = 0
  PROVE  LineInv'
<1>1. ASSUME NEW c \in Client PROVE ReadNext(c) = Read(c)
  <2>1. stream[c] \in Seq(Byte) /\ stream'[c] \in Seq(Byte)
    BY DEF LineInv, ClientInv
  <2> QED BY <2>1, NothingRead DEF Read, ReadNext
<1>2. submitted' = [c \in Client |-> dispatch_complete_lines(ReadNext(c))]
  BY <1>1 DEF LineInv, OneReader
<1>3. \A fd \in Fd : open'[fd] # "none" => open'[fd] \in Client
  BY DEF SlotInv
<1>4. \A fd \in Fd : open'[fd] # "none" => connections'[fd].buffer = Unfinished(ReadNext(open'[fd]))
  BY <1>1, <1>3 DEF LineInv, OneReader
<1>5. OneReader'
  BY <1>2, <1>4 DEF OneReader, Read, ReadNext
<1>6. BuffersFit'
  BY DEF LineInv, BuffersFit
<1> QED BY <1>5, <1>6 DEF LineInv

LEMMA ClientKeeps ==
  ASSUME LineInv, NEW c \in Client, connect(c) \/ fin_arrives(c) \/ reset(c)
  PROVE  LineInv'
<1>1. SlotInv'
  BY DEF connect, fin_arrives, reset, LineInv, SlotInv, BatchMatches
<1>2. UNCHANGED <<open, connections, taken, submitted>>
  BY DEF connect, fin_arrives, reset
<1>3. CASE connect(c)
  <2>1. PICK s \in Streams[c] : stream' = [stream EXCEPT ![c] = s]
    BY <1>3 DEF connect
  <2>2. phase[c] = "idle" /\ phase' = [phase EXCEPT ![c] = "queued"] /\ fin' = fin /\ taken[c] = 0
    BY <1>3 DEF connect, LineInv, ClientInv
  <2>3. s \in Seq(Byte) /\ Len(s) \in Nat
    BY ConnectionAssumption DEF Byte
  <2>4. ClientInv'
    BY <1>2, <2>1, <2>2, <2>3 DEF LineInv, ClientInv
  <2>5. \A d \in Client : stream'[d] = stream[d] \/ taken[d] = 0
    BY <2>1, <2>2 DEF LineInv, ClientInv
  <2> QED BY <1>1, <1>2, <2>4, <2>5, NobodyReads
<1>4. CASE fin_arrives(c) \/ reset(c)
  <2>1. phase' = phase /\ stream' = stream
    BY <1>4 DEF fin_arrives, reset
  <2>2. fin' \in [Client -> {"no", "fin", "reset"}]
    BY <1>4 DEF fin_arrives, reset, LineInv, ClientInv
  <2>3. ClientInv'
    BY <1>2, <2>1, <2>2 DEF LineInv, ClientInv
  <2> QED BY <1>1, <1>2, <2>1, <2>3, NobodyReads
<1> QED BY <1>3, <1>4

\* Whoever is accepted has an empty buffer, and nothing was read of it.
LEMMA AcceptKeeps == ASSUME LineInv, accept_connections PROVE LineInv'
<1>1. SlotInv' /\ UNCHANGED <<stream, taken, fin, submitted>>
  BY AcceptKeepsSlots DEF LineInv, accept_connections
<1>2. CASE UNCHANGED <<phase, open, connections>>
  <2>1. ClientInv'
    BY <1>1, <1>2 DEF LineInv, ClientInv
  <2> QED BY <1>1, <1>2, <2>1, NobodyReads
<1>3. ASSUME NEW c \in Client, phase[c] = "queued",
             phase' = [phase EXCEPT ![c] = "done"], UNCHANGED <<open, connections>>
      PROVE  LineInv'
  <2>1. \A fd \in Fd : open[fd] # c
    <3> SUFFICES ASSUME NEW fd \in Fd, open[fd] = c PROVE FALSE
      OBVIOUS
    <3>1. c # "none"
      BY ConnectionAssumption
    <3>2. phase[c] = "open"
      BY <3>1 DEF LineInv, ClientInv
    <3> QED BY <1>3, <3>2
  <2>2. ClientInv'
    BY <1>1, <1>3, <2>1 DEF LineInv, ClientInv
  <2> QED BY <1>1, <1>3, <2>2, NobodyReads
<1>4. ASSUME NEW c \in Client, NEW fd \in Fd, phase[c] = "queued", LowestFree(fd),
             phase' = [phase EXCEPT ![c] = "open"],
             open' = [open EXCEPT ![fd] = c],
             connections' = [connections EXCEPT ![fd] = [client |-> c, buffer |-> <<>>]]
      PROVE  LineInv'
  <2>1. \A f \in Fd : open[f] # c
    <3> SUFFICES ASSUME NEW f \in Fd, open[f] = c PROVE FALSE
      OBVIOUS
    <3>1. c # "none"
      BY ConnectionAssumption
    <3>2. phase[c] = "open"
      BY <3>1 DEF LineInv, ClientInv
    <3> QED BY <1>4, <3>2
  <2>2. open'[fd] = c /\ \A f \in Fd \ {fd} : open'[f] = open[f]
    BY <1>4 DEF LineInv, SlotInv
  <2>3. phase'[c] = "open" /\ \A d \in Client \ {c} : phase'[d] = phase[d]
    BY <1>4 DEF LineInv, ClientInv
  <2>4. ClientInv'
    <3>1. phase' \in [Client -> {"idle", "queued", "open", "done"}]
      BY <1>4 DEF LineInv, ClientInv
    <3>2. \A f \in Fd : open'[f] # "none" => phase'[open'[f]] = "open"
      <4>1. \A f \in Fd \ {fd} : open[f] # "none" => open[f] \in Client \ {c} /\ phase[open[f]] = "open"
        BY <2>1 DEF LineInv, ClientInv, SlotInv
      <4> QED BY <2>2, <2>3, <4>1
    <3>3. \A f, g \in Fd : open'[f] # "none" /\ open'[f] = open'[g] => f = g
      <4>1. \A f, g \in Fd : open[f] # "none" /\ open[f] = open[g] => f = g
        BY DEF LineInv, ClientInv
      <4>2. ASSUME NEW f \in Fd, NEW g \in Fd, open'[f] # "none", open'[f] = open'[g], f # g
            PROVE  FALSE
        <5>1. CASE f = fd
          BY <2>1, <2>2, <4>2, <5>1
        <5>2. CASE g = fd
          BY <2>1, <2>2, <4>2, <5>2
        <5>3. CASE f # fd /\ g # fd
          BY <2>2, <4>1, <4>2, <5>3
        <5> QED BY <5>1, <5>2, <5>3
      <4> QED BY <4>2
    <3>4. \A d \in Client : phase'[d] \in {"idle", "queued"} => taken'[d] = 0
      BY <1>1, <2>3 DEF LineInv, ClientInv
    <3> QED BY <1>1, <3>1, <3>2, <3>3, <3>4 DEF LineInv, ClientInv
  <2>5. connections'[fd].buffer = <<>> /\ \A f \in Fd \ {fd} : connections'[f] = connections[f]
    BY <1>4 DEF LineInv, SlotInv
  <2>6. Read(c) = <<>>
    BY <1>4, ReadType DEF LineInv, ClientInv
  <2>7. \A d : ReadNext(d) = Read(d)
    BY <1>1 DEF Read, ReadNext
  <2>8. OneReader'
    <3>1. submitted' = [d \in Client |-> dispatch_complete_lines(ReadNext(d))]
      BY <1>1, <2>7 DEF LineInv, OneReader
    <3>2. \A f \in Fd : open'[f] # "none" => connections'[f].buffer = Unfinished(ReadNext(open'[f]))
      BY <2>2, <2>5, <2>6, <2>7, EmptyBuffer DEF LineInv, OneReader
    <3> QED BY <3>1, <3>2 DEF OneReader, Read, ReadNext
  <2>9. BuffersFit'
    BY <2>5, EmptyBuffer DEF LineInv, BuffersFit
  <2> QED BY <1>1, <2>4, <2>8, <2>9 DEF LineInv
<1> QED BY <1>2, <1>3, <1>4 DEF accept_connections

\* An event of the batch that is not for the listening socket is for a client.
LEMMA HeadIsClient ==
  ASSUME SlotInv, batch # <<>>, Head(batch).fd # Listener
  PROVE  Head(batch).fd \in Fd /\ open[Head(batch).fd] \in Client /\ open[Head(batch).fd] # "none"
<1>1. Head(batch).fd \in Fd
  BY TailOfBatch DEF SlotInv, Event
<1>2. open[Head(batch).fd] # "none"
  BY TailOfBatch DEF SlotInv, BatchMatches
<1> QED BY <1>1, <1>2 DEF SlotInv

LEMMA CloseKeeps ==
  ASSUME LineInv, SlotInv', batch # <<>>, Head(batch).fd # Listener,
         close_connection(Head(batch).fd), UNCHANGED <<stream, taken, fin, submitted>>
  PROVE  LineInv'
<1> DEFINE fd == Head(batch).fd  c == open[fd]
<1>1. fd \in Fd /\ c \in Client /\ c # "none"
  BY HeadIsClient DEF LineInv
<1>2. /\ open' = [open EXCEPT ![fd] = "none"] /\ phase' = [phase EXCEPT ![c] = "done"]
      /\ connections' = [connections EXCEPT ![fd] = Closed]
  BY DEF close_connection
<1> HIDE DEF fd
<1>3. \A f \in Fd \ {fd} : open[f] # c
  BY <1>1 DEF LineInv, ClientInv
<1> HIDE DEF c
<1>4. open'[fd] = "none" /\ \A f \in Fd \ {fd} : open'[f] = open[f]
  BY <1>1, <1>2 DEF LineInv, SlotInv
<1>5. phase'[c] = "done" /\ \A d \in Client \ {c} : phase'[d] = phase[d]
  BY <1>1, <1>2 DEF LineInv, ClientInv
<1>6. ClientInv'
  <2>1. phase' \in [Client -> {"idle", "queued", "open", "done"}]
    BY <1>2 DEF LineInv, ClientInv
  <2>2. \A f \in Fd : open'[f] # "none" => phase'[open'[f]] = "open"
    <3>1. \A f \in Fd \ {fd} : open[f] # "none" => open[f] \in Client \ {c} /\ phase[open[f]] = "open"
      BY <1>3 DEF LineInv, ClientInv, SlotInv
    <3> QED BY <1>4, <1>5, <3>1
  <2>3. \A f, g \in Fd : open'[f] # "none" /\ open'[f] = open'[g] => f = g
    BY <1>4 DEF LineInv, ClientInv
  <2>4. \A d \in Client : phase'[d] \in {"idle", "queued"} => taken'[d] = 0
    BY <1>5 DEF LineInv, ClientInv
  <2> QED BY <2>1, <2>2, <2>3, <2>4 DEF LineInv, ClientInv
<1>7. connections'[fd].buffer = <<>> /\ \A f \in Fd \ {fd} : connections'[f] = connections[f]
  BY <1>1, <1>2 DEF LineInv, SlotInv, Closed
<1>8. \A d : ReadNext(d) = Read(d)
  BY DEF Read, ReadNext
<1>9. OneReader'
  <2>1. submitted' = [d \in Client |-> dispatch_complete_lines(ReadNext(d))]
    BY <1>8 DEF LineInv, OneReader
  <2>2. \A f \in Fd : open'[f] # "none" => connections'[f].buffer = Unfinished(ReadNext(open'[f]))
    BY <1>4, <1>7, <1>8 DEF LineInv, OneReader
  <2> QED BY <2>1, <2>2 DEF OneReader, Read, ReadNext
<1>10. BuffersFit'
  BY <1>7, EmptyBuffer DEF LineInv, BuffersFit
<1> QED BY <1>6, <1>9, <1>10 DEF LineInv

\* However much recv returns, the lines go on where the last read left off.
LEMMA RecvKeeps ==
  ASSUME LineInv, SlotInv', batch # <<>>, Head(batch).fd # Listener, recv_bytes(Head(batch))
  PROVE  LineInv'
<1> DEFINE fd == Head(batch).fd  c == open[fd]  b == connections[fd].buffer
<1>1. fd \in Fd /\ c \in Client /\ c # "none"
  BY HeadIsClient DEF LineInv
<1>2. PICK n \in 1 .. Room(b) :
          LET got == b \o SubSeq(stream[c], taken[c] + 1, taken[c] + n) IN
          /\ taken[c] + n <= Len(stream[c])
          /\ taken' = [taken EXCEPT ![c] = @ + n]
          /\ connections' = [connections EXCEPT ![fd].buffer = Unfinished(got)]
          /\ submitted' = [submitted EXCEPT ![c] = @ \o dispatch_complete_lines(got)]
  BY DEF recv_bytes
<1>3. UNCHANGED <<phase, stream, fin, open>>
  BY DEF recv_bytes
<1>4. b \in Seq(Byte) /\ Len(b) < 2 * RAFT_MAX_LINE /\ b = Unfinished(Read(c))
  BY <1>1 DEF LineInv, BuffersFit, OneReader
<1> DEFINE t == SubSeq(stream[c], taken[c] + 1, taken[c] + n)  got == b \o t
<1>5. /\ Read(c) \in Seq(Byte) /\ taken[c] \in 0 .. Len(stream[c]) /\ stream[c] \in Seq(Byte)
      /\ Len(stream[c]) \in Nat
  BY <1>1, ReadType DEF LineInv
<1>6. /\ taken[c] + n <= Len(stream[c])
      /\ taken' = [taken EXCEPT ![c] = taken[c] + n]
      /\ connections' = [connections EXCEPT ![fd].buffer = Unfinished(got)]
      /\ submitted' = [submitted EXCEPT ![c] = submitted[c] \o dispatch_complete_lines(got)]
  BY <1>2
<1> HIDE DEF fd, c, b
<1>7. Room(b) \in Int /\ n \in Nat /\ n >= 1 /\ Len(b) + n < 2 * RAFT_MAX_LINE /\ Len(b) \in Nat
  BY <1>4, ConnectionAssumption DEF Room
<1>8. t \in Seq(Byte) /\ Len(t) = n
  <2>1. \A i \in taken[c] + 1 .. taken[c] + n : stream[c][i] \in Byte
    <3>1. \A i \in 1 .. Len(stream[c]) : stream[c][i] \in Byte
      BY <1>5
    <3>2. \A i \in taken[c] + 1 .. taken[c] + n : i \in 1 .. Len(stream[c])
      BY <1>5, <1>6, <1>7
    <3> QED BY <3>1, <3>2
  <2>2. /\ taken[c] + 1 \in Int /\ taken[c] + n \in Int /\ taken[c] + 1 <= taken[c] + n
        /\ (taken[c] + n) - (taken[c] + 1) + 1 = n
    BY <1>5, <1>7
  <2>3. t \in Seq(Byte) /\ Len(t) = IF taken[c] + 1 <= taken[c] + n
                                    THEN (taken[c] + n) - (taken[c] + 1) + 1 ELSE 0
    BY <2>1, <2>2, SubSeqProperties
  <2> HIDE DEF t
  <2> QED BY <2>2, <2>3
<1>9. Read(c) \o t = Until(stream[c], taken[c] + n)
  <2>1. /\ 1 \in 1 .. Len(stream[c]) + 1 /\ taken[c] \in 1 - 1 .. Len(stream[c])
        /\ taken[c] + n \in taken[c] .. Len(stream[c])
    BY <1>5, <1>6, <1>7
  <2> QED BY <1>5, <2>1, ConcatAdjacentSubSeq DEF Read, Until
<1> HIDE DEF t
<1>10. /\ Unfinished(Read(c) \o t) = Unfinished(got)
       /\ dispatch_complete_lines(Read(c) \o t)
             = dispatch_complete_lines(Read(c)) \o dispatch_complete_lines(got)
  BY <1>4, <1>5, <1>8, ReadOn
<1>11. got \in Seq(Byte) /\ Len(got) = Len(b) + n
  BY <1>4, <1>8, ConcatProperties
<1> HIDE DEF got
<1>12. taken'[c] = taken[c] + n /\ \A d \in Client \ {c} : taken'[d] = taken[d]
  BY <1>1, <1>6 DEF LineInv, ClientInv
<1>13. /\ ReadNext(c) = Read(c) \o t
       /\ \A d \in Client \ {c} : ReadNext(d) = Read(d)
  BY <1>3, <1>9, <1>12 DEF Read, ReadNext
<1>14. ClientInv'
  <2>1. phase[c] = "open"
    BY <1>1 DEF LineInv, ClientInv, c
  <2>2. taken' \in [Client -> Nat] /\ \A d \in Client : taken'[d] <= Len(stream[d])
    BY <1>1, <1>5, <1>6, <1>7, <1>12 DEF LineInv, ClientInv
  <2>3. \A d \in Client : phase[d] \in {"idle", "queued"} => taken'[d] = 0
    BY <1>12, <2>1 DEF LineInv, ClientInv
  <2> QED BY <1>3, <2>2, <2>3 DEF LineInv, ClientInv
<1>15. /\ connections'[fd].buffer = Unfinished(got)
       /\ \A f \in Fd \ {fd} : connections'[f].buffer = connections[f].buffer
  <2>1. /\ connections'[fd] = [connections[fd] EXCEPT !.buffer = Unfinished(got)]
        /\ \A f \in Fd \ {fd} : connections'[f] = connections[f]
    BY <1>1, <1>6 DEF LineInv, SlotInv
  <2>2. \E r : connections[fd] = [client |-> open[fd], buffer |-> r]
    BY <1>1 DEF LineInv, SlotInv
  <2> QED BY <2>1, <2>2
<1>16. OneReader'
  <2>1. /\ submitted'[c] = submitted[c] \o dispatch_complete_lines(got)
        /\ \A d \in Client \ {c} : submitted'[d] = submitted[d]
        /\ submitted' = [d \in Client |-> submitted'[d]]
    BY <1>1, <1>6 DEF LineInv, OneReader
  <2>2. \A d \in Client : submitted[d] = dispatch_complete_lines(Read(d))
    BY DEF LineInv, OneReader
  <2>3. \A d \in Client : submitted'[d] = dispatch_complete_lines(ReadNext(d))
    BY <1>1, <1>10, <1>13, <2>1, <2>2
  <2>4. submitted' = [d \in Client |-> dispatch_complete_lines(ReadNext(d))]
    BY <2>1, <2>3
  <2>5. \A f \in Fd : open[f] # "none" => open[f] \in Client /\ (open[f] = c => f = fd)
    BY <1>1 DEF LineInv, ClientInv, SlotInv, c
  <2>6. \A f \in Fd : open'[f] # "none" => connections'[f].buffer = Unfinished(ReadNext(open'[f]))
    <3> SUFFICES ASSUME NEW f \in Fd, open[f] # "none"
                 PROVE  connections'[f].buffer = Unfinished(ReadNext(open[f]))
      BY <1>3
    <3>1. CASE f = fd
      BY <1>10, <1>13, <1>15, <3>1 DEF c
    <3>2. CASE f # fd
      BY <1>13, <1>15, <2>5, <3>2 DEF LineInv, OneReader
    <3> QED BY <3>1, <3>2
  <2> QED BY <2>4, <2>6 DEF OneReader, Read, ReadNext
<1>17. BuffersFit'
  <2>1. Unfinished(got) \in Seq(Byte) /\ Len(Unfinished(got)) <= Len(got)
    BY <1>11, WhatIsLeft
  <2>2. Len(Unfinished(got)) < 2 * RAFT_MAX_LINE
    BY <1>7, <1>11, <2>1, ConnectionAssumption
  <2> QED BY <1>15, <2>1, <2>2 DEF LineInv, BuffersFit
<1> QED BY <1>14, <1>16, <1>17 DEF LineInv

LEMMA LineNext == ASSUME LineInv, [Next]_vars PROVE LineInv'
<1>1. CASE epoll_wait
  <2>1. SlotInv' /\ UNCHANGED <<phase, stream, taken, fin, open, connections, submitted>>
    BY <1>1, WaitKeepsSlots DEF LineInv, epoll_wait
  <2>2. ClientInv'
    BY <2>1 DEF LineInv, ClientInv
  <2> QED BY <2>1, <2>2, NobodyReads
<1>2. CASE read_connection
  <2>1. SlotInv' /\ batch # <<>> /\ Head(batch).fd # Listener
    BY <1>2, ReadKeepsSlots DEF LineInv, read_connection
  <2>2. CASE recv_bytes(Head(batch))
    BY <2>1, <2>2, RecvKeeps
  <2>3. CASE read_end(Head(batch))
    BY <2>1, <2>3, CloseKeeps DEF read_end
  <2>4. CASE read_nothing_more(Head(batch))
    <3>1. CASE close_connection(Head(batch).fd)
      BY <2>1, <2>4, <3>1, CloseKeeps DEF read_nothing_more
    <3>2. CASE UNCHANGED <<phase, open, connections>>
      <4>1. UNCHANGED <<stream, taken, fin, submitted>>
        BY <2>4 DEF read_nothing_more
      <4>2. ClientInv'
        BY <3>2, <4>1 DEF LineInv, ClientInv
      <4> QED BY <2>1, <3>2, <4>1, <4>2, NobodyReads
    <3> QED BY <2>4, <3>1, <3>2 DEF read_nothing_more
  <2> QED BY <1>2, <2>2, <2>3, <2>4 DEF read_connection
<1>3. CASE UNCHANGED vars
  <2>1. UNCHANGED <<phase, stream, taken, fin, open, connections, batch, submitted>>
    BY <1>3 DEF vars
  <2>2. SlotInv' /\ ClientInv'
    BY <2>1 DEF LineInv, SlotInv, BatchMatches, ClientInv
  <2> QED BY <2>1, <2>2, NobodyReads
<1> QED BY <1>1, <1>2, <1>3, ClientKeeps, AcceptKeeps DEF Next, network_loop

(***************************************************************************)
(* The reader that looks at one byte after the other does the same.        *)
(***************************************************************************)

\* Reading the byte x after s.
LEMMA ReadByte ==
  ASSUME NEW s \in Seq(Byte), NEW x \in Byte
  PROVE  LET b == Append(s, x) IN
         IF x = "nl"
         THEN /\ dispatch_complete_lines(b) = Append(dispatch_complete_lines(s), Handed(Unfinished(s)))
              /\ Unfinished(b) = <<>>
         ELSE /\ dispatch_complete_lines(b) = dispatch_complete_lines(s)
              /\ Unfinished(b) = Append(Unfinished(s), x)
<1> DEFINE b == Append(s, x)  u == Unfinished(s)  q == Append(u, x)  n == Len(u)
<1>1. u \in Seq(Byte) /\ Newlines(u) = {} /\ n \in Nat
  BY WhatIsLeft
<1>2. b = s \o <<x>> /\ q = u \o <<x>> /\ <<x>> \in Seq(Byte)
  BY <1>1, AppendIsConcat
<1>3. /\ Unfinished(b) = Unfinished(q)
      /\ dispatch_complete_lines(b) = dispatch_complete_lines(s) \o dispatch_complete_lines(q)
  BY <1>2, ReadOn
<1> HIDE DEF b, u
<1>4. /\ q \in Seq(Byte) /\ Len(q) = n + 1 /\ q[n + 1] = x
      /\ \A i \in 1 .. n : q[i] = u[i]
  BY <1>1, AppendProperties
<1> HIDE DEF q, n
<1>5. \A i \in 1 .. n : u[i] # "nl"
  BY <1>1, NewlinesType DEF n
<1>6. dispatch_complete_lines(s) \in Seq(Seq(Byte))
  BY LinesType
<1>7. CASE x # "nl"
  <2>1. Newlines(q) = {}
    <3> SUFFICES ASSUME NEW i \in 1 .. n + 1, q[i] = "nl" PROVE FALSE
      BY <1>4, NewlinesType
    <3> QED BY <1>1, <1>4, <1>5, <1>7
  <2>2. dispatch_complete_lines(q) = <<>>
    BY <1>4, <2>1, NoLines
  <2>3. Unfinished(q) = q
    <3>1. PICK m : Cut(q, m) /\ Unfinished(q) = After(q, m)
      BY <1>4, WhatIsLeft
    <3>2. m = 0
      BY <2>1, <3>1 DEF Cut
    <3>3. After(q, 0) = SubSeq(q, 1, Len(q))
      BY DEF After
    <3> QED BY <1>4, <3>1, <3>2, <3>3, SubSeqFull
  <2>4. dispatch_complete_lines(b) = dispatch_complete_lines(s)
    BY <1>3, <1>6, <2>2, ConcatEmptySeq
  <2> QED BY <1>3, <1>7, <2>3, <2>4 DEF b, q, u
<1>8. CASE x = "nl"
  <2>1. Newlines(q) = {n + 1}
    <3>1. Newlines(q) = {i \in 1 .. n + 1 : q[i] = "nl"}
      BY <1>4, NewlinesType
    <3>2. \A i \in 1 .. n + 1 : q[i] = "nl" <=> i = n + 1
      BY <1>1, <1>4, <1>5, <1>8
    <3>3. n + 1 \in 1 .. n + 1
      BY <1>1
    <3> QED BY <3>1, <3>2, <3>3
  <2>2. Unfinished(q) = <<>>
    <3>1. PICK m : Cut(q, m) /\ Unfinished(q) = After(q, m) /\ \A i \in Newlines(q) : i <= m
      BY <1>4, WhatIsLeft
    <3>2. m = n + 1 /\ m \in 0 .. Len(q)
      BY <1>1, <1>4, <2>1, <3>1 DEF Cut
    <3>3. After(q, m) \in Seq(Byte) /\ Len(After(q, m)) = 0
      BY <1>1, <1>4, <3>2, CutParts
    <3> QED BY <3>1, <3>3
  <2>3. Cardinality(Newlines(q)) = 1
    BY <2>1, FS_Singleton
  <2>4. Newline(q, 1) = n + 1
    <3>1. 1 \in 1 .. Cardinality(Newlines(q))
      BY <2>3
    <3>2. Newline(q, 1) \in Newlines(q)
      BY <1>4, <3>1, NewlineExists
    <3> QED BY <2>1, <3>2
  <2>5. StartOf(q, n + 1) = 1
    <3>1. {0} \cup {j \in Newlines(q) : j < n + 1} = {0}
      BY <1>1, <2>1
    <3>2. {0} \in SUBSET Int /\ 0 \in {0} /\ \A y \in {0} : y <= 0
      OBVIOUS
    <3>3. Max({0}) = 0
      BY <3>2, MaxIs
    <3>4. StartOf(q, n + 1) = 1 + 0
      BY <3>1, <3>3 DEF StartOf
    <3> QED BY <3>4
  <2>6. SubSeq(q, 1, (n + 1) - 1) = u
    <3>1. Until(q, n) \in Seq(Byte) /\ Len(Until(q, n)) = n /\ \A i \in 1 .. n : Until(q, n)[i] = q[i]
      BY <1>1, <1>4, CutParts
    <3>2. Until(q, n) = u
      BY <1>1, <1>4, <3>1, SeqEqual DEF n
    <3>3. (n + 1) - 1 = n
      BY <1>1
    <3> QED BY <3>2, <3>3 DEF Until
  <2>7. Line(q, 1) = Handed(u)
    BY <2>4, <2>5, <2>6 DEF Line
  <2>8. dispatch_complete_lines(q) = <<Handed(u)>>
    <3>1. /\ dispatch_complete_lines(q) \in Seq(Seq(Byte)) /\ Len(dispatch_complete_lines(q)) = 1
          /\ dispatch_complete_lines(q)[1] = Handed(u)
      <4>1. /\ dispatch_complete_lines(q) \in Seq(Seq(Byte))
            /\ Len(dispatch_complete_lines(q)) = Cardinality(Newlines(q))
            /\ \A k \in 1 .. Cardinality(Newlines(q)) : dispatch_complete_lines(q)[k] = Line(q, k)
        BY <1>4, LinesType
      <4>2. 1 \in 1 .. 1
        OBVIOUS
      <4> QED BY <2>3, <2>7, <4>1, <4>2
    <3> QED BY <3>1
  <2>9. Handed(u) \in Seq(Byte)
    BY <1>1, HandedType
  <2>10. dispatch_complete_lines(b) = Append(dispatch_complete_lines(s), Handed(u))
    BY <1>3, <1>6, <2>8, <2>9, AppendIsConcat
  <2> QED BY <1>3, <1>8, <2>2, <2>10 DEF b, q, u
<1> QED BY <1>7, <1>8

\* One step of that reader.
ReaderStep(read, s, n) ==
    IF n = 0 THEN [lines |-> <<>>, rest |-> <<>>]
    ELSE LET before == read[n - 1] IN
         IF s[n] = "nl"
         THEN [lines |-> Append(before.lines, Handed(before.rest)), rest |-> <<>>]
         ELSE [lines |-> before.lines, rest |-> Append(before.rest, s[n])]

Whole(s) == [lines |-> dispatch_complete_lines(s), rest |-> Unfinished(s)]

LEMMA WholeIsReader ==
  ASSUME NEW s \in Seq(Byte)
  PROVE  LET g == [n \in 0 .. Len(s) |-> Whole(Until(s, n))]
         IN  g = [n \in 0 .. Len(s) |-> ReaderStep(g, s, n)]
<1> DEFINE g == [n \in 0 .. Len(s) |-> Whole(Until(s, n))]
<1>1. ASSUME NEW n \in 0 .. Len(s) PROVE g[n] = ReaderStep(g, s, n)
  <2>1. CASE n = 0
    <3>1. Until(s, 0) = <<>>
      BY NothingRead
    <3> QED BY <2>1, <3>1, EmptyBuffer DEF Whole, ReaderStep
  <2>2. CASE n # 0
    <3> DEFINE p == Until(s, n - 1)  x == s[n]
    <3>1. n - 1 \in 0 .. Len(s) /\ n \in 1 .. Len(s) /\ x \in Byte
      BY <2>2
    <3>2. p \in Seq(Byte)
      BY <3>1, CutParts
    <3>3. Until(s, n) = Append(p, x)
      <4>1. SubSeq(s, 1, n - 1) \o <<s[n]>> = SubSeq(s, 1, n)
        BY <3>1, SubSeqRecursiveSecond
      <4> QED BY <3>1, <3>2, <4>1, AppendIsConcat DEF Until
    <3>4. g[n - 1] = Whole(p) /\ g[n] = Whole(Append(p, x))
      BY <3>1, <3>3
    <3> HIDE DEF g, p, x
    <3>5. IF x = "nl"
          THEN /\ dispatch_complete_lines(Append(p, x))
                     = Append(dispatch_complete_lines(p), Handed(Unfinished(p)))
               /\ Unfinished(Append(p, x)) = <<>>
          ELSE /\ dispatch_complete_lines(Append(p, x)) = dispatch_complete_lines(p)
               /\ Unfinished(Append(p, x)) = Append(Unfinished(p), x)
      BY <3>1, <3>2, ReadByte
    <3>6. ReaderStep(g, s, n) =
             IF x = "nl"
             THEN [lines |-> Append(g[n - 1].lines, Handed(g[n - 1].rest)), rest |-> <<>>]
             ELSE [lines |-> g[n - 1].lines, rest |-> Append(g[n - 1].rest, x)]
      BY <2>2 DEF ReaderStep, x
    <3>7. /\ g[n - 1].lines = dispatch_complete_lines(p) /\ g[n - 1].rest = Unfinished(p)
          /\ g[n] = [lines |-> dispatch_complete_lines(Append(p, x)), rest |-> Unfinished(Append(p, x))]
      BY <3>4 DEF Whole
    <3>8. CASE x = "nl"
      BY <3>5, <3>6, <3>7, <3>8
    <3>9. CASE x # "nl"
      BY <3>5, <3>6, <3>7, <3>9
    <3> QED BY <3>8, <3>9
  <2> QED BY <2>1, <2>2
<1> HIDE DEF g
<1>2. g = [n \in 0 .. Len(s) |-> g[n]]
  BY DEF g
<1>3. g = [n \in 0 .. Len(s) |-> ReaderStep(g, s, n)]
  BY <1>1, <1>2
<1> QED BY <1>3 DEF g

\* What that reader has after all bytes.  Its recursive definition has a solution,
\* the one above, and no other: there is no first byte after which two differ.
LEMMA ReferenceIsWhole == ASSUME NEW s \in Seq(Byte) PROVE Reference(s) = Whole(s)
<1> DEFINE D == 0 .. Len(s)
           P(f) == f = [n \in D |-> ReaderStep(f, s, n)]
           g == [n \in D |-> Whole(Until(s, n))]
           r == Reader(s)
<1>1. r = CHOOSE f : P(f)
  BY DEF Reader, ReaderStep
<1>2. P(g)
  BY WholeIsReader
<1> HIDE DEF P, r
<1>3. P(r)
  BY <1>1, <1>2
<1>4. r = [n \in D |-> ReaderStep(r, s, n)] /\ g = [n \in D |-> ReaderStep(g, s, n)]
  BY <1>2, <1>3 DEF P
<1> HIDE DEF g
<1>5. D \subseteq Nat /\ Len(s) \in D /\ \A n \in D : n # 0 => n - 1 \in D /\ n - 1 < n
  OBVIOUS
<1> HIDE DEF D
<1> DEFINE Differ == {n \in D : r[n] # g[n]}
<1>6. Differ = {}
  <2> SUFFICES ASSUME Differ # {} PROVE FALSE
    OBVIOUS
  <2>1. Differ \subseteq Nat
    BY <1>5
  <2> HIDE DEF Differ
  <2>2. PICK n \in Differ : \A k \in Differ : <<k, n>> \notin OpToRel(<, Nat)
    BY <2>1, WFMin, NatLessThanWellFounded, Zenon
  <2>3. \A k \in Differ : ~ (k < n)
    BY <2>1, <2>2, Zenon DEF OpToRel
  <2>4. n \in D /\ r[n] # g[n]
    BY <2>2 DEF Differ
  <2>5. r[n] = ReaderStep(r, s, n) /\ g[n] = ReaderStep(g, s, n)
    BY <1>4, <2>4
  <2>6. n # 0 => r[n - 1] = g[n - 1]
    BY <1>5, <2>3, <2>4 DEF Differ
  <2>7. ReaderStep(r, s, n) = ReaderStep(g, s, n)
    BY <2>6 DEF ReaderStep
  <2> QED BY <2>4, <2>5, <2>7
<1>7. r[Len(s)] = g[Len(s)]
  BY <1>5, <1>6
<1>8. g[Len(s)] = Whole(Until(s, Len(s)))
  BY <1>5 DEF g
<1>9. Until(s, Len(s)) = s
  BY SubSeqFull DEF Until
<1> QED BY <1>7, <1>8, <1>9 DEF Reference, r

(***************************************************************************)
(* The theorems.                                                           *)
(***************************************************************************)

\* However the bytes of clients are cut into pieces and mixed, the lines submitted
\* are those of one read of all the bytes that have come, in order, each once
\* (dispatch_complete_lines and read_connection, src/src/network.cpp:343-404).
THEOREM PiecesDoNotMatter == Spec => []OneReader
<1>1. LineInv /\ [Next]_vars => LineInv'
  BY LineNext
<1>2. LineInv => OneReader
  BY DEF LineInv
<1> QED BY <1>1, <1>2, LineInit, PTL DEF Spec

\* So they are those that a reader finds who looks at one byte after the other.
THEOREM LinesAreRight == Spec => []LinesAreCutRight
<1>1. LineInv /\ [Next]_vars => LineInv'
  BY LineNext
<1>2. ASSUME LineInv PROVE LinesAreCutRight
  <2> SUFFICES ASSUME NEW c \in Client
               PROVE  /\ submitted[c] = Reference(Read(c)).lines
                      /\ \A fd \in Fd : open[fd] = c => connections[fd].buffer = Reference(Read(c)).rest
    BY DEF LinesAreCutRight, Read, Until
  <2>1. Reference(Read(c)) = Whole(Read(c))
    BY <1>2, ReadType, ReferenceIsWhole DEF LineInv
  <2>2. Whole(Read(c)).lines = dispatch_complete_lines(Read(c)) /\ Whole(Read(c)).rest = Unfinished(Read(c))
    BY DEF Whole
  <2>3. c # "none"
    BY ConnectionAssumption
  <2> QED BY <1>2, <2>1, <2>2, <2>3 DEF LineInv, OneReader
<1> QED BY <1>1, <1>2, LineInit, PTL DEF Spec

\* No buffer fills up to its last byte, which is for the '\0', and no client has
\* more read of it than it sent (read_connection, src/src/network.cpp:372-404).
THEOREM BuffersHold == Spec => []TypeOK
<1>1. LineInv /\ [Next]_vars => LineInv'
  BY LineNext
<1>2. ASSUME LineInv PROVE TypeOK
  <2>1. \A c \in Client : taken[c] \in 0 .. Len(stream[c])
    BY <1>2, ReadType DEF LineInv
  <2>2. \A i \in DOMAIN batch : batch[i] \in Event
    <3> HIDE DEF Event
    <3> QED BY <1>2 DEF LineInv, SlotInv
  <2>3. phase \in [Client -> {"idle", "queued", "open", "done"}] /\ fin \in [Client -> {"no", "fin", "reset"}]
    BY <1>2 DEF LineInv, ClientInv
  <2>4. \A fd \in Fd : open[fd] \in Client \cup {"none"} /\ Len(connections[fd].buffer) < 2 * RAFT_MAX_LINE
    BY <1>2 DEF LineInv, SlotInv, BuffersFit
  <2> QED BY <2>1, <2>2, <2>3, <2>4 DEF TypeOK
<1> QED BY <1>1, <1>2, LineInit, PTL DEF Spec

=============================================================================
