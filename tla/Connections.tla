----------------------------- MODULE Connections ----------------------------
(***************************************************************************)
(* The receiving side of the network (src/src/network.cpp:244-434): the    *)
(* network thread takes batches of epoll events, accepts connections,      *)
(* reads what has arrived into the buffer of each, and submits the lines   *)
(* it can cut off it to the worker pool.                                   *)
(*                                                                         *)
(* A client is one connection made by connect_send or by any other         *)
(* program; TCP hands over its bytes in pieces of any size.  A byte is     *)
(* "nl", "cr" or "x", any other.  Descriptors are numbered from 1; the     *)
(* listening socket's is Listener.                                         *)
(***************************************************************************)
EXTENDS Integers, SequencesExt

CONSTANTS
    Client,
    Streams,        \* Streams[c]: what client c may send, sequences of bytes
    RAFT_MAX_LINE,
    RAFT_MAX_CONN,  \* descriptors from this one on are refused
    MaxEvents,      \* the size of the events array of network_loop
    Resets          \* bound: clients whose connection may be reset

ASSUME ConnectionAssumption ==
    /\ IsFiniteSet(Client) /\ "none" \notin Client
    /\ RAFT_MAX_LINE \in Nat \ {0, 1} /\ RAFT_MAX_CONN \in Nat /\ MaxEvents \in Nat \ {0}
    /\ Resets \subseteq Client
    /\ \A c \in Client : Streams[c] \subseteq Seq({"x", "nl", "cr"})

Listener == 0
Fd == 1 .. Cardinality(Client)
Closed == [client |-> "none", buffer |-> <<>>]

VARIABLES
    phase,      \* of a client: "idle", "queued" in the backlog, "open", "done"
    stream,     \* what the client sends, all in all
    taken,      \* how many of its bytes recv has returned
    fin,        \* "no", then "fin": all has arrived, or "reset": the rest is lost
    open,       \* open[fd]: the client at that descriptor, or "none"
    connections,
    batch,      \* the epoll events that are still to be handled
    submitted   \* submitted[c]: the lines of c that were given to the pool

vars == <<phase, stream, taken, fin, open, connections, batch, submitted>>

Event == [fd : Fd \cup {Listener}, client : Client \cup {"none"}, hup : BOOLEAN]

Init ==
    /\ phase = [c \in Client |-> "idle"]
    /\ stream = [c \in Client |-> <<>>]
    /\ taken = [c \in Client |-> 0]
    /\ fin = [c \in Client |-> "no"]
    /\ open = [fd \in Fd |-> "none"]
    /\ connections = [fd \in Fd |-> Closed]
    /\ batch = <<>>
    /\ submitted = [c \in Client |-> <<>>]

-----------------------------------------------------------------------------
(* The clients and the kernel.                                             *)

connect(c) ==
    /\ phase[c] = "idle"
    /\ phase' = [phase EXCEPT ![c] = "queued"]
    /\ \E s \in Streams[c] : stream' = [stream EXCEPT ![c] = s]
    /\ UNCHANGED <<taken, fin, open, connections, batch, submitted>>

\* All that c has sent, and that it has closed its end, has arrived.
fin_arrives(c) ==
    /\ phase[c] \in {"queued", "open"} /\ fin[c] = "no"
    /\ fin' = [fin EXCEPT ![c] = "fin"]
    /\ UNCHANGED <<phase, stream, taken, open, connections, batch, submitted>>

reset(c) ==
    /\ c \in Resets
    /\ phase[c] \in {"queued", "open"} /\ fin[c] # "reset"
    /\ fin' = [fin EXCEPT ![c] = "reset"]
    /\ UNCHANGED <<phase, stream, taken, open, connections, batch, submitted>>

\* Some of what c has sent may be there to read, or the end of it is.
Readable(c) == taken[c] < Len(stream[c]) \/ fin[c] # "no"

Ready ==
    {[fd |-> fd, client |-> open[fd], hup |-> fin[open[fd]] # "no"] :
        fd \in {f \in Fd : open[f] # "none" /\ Readable(open[f])}}
    \cup {[fd |-> Listener, client |-> "none", hup |-> FALSE] :
        c \in {d \in Client : phase[d] = "queued"}}

\* epoll_wait returns descriptors that are ready, in any order, and all that
\* surely are if they fit.
epoll_wait ==
    /\ batch = <<>>
    /\ \E S \in SUBSET Ready \ {{}} :
          /\ Cardinality(S) <= MaxEvents
          /\ Cardinality(S) = MaxEvents \/ \A e \in Ready \ S : e.fd # Listener /\ ~e.hup
          /\ \E b \in SetToSeqs(S) : batch' = b
    /\ UNCHANGED <<phase, stream, taken, fin, open, connections, submitted>>

-----------------------------------------------------------------------------
(* Accepting and closing.                                                  *)

\* Mutant: the slot is not emptied.
close_connection_kept(fd) ==
    /\ open' = [open EXCEPT ![fd] = "none"]
    /\ phase' = [phase EXCEPT ![open[fd]] = "done"]
    /\ UNCHANGED connections

close_connection(fd) ==
    /\ open' = [open EXCEPT ![fd] = "none"]
    /\ phase' = [phase EXCEPT ![open[fd]] = "done"]
    /\ connections' = [connections EXCEPT ![fd] = Closed]

\* accept returns the lowest descriptor that is free.
LowestFree(fd) == open[fd] = "none" /\ \A f \in Fd : f < fd => open[f] # "none"

\* One turn of the loop: the last finds the backlog empty.
accept_connections ==
    /\ batch # <<>> /\ Head(batch).fd = Listener
    /\ \/ /\ \A c \in Client : phase[c] # "queued"
          /\ batch' = Tail(batch)
          /\ UNCHANGED <<phase, open, connections>>
       \/ \E c \in Client, fd \in Fd :
          /\ phase[c] = "queued" /\ LowestFree(fd)
          /\ IF fd >= RAFT_MAX_CONN
             THEN phase' = [phase EXCEPT ![c] = "done"] /\ UNCHANGED <<open, connections>>
             ELSE /\ phase' = [phase EXCEPT ![c] = "open"]
                  /\ open' = [open EXCEPT ![fd] = c]
                  /\ connections' = [connections EXCEPT ![fd] = [client |-> c, buffer |-> <<>>]]
          /\ UNCHANGED batch
    /\ UNCHANGED <<stream, taken, fin, submitted>>

-----------------------------------------------------------------------------
(* Reading.                                                                *)

\* A line as it is handed on: cut to what fits, and without a "cr" at its end.
Handed(l) ==
    LET cut == SubSeq(l, 1, IF Len(l) < RAFT_MAX_LINE THEN Len(l) ELSE RAFT_MAX_LINE - 1)
    IN IF cut # <<>> /\ Last(cut) = "cr" THEN Front(cut) ELSE cut

Newlines(b) == {i \in DOMAIN b : b[i] = "nl"}

\* Where the line of buffer b that ends at i starts.
StartOf(b, i) == 1 + Max({0} \cup {j \in Newlines(b) : j < i})

\* Mutant: the next line starts at the newline itself.
Unfinished_with_newline(b) == SubSeq(b, Max({1} \cup Newlines(b)), Len(b))

\* What dispatch_complete_lines leaves in the buffer, and what it cuts off it.
Unfinished(b) == SubSeq(b, 1 + Max({0} \cup Newlines(b)), Len(b))

\* The k-th newline of buffer b.
Newline(b, k) == CHOOSE i \in Newlines(b) : Cardinality({j \in Newlines(b) : j <= i}) = k

dispatch_complete_lines(b) ==
    [k \in 1 .. Cardinality(Newlines(b)) |->
        Handed(SubSeq(b, StartOf(b, Newline(b, k)), Newline(b, k) - 1))]

\* Mutant: no room is kept for the '\0' behind what was read.
Room_for_all(b) == 2 * RAFT_MAX_LINE - Len(b)

\* How many bytes recv may return.
Room(b) == 2 * RAFT_MAX_LINE - Len(b) - 1

\* One turn of the loop of read_connection, for the event at the head of batch.
recv_bytes(e) ==
    LET c == open[e.fd]  b == connections[e.fd].buffer IN
    /\ fin[c] # "reset" /\ Room(b) > 0
    /\ \E n \in 1 .. Room(b) :
          LET got == b \o SubSeq(stream[c], taken[c] + 1, taken[c] + n) IN
          /\ taken[c] + n <= Len(stream[c])
          /\ taken' = [taken EXCEPT ![c] = @ + n]
          /\ connections' = [connections EXCEPT ![e.fd].buffer = Unfinished(got)]
          /\ submitted' = [submitted EXCEPT ![c] = @ \o dispatch_complete_lines(got)]
    /\ UNCHANGED <<phase, stream, fin, open, batch>>

\* The buffer is full without a newline, or the client has closed (recv
\* returns 0), or the connection is broken.
read_end(e) ==
    LET c == open[e.fd] IN
    /\ \/ Room(connections[e.fd].buffer) = 0
       \/ fin[c] = "fin" /\ taken[c] = Len(stream[c])
       \/ fin[c] = "reset"
    /\ close_connection(e.fd)
    /\ batch' = Tail(batch)
    /\ UNCHANGED <<stream, taken, fin, submitted>>

\* Mutant: a hang-up is looked at before the bytes are.
read_nothing_more_hup_first(e) ==
    /\ fin[open[e.fd]] = "no" \/ e.hup
    /\ batch' = Tail(batch)
    /\ IF e.hup THEN close_connection(e.fd) ELSE UNCHANGED <<phase, open, connections>>
    /\ UNCHANGED <<stream, taken, fin, submitted>>

\* recv finds nothing (EAGAIN): back in network_loop, a connection whose event
\* reported a hang-up is closed.
read_nothing_more(e) ==
    /\ fin[open[e.fd]] = "no"
    /\ Room(connections[e.fd].buffer) > 0
    /\ batch' = Tail(batch)
    /\ IF e.hup THEN close_connection(e.fd) ELSE UNCHANGED <<phase, open, connections>>
    /\ UNCHANGED <<stream, taken, fin, submitted>>

read_connection ==
    /\ batch # <<>> /\ Head(batch).fd # Listener
    /\ \/ recv_bytes(Head(batch)) \/ read_end(Head(batch)) \/ read_nothing_more(Head(batch))

network_loop == epoll_wait \/ accept_connections \/ read_connection

Next ==
    \/ \E c \in Client : connect(c) \/ fin_arrives(c) \/ reset(c)
    \/ network_loop

\* The network thread goes on, and what is sent arrives.
Spec ==
    /\ Init /\ [][Next]_vars
    /\ WF_vars(network_loop)
    /\ \A c \in Client : WF_vars(fin_arrives(c))

-----------------------------------------------------------------------------
(* Properties.                                                             *)

\* The buffer keeps a byte for the '\0' behind what was read.
TypeOK ==
    /\ phase \in [Client -> {"idle", "queued", "open", "done"}]
    /\ \A c \in Client : taken[c] \in 0 .. Len(stream[c])
    /\ fin \in [Client -> {"no", "fin", "reset"}]
    /\ \A fd \in Fd : open[fd] \in Client \cup {"none"}
                      /\ Len(connections[fd].buffer) < 2 * RAFT_MAX_LINE
    /\ \A i \in DOMAIN batch : batch[i] \in Event

\* Whatever connections are closed and accepted, with the same descriptor, while
\* a batch is handled: the node's slot for a descriptor is that of the client
\* that has it, and no event is taken for one of another client.
SlotsMatch ==
    /\ \A fd \in Fd : connections[fd].client = open[fd]
    /\ \A i \in DOMAIN batch : batch[i].fd # Listener => batch[i].client = open[batch[i].fd]

\* What a byte-by-byte reader makes of s: its lines, and what has no end yet.
Reader(s) ==
    LET read[n \in 0 .. Len(s)] ==
            IF n = 0 THEN [lines |-> <<>>, rest |-> <<>>]
            ELSE LET before == read[n - 1] IN
                 IF s[n] = "nl"
                 THEN [lines |-> Append(before.lines, Handed(before.rest)), rest |-> <<>>]
                 ELSE [lines |-> before.lines, rest |-> Append(before.rest, s[n])]
    IN read

Reference(s) == Reader(s)[Len(s)]

\* However the bytes of a client were cut into pieces and mixed with those of
\* others, the lines submitted are those of what was read of it, in order, each
\* once, and the buffer holds the line that is still to end.
LinesAreCutRight ==
    \A c \in Client :
        LET read == Reference(SubSeq(stream[c], 1, taken[c]))
        IN /\ submitted[c] = read.lines
           /\ \A fd \in Fd : open[fd] = c => connections[fd].buffer = read.rest

\* Stream s has no end of a line where a buffer fills.
TooLong(s) == \E n \in 1 .. Len(s) : Len(Reference(SubSeq(s, 1, n)).rest) >= 2 * RAFT_MAX_LINE - 1

\* A connection that was accepted is closed in the end, and not before all its
\* lines were submitted, unless it was reset or a line never ended: neither a
\* hang-up reported with the last bytes nor other connections get in the way.
LinesArrive ==
    \A c \in Client :
        phase[c] = "open" ~>
            phase[c] = "done" /\ (\/ fin[c] = "reset" \/ TooLong(stream[c])
                                 \/ submitted[c] = Reference(stream[c]).lines)

=============================================================================
