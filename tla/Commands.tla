------------------------------ MODULE Commands ------------------------------
(***************************************************************************)
(* What becomes of the words of a command: read from the console           *)
(* (parse_kv_command, src/src/kv_store.cpp:69-114), forwarded in CL lines, *)
(* put into the leader's log and copied to other nodes' logs in AE lines   *)
(* (src/src/network.cpp:82-103, src/src/raft_core.cpp:407-537).            *)
(*                                                                         *)
(* A word is a piece of what was typed: the bytes from .. to of a token,   *)
(* with how many they are, and whether it is "-", which is all that the    *)
(* code tells apart.  A line is the sequence of its words; an empty word   *)
(* leaves no trace in it.                                                  *)
(***************************************************************************)
EXTENDS Integers, Sequences

CONSTANTS
    Names,          \* the tokens that may be typed or printed
    Hyphens,        \* which of their bytes are '-': pairs of a token and a place
    Typed,          \* bound: the lines that may be typed
    RAFT_MAX_KEY, RAFT_MAX_VALUE,
    OpWidth,        \* the 15 of "%15s"
    MaxHops,        \* bound: CL lines a command goes through
    MaxCopies       \* bound: AE lines an entry goes through, log after log

Token(name, n) == [name |-> name, from |-> 1, to |-> n]
Empty == Token("", 0)
Dash == Token("-", 1)
SizeOf(w) == w.to - w.from + 1

IsDash(w) == SizeOf(w) = 1 /\ <<w.name, w.from>> \in Hyphens

Text == [name : Names, from : Nat, to : Nat]

\* Only a set has a value.
Command ==
    {c \in [op : {"set", "del", "get"}, key : Text, value : Text] :
        c.op # "set" => c.value = Empty}

Nothing == [op |-> "none", key |-> Empty, value |-> Empty]

Word == {w \in Text : SizeOf(w) > 0}

ASSUME WordsAssumption ==
    /\ {"", "-", "set", "del", "get"} \subseteq Names /\ <<"-", 1>> \in Hyphens
    /\ \A l \in Typed : l \in Seq(Word)

ASSUME CommandsAssumption ==
    /\ RAFT_MAX_KEY \in Nat \ {0, 1} /\ RAFT_MAX_VALUE \in Nat \ {0, 1}
    /\ OpWidth \in Nat /\ OpWidth >= 3
    /\ MaxHops \in Nat /\ MaxCopies \in Nat

VARIABLES
    line,       \* the words typed
    accepted,   \* what parse_kv_command made of them, or Nothing
    stage,      \* "console", "bad", "get", "submit", "refused", "log" or "lost"
    cmd,        \* the command or entry as the node that has it now knows it
    hops, copies

vars == <<line, accepted, stage, cmd, hops, copies>>

Init ==
    /\ line = <<>> /\ accepted = Nothing /\ cmd = Nothing
    /\ stage = "console"
    /\ hops = 0 /\ copies = 0

-----------------------------------------------------------------------------
(* Reading words.                                                          *)

\* Mutant: room for the '\0' is left twice.
Widths_too_narrow == <<OpWidth, RAFT_MAX_KEY - 2, RAFT_MAX_VALUE - 2>>

\* The field widths of "%15s %63s %255s".
Widths == <<OpWidth, RAFT_MAX_KEY - 1, RAFT_MAX_VALUE - 1>>

\* One field of sscanf: a word longer than the field is cut, and the next field
\* starts with the rest of it.
NextField(read, width) ==
    IF read.rest = <<>> THEN read
    ELSE LET w == Head(read.rest) IN
         IF SizeOf(w) <= width
         THEN [fields |-> Append(read.fields, w), rest |-> Tail(read.rest)]
         ELSE [fields |-> Append(read.fields, [w EXCEPT !.to = w.from + width - 1]),
               rest |-> <<[w EXCEPT !.from = w.from + width]>> \o Tail(read.rest)]

sscanf(words) ==
    LET op  == NextField([fields |-> <<>>, rest |-> words], Widths[1])
        key == NextField(op, Widths[2])
    IN NextField(key, Widths[3]).fields

is_valid_token(w, size) == SizeOf(w) \in 1 .. (size - 1)

\* How many words a command has.
Arity == [set |-> 3, del |-> 2, get |-> 2]

\* Which operation a word names; lines between nodes say SET and DEL instead.
Op(w) == IF w \in {Token("set", 3), Token("del", 3), Token("get", 3)} THEN w.name ELSE "none"

parse_kv_command(words) ==
    LET f == sscanf(words) IN
    IF f # <<>> /\ Op(f[1]) # "none" /\ Len(f) = Arity[Op(f[1])]
       /\ is_valid_token(f[2], RAFT_MAX_KEY)
       /\ (Len(f) = 3 => is_valid_token(f[3], RAFT_MAX_VALUE))
    THEN [op |-> Op(f[1]), key |-> f[2], value |-> IF Len(f) = 3 THEN f[3] ELSE Empty]
    ELSE Nothing

-----------------------------------------------------------------------------
(* Lines between nodes.                                                    *)

\* Mutant: an absent value is left out.
Written_blank(w) == w

\* How an entry's or a command's value is printed.
Written(w) == IF w = Empty THEN Dash ELSE w

\* What is left in a line of a word that is printed into it.
Printed(w) == IF w = Empty THEN <<>> ELSE <<w>>

\* The words of the operation, the key and the value, as they end AE and CL lines.
words_of(c) == <<Token(c.op, 3)>> \o Printed(c.key) \o Printed(Written(c.value))

\* Mutant: the "-" is taken for a value.
Read_as_it_is(w) == w

\* How a value is read, and a key in an AE line.
Read(w) == IF IsDash(w) THEN Empty ELSE w

\* An AE line needs all of its eleven fields.
decode_ae(words) ==
    LET f == sscanf(words) IN
    IF Len(f) = 3 THEN [op |-> Op(f[1]), key |-> Read(f[2]), value |-> Read(f[3])] ELSE Nothing

\* A CL line does without a value, and leaves a key "-" as it is.
decode_cl(words) ==
    LET f == sscanf(words) IN
    IF Len(f) >= 2
    THEN [op |-> Op(f[1]), key |-> f[2], value |-> IF Len(f) = 3 THEN Read(f[3]) ELSE Empty]
    ELSE Nothing

\* raft_submit_command accepts it.
Valid(c) ==
    /\ c.op \in {"set", "del"} /\ is_valid_token(c.key, RAFT_MAX_KEY)
    /\ c.op = "set" => is_valid_token(c.value, RAFT_MAX_VALUE)

-----------------------------------------------------------------------------
stdin_loop ==
    /\ stage = "console"
    /\ line' \in Typed
    /\ accepted' = parse_kv_command(line')
    /\ cmd' = accepted'
    /\ stage' = CASE accepted'.op = "none" -> "bad"
                  [] accepted'.op = "get"  -> "get"
                  [] OTHER                 -> IF Valid(accepted') THEN "submit" ELSE "refused"
    /\ UNCHANGED <<hops, copies>>

\* The node does not lead and sends a CL line to the one that may.
handle_client_forward ==
    /\ stage = "submit" /\ hops < MaxHops
    /\ hops' = hops + 1
    /\ cmd' = decode_cl(words_of(cmd))
    /\ stage' = IF Valid(cmd') THEN "submit" ELSE "refused"
    /\ UNCHANGED <<line, accepted, copies>>

\* The node leads and appends it to its log.
append_entry_locked ==
    /\ stage = "submit"
    /\ stage' = "log"
    /\ UNCHANGED <<line, accepted, cmd, hops, copies>>

\* A node that has the entry leads and sends it; the receiver drops a line it
\* cannot read.
handle_append_entries ==
    /\ stage = "log" /\ copies < MaxCopies
    /\ copies' = copies + 1
    /\ cmd' = decode_ae(words_of(cmd))
    /\ stage' = IF cmd' = Nothing THEN "lost" ELSE "log"
    /\ UNCHANGED <<line, accepted, hops>>

Next == stdin_loop \/ handle_client_forward \/ append_entry_locked \/ handle_append_entries

Spec == Init /\ [][Next]_vars

-----------------------------------------------------------------------------
(* Properties.                                                             *)

TypeOK ==
    /\ line \in Typed \cup {<<>>}
    /\ accepted \in Command \cup {Nothing} /\ cmd \in Command \cup {Nothing}
    /\ stage \in {"console", "bad", "get", "submit", "refused", "log", "lost"}
    /\ hops \in 0 .. MaxHops /\ copies \in 0 .. MaxCopies

Dashed(c) == IsDash(c.key) \/ IsDash(c.value)

\* A command that the console accepted, neither of whose words is "-", reaches the
\* leader's log and every copy of it unchanged, through any number of forwards and
\* of nodes that lead in turn, however long the words of the line were.
SurvivesTheWire ==
    accepted.op \in {"set", "del"} /\ ~Dashed(accepted) => stage \in {"submit", "log"} /\ cmd = accepted

\* Each word of the line fits the buffer it is read into.
MaxSizes == <<OpWidth + 1, RAFT_MAX_KEY, RAFT_MAX_VALUE>>
Fits(words) == \A i \in DOMAIN words \cap DOMAIN MaxSizes : SizeOf(words[i]) < MaxSizes[i]

\* Of lines whose words all fit, those with as many words as their command has
\* are accepted as they stand, up to the longest key and value, and those with
\* fewer are not.
FittingLinesAreRead ==
    stage # "console" /\ Fits(line) =>
        LET op == IF line = <<>> THEN "none" ELSE Op(line[1]) IN
        /\ op # "none" /\ Len(line) = Arity[op] =>
              accepted = [op |-> op, key |-> line[2],
                          value |-> IF op = "set" THEN line[3] ELSE Empty]
        /\ op = "none" \/ Len(line) < Arity[op] => accepted = Nothing

-----------------------------------------------------------------------------
(* What the documentation says and the code does not do.                   *)

\* parse_kv_command returns a "negative value when the command is malformed"
\* (raft_kv.hpp:155), as one with a key or a value that is too long is: what it
\* accepts are words of the line.
AcceptedWasTyped ==
    accepted # Nothing =>
        \E i, j \in DOMAIN line :
            accepted.key = line[i] /\ accepted.value \in {line[j], Empty}

\* "Keys and values are single tokens without spaces" (README.md:86), so that any
\* other token is a key, and an entry with it can be copied from log to log.
CopiesAreReceived == stage # "lost"

=============================================================================
