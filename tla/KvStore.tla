------------------------------- MODULE KvStore -------------------------------
(***************************************************************************)
(* The key-value store (src/src/kv_store.cpp:7-67): an array of slots that *)
(* kv_apply and kv_get search from the start, with a count of the slots in *)
(* use.  Its callers hold the node mutex, so calls never overlap.  A key   *)
(* or value is a token, or Invalid if is_valid_token turns it down.        *)
(***************************************************************************)
EXTENDS Integers, FiniteSets

CONSTANTS
    Key, Value,     \* the valid tokens
    Invalid,        \* a token that is not valid
    Nothing,        \* no value read
    Unused,         \* an item with used = 0
    RAFT_MAX_LOG    \* the number of slots

ASSUME TokenAssumption == Invalid \notin Key \cup Value
ASSUME SlotAssumption == RAFT_MAX_LOG \in Nat

Slot == 1 .. RAFT_MAX_LOG
KvItem == [key : Key, value : Value]

ASSUME UnusedAssumption == Unused \notin KvItem

VARIABLES
    items, count,
    answer          \* what the last call returned, and the value it read

vars == <<items, count, answer>>

Answer(rc, out) == [rc |-> rc, out |-> out]

Used == {s \in Slot : items[s] # Unused}
FirstOf(S) == CHOOSE s \in S : \A t \in S : s <= t

Init ==
    /\ items = [s \in Slot |-> Unused]
    /\ count = 0
    /\ answer = Answer(0, Nothing)

-----------------------------------------------------------------------------
\* The tokens that an operation uses are valid.
Valid(op, k, v) == k # Invalid /\ (op = "SET" => v # Invalid)

\* Mutant: the search for a key ends at the first slot that is free.
Holding_up_to_gap(k) ==
    {s \in Used : items[s].key = k /\ \A t \in 1 .. s : items[t] # Unused}

\* The slots in which the search finds key k.
Holding(k) == {s \in Used : items[s].key = k}

\* Mutant: deleting leaves the count.
erase_uncounted(k) ==
    /\ items' = [items EXCEPT ![FirstOf(Holding(k))] = Unused]
    /\ UNCHANGED count

erase(k) ==
    /\ items' = [items EXCEPT ![FirstOf(Holding(k))] = Unused]
    /\ count' = IF count > 0 THEN count - 1 ELSE count

\* Mutant: a new item is put into the first slot, free or not.
insert_first(k, v) ==
    /\ items' = [items EXCEPT ![1] = [key |-> k, value |-> v]]
    /\ count' = count + 1

insert(k, v) ==
    /\ items' = [items EXCEPT ![FirstOf(Slot \ Used)] = [key |-> k, value |-> v]]
    /\ count' = count + 1

kv_apply(op, k, v) ==
    \/ /\ ~ Valid(op, k, v)
       /\ answer' = Answer(-2, Nothing)
       /\ UNCHANGED <<items, count>>
    \/ /\ Valid(op, k, v) /\ op \notin {"SET", "DEL"}
       /\ answer' = Answer(-3, Nothing)
       /\ UNCHANGED <<items, count>>
    \/ /\ Valid(op, k, v) /\ op = "DEL"
       /\ IF Holding(k) # {} THEN erase(k) ELSE UNCHANGED <<items, count>>
       /\ answer' = Answer(0, Nothing)
    \/ /\ Valid(op, k, v) /\ op = "SET" /\ Holding(k) # {}
       /\ items' = [items EXCEPT ![FirstOf(Holding(k))] = [key |-> k, value |-> v]]
       /\ answer' = Answer(0, Nothing)
       /\ UNCHANGED count
    \/ /\ Valid(op, k, v) /\ op = "SET" /\ Holding(k) = {} /\ Used # Slot
       /\ insert(k, v)
       /\ answer' = Answer(0, Nothing)
    \/ /\ Valid(op, k, v) /\ op = "SET" /\ Holding(k) = {} /\ Used = Slot
       /\ answer' = Answer(-4, Nothing)
       /\ UNCHANGED <<items, count>>

kv_get(k) ==
    /\ answer' = IF k = Invalid THEN Answer(-2, Nothing)
                 ELSE IF Holding(k) = {} THEN Answer(-1, Nothing)
                 ELSE Answer(0, items[FirstOf(Holding(k))].value)
    /\ UNCHANGED <<items, count>>

Next ==
    \/ \E op \in {"SET", "DEL", "NONE"}, k \in Key \cup {Invalid}, v \in Value \cup {Invalid} :
          kv_apply(op, k, v)
    \/ \E k \in Key \cup {Invalid} : kv_get(k)

Spec == Init /\ [][Next]_vars

-----------------------------------------------------------------------------
\* Every slot is free or holds a valid key with a valid value, whatever kv_apply
\* was given.
TypeOK ==
    /\ items \in [Slot -> KvItem \cup {Unused}]
    /\ count \in Nat
    /\ answer \in [rc : {0, -1, -2, -3, -4}, out : Value \cup {Nothing}]

\* No key is in two slots, also when a slot before it was freed after it was
\* stored: kv_apply would delete or replace only one of them.
KeysDiffer == \A s, t \in Used : items[s].key = items[t].key => s = t

\* The number "show" prints (node.cpp:21) is that of the items it lists.
CountOfItems == count = Cardinality(Used)

\* The map that the slots stand for.
Stored == {items[s].key : s \in Used}
Contents == [k \in Stored |-> items[CHOOSE s \in Used : items[s].key = k].value]

Map == INSTANCE KvMap WITH map <- Contents, Capacity <- RAFT_MAX_LOG

\* Whatever is set, deleted and set again, kv_get answers as a map does, and
\* kv_apply reports a full store only when it holds as many keys as slots.
BehavesLikeAMap == Map!Spec

=============================================================================
