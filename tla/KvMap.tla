-------------------------------- MODULE KvMap --------------------------------
(***************************************************************************)
(* What the key-value store promises (the comments of kv_apply and kv_get  *)
(* in src/include/raft_kv.hpp): a map of at most Capacity keys.  answer is *)
(* what the last call returned: 0 on success, -1 when not found, a lower   *)
(* number on invalid input or a full store, and the value read.            *)
(***************************************************************************)
EXTENDS Integers, FiniteSets

CONSTANTS Key, Value, Nothing, Capacity

VARIABLES map, answer

Answer(rc, out) == [rc |-> rc, out |-> out]
Done == Answer(0, Nothing)

Init == map = [k \in {} |-> Nothing] /\ answer = Done

Set(k, v) ==
    \/ /\ k \in DOMAIN map \/ Cardinality(DOMAIN map) < Capacity
       /\ map' = [x \in DOMAIN map \cup {k} |-> IF x = k THEN v ELSE map[x]]
       /\ answer' = Done
    \/ /\ k \notin DOMAIN map /\ Cardinality(DOMAIN map) >= Capacity
       /\ answer' = Answer(-4, Nothing)
       /\ UNCHANGED map

Delete(k) ==
    /\ map' = [x \in DOMAIN map \ {k} |-> map[x]]
    /\ answer' = Done

Get(k) ==
    /\ answer' = IF k \in DOMAIN map THEN Answer(0, map[k]) ELSE Answer(-1, Nothing)
    /\ UNCHANGED map

Refuse == answer' \in {Answer(-2, Nothing), Answer(-3, Nothing)} /\ UNCHANGED map

Next ==
    \/ \E k \in Key, v \in Value : Set(k, v)
    \/ \E k \in Key : Delete(k) \/ Get(k)
    \/ Refuse

Spec == Init /\ [][Next]_<<map, answer>>
=============================================================================
