---------------------------- MODULE KvStoreProofs ----------------------------
(***************************************************************************)
(* What is proved of KvStore, for all keys and values and any number of    *)
(* slots.                                                                  *)
(***************************************************************************)
EXTENDS KvStore, FiniteSetTheorems, TLAPS

\* A search of some slots from the start stops at one of them.
LEMMA FirstOfMember ==
  ASSUME NEW S \in SUBSET Slot, S # {} PROVE FirstOf(S) \in S
<1>1. S \subseteq Nat
  BY SlotAssumption DEF Slot
<1>2. PICK m \in S : \A k \in S : <<k, m>> \notin OpToRel(<, Nat)
  BY <1>1, WFMin, NatLessThanWellFounded, Zenon
<1>3. \A k \in S : ~ (k < m)
  BY <1>1, <1>2, Zenon DEF OpToRel
<1>4. \A k \in S : m <= k
  BY <1>1, <1>3
<1> QED BY <1>4 DEF FirstOf

\* There are as many slots as the store has room for, and finitely many in use.
LEMMA SlotsAreFinite ==
  /\ IsFiniteSet(Slot) /\ Cardinality(Slot) = RAFT_MAX_LOG
  /\ IsFiniteSet(Used) /\ Cardinality(Used) \in Nat
  /\ Cardinality(Used) <= RAFT_MAX_LOG
  /\ Cardinality(Used) = RAFT_MAX_LOG => Used = Slot
<1>1. IsFiniteSet(Slot) /\ Cardinality(Slot) = RAFT_MAX_LOG
  BY FS_Interval, SlotAssumption DEF Slot
<1>2. Used \in SUBSET Slot
  BY DEF Used
<1> QED BY <1>1, <1>2, FS_Subset, FS_CardinalityType, SlotAssumption

\* If no key is in two slots, the slot with the key of a slot is that slot.
LEMMA SlotOfKey ==
  ASSUME NEW U, NEW I, \A s, t \in U : I[s].key = I[t].key => s = t, NEW s \in U
  PROVE  (CHOOSE t \in U : I[t].key = I[s].key) = s
OBVIOUS

-----------------------------------------------------------------------------
(***************************************************************************)
(* Type correctness, keys in one slot each, and the count.                 *)
(***************************************************************************)

KvInv == TypeOK /\ KeysDiffer /\ CountOfItems

LEMMA KvInit == Init => KvInv
<1> SUFFICES ASSUME Init PROVE KvInv
  OBVIOUS
<1>1. Used = {}
  BY DEF Init, Used
<1>2. Cardinality(Used) = 0
  BY <1>1, FS_EmptySet
<1> QED BY <1>1, <1>2 DEF Init, KvInv, TypeOK, KeysDiffer, CountOfItems, Answer

\* Where kv_apply finds a key, it is in the one slot that holds it.
LEMMA Found ==
  ASSUME KvInv, NEW k, Holding(k) # {}
  PROVE  /\ FirstOf(Holding(k)) \in Used
         /\ items[FirstOf(Holding(k))].key = k
         /\ \A s \in Used : items[s].key = k => s = FirstOf(Holding(k))
<1>1. Holding(k) \in SUBSET Slot
  BY DEF Holding, Used
<1>2. FirstOf(Holding(k)) \in Holding(k)
  BY <1>1, FirstOfMember
<1> QED BY <1>2 DEF Holding, KvInv, KeysDiffer

\* Deleting a key frees its slot and no other, and takes it off the count.
LEMMA EraseSlot ==
  ASSUME KvInv, NEW k, Holding(k) # {}, erase(k)
  PROVE  /\ Used' = Used \ {FirstOf(Holding(k))}
         /\ \A s \in Used' : items'[s] = items[s]
         /\ items' \in [Slot -> KvItem \cup {Unused}]
         /\ KeysDiffer' /\ CountOfItems'
<1> DEFINE f == FirstOf(Holding(k))
<1>1. f \in Used /\ f \in Slot
  BY Found DEF Used
<1>2. items' = [items EXCEPT ![f] = Unused] /\ items \in [Slot -> KvItem \cup {Unused}]
  BY DEF erase, KvInv, TypeOK
<1>3. Used' = Used \ {f} /\ \A s \in Used' : items'[s] = items[s]
  BY <1>1, <1>2 DEF Used
<1>4. KeysDiffer'
  BY <1>3 DEF KvInv, KeysDiffer
<1>5. Cardinality(Used') = Cardinality(Used) - 1
  BY <1>1, <1>3, SlotsAreFinite, FS_RemoveElement
<1>6. Cardinality(Used') \in Nat
  BY <1>1, <1>3, SlotsAreFinite, FS_RemoveElement, FS_CardinalityType
<1>7. CountOfItems'
  BY <1>5, <1>6, SlotsAreFinite DEF erase, KvInv, CountOfItems
<1>8. items' \in [Slot -> KvItem \cup {Unused}]
  BY <1>2
<1> QED BY <1>3, <1>4, <1>7, <1>8

\* Replacing a value leaves the slots in use, their keys, and the other values.
LEMMA ReplaceValue ==
  ASSUME KvInv, NEW k \in Key, NEW v \in Value, Holding(k) # {},
         items' = [items EXCEPT ![FirstOf(Holding(k))] = [key |-> k, value |-> v]],
         UNCHANGED count
  PROVE  /\ Used' = Used
         /\ \A s \in Used : /\ items'[s].key = items[s].key
                            /\ items'[s].value = IF items[s].key = k THEN v ELSE items[s].value
         /\ items' \in [Slot -> KvItem \cup {Unused}]
         /\ KeysDiffer' /\ CountOfItems'
<1> DEFINE f == FirstOf(Holding(k))
           i == [key |-> k, value |-> v]
<1>1. f \in Used /\ f \in Slot /\ items[f].key = k /\ \A s \in Used : items[s].key = k => s = f
  BY Found DEF Used
<1>2. i \in KvItem /\ i # Unused /\ i.key = k /\ i.value = v
  BY UnusedAssumption DEF KvItem
<1>3. items' = [items EXCEPT ![f] = i] /\ items \in [Slot -> KvItem \cup {Unused}]
  BY DEF KvInv, TypeOK
<1> HIDE DEF f, i
<1>4. Used' = Used
  BY <1>1, <1>2, <1>3 DEF Used
<1>5. \A s \in Used : items'[s] = IF s = f THEN i ELSE items[s]
  BY <1>1, <1>3 DEF Used
<1>6. \A s \in Used : items'[s].key = items[s].key
  BY <1>1, <1>2, <1>5
<1>7. \A s \in Used : items'[s].value = IF items[s].key = k THEN v ELSE items[s].value
  BY <1>1, <1>2, <1>5
<1>8. KeysDiffer' /\ CountOfItems'
  BY <1>4, <1>6 DEF KvInv, KeysDiffer, CountOfItems
<1>9. items' \in [Slot -> KvItem \cup {Unused}]
  BY <1>1, <1>2, <1>3
<1> QED BY <1>4, <1>6, <1>7, <1>8, <1>9

\* A new item takes a slot that was free, and the count grows by one.
LEMMA InsertItem ==
  ASSUME KvInv, NEW k \in Key, NEW v \in Value, Holding(k) = {}, Used # Slot, insert(k, v)
  PROVE  \E f \in Slot \ Used :
         /\ Used' = Used \cup {f}
         /\ items'[f] = [key |-> k, value |-> v]
         /\ \A s \in Used : items'[s] = items[s]
         /\ items' \in [Slot -> KvItem \cup {Unused}]
         /\ KeysDiffer' /\ CountOfItems'
<1> DEFINE f == FirstOf(Slot \ Used)
           i == [key |-> k, value |-> v]
<1>1. f \in Slot \ Used
  BY FirstOfMember DEF Used
<1>2. i \in KvItem /\ i # Unused /\ i.key = k
  BY UnusedAssumption DEF KvItem
<1>3. items' = [items EXCEPT ![f] = i] /\ items \in [Slot -> KvItem \cup {Unused}]
  BY DEF insert, KvInv, TypeOK
<1> HIDE DEF f, i
<1>4. Used' = Used \cup {f} /\ items'[f] = i /\ \A s \in Used : items'[s] = items[s]
  BY <1>1, <1>2, <1>3 DEF Used
<1>5. \A s \in Used : items[s].key # k
  BY DEF Holding
<1>6. KeysDiffer'
  BY <1>2, <1>4, <1>5 DEF KvInv, KeysDiffer
<1>7. Cardinality(Used') = Cardinality(Used) + 1
  BY <1>1, <1>4, SlotsAreFinite, FS_AddElement
<1>8. CountOfItems'
  BY <1>7 DEF insert, KvInv, CountOfItems
<1>9. items' \in [Slot -> KvItem \cup {Unused}]
  BY <1>1, <1>2, <1>3
<1> QED BY <1>1, <1>4, <1>6, <1>8, <1>9 DEF i

LEMMA KvApplyInv ==
  ASSUME KvInv, NEW op, NEW k \in Key \cup {Invalid}, NEW v \in Value \cup {Invalid},
         kv_apply(op, k, v)
  PROVE  KvInv'
<1>1. answer' \in [rc : {0, -1, -2, -3, -4}, out : Value \cup {Nothing}]
  BY DEF kv_apply, Answer
<1>2. CASE UNCHANGED <<items, count>>
  BY <1>1, <1>2 DEF KvInv, TypeOK, KeysDiffer, CountOfItems, Used
<1>3. CASE Holding(k) # {} /\ erase(k)
  <2>1. count' \in Nat
    BY <1>3 DEF erase, KvInv, TypeOK
  <2> QED BY <1>1, <1>3, <2>1, EraseSlot DEF KvInv, TypeOK
<1>4. CASE /\ Valid(op, k, v) /\ op = "SET" /\ Holding(k) # {}
           /\ items' = [items EXCEPT ![FirstOf(Holding(k))] = [key |-> k, value |-> v]]
           /\ UNCHANGED count
  <2>1. k \in Key /\ v \in Value
    BY <1>4 DEF Valid
  <2>2. count' \in Nat
    BY <1>4 DEF KvInv, TypeOK
  <2> QED BY <1>1, <1>4, <2>1, <2>2, ReplaceValue DEF KvInv, TypeOK
<1>5. CASE Valid(op, k, v) /\ op = "SET" /\ Holding(k) = {} /\ Used # Slot /\ insert(k, v)
  <2>1. k \in Key /\ v \in Value
    BY <1>5 DEF Valid
  <2>2. count' \in Nat
    BY <1>5 DEF insert, KvInv, TypeOK
  <2> QED BY <1>1, <1>5, <2>1, <2>2, InsertItem DEF KvInv, TypeOK
<1> QED BY <1>2, <1>3, <1>4, <1>5 DEF kv_apply

LEMMA KvGetInv ==
  ASSUME KvInv, NEW k \in Key \cup {Invalid}, kv_get(k)
  PROVE  KvInv'
<1>1. CASE Holding(k) = {}
  BY <1>1 DEF kv_get, Answer, KvInv, TypeOK, KeysDiffer, CountOfItems, Used
<1>2. CASE Holding(k) # {}
  <2>1. items[FirstOf(Holding(k))] \in KvItem
    BY <1>2, Found DEF KvInv, TypeOK, Used
  <2>2. items[FirstOf(Holding(k))].value \in Value
    BY <2>1 DEF KvItem
  <2> QED BY <2>2 DEF kv_get, Answer, KvInv, TypeOK, KeysDiffer, CountOfItems, Used
<1> QED BY <1>1, <1>2

LEMMA KvNext == KvInv /\ [Next]_vars => KvInv'
<1> SUFFICES ASSUME KvInv, [Next]_vars PROVE KvInv'
  OBVIOUS
<1>1. CASE Next
  BY <1>1, KvApplyInv, KvGetInv DEF Next
<1>2. CASE UNCHANGED vars
  BY <1>2 DEF vars, KvInv, TypeOK, KeysDiffer, CountOfItems, Used
<1> QED BY <1>1, <1>2

\* KvInv holds in every state of the store.
THEOREM KvCorrect == Spec => []KvInv
  BY KvInit, KvNext, PTL DEF Spec

\* However keys were set and deleted, the store never holds one in two slots.
THEOREM OneSlotPerKey == Spec => []KeysDiffer
<1>1. KvInv => KeysDiffer
  BY DEF KvInv
<1> QED BY <1>1, KvCorrect, PTL

\* The count that "show" prints is that of the items it lists.
THEOREM CountIsRight == Spec => []CountOfItems
<1>1. KvInv => CountOfItems
  BY DEF KvInv
<1> QED BY <1>1, KvCorrect, PTL

-----------------------------------------------------------------------------
(***************************************************************************)
(* The store behaves like a map.                                           *)
(***************************************************************************)

\* Looking a stored key up in the map gives the value of its slot, before and
\* after a step alike.
LEMMA ContentsOf ==
  ASSUME NEW U, NEW I, \A s, t \in U : I[s].key = I[t].key => s = t
  PROVE  LET K == {I[s].key : s \in U}
             C == [k \in K |-> I[CHOOSE s \in U : I[s].key = k].value]
         IN  \A s \in U : C[I[s].key] = I[s].value
  BY SlotOfKey

\* After a step too, the map is a function on the keys stored.
LEMMA ContentsNext == Contents' = [x \in Stored' |-> Contents'[x]]
  BY DEF Contents

\* The map has as many keys as there are slots in use.
LEMMA StoredCard ==
  ASSUME KeysDiffer PROVE Cardinality(Stored) = Cardinality(Used)
<1> DEFINE f == [s \in Used |-> items[s].key]
<1>1. f \in Surjection(Used, Stored)
  BY DEF Surjection, Stored
<1>2. f \in Injection(Used, Stored)
  BY DEF Injection, IsInjective, Stored, KeysDiffer
<1> QED BY <1>1, <1>2, SlotsAreFinite, FS_Surjection

\* The map counts its keys as the store counts its slots.
LEMMA SameCardinality == ASSUME NEW S PROVE Map!Cardinality(S) = Cardinality(S)
  BY DEF Map!Cardinality, Cardinality

\* A key is found exactly if the map has it, with the value of the map.
LEMMA HoldingStored ==
  ASSUME KvInv, NEW k
  PROVE  /\ k \in Stored <=> Holding(k) # {}
         /\ k \in Stored => items[FirstOf(Holding(k))].value = Contents[k]
<1>1. k \in Stored <=> Holding(k) # {}
  BY DEF Stored, Holding
<1>2. CASE Holding(k) # {}
  <2>1. FirstOf(Holding(k)) \in Used /\ items[FirstOf(Holding(k))].key = k
    BY <1>2, Found
  <2>2. Contents[items[FirstOf(Holding(k))].key] = items[FirstOf(Holding(k))].value
    BY <2>1, ContentsOf DEF KvInv, KeysDiffer, Contents, Stored
  <2> QED BY <1>1, <2>1, <2>2
<1> QED BY <1>1, <1>2

LEMMA KvApplyMap ==
  ASSUME KvInv, KvInv', NEW op, NEW k \in Key \cup {Invalid}, NEW v \in Value \cup {Invalid},
         kv_apply(op, k, v)
  PROVE  Map!Next \/ UNCHANGED <<Contents, answer>>
<1> USE DEF Answer, Map!Answer, Map!Done
<1>1. ASSUME UNCHANGED items PROVE UNCHANGED Contents
  BY <1>1 DEF Contents, Stored, Used
<1>2. CASE UNCHANGED items /\ answer' \in {Answer(-2, Nothing), Answer(-3, Nothing)}
  BY <1>1, <1>2 DEF Map!Next, Map!Refuse
<1>3. CASE Valid(op, k, v) /\ op = "DEL" /\ answer' = Answer(0, Nothing)
           /\ IF Holding(k) # {} THEN erase(k) ELSE UNCHANGED <<items, count>>
  <2>1. k \in Key
    BY <1>3 DEF Valid
  <2>2. CASE Holding(k) # {}
    <3> DEFINE f == FirstOf(Holding(k))
    <3>1. f \in Used /\ items[f].key = k /\ \A s \in Used : items[s].key = k => s = f
      BY <2>2, Found
    <3>2. Used' = Used \ {f} /\ \A s \in Used' : items'[s] = items[s]
      BY <1>3, <2>2, EraseSlot
    <3> HIDE DEF f
    <3>3. Stored' = Stored \ {k}
      BY <3>1, <3>2 DEF Stored
    <3>4. ASSUME NEW x \in Stored \ {k} PROVE Contents'[x] = Contents[x]
      <4>1. PICK s \in Used' : items'[s].key = x
        BY <3>3, <3>4 DEF Stored
      <4>2. Contents'[x] = items'[s].value
        BY <4>1, ContentsOf DEF KvInv, KeysDiffer, Contents, Stored
      <4>3. s \in Used /\ items[s].key = x
        BY <3>2, <4>1
      <4>4. Contents[x] = items[s].value
        BY <4>3, ContentsOf DEF KvInv, KeysDiffer, Contents, Stored
      <4> QED BY <3>2, <4>1, <4>2, <4>4
    <3>5. Contents' = [x \in Stored \ {k} |-> Contents[x]]
      BY <3>3, <3>4 DEF Contents
    <3>6. DOMAIN Contents = Stored
      BY DEF Contents
    <3>7. Map!Delete(k)
      BY <1>3, <3>5, <3>6 DEF Map!Delete
    <3> QED BY <2>1, <3>7 DEF Map!Next
  <2>3. CASE Holding(k) = {}
    <3>1. k \notin Stored /\ DOMAIN Contents = Stored /\ UNCHANGED Contents
      BY <1>1, <1>3, <2>3, HoldingStored DEF Contents
    <3>2. Contents = [x \in Stored |-> Contents[x]] /\ Stored \ {k} = Stored
      BY <3>1 DEF Contents
    <3>3. Map!Delete(k)
      BY <1>3, <3>1, <3>2 DEF Map!Delete
    <3> QED BY <2>1, <3>3 DEF Map!Next
  <2> QED BY <2>2, <2>3
<1>4. CASE /\ Valid(op, k, v) /\ op = "SET" /\ Holding(k) # {}
           /\ items' = [items EXCEPT ![FirstOf(Holding(k))] = [key |-> k, value |-> v]]
           /\ answer' = Answer(0, Nothing) /\ UNCHANGED count
  <2>1. k \in Key /\ v \in Value
    BY <1>4 DEF Valid
  <2>2. /\ Used' = Used
        /\ \A s \in Used : /\ items'[s].key = items[s].key
                           /\ items'[s].value = IF items[s].key = k THEN v ELSE items[s].value
    BY <1>4, <2>1, ReplaceValue
  <2>3. k \in Stored
    BY <1>4, HoldingStored
  <2>4. Stored' = Stored
    BY <2>2 DEF Stored
  <2>5. ASSUME NEW x \in Stored PROVE Contents'[x] = IF x = k THEN v ELSE Contents[x]
    <3>1. PICK s \in Used : items[s].key = x
      BY <2>5 DEF Stored
    <3>2. Contents'[x] = items'[s].value
      BY <2>2, <3>1, ContentsOf DEF KvInv, KeysDiffer, Contents, Stored
    <3>3. Contents[x] = items[s].value
      BY <3>1, ContentsOf DEF KvInv, KeysDiffer, Contents, Stored
    <3> QED BY <2>2, <3>1, <3>2, <3>3
  <2>6. DOMAIN Contents = Stored /\ Stored \cup {k} = Stored
    BY <2>3 DEF Contents
  <2>7. Contents' = [x \in Stored |-> IF x = k THEN v ELSE Contents[x]]
    BY <2>4, <2>5 DEF Contents
  <2>8. Map!Set(k, v)
    BY <1>4, <2>3, <2>6, <2>7 DEF Map!Set
  <2> QED BY <2>1, <2>8 DEF Map!Next
<1>5. CASE /\ Valid(op, k, v) /\ op = "SET" /\ Holding(k) = {} /\ Used # Slot
           /\ insert(k, v) /\ answer' = Answer(0, Nothing)
  <2>1. k \in Key /\ v \in Value
    BY <1>5 DEF Valid
  <2>2. PICK f \in Slot \ Used : /\ Used' = Used \cup {f}
                                 /\ items'[f] = [key |-> k, value |-> v]
                                 /\ \A s \in Used : items'[s] = items[s]
    BY <1>5, <2>1, InsertItem
  <2>3. k \notin Stored
    BY <1>5, HoldingStored
  <2>4. Stored' = Stored \cup {k}
    BY <2>2 DEF Stored
  <2>5. ASSUME NEW x \in Stored \cup {k} PROVE Contents'[x] = IF x = k THEN v ELSE Contents[x]
    <3>1. CASE x = k
      <4>1. Contents'[items'[f].key] = items'[f].value
        BY <2>2, ContentsOf DEF KvInv, KeysDiffer, Contents, Stored
      <4> QED BY <2>2, <3>1, <4>1
    <3>2. CASE x # k
      <4>1. PICK s \in Used : items[s].key = x
        BY <2>5, <3>2 DEF Stored
      <4>2. Contents'[items'[s].key] = items'[s].value
        BY <2>2, <4>1, ContentsOf DEF KvInv, KeysDiffer, Contents, Stored
      <4>3. Contents[x] = items[s].value
        BY <4>1, ContentsOf DEF KvInv, KeysDiffer, Contents, Stored
      <4> QED BY <2>2, <3>2, <4>1, <4>2, <4>3
    <3> QED BY <3>1, <3>2
  <2>6. Cardinality(Stored) < RAFT_MAX_LOG
    BY <1>5, StoredCard, SlotsAreFinite, SlotAssumption DEF KvInv
  <2>7. DOMAIN Contents = Stored
    BY DEF Contents
  <2>8. Contents' = [x \in Stored \cup {k} |-> IF x = k THEN v ELSE Contents[x]]
    <3>1. Contents' = [x \in Stored \cup {k} |-> Contents'[x]]
      BY <2>4, ContentsNext, Zenon
    <3> QED BY <2>5, <3>1, Zenon
  <2>9. Map!Set(k, v)
    BY <1>5, <2>6, <2>7, <2>8, SameCardinality DEF Map!Set
  <2> QED BY <2>1, <2>9 DEF Map!Next
<1>6. CASE /\ Valid(op, k, v) /\ op = "SET" /\ Holding(k) = {} /\ Used = Slot
           /\ answer' = Answer(-4, Nothing) /\ UNCHANGED items
  <2>1. k \in Key /\ v \in Value
    BY <1>6 DEF Valid
  <2>2. k \notin Stored
    BY <1>6, HoldingStored
  <2>3. Cardinality(Stored) >= RAFT_MAX_LOG
    BY <1>6, StoredCard, SlotsAreFinite, SlotAssumption DEF KvInv
  <2>4. DOMAIN Contents = Stored /\ UNCHANGED Contents
    BY <1>1, <1>6 DEF Contents
  <2>5. Map!Set(k, v)
    BY <1>6, <2>2, <2>3, <2>4, SameCardinality DEF Map!Set
  <2> QED BY <2>1, <2>5 DEF Map!Next
<1> QED BY <1>2, <1>3, <1>4, <1>5, <1>6 DEF kv_apply

LEMMA KvGetMap ==
  ASSUME KvInv, NEW k \in Key \cup {Invalid}, kv_get(k)
  PROVE  Map!Next
<1> USE DEF Answer, Map!Answer
<1>1. UNCHANGED Contents /\ DOMAIN Contents = Stored
  BY DEF kv_get, Contents, Stored, Used
<1>2. CASE k = Invalid
  BY <1>1, <1>2 DEF kv_get, Map!Next, Map!Refuse
<1>3. CASE k # Invalid
  <2>1. Map!Get(k)
    BY <1>1, <1>3, HoldingStored DEF kv_get, Map!Get
  <2> QED BY <1>3, <2>1 DEF Map!Next
<1> QED BY <1>2, <1>3

LEMMA KvInitMap == Init => Map!Init
<1> SUFFICES ASSUME Init PROVE Map!Init
  OBVIOUS
<1>1. Stored = {}
  BY DEF Init, Stored, Used
<1> QED BY <1>1 DEF Init, Map!Init, Map!Done, Map!Answer, Answer, Contents

\* The array of slots implements the map that raft_kv.hpp promises: the
\* values read, and when the store is full.
THEOREM StoreIsAMap == Spec => BehavesLikeAMap
<1>1. KvInv /\ KvInv' /\ [Next]_vars => [Map!Next]_<<Contents, answer>>
  <2> SUFFICES ASSUME KvInv, KvInv', [Next]_vars PROVE [Map!Next]_<<Contents, answer>>
    OBVIOUS
  <2>1. CASE Next
    BY <2>1, KvApplyMap, KvGetMap DEF Next
  <2>2. CASE UNCHANGED vars
    BY <2>2 DEF vars, Contents, Stored, Used
  <2> QED BY <2>1, <2>2
<1> QED BY <1>1, KvInitMap, KvCorrect, PTL DEF Spec, BehavesLikeAMap, Map!Spec

=============================================================================
