---------------------------- MODULE CompactArray ----------------------------
(***************************************************************************)
(* A CompactArray and its users.  A user takes a slot with get() and gives *)
(* back, with remove(), only a slot it holds: the discipline create() and  *)
(* burn() of EntityManager and ComponentManager are meant to follow.       *)
(***************************************************************************)
EXTENDS CompactArrayOps, FiniteSets

CONSTANTS Holders       \* the elements in use: entities, components

ASSUME HoldersAssumption == IsFiniteSet(Holders)

None == -1              \* the index of an element that is not in the array

VARIABLES arr,          \* the bookkeeping of the array
          stamp,        \* the index stored in each slot by set_index()
          slot,         \* history: the slot each holder has
          peak          \* history: the most slots ever held at once

vars == <<arr, stamp, slot, peak>>

Busy(s) == {h \in Holders : s[h] # None}

Init ==
    /\ arr = New
    /\ stamp = [i \in Slots |-> None]
    /\ slot = [h \in Holders |-> None]
    /\ peak = 0

\* get(), by a user that has no slot.
GetSlot(h) ==
    /\ slot[h] = None
    /\ MayGet(arr)
    /\ arr' = Get(arr)
    /\ stamp' = [stamp EXCEPT ![Top(arr)] = Top(arr)]
    /\ slot' = [slot EXCEPT ![h] = Top(arr)]
    /\ peak' = IF Cardinality(Busy(slot)) = peak THEN peak + 1 ELSE peak

\* remove(), by a user of its own slot.  The slot keeps its stored index.
RemoveSlot(h) ==
    /\ slot[h] # None
    /\ arr' = Remove(arr, stamp[slot[h]])
    /\ slot' = [slot EXCEPT ![h] = None]
    /\ UNCHANGED <<stamp, peak>>

Next == \E h \in Holders : GetSlot(h) \/ RemoveSlot(h)

Spec == Init /\ [][Next]_vars

-----------------------------------------------------------------------------
\* Every variable has its type: in particular _back, _size and the stacked
\* indices of CompactArray.h stay within their width.
TypeOK ==
    /\ arr \in Array
    /\ stamp \in [Slots -> Slots \cup {None}]
    /\ slot \in [Holders -> Slots \cup {None}]
    /\ peak \in Nat

\* get() never hands out a slot that another user still holds.
NoAliasing ==
    \A g, h \in Holders : g # h /\ slot[g] # None => slot[g] # slot[h]

\* The free stack holds no slot twice and loses none: the held slots, which _size
\* counts, and the stacked ones together make up 0 .. _back.
Accounting ==
    /\ WellStacked(arr)
    /\ arr.size = Cardinality(Busy(slot))

\* valid(i) answers whether slot i is held, for every i that is not negative
\* (it also accepts -1 as soon as the array is not empty).
ValidIsHeld ==
    \A i \in Slots : Valid(arr, i) <=> \E h \in Holders : slot[h] = i

\* _back, which get() never compares with _capacity, is exactly the largest number
\* of slots ever held at once: the array leaves its storage only if its users do.
BackIsPeak == arr.back = peak

\* An iteration visits every held slot.
IterationCoversHeld ==
    \A h \in Busy(slot) : slot[h] \in Visited(arr, stamp)

\* A held slot lies below _back, is not on the free stack and stores its own index.
HeldShape ==
    \A h \in Busy(slot) :
        /\ slot[h] < arr.back
        /\ slot[h] \notin Free(arr)
        /\ stamp[slot[h]] = slot[h]

\* The inductive invariant.
IInv ==
    TypeOK /\ HeldShape /\ NoAliasing /\ Accounting /\ ValidIsHeld /\ BackIsPeak

\* The array implements the slot pool.
Pool == INSTANCE SlotPool
PoolSpec == Pool!Spec
=============================================================================
