------------------------- MODULE CompactArrayProofs -------------------------
(***************************************************************************)
(* Proofs about CompactArray, for every set of users and every index width.*)
(* The lemmas on get() and remove() carry the reasoning about the stack;   *)
(* the invariant proof is then about sets and functions only.              *)
(***************************************************************************)
EXTENDS CompactArray, SequenceTheorems, FiniteSetTheorems, TLAPS

-----------------------------------------------------------------------------
(* get() and remove(). *)

\* An index in range is stored as it is.
LEMMA WrapInRange ==
    ASSUME NEW i \in 0 .. IndexRange - 1
    PROVE  Wrap(i) = i
BY IndexRangeAssumption DEF Wrap

\* get() pops the top of the stack and keeps the stack in shape; _back grows exactly
\* when every slot below it is in use.
LEMMA GetLemma ==
    ASSUME NEW a \in Array, WellStacked(a), MayGet(a)
    PROVE  /\ Get(a) \in Array
           /\ WellStacked(Get(a))
           /\ Top(a) \in Slots
           /\ Top(a) \in Free(a)
           /\ Top(a) < Get(a).back
           /\ Top(a) \notin Free(Get(a))
           /\ Free(a) \ {Top(a)} \subseteq Free(Get(a))
           /\ \A i \in Free(Get(a)) : i \in Free(a) \/ i = Get(a).back
           /\ a.back <= Get(a).back
           /\ Get(a).size = a.size + 1
           /\ Get(a).back = IF a.size = a.back THEN a.back + 1 ELSE a.back
<1> DEFINE q == a.indicies
           n == Len(q)
           p == Popped(a)
<1>1. /\ n \in Nat /\ n >= 1 /\ DOMAIN q = 1 .. n
      /\ q \in Seq(0 .. IndexRange - 1)
      /\ \A k \in 1 .. n : q[k] \in 0 .. IndexRange - 1
      /\ a.back \in 0 .. IndexRange - 2
      /\ a.size \in 0 .. a.back
      /\ a.size + n = a.back + 1
  BY IndexRangeAssumption DEF Array, WellStacked, MayGet
<1>2. /\ q[1] = a.back
      /\ \A k \in 2 .. n : q[k] < a.back
      /\ \A j, k \in 1 .. n : j # k => q[j] # q[k]
  BY <1>1 DEF WellStacked
<1>3. /\ Top(a) = q[n]
      /\ Free(a) = {q[k] : k \in 1 .. n}
      /\ q[n] \in 0 .. IndexRange - 1
      /\ 1 .. n = (1 .. n - 1) \cup {n}
  BY <1>1 DEF Top, Free
<1>4. /\ p \in Seq(0 .. IndexRange - 1)
      /\ Len(p) = n - 1
      /\ \A k \in 1 .. n - 1 : p[k] = q[k]
      /\ DOMAIN p = 1 .. n - 1
  <2>1. /\ SubSeq(q, 1, n - 1) \in Seq(0 .. IndexRange - 1)
        /\ Len(SubSeq(q, 1, n - 1)) = IF 1 <= n - 1 THEN n - 1 - 1 + 1 ELSE 0
        /\ \A k \in 1 .. n - 1 - 1 + 1 : SubSeq(q, 1, n - 1)[k] = q[1 + k - 1]
    <3>1. \A k \in 1 .. n - 1 : q[k] \in 0 .. IndexRange - 1
      BY <1>1
    <3>2. 1 \in Int /\ n - 1 \in Int
      BY <1>1
    <3> HIDE DEF n, q
    <3> QED
      BY <3>1, <3>2, SubSeqProperties
  <2>2. p = SubSeq(q, 1, n - 1)
    BY DEF Popped
  <2> HIDE DEF p, q, n
  <2>3. p \in Seq(0 .. IndexRange - 1) /\ Len(p) = n - 1
    BY <1>1, <2>1, <2>2
  <2>4. DOMAIN p = 1 .. n - 1
    BY <2>3, LenProperties
  <2> QED
    BY <1>1, <2>1, <2>2, <2>3, <2>4
<1>5. Wrap(a.size + 1) = a.size + 1
  BY <1>1, WrapInRange, IndexRangeAssumption
<1> HIDE DEF q, n, p
<1>6. CASE n = 1
  <2> DEFINE r == Append(p, a.back + 1)
  <2>1. Top(a) = a.back
    BY <1>2, <1>3, <1>6
  <2>2. Wrap(Top(a) + 1) = a.back + 1
    BY <2>1, <1>1, WrapInRange, IndexRangeAssumption
  <2>3. Get(a) = [size |-> a.size + 1, back |-> a.back + 1, indicies |-> r]
    BY <2>1, <2>2, <1>5 DEF Get, p
  <2>4. /\ r \in Seq(0 .. IndexRange - 1)
        /\ Len(r) = 1
        /\ DOMAIN r = 1 .. 1
        /\ r[1] = a.back + 1
    BY <1>1, <1>4, <1>6, IndexRangeAssumption
  <2> HIDE DEF r
  <2>5. Free(Get(a)) = {a.back + 1}
    BY <2>3, <2>4 DEF Free
  <2>6. Free(a) = {a.back}
    BY <1>2, <1>3, <1>6
  <2>7. Get(a) \in Array
    BY <2>3, <2>4, <1>1, IndexRangeAssumption DEF Array
  <2>8. WellStacked(Get(a))
    <3>1. \A j, k \in 1 .. 1 : j = k
      OBVIOUS
    <3>2. /\ Get(a).indicies = r
          /\ Get(a).back = a.back + 1
          /\ Get(a).size = a.size + 1
      BY <2>3
    <3>3. a.size + 1 + 1 = a.back + 1 + 1
      BY <1>1, <1>6
    <3>4. \A k \in 2 .. 1 : r[k] < a.back + 1
      OBVIOUS
    <3> QED
      BY <3>1, <3>2, <3>3, <3>4, <2>4 DEF WellStacked
  <2>9. a.size = a.back /\ Get(a).back = a.back + 1 /\ Get(a).size = a.size + 1
    BY <2>3, <1>1, <1>6
  <2> QED
    BY <2>1, <2>5, <2>6, <2>7, <2>8, <2>9, <1>1 DEF Slots
<1>7. CASE n > 1
  <2>1. Top(a) < a.back /\ Top(a) # a.back
    BY <1>1, <1>2, <1>3, <1>7
  <2>2. Get(a) = [size |-> a.size + 1, back |-> a.back, indicies |-> p]
    BY <2>1, <1>5 DEF Get, p
  <2>3. Free(Get(a)) = {q[k] : k \in 1 .. n - 1}
    BY <1>4, <2>2 DEF Free
  <2>4. Top(a) \notin Free(Get(a))
    BY <1>1, <1>2, <1>3, <2>3
  <2>5. Get(a) \in Array
    BY <2>2, <1>1, <1>4, IndexRangeAssumption DEF Array
  <2>6. WellStacked(Get(a))
    <3>1. /\ Get(a).indicies = p
          /\ Get(a).back = a.back
          /\ Get(a).size = a.size + 1
      BY <2>2
    <3>2. /\ n - 1 >= 1
          /\ p[1] = a.back
          /\ \A k \in 2 .. n - 1 : p[k] < a.back
          /\ a.size + 1 + (n - 1) = a.back + 1
      BY <1>1, <1>2, <1>4, <1>7
    <3>3. ASSUME NEW j \in 1 .. n - 1, NEW k \in 1 .. n - 1, j # k
          PROVE  p[j] # p[k]
      BY <3>3, <1>1, <1>2, <1>4
    <3> QED
      BY <3>1, <3>2, <3>3, <1>4 DEF WellStacked
  <2>7. /\ Top(a) \in Free(a)
        /\ Free(a) \ {Top(a)} \subseteq Free(Get(a))
        /\ Free(Get(a)) \subseteq Free(a)
    BY <2>3, <1>1, <1>3
  <2>8. /\ a.size # a.back
        /\ Get(a).back = a.back
        /\ Get(a).size = a.size + 1
    BY <2>2, <1>1, <1>7
  <2>9. Top(a) \in Slots
    BY <2>1, <1>1, <1>3, IndexRangeAssumption DEF Slots
  <2> QED
    BY <2>1, <2>4, <2>5, <2>6, <2>7, <2>8, <2>9, <1>1
<1>8. n = 1 \/ n > 1
  BY <1>1
<1> QED
  BY <1>6, <1>7, <1>8

\* remove() of a slot in use puts it on the stack and keeps the stack in shape.
LEMMA RemoveLemma ==
    ASSUME NEW a \in Array, WellStacked(a), a.size >= 1,
           NEW i \in 0 .. a.back - 1, i \notin Free(a)
    PROVE  /\ Remove(a, i) \in Array
           /\ WellStacked(Remove(a, i))
           /\ Free(Remove(a, i)) = Free(a) \cup {i}
           /\ Remove(a, i).back = a.back
           /\ Remove(a, i).size = a.size - 1
<1> DEFINE q == a.indicies
           n == Len(q)
           r == Append(q, i)
<1>1. /\ n \in Nat /\ n >= 1 /\ DOMAIN q = 1 .. n
      /\ q \in Seq(0 .. IndexRange - 1)
      /\ a.back \in 0 .. IndexRange - 1
      /\ a.size \in 1 .. IndexRange - 1
      /\ a.size + n = a.back + 1
      /\ i \in 0 .. IndexRange - 1
  BY IndexRangeAssumption DEF Array, WellStacked
<1>2. /\ q[1] = a.back
      /\ \A k \in 2 .. n : q[k] < a.back
      /\ \A j, k \in 1 .. n : j # k => q[j] # q[k]
  BY <1>1 DEF WellStacked
<1>3. Free(a) = {q[k] : k \in 1 .. n}
  BY <1>1 DEF Free
<1>4. \A k \in 1 .. n : q[k] # i
  BY <1>3
<1>5. /\ Wrap(i) = i
      /\ Wrap(a.size - 1) = a.size - 1
  BY <1>1, WrapInRange, IndexRangeAssumption
<1>6. Remove(a, i) = [size |-> a.size - 1, back |-> a.back, indicies |-> r]
  BY <1>5 DEF Remove
<1>7. /\ r \in Seq(0 .. IndexRange - 1)
      /\ Len(r) = n + 1
      /\ DOMAIN r = 1 .. n + 1
      /\ \A k \in 1 .. n : r[k] = q[k]
      /\ r[n + 1] = i
  BY <1>1
<1> HIDE DEF q, n, r
<1>8. Remove(a, i) \in Array
  BY <1>1, <1>6, <1>7, IndexRangeAssumption DEF Array
<1>9. WellStacked(Remove(a, i))
  <2>1. /\ n + 1 >= 1
        /\ r[1] = a.back
        /\ \A k \in 2 .. n + 1 : r[k] < a.back
        /\ a.size - 1 + (n + 1) = a.back + 1
    BY <1>1, <1>2, <1>7
  <2>2. ASSUME NEW j \in 1 .. n + 1, NEW k \in 1 .. n + 1, j # k
        PROVE  r[j] # r[k]
    BY <2>2, <1>1, <1>2, <1>4, <1>7
  <2> QED
    BY <2>1, <2>2, <1>6, <1>7 DEF WellStacked
<1>10. Free(Remove(a, i)) = Free(a) \cup {i}
  <2>1. Free(Remove(a, i)) = {r[k] : k \in 1 .. n + 1}
    BY <1>6, <1>7 DEF Free
  <2>2. 1 .. n + 1 = (1 .. n) \cup {n + 1}
    BY <1>1
  <2> QED
    BY <2>1, <2>2, <1>3, <1>7
<1> QED
  BY <1>6, <1>8, <1>9, <1>10

\* When every slot below _back is in use, get() hands out slot _back; otherwise some
\* slot below _back is free.
LEMMA FullStack ==
    ASSUME NEW a \in Array, WellStacked(a)
    PROVE  /\ a.size = a.back => Free(a) = {a.back} /\ Top(a) = a.back
           /\ a.size # a.back => \E i \in Free(a) : i \in 0 .. a.back - 1
<1> DEFINE q == a.indicies
           n == Len(q)
<1>1. /\ n \in Nat /\ n >= 1 /\ DOMAIN q = 1 .. n
      /\ \A k \in 1 .. n : q[k] \in Nat
      /\ q[1] = a.back
      /\ \A k \in 2 .. n : q[k] < a.back
  BY IndexRangeAssumption DEF Array, WellStacked
<1>2. a.size \in Int /\ a.back \in Int /\ a.size + n = a.back + 1
  BY IndexRangeAssumption DEF Array, WellStacked
<1>3. Free(a) = {q[k] : k \in 1 .. n} /\ Top(a) = q[n]
  BY <1>1 DEF Free, Top
<1> HIDE DEF q, n
<1>4. \A s, b \in Int : s + n = b + 1 => (s = b <=> n = 1)
  BY <1>1
<1>5. a.size = a.back <=> n = 1
  BY <1>2, <1>4
<1>6. ASSUME n = 1 PROVE Free(a) = {a.back} /\ Top(a) = a.back
  BY <1>1, <1>3, <1>6
<1>7. ASSUME n # 1 PROVE \E i \in Free(a) : i \in 0 .. a.back - 1
  <2>1. 2 \in 1 .. n /\ q[2] \in 0 .. a.back - 1
    BY <1>1, <1>2, <1>7
  <2> QED
    BY <2>1, <1>3
<1> QED
  BY <1>5, <1>6, <1>7

-----------------------------------------------------------------------------
(* The array and its users. *)

\* The users that hold a slot, after one more takes a slot or gives its slot back.
LEMMA BusyLemma ==
    ASSUME NEW s \in [Holders -> Slots \cup {None}], NEW h \in Holders
    PROVE  /\ IsFiniteSet(Busy(s)) /\ Cardinality(Busy(s)) \in Nat
           /\ \A i \in Slots : s[h] = None =>
                Cardinality(Busy([s EXCEPT ![h] = i])) = Cardinality(Busy(s)) + 1
           /\ s[h] # None =>
                /\ Cardinality(Busy([s EXCEPT ![h] = None])) = Cardinality(Busy(s)) - 1
                /\ Cardinality(Busy(s)) >= 1
<1>1. IsFiniteSet(Busy(s)) /\ Cardinality(Busy(s)) \in Nat
  <2>1. Busy(s) \in SUBSET Holders
    BY DEF Busy
  <2> QED
    BY <2>1, FS_Subset, FS_CardinalityType, HoldersAssumption
<1>2. ASSUME NEW i \in Slots, s[h] = None
      PROVE  Cardinality(Busy([s EXCEPT ![h] = i])) = Cardinality(Busy(s)) + 1
  <2>1. i # None
    BY DEF Slots, None
  <2>2. Busy([s EXCEPT ![h] = i]) = Busy(s) \cup {h} /\ h \notin Busy(s)
    BY <1>2, <2>1 DEF Busy
  <2> QED
    BY <1>1, <2>2, FS_AddElement
<1>3. ASSUME s[h] # None
      PROVE  /\ Cardinality(Busy([s EXCEPT ![h] = None])) = Cardinality(Busy(s)) - 1
             /\ Cardinality(Busy(s)) >= 1
  <2>1. Busy([s EXCEPT ![h] = None]) = Busy(s) \ {h} /\ h \in Busy(s)
    BY <1>3 DEF Busy
  <2>2. Cardinality(Busy(s)) # 0
    BY <1>1, <2>1, FS_EmptySet
  <2>3. Cardinality(Busy(s) \ {h}) = Cardinality(Busy(s)) - 1
    BY <1>1, <2>1, FS_RemoveElement
  <2>4. Cardinality(Busy(s)) >= 1
    BY <1>1, <2>2
  <2> QED
    BY <2>1, <2>3, <2>4
<1> QED
  BY <1>1, <1>2, <1>3

-----------------------------------------------------------------------------
\* The initial array is in shape and nobody holds a slot.
LEMMA InitInvariant == Init => IInv
<1> SUFFICES ASSUME Init PROVE IInv
  OBVIOUS
<1>1. /\ arr = New
      /\ stamp = [i \in Slots |-> None]
      /\ slot = [h \in Holders |-> None]
      /\ peak = 0
  BY DEF Init
<1>2. Busy(slot) = {}
  BY <1>1 DEF Busy
<1>3. Cardinality(Busy(slot)) = 0
  BY <1>2, FS_EmptySet
<1>4. /\ <<0>> \in Seq(0 .. IndexRange - 1)
      /\ Len(<<0>>) = 1
      /\ <<0>>[1] = 0
      /\ DOMAIN <<0>> = 1 .. 1
  BY IndexRangeAssumption
<1>5. arr \in Array
  BY <1>1, <1>4, IndexRangeAssumption DEF New, Array
<1>6. WellStacked(arr)
  <2>1. arr.indicies = <<0>> /\ arr.back = 0 /\ arr.size = 0
    BY <1>1 DEF New
  <2> QED
    BY <2>1, <1>4 DEF WellStacked
<1>7. TypeOK
  BY <1>1, <1>5 DEF TypeOK
<1>8. HeldShape /\ NoAliasing
  BY <1>1, <1>2 DEF HeldShape, NoAliasing
<1>9. Accounting /\ BackIsPeak
  BY <1>1, <1>3, <1>6 DEF Accounting, BackIsPeak, New
<1>10. ValidIsHeld
  BY <1>1 DEF ValidIsHeld, Valid, New, Slots, None
<1> QED
  BY <1>7, <1>8, <1>9, <1>10 DEF IInv

\* get() preserves the invariant.
LEMMA GetSlotInvariant ==
    ASSUME IInv, NEW h \in Holders, GetSlot(h)
    PROVE  IInv'
<1> DEFINE t == Top(arr)
<1>1. /\ arr \in Array /\ arr.back \in Nat /\ arr.size \in Nat
      /\ stamp \in [Slots -> Slots \cup {None}]
      /\ slot \in [Holders -> Slots \cup {None}]
      /\ peak \in Nat
      /\ WellStacked(arr)
      /\ arr.size = Cardinality(Busy(slot))
      /\ arr.back = peak
  BY IndexRangeAssumption DEF IInv, TypeOK, Array, Accounting, BackIsPeak
<1>2. /\ slot[h] = None /\ MayGet(arr)
      /\ arr' = Get(arr)
      /\ stamp' = [stamp EXCEPT ![t] = t]
      /\ slot' = [slot EXCEPT ![h] = t]
      /\ peak' = IF Cardinality(Busy(slot)) = peak THEN peak + 1 ELSE peak
  BY DEF GetSlot
<1>3. /\ arr' \in Array /\ arr'.back \in Nat
      /\ WellStacked(arr')
      /\ t \in Slots /\ t \in Free(arr)
      /\ t < arr'.back /\ t \notin Free(arr')
      /\ Free(arr) \ {t} \subseteq Free(arr')
      /\ \A i \in Free(arr') : i \in Free(arr) \/ i = arr'.back
      /\ arr.back <= arr'.back
      /\ arr'.size = arr.size + 1
      /\ arr'.back = IF arr.size = arr.back THEN arr.back + 1 ELSE arr.back
  BY <1>1, <1>2, GetLemma, IndexRangeAssumption DEF Array
<1> HIDE DEF t
<1>4. /\ slot'[h] = t /\ t # None
      /\ \A g \in Holders : g # h => slot'[g] = slot[g]
      /\ stamp'[t] = t
      /\ \A i \in Slots : i # t => stamp'[i] = stamp[i]
  BY <1>1, <1>2, <1>3 DEF Slots, None
<1>5. TypeOK'
  BY <1>1, <1>2, <1>3 DEF TypeOK
<1>6. \A g \in Busy(slot) : /\ slot[g] \in Slots
                           /\ slot[g] # t
                           /\ slot[g] < arr'.back
                           /\ slot[g] \notin Free(arr')
                           /\ stamp'[slot[g]] = slot[g]
  <2> TAKE g \in Busy(slot)
  <2>1. /\ slot[g] \in Slots
        /\ slot[g] < arr.back
        /\ slot[g] \notin Free(arr)
        /\ stamp[slot[g]] = slot[g]
    BY <1>1 DEF IInv, HeldShape, Busy
  <2>2. slot[g] < arr'.back
    BY <2>1, <1>1, <1>3 DEF Slots
  <2> QED
    BY <2>1, <2>2, <1>3, <1>4
<1>7. HeldShape'
  <2> SUFFICES ASSUME NEW g \in Busy(slot')
               PROVE  /\ slot'[g] < arr'.back
                      /\ slot'[g] \notin Free(arr')
                      /\ stamp'[slot'[g]] = slot'[g]
    BY DEF HeldShape
  <2>1. CASE g = h
    BY <2>1, <1>3, <1>4
  <2>2. CASE g # h
    BY <2>2, <1>4, <1>6 DEF Busy
  <2> QED
    BY <2>1, <2>2
<1>8. NoAliasing'
  <2>1. \A g, k \in Holders : g # k /\ slot[g] # None => slot[g] # slot[k]
    BY DEF IInv, NoAliasing
  <2>2. \A g \in Holders : slot[g] # t
    BY <1>4, <1>6 DEF Busy
  <2> QED
    BY <2>1, <2>2, <1>4 DEF NoAliasing
<1>9. Accounting'
  BY <1>1, <1>2, <1>3, BusyLemma DEF Accounting
<1>10. BackIsPeak'
  BY <1>1, <1>2, <1>3 DEF BackIsPeak
<1>11. ValidIsHeld'
  <2> SUFFICES ASSUME NEW i \in Slots
               PROVE  (i < arr'.back /\ i \notin Free(arr'))
                        <=> \E g \in Holders : slot'[g] = i
    BY DEF ValidIsHeld, Valid
  <2>1. i \in Int /\ i # None
    BY DEF Slots, None
  <2>2. ASSUME NEW g \in Holders, slot'[g] = i
        PROVE  i < arr'.back /\ i \notin Free(arr')
    BY <1>7, <2>1, <2>2 DEF HeldShape, Busy
  <2>3. ASSUME i < arr'.back, i \notin Free(arr')
        PROVE  \E g \in Holders : slot'[g] = i
    <3>1. CASE i = t
      BY <3>1, <1>4
    <3>2. CASE i # t
      <4>1. i \notin Free(arr)
        BY <2>3, <3>2, <1>3
      <4>2. i < arr.back
        <5>1. ASSUME arr.size = arr.back PROVE t = arr.back
          BY <5>1, <1>1, FullStack DEF t
        <5> QED
          BY <5>1, <2>1, <2>3, <3>2, <1>1, <1>3
      <4>3. PICK g \in Holders : slot[g] = i
        BY <4>1, <4>2 DEF IInv, ValidIsHeld, Valid
      <4>4. g # h
        BY <4>3, <1>2, <2>1
      <4> QED
        BY <4>3, <4>4, <1>4
    <3> QED
      BY <3>1, <3>2
  <2> QED
    BY <2>2, <2>3
<1> QED
  BY <1>5, <1>7, <1>8, <1>9, <1>10, <1>11 DEF IInv

\* remove() preserves the invariant.
LEMMA RemoveSlotInvariant ==
    ASSUME IInv, NEW h \in Holders, RemoveSlot(h)
    PROVE  IInv'
<1> DEFINE i == slot[h]
<1>1. /\ arr \in Array /\ arr.back \in Nat /\ arr.size \in Nat
      /\ stamp \in [Slots -> Slots \cup {None}]
      /\ slot \in [Holders -> Slots \cup {None}]
      /\ peak \in Nat
      /\ WellStacked(arr)
      /\ arr.size = Cardinality(Busy(slot))
      /\ arr.back = peak
  BY IndexRangeAssumption DEF IInv, TypeOK, Array, Accounting, BackIsPeak
<1>2. /\ i # None /\ h \in Busy(slot)
      /\ i \in Slots /\ i \in 0 .. arr.back - 1
      /\ i \notin Free(arr) /\ stamp[i] = i
  BY <1>1 DEF RemoveSlot, IInv, HeldShape, Busy, Slots
<1>3. /\ arr' = Remove(arr, i)
      /\ slot' = [slot EXCEPT ![h] = None]
      /\ stamp' = stamp /\ peak' = peak
  BY <1>2 DEF RemoveSlot
<1>4. arr.size >= 1 /\ Cardinality(Busy(slot')) = Cardinality(Busy(slot)) - 1
  BY <1>1, <1>2, <1>3, BusyLemma
<1>5. /\ arr' \in Array
      /\ WellStacked(arr')
      /\ Free(arr') = Free(arr) \cup {i}
      /\ arr'.back = arr.back
      /\ arr'.size = arr.size - 1
  BY <1>1, <1>2, <1>3, <1>4, RemoveLemma
<1>6. /\ slot'[h] = None
      /\ \A g \in Holders : g # h => slot'[g] = slot[g] /\ slot[g] # i
  BY <1>1, <1>2, <1>3 DEF IInv, NoAliasing
<1> HIDE DEF i
<1>7. TypeOK'
  BY <1>1, <1>3, <1>5 DEF TypeOK
<1>8. HeldShape'
  BY <1>3, <1>5, <1>6 DEF IInv, HeldShape, Busy
<1>9. NoAliasing'
  BY <1>6 DEF IInv, NoAliasing
<1>10. Accounting' /\ BackIsPeak'
  BY <1>1, <1>3, <1>4, <1>5 DEF Accounting, BackIsPeak
<1>11. ValidIsHeld'
  <2> SUFFICES ASSUME NEW j \in Slots
               PROVE  (j < arr'.back /\ j \notin Free(arr'))
                        <=> \E g \in Holders : slot'[g] = j
    BY DEF ValidIsHeld, Valid
  <2>1. j # None
    BY DEF Slots, None
  <2>2. (j < arr.back /\ j \notin Free(arr)) <=> \E g \in Holders : slot[g] = j
    BY DEF IInv, ValidIsHeld, Valid
  <2>3. i = slot[h]
    BY DEF i
  <2> QED
    BY <2>1, <2>2, <2>3, <1>5, <1>6
<1> QED
  BY <1>7, <1>8, <1>9, <1>10, <1>11 DEF IInv

-----------------------------------------------------------------------------
\* The invariant holds in every behaviour of the array and its users.
THEOREM Invariance == Spec => []IInv
<1>1. IInv /\ [Next]_vars => IInv'
  <2> SUFFICES ASSUME IInv, [Next]_vars PROVE IInv'
    OBVIOUS
  <2>1. ASSUME NEW h \in Holders, GetSlot(h) PROVE IInv'
    BY <2>1, GetSlotInvariant
  <2>2. ASSUME NEW h \in Holders, RemoveSlot(h) PROVE IInv'
    BY <2>2, RemoveSlotInvariant
  <2>3. CASE UNCHANGED vars
    BY <2>3 DEF vars, IInv, TypeOK, HeldShape, NoAliasing, Accounting, ValidIsHeld,
                BackIsPeak, Busy
  <2> QED
    BY <2>1, <2>2, <2>3 DEF Next
<1> QED
  BY InitInvariant, <1>1, PTL DEF Spec

\* The fields of the array keep their width: the increments of _back, of _size and
\* of the stacked index in get() never wrap around.
THEOREM TypeCorrect == Spec => []TypeOK
<1>1. IInv => TypeOK
  BY DEF IInv
<1> QED
  BY <1>1, Invariance, PTL

\* get() never hands out a slot another user holds.
THEOREM Exclusive == Spec => []NoAliasing
<1>1. IInv => NoAliasing
  BY DEF IInv
<1> QED
  BY <1>1, Invariance, PTL

\* valid() answers exactly whether the slot is held.
THEOREM ValidExact == Spec => []ValidIsHeld
<1>1. IInv => ValidIsHeld
  BY DEF IInv
<1> QED
  BY <1>1, Invariance, PTL

\* The free stack loses no slot and holds none twice, and _size counts the held ones.
THEOREM NothingLost == Spec => []Accounting
<1>1. IInv => Accounting
  BY DEF IInv
<1> QED
  BY <1>1, Invariance, PTL

\* _back is the largest number of slots ever held at once, so users that together
\* never hold more than _capacity slots never index past the storage.
THEOREM Compact == Spec => []BackIsPeak
<1>1. IInv => BackIsPeak
  BY DEF IInv
<1> QED
  BY <1>1, Invariance, PTL

\* begin() .. end() visits every held slot.
THEOREM IterationComplete == Spec => []IterationCoversHeld
<1>1. IInv => IterationCoversHeld
  <2> SUFFICES ASSUME IInv, NEW h \in Busy(slot)
               PROVE  slot[h] \in Visited(arr, stamp)
    BY DEF IterationCoversHeld
  <2>1. /\ slot[h] \in Slots /\ slot[h] # -1
        /\ slot[h] < arr.back /\ stamp[slot[h]] = slot[h]
        /\ arr.back \in Int
    BY IndexRangeAssumption DEF IInv, HeldShape, TypeOK, Busy, None, Array
  <2> QED
    BY <2>1, IndexRangeAssumption DEF Visited, Slots
<1> QED
  BY <1>1, Invariance, PTL

\* A step of the array is a step of the slot pool.
THEOREM Refinement == Spec => PoolSpec
<1>1. Init => Pool!Init
  BY DEF Init, Pool!Init
<1>2. IInv /\ [Next]_vars => [Pool!Next]_<<slot, peak>>
  <2> SUFFICES ASSUME IInv, [Next]_vars
               PROVE  [Pool!Next]_<<slot, peak>>
    OBVIOUS
  <2>1. ASSUME NEW h \in Holders, GetSlot(h) PROVE Pool!Acquire(h)
    <3>1. /\ arr \in Array /\ WellStacked(arr) /\ MayGet(arr)
          /\ arr.back \in Nat /\ peak = arr.back
          /\ arr.size = Cardinality(Busy(slot))
          /\ slot \in [Holders -> Slots \cup {None}]
      BY <2>1, IndexRangeAssumption
      DEF IInv, TypeOK, Array, Accounting, BackIsPeak, GetSlot
    <3>2. /\ Top(arr) \in Slots /\ Top(arr) \in Free(arr)
          /\ Top(arr) < Get(arr).back
          /\ Get(arr).back = IF arr.size = arr.back THEN arr.back + 1 ELSE arr.back
      BY <3>1, GetLemma
    <3>3. \A g \in Holders : slot[g] # Top(arr)
      <4> TAKE g \in Holders
      <4>1. slot[g] # None => slot[g] \notin Free(arr)
        BY DEF IInv, HeldShape, Busy
      <4> QED
        BY <4>1, <3>2 DEF Slots, None
    <3>4. peak' = IF Cardinality(Busy(slot)) = peak THEN peak + 1 ELSE peak
      BY <2>1 DEF GetSlot
    <3>5. Top(arr) \in 0 .. peak /\ Top(arr) < peak'
      BY <3>1, <3>2, <3>4, IndexRangeAssumption DEF Slots
    <3>6. slot[h] = None /\ slot' = [slot EXCEPT ![h] = Top(arr)]
      BY <2>1 DEF GetSlot
    <3>7. Cardinality(Busy(slot)) = peak <=> Pool!Full
      <4>1. arr.size = arr.back => Free(arr) = {arr.back}
        BY <3>1, FullStack
      <4>2. arr.size # arr.back => \E i \in Free(arr) : i \in 0 .. arr.back - 1
        BY <3>1, FullStack
      <4>3. \A i \in 0 .. arr.back - 1 :
              i \notin Free(arr) <=> \E g \in Holders : slot[g] = i
        BY <3>1, IndexRangeAssumption
        DEF IInv, TypeOK, Array, ValidIsHeld, Valid, Slots
      <4> QED
        BY <4>1, <4>2, <4>3, <3>1 DEF Pool!Full
    <3>8. \E s \in 0 .. peak :
            /\ \A g \in Holders : slot[g] # s
            /\ slot' = [slot EXCEPT ![h] = s]
            /\ peak' = (IF Pool!Full THEN peak + 1 ELSE peak)
            /\ s < peak'
      BY <3>3, <3>4, <3>5, <3>6, <3>7
    <3> QED
      BY <3>6, <3>8 DEF Pool!Acquire
  <2>2. ASSUME NEW h \in Holders, RemoveSlot(h) PROVE Pool!Release(h)
    BY <2>2 DEF RemoveSlot, Pool!Release
  <2>3. CASE UNCHANGED vars
    BY <2>3 DEF vars
  <2> QED
    BY <2>1, <2>2, <2>3 DEF Next, Pool!Next
<1> QED
  BY <1>1, <1>2, Invariance, PTL DEF Spec, PoolSpec, Pool!Spec
=============================================================================
