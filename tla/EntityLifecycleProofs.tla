----------------------- MODULE EntityLifecycleProofs -----------------------
(***************************************************************************)
(* Proofs about EntityLifecycle, for every set of prototypes, every bound  *)
(* on units, burns and orders, and every width of the indices.  The lemmas *)
(* on create() and burn() are about one EntityManager; the invariants that *)
(* the actions preserve follow from them.                                  *)
(***************************************************************************)
EXTENDS EntityLifecycle, SequenceTheorems, FiniteSetTheorems, TLAPS

-----------------------------------------------------------------------------
(* What get() and remove() do to an array that a slot may be given back to *)
(* twice.                                                                  *)

\* The bottom of the stack is _back; above it are slots below, or strays in X.
Stacked(a, X) ==
    /\ Len(a.indicies) >= 1
    /\ a.indicies[1] = a.back
    /\ \A k \in 2 .. Len(a.indicies) : a.indicies[k] < a.back \/ a.indicies[k] \in X

\* The slots handed out and not given back, when each was given back at most once.
Lent(a) == a.back + 1 - Len(a.indicies)

\* An index in range is stored as it is.
LEMMA WrapInRange ==
    ASSUME NEW i \in 0 .. IndexRange - 1
    PROVE  Wrap(i) = i
BY IndexRangeAssumption DEF Wrap

\* A new array is in both shapes.
LEMMA NewLemma ==
    /\ New \in Array /\ WellStacked(New) /\ \A X : Stacked(New, X)
    /\ Lent(New) = 0 /\ New.back = 0 /\ New.size = 0
<1>1. /\ <<0>> \in Seq(0 .. IndexRange - 1)
      /\ Len(<<0>>) = 1 /\ <<0>>[1] = 0 /\ DOMAIN <<0>> = 1 .. 1
  BY IndexRangeAssumption
<1>2. New.indicies = <<0>> /\ New.back = 0 /\ New.size = 0
  BY DEF New
<1>3. New \in Array
  BY <1>1, IndexRangeAssumption DEF New, Array
<1> QED
  BY <1>1, <1>2, <1>3 DEF WellStacked, Stacked, Lent

\* Without its top the stack is what lay below it.
LEMMA PoppedLemma ==
    ASSUME NEW a \in Array, Len(a.indicies) >= 1
    PROVE  /\ Popped(a) \in Seq(0 .. IndexRange - 1)
           /\ Len(Popped(a)) = Len(a.indicies) - 1
           /\ \A k \in 1 .. Len(a.indicies) - 1 : Popped(a)[k] = a.indicies[k]
           /\ DOMAIN Popped(a) = 1 .. Len(a.indicies) - 1
<1> DEFINE q == a.indicies
           n == Len(q)
           p == SubSeq(q, 1, n - 1)
<1>1. /\ n \in Nat /\ n >= 1
      /\ \A k \in 1 .. n - 1 : q[k] \in 0 .. IndexRange - 1
      /\ 1 \in Int /\ n - 1 \in Int
  BY IndexRangeAssumption DEF Array
<1>2. Popped(a) = p
  BY DEF Popped
<1> HIDE DEF n, q
<1>3. /\ p \in Seq(0 .. IndexRange - 1)
      /\ Len(p) = IF 1 <= n - 1 THEN n - 1 - 1 + 1 ELSE 0
      /\ \A k \in 1 .. n - 1 - 1 + 1 : p[k] = q[1 + k - 1]
  BY <1>1, SubSeqProperties
<1> HIDE DEF p
<1>4. p \in Seq(0 .. IndexRange - 1) /\ Len(p) = n - 1
  BY <1>1, <1>3
<1>5. DOMAIN p = 1 .. n - 1
  BY <1>4, LenProperties
<1>6. \A k \in 1 .. n - 1 : p[k] = q[k]
  BY <1>1, <1>3
<1> QED
  BY <1>2, <1>4, <1>5, <1>6 DEF n, q

\* get() when no stray is on top.
LEMMA StackedGet ==
    ASSUME NEW a \in Array, NEW X \in SUBSET {IndexRange - 1}, Stacked(a, X), MayGet(a),
           Top(a) <= a.back
    PROVE  /\ Get(a) \in Array
           /\ Stacked(Get(a), X)
           /\ Top(a) \in Nat /\ Top(a) < Get(a).back
           /\ Get(a).back = a.back \/ (Get(a).back = a.back + 1 /\ Get(a).back = Lent(Get(a)))
           /\ Lent(Get(a)) = Lent(a) + 1
           /\ Free(Get(a)) \subseteq Free(a) \cup {Get(a).back}
<1> DEFINE q == a.indicies
           n == Len(q)
           p == Popped(a)
<1>1. /\ n \in Nat /\ n >= 1 /\ DOMAIN q = 1 .. n
      /\ q \in Seq(0 .. IndexRange - 1)
      /\ \A k \in 1 .. n : q[k] \in 0 .. IndexRange - 1
      /\ a.back \in 0 .. IndexRange - 2
  BY IndexRangeAssumption DEF Array, Stacked, MayGet
<1>2. /\ q[1] = a.back
      /\ \A k \in 2 .. n : q[k] < a.back \/ q[k] = IndexRange - 1
      /\ \A k \in 2 .. n : q[k] < a.back \/ q[k] \in X
  BY <1>1 DEF Stacked
<1>3. /\ Top(a) = q[n]
      /\ Free(a) = {q[k] : k \in 1 .. n}
      /\ q[n] \in 0 .. IndexRange - 1
  BY <1>1 DEF Top, Free
<1>4. /\ p \in Seq(0 .. IndexRange - 1)
      /\ Len(p) = n - 1
      /\ \A k \in 1 .. n - 1 : p[k] = q[k]
      /\ DOMAIN p = 1 .. n - 1
  BY <1>1, PoppedLemma
<1>5. Wrap(a.size + 1) \in 0 .. IndexRange - 1
  BY IndexRangeAssumption DEF Wrap, Array
<1> HIDE DEF q, n, p
<1>6. CASE n = 1
  <2> DEFINE r == Append(p, a.back + 1)
  <2>1. Top(a) = a.back
    BY <1>2, <1>3, <1>6
  <2>2. Wrap(Top(a) + 1) = a.back + 1
    BY <2>1, <1>1, WrapInRange, IndexRangeAssumption
  <2>3. Get(a) = [size |-> Wrap(a.size + 1), back |-> a.back + 1, indicies |-> r]
    BY <2>1, <2>2 DEF Get, p
  <2>4. /\ r \in Seq(0 .. IndexRange - 1)
        /\ Len(r) = 1 /\ DOMAIN r = 1 .. 1 /\ r[1] = a.back + 1
    BY <1>1, <1>4, <1>6, IndexRangeAssumption
  <2> HIDE DEF r
  <2>5. Get(a) \in Array
    BY <2>3, <2>4, <1>1, <1>5, IndexRangeAssumption DEF Array
  <2>6. Get(a).back = a.back + 1 /\ Get(a).indicies = r
    BY <2>3
  <2>7. Stacked(Get(a), X)
    <3>1. Len(r) >= 1 /\ \A k \in 2 .. Len(r) : r[k] < a.back + 1 \/ r[k] \in X
      BY <2>4
    <3> QED
      BY <3>1, <2>4, <2>6 DEF Stacked
  <2>8. Lent(Get(a)) = a.back + 1 /\ Lent(a) = a.back
    <3>1. Len(Get(a).indicies) = 1 /\ a.back \in Int
      BY <2>4, <2>6, <1>1
    <3>2. Len(a.indicies) = 1
      BY <1>6 DEF n, q
    <3> QED
      BY <3>1, <3>2, <2>6 DEF Lent
  <2>9. Free(Get(a)) = {a.back + 1}
    BY <2>4, <2>6 DEF Free
  <2> QED
    BY <2>1, <2>5, <2>6, <2>7, <2>8, <2>9, <1>1
<1>7. CASE n > 1
  <2>1. Top(a) < a.back /\ Top(a) # a.back
    <3>1. IndexRange \in Int /\ n \in 2 .. n
      BY <1>1, <1>7, IndexRangeAssumption
    <3> QED
      BY <3>1, <1>1, <1>2, <1>3
  <2>2. Get(a) = [size |-> Wrap(a.size + 1), back |-> a.back, indicies |-> p]
    BY <2>1 DEF Get, p
  <2>3. Get(a) \in Array
    BY <2>2, <1>1, <1>4, <1>5, IndexRangeAssumption DEF Array
  <2>4. Get(a).back = a.back /\ Get(a).indicies = p
    BY <2>2
  <2>5. /\ n - 1 >= 1
        /\ p[1] = a.back
        /\ \A k \in 2 .. n - 1 : p[k] < a.back \/ p[k] \in X
    BY <1>1, <1>2, <1>4, <1>7
  <2>6. Stacked(Get(a), X)
    <3>1. Len(Get(a).indicies) = n - 1
      BY <2>4, <1>4
    <3> QED
      BY <3>1, <2>4, <2>5 DEF Stacked
  <2>7. Lent(Get(a)) = Lent(a) + 1
    <3>1. Len(Get(a).indicies) = n - 1 /\ a.back \in Int
      BY <2>4, <1>1, <1>4
    <3>2. Len(a.indicies) = n
      BY DEF n, q
    <3> QED
      BY <3>1, <3>2, <2>4, <1>1 DEF Lent
  <2>8. Free(Get(a)) \subseteq Free(a)
    <3>1. Free(Get(a)) = {p[k] : k \in 1 .. n - 1}
      BY <2>4, <1>4 DEF Free
    <3> QED
      BY <3>1, <1>1, <1>3, <1>4
  <2>9. Top(a) \in Nat /\ Top(a) < Get(a).back /\ Get(a).back = a.back
    <3>1. Top(a) \in Nat
      BY <1>3, IndexRangeAssumption
    <3> QED
      BY <3>1, <2>1, <2>4
  <2> QED
    BY <2>3, <2>6, <2>7, <2>8, <2>9
<1>8. n = 1 \/ n > 1
  BY <1>1
<1> QED
  BY <1>6, <1>7, <1>8

\* Without strays the top is never outside.
LEMMA TopInside ==
    ASSUME NEW a \in Array, Stacked(a, {})
    PROVE  Top(a) \in 0 .. a.back /\ Top(a) \in Free(a)
<1>1. /\ Len(a.indicies) \in Nat /\ Len(a.indicies) >= 1
      /\ DOMAIN a.indicies = 1 .. Len(a.indicies)
      /\ \A k \in 1 .. Len(a.indicies) : a.indicies[k] \in 0 .. IndexRange - 1
      /\ a.back \in 0 .. IndexRange - 1
  BY IndexRangeAssumption DEF Array, Stacked
<1> QED
  BY <1>1 DEF Stacked, Top, Free

\* remove() of a slot that was handed out, or of index -1, which pushes a stray.
LEMMA StackedRemove ==
    ASSUME NEW a \in Array, NEW X \in SUBSET {IndexRange - 1}, Stacked(a, X),
           NEW i \in Int, i \in 0 .. a.back - 1 \/ Wrap(i) \in X
    PROVE  /\ Remove(a, i) \in Array
           /\ Stacked(Remove(a, i), X)
           /\ Remove(a, i).back = a.back
           /\ Lent(Remove(a, i)) = Lent(a) - 1
<1> DEFINE q == a.indicies
           n == Len(q)
           r == Append(q, Wrap(i))
<1>1. /\ n \in Nat /\ n >= 1
      /\ q \in Seq(0 .. IndexRange - 1)
      /\ a.back \in 0 .. IndexRange - 1
      /\ a.size \in Int
      /\ Wrap(i) \in 0 .. IndexRange - 1
      /\ Wrap(a.size - 1) \in 0 .. IndexRange - 1
  BY IndexRangeAssumption DEF Array, Stacked, Wrap
<1>2. Wrap(i) < a.back \/ Wrap(i) \in X
  <2>1. CASE i \in 0 .. a.back - 1
    <3>1. Wrap(i) = i
      BY <2>1, <1>1, WrapInRange, IndexRangeAssumption
    <3> QED
      BY <2>1, <3>1, <1>1
  <2> QED
    BY <2>1
<1>3. /\ r \in Seq(0 .. IndexRange - 1)
      /\ Len(r) = n + 1
      /\ \A k \in 1 .. n : r[k] = q[k]
      /\ r[n + 1] = Wrap(i)
  BY <1>1
<1>4. /\ Remove(a, i) = [size |-> Wrap(a.size - 1), back |-> a.back, indicies |-> r]
      /\ Remove(a, i).back = a.back /\ Remove(a, i).indicies = r
  BY DEF Remove
<1>5. q[1] = a.back /\ \A k \in 2 .. n : q[k] < a.back \/ q[k] \in X
  BY DEF Stacked
<1> HIDE DEF q, n, r
<1>6. Remove(a, i) \in Array
  BY <1>1, <1>3, <1>4 DEF Array
<1>7. Stacked(Remove(a, i), X)
  <2>1. /\ r[1] = a.back /\ Len(r) >= 1
        /\ \A k \in 2 .. Len(r) : r[k] < a.back \/ r[k] \in X
    <3>1. r[1] = a.back /\ Len(r) >= 1
      BY <1>1, <1>3, <1>5
    <3>2. ASSUME NEW k \in 2 .. Len(r) PROVE r[k] < a.back \/ r[k] \in X
      <4>1. k \in 2 .. n \/ k = n + 1
        BY <1>1, <1>3
      <4> QED
        BY <4>1, <1>1, <1>2, <1>3, <1>5
    <3> QED
      BY <3>1, <3>2
  <2> QED
    BY <2>1, <1>4 DEF Stacked
<1>8. Lent(Remove(a, i)) = Lent(a) - 1
  <2>1. Len(Remove(a, i).indicies) = n + 1 /\ a.back \in Int
    BY <1>1, <1>3, <1>4
  <2>2. Len(a.indicies) = n
    BY DEF n, q
  <2> QED
    BY <2>1, <2>2, <1>1, <1>4 DEF Lent
<1> QED
  BY <1>4, <1>6, <1>7, <1>8

-----------------------------------------------------------------------------
(* One EntityManager: create() and burn(). *)

IsManager(e) ==
    e = [entities |-> e.entities, slot |-> e.slot, comps |-> e.comps, owner |-> e.owner,
         moving |-> e.moving, cache |-> e.cache, cachedEntities |-> e.cachedEntities,
         cachedSlot |-> e.cachedSlot, cachedComps |-> e.cachedComps, index |-> e.index]

\* What create() makes of the components when the kinds in W are wanted.
NewComp(e, W) ==
    [k \in Kinds |-> IF k \in W THEN IF Old(e)[k] = None THEN Top(e.comps[k]) ELSE Old(e)[k]
                                ELSE None]
NewComps(e, W) ==
    [k \in Kinds |-> IF k \in W /\ Old(e)[k] = None THEN Get(e.comps[k])
                     ELSE IF k \notin W /\ Old(e)[k] # None THEN Remove(e.comps[k], Old(e)[k])
                     ELSE e.comps[k]]
NewOwner(e, W) ==
    [k \in Kinds |-> IF k \in W THEN [e.owner[k] EXCEPT ![NewComp(e, W)[k]] = Top(e.entities)]
                                ELSE e.owner[k]]
NewMoving(e, W) ==
    IF "Transform" \in W THEN [e.moving EXCEPT ![NewComp(e, W)["Transform"]] = None] ELSE e.moving
NewSlot(e, W, id, player, s, un) ==
    [e.slot EXCEPT ![Top(e.entities)] =
        [id |-> id, player |-> player, serverIndex |-> s, comp |-> NewComp(e, W), unit |-> un]]

\* Loading a prototype touches the caches only.
LEMMA CachedFields ==
    ASSUME NEW e, IsManager(e), NEW id
    PROVE  LET f == Cached(e, id) IN
           /\ IsManager(f)
           /\ f.entities = e.entities /\ f.slot = e.slot /\ f.comps = e.comps
           /\ f.owner = e.owner /\ f.moving = e.moving /\ f.index = e.index
           /\ f.cachedEntities = e.cachedEntities \/ f.cachedEntities = Get(e.cachedEntities)
<1>1. CASE id \in DOMAIN e.cache
  BY <1>1 DEF Cached
<1>2. CASE id \notin DOMAIN e.cache
  <2>1. Cached(e, id) = Load(e, id)
    BY <1>2 DEF Cached
  <2>2. PICK cs, cc, ca : Load(e, id) = [e EXCEPT
          !.cachedEntities = Get(@), !.cachedSlot = cs, !.cachedComps = cc, !.cache = ca]
    BY DEF Load
  <2> QED
    BY <2>1, <2>2 DEF IsManager
<1> QED
  BY <1>1, <1>2

\* c is what create() makes of e when the kinds in W are wanted.
Created(e, c, W, id, player, s, un) ==
    /\ IsManager(c)
    /\ c.entities = Get(e.entities)
    /\ c.slot = NewSlot(e, W, id, player, s, un)
    /\ c.comps = NewComps(e, W)
    /\ c.owner = NewOwner(e, W)
    /\ c.moving = NewMoving(e, W)
    /\ c.index = e.index
    /\ c.cachedEntities = Cached(e, id).cachedEntities
    /\ c.cachedSlot = Cached(e, id).cachedSlot
    /\ c.cachedComps = Cached(e, id).cachedComps
    /\ c.cache = [Cached(e, id).cache EXCEPT ![id].ref = @ + 1]

LEMMA CreateFields ==
    ASSUME NEW e, IsManager(e), NEW id, NEW player, NEW s, NEW un
    PROVE  Created(e, Create(e, id, player, s, un), Wanted(Cached(e, id), id), id, player, s, un)
<1> DEFINE f == Cached(e, id)
           W == Wanted(f, id)
           missing == {k \in W : Old(f)[k] = None}
           unwanted == {k \in Kinds \ W : Old(f)[k] # None}
           comp == [k \in Kinds |-> IF k \in missing THEN Top(f.comps[k])
                                    ELSE IF k \in unwanted THEN None ELSE Old(f)[k]]
<1>1. /\ IsManager(f)
      /\ f.entities = e.entities /\ f.slot = e.slot /\ f.comps = e.comps
      /\ f.owner = e.owner /\ f.moving = e.moving /\ f.index = e.index
      /\ Old(f) = Old(e)
  BY CachedFields DEF Old
<1>2. W \subseteq Kinds
  BY DEF Wanted
<1>3. Create(e, id, player, s, un) =
      [f EXCEPT
          !.entities = Get(f.entities),
          !.slot = [f.slot EXCEPT ![Top(f.entities)] =
                      [id |-> id, player |-> player, serverIndex |-> s, comp |-> comp, unit |-> un]],
          !.comps = Returned(Taken(f.comps, missing), unwanted, Old(f)),
          !.owner = [k \in Kinds |-> IF k \in W
                       THEN [f.owner[k] EXCEPT ![comp[k]] = Top(f.entities)] ELSE f.owner[k]],
          !.moving = IF "Transform" \in W THEN Copied(f.moving, comp["Transform"]) ELSE f.moving,
          !.cache = [f.cache EXCEPT ![id].ref = @ + 1]]
  BY <1>1 DEF Create, Place, IsManager
<1>4. comp = NewComp(e, W)
  BY <1>1, <1>2 DEF NewComp
<1>5. Returned(Taken(f.comps, missing), unwanted, Old(f)) = NewComps(e, W)
  BY <1>1, <1>2 DEF Returned, Taken, NewComps
<1> HIDE DEF f, W, missing, unwanted, comp
<1>6. Create(e, id, player, s, un) =
      [entities |-> Get(f.entities),
       slot |-> NewSlot(e, W, id, player, s, un),
       comps |-> NewComps(e, W),
       owner |-> NewOwner(e, W),
       moving |-> NewMoving(e, W),
       cache |-> [f.cache EXCEPT ![id].ref = @ + 1],
       cachedEntities |-> f.cachedEntities, cachedSlot |-> f.cachedSlot,
       cachedComps |-> f.cachedComps, index |-> f.index]
  <2>1. [f.slot EXCEPT ![Top(f.entities)] =
           [id |-> id, player |-> player, serverIndex |-> s, comp |-> comp, unit |-> un]]
        = NewSlot(e, W, id, player, s, un)
    BY <1>1, <1>4 DEF NewSlot
  <2>2. [k \in Kinds |-> IF k \in W THEN [f.owner[k] EXCEPT ![comp[k]] = Top(f.entities)]
                                     ELSE f.owner[k]]
        = NewOwner(e, W)
    BY <1>1, <1>4 DEF NewOwner
  <2>3. (IF "Transform" \in W THEN Copied(f.moving, comp["Transform"]) ELSE f.moving)
        = NewMoving(e, W)
    BY <1>1, <1>4 DEF NewMoving, Copied
  <2>4. Create(e, id, player, s, un) =
        [f EXCEPT !.entities = Get(f.entities), !.slot = NewSlot(e, W, id, player, s, un),
                  !.comps = NewComps(e, W), !.owner = NewOwner(e, W),
                  !.moving = NewMoving(e, W), !.cache = [f.cache EXCEPT ![id].ref = @ + 1]]
    BY <1>3, <1>5, <2>1, <2>2, <2>3
  <2> QED
    BY <2>4, <1>1 DEF IsManager
<1> QED
  BY <1>1, <1>6 DEF IsManager, Created, f, W

\* A unit's index is noted where none was.
LEMMA InsertFields ==
    ASSUME NEW e, IsManager(e), NEW s, NEW i
    PROVE  LET n == Insert(e, s, i) IN
           /\ n = [e EXCEPT !.index = n.index]
           /\ IsManager(n)
           /\ DOMAIN n.index = DOMAIN e.index \cup {s}
           /\ \A t \in DOMAIN e.index : n.index[t] = e.index[t]
           /\ s \notin DOMAIN e.index => n.index[s] = i
<1>1. Insert(e, s, i) = [e EXCEPT !.index = Extended(e.index, s, i)]
  BY DEF Insert, IsManager
<1> QED
  BY <1>1 DEF IsManager, Extended

\* What burn() does to the unit's own arrays and to the cache.
LEMMA ReleaseFields ==
    ASSUME NEW e, IsManager(e), NEW id
    PROVE  LET r == Release(e, id)
               slot == e.cache[id].entity IN
           /\ IsManager(r)
           /\ r.entities = e.entities /\ r.slot = e.slot /\ r.comps = e.comps
           /\ r.owner = e.owner /\ r.moving = e.moving /\ r.index = e.index
           /\ r.cachedSlot = e.cachedSlot
           /\ LastUse(e, id) =>
                /\ r.cache = [p \in DOMAIN e.cache \ {id} |-> e.cache[p]]
                /\ r.cachedEntities = Remove(e.cachedEntities, slot)
           /\ ~LastUse(e, id) =>
                /\ r.cache = [e.cache EXCEPT ![id].ref = @ - 1]
                /\ r.cachedEntities = e.cachedEntities /\ r.cachedComps = e.cachedComps
<1>1. CASE LastUse(e, id)
  <2>1. PICK cc : Release(e, id) =
          [e EXCEPT !.cachedComps = cc,
                    !.cachedEntities = Remove(e.cachedEntities, e.cache[id].entity),
                    !.cache = [p \in DOMAIN e.cache \ {id} |-> e.cache[p]]]
    BY <1>1 DEF Release, ReleaseAt, LastUse, Restrict, IsManager
  <2> QED
    BY <2>1, <1>1 DEF IsManager
<1>2. CASE ~LastUse(e, id)
  <2>1. Release(e, id) = [e EXCEPT !.cache = [e.cache EXCEPT ![id].ref = @ - 1]]
    BY <1>2 DEF Release, ReleaseAt, LastUse, IsManager
  <2> QED
    BY <2>1, <1>2 DEF IsManager
<1> QED
  BY <1>1, <1>2

LEMMA BurnFields ==
    ASSUME NEW e, IsManager(e), NEW id, NEW i, NEW comp
    PROVE  LET b == Burn(e, id, i, comp)
               r == Release(e, id) IN
           /\ IsManager(b)
           /\ b.entities = Remove(e.entities, i) /\ b.comps = BurnComponents(e.comps, comp)
           /\ b.slot = e.slot /\ b.owner = e.owner /\ b.moving = e.moving /\ b.index = e.index
           /\ b.cache = r.cache /\ b.cachedEntities = r.cachedEntities
           /\ b.cachedSlot = r.cachedSlot /\ b.cachedComps = r.cachedComps
<1> DEFINE r == Release(e, id)
<1>1. /\ IsManager(r)
      /\ r.entities = e.entities /\ r.slot = e.slot /\ r.comps = e.comps
      /\ r.owner = e.owner /\ r.moving = e.moving /\ r.index = e.index
  BY ReleaseFields
<1>2. Burn(e, id, i, comp) =
        [r EXCEPT !.comps = BurnComponents(r.comps, comp), !.entities = Remove(r.entities, i)]
  BY <1>1 DEF Burn, IsManager
<1> HIDE DEF r
<1>3. /\ IsManager(Burn(e, id, i, comp))
      /\ Burn(e, id, i, comp).entities = Remove(e.entities, i)
      /\ Burn(e, id, i, comp).comps = BurnComponents(e.comps, comp)
  BY <1>1, <1>2 DEF IsManager
<1> QED
  BY <1>1, <1>2, <1>3 DEF IsManager, r

-----------------------------------------------------------------------------
(* The shape of an EntityManager, whatever was burnt and misled. *)

Units == [id : Prototypes \cup {None}, player : {NoOne, Me, Peer},
          serverIndex : {None} \cup Nat, comp : [Kinds -> {None} \cup Nat], unit : Nat]

Holders(slot, k) == {i \in Places : slot[i].comp[k] # None}

\* The pointers of the components of kind k are to components that were handed out, in slots
\* that were; and no more components are lent than slots have a pointer.
CompsOK(slot, comps, back, k) ==
    /\ Stacked(comps[k], {})
    /\ \A i \in Holders(slot, k) : i < back /\ slot[i].comp[k] < comps[k].back
    /\ Lent(comps[k]) <= Cardinality(Holders(slot, k))
    /\ comps[k].back <= back

\* sb is _back of the server's array: no unit has a server index from there on.
UnitsOK(e, sb) ==
    /\ IsManager(e)
    /\ e.entities \in Array /\ Stacked(e.entities, {})
    /\ e.slot \in [Places -> Units]
    /\ \A i \in Places : e.slot[i].serverIndex < sb
    /\ e.comps \in [Kinds -> Array]
    /\ \A k \in Kinds : CompsOK(e.slot, e.comps, e.entities.back, k)
    /\ \A s \in DOMAIN e.index : s \in Nat /\ e.index[s] \in 0 .. e.entities.back - 1
    /\ e.owner \in [Kinds -> [Places -> Int]] /\ e.moving \in [Places -> Int]
    /\ e.cachedEntities.back \in Nat

LEMMA HoldersFinite ==
    ASSUME NEW slot, NEW k, NEW back \in Nat, \A i \in Holders(slot, k) : i < back
    PROVE  /\ IsFiniteSet(Holders(slot, k)) /\ Cardinality(Holders(slot, k)) \in Nat
           /\ Cardinality(Holders(slot, k)) <= back
<1>1. Holders(slot, k) \in SUBSET (0 .. back - 1)
  BY BoundsAssumption DEF Holders, Places
<1>2. IsFiniteSet(0 .. back - 1) /\ Cardinality(0 .. back - 1) = back
  BY FS_Interval
<1>3. /\ IsFiniteSet(Holders(slot, k))
      /\ Cardinality(Holders(slot, k)) <= Cardinality(0 .. back - 1)
  BY <1>1, <1>2, FS_Subset
<1> QED
  BY <1>2, <1>3, FS_CardinalityType

\* Who has a component of kind k when slot t becomes a unit with the components comp.
LEMMA HoldersNext ==
    ASSUME NEW slot \in [Places -> Units], NEW t \in Places, NEW u \in Units, NEW k \in Kinds,
           NEW back \in Nat, \A i \in Holders(slot, k) : i < back
    PROVE  LET next == [slot EXCEPT ![t] = u]
               n == Cardinality(Holders(slot, k)) IN
           /\ n \in Nat
           /\ u.comp[k] # None => Holders(next, k) = Holders(slot, k) \cup {t}
           /\ u.comp[k] = None => Holders(next, k) = Holders(slot, k) \ {t}
           /\ Cardinality(Holders(next, k)) =
                IF u.comp[k] # None
                THEN IF slot[t].comp[k] # None THEN n ELSE n + 1
                ELSE IF slot[t].comp[k] # None THEN n - 1 ELSE n
<1> DEFINE next == [slot EXCEPT ![t] = u]
<1>1. IsFiniteSet(Holders(slot, k)) /\ Cardinality(Holders(slot, k)) \in Nat
  BY HoldersFinite
<1>2. \A i \in Places : next[i] = IF i = t THEN u ELSE slot[i]
  OBVIOUS
<1> HIDE DEF next
<1>3. u.comp[k] # None => Holders(next, k) = Holders(slot, k) \cup {t}
  BY <1>2 DEF Holders
<1>4. u.comp[k] = None => Holders(next, k) = Holders(slot, k) \ {t}
  BY <1>2 DEF Holders
<1>5. t \in Holders(slot, k) <=> slot[t].comp[k] # None
  BY DEF Holders
<1>6. /\ Cardinality(Holders(slot, k) \cup {t}) = IF t \in Holders(slot, k)
           THEN Cardinality(Holders(slot, k)) ELSE Cardinality(Holders(slot, k)) + 1
      /\ Cardinality(Holders(slot, k) \ {t}) = IF t \in Holders(slot, k)
           THEN Cardinality(Holders(slot, k)) - 1 ELSE Cardinality(Holders(slot, k))
  BY <1>1, FS_AddElement, FS_RemoveElement
<1> QED
  BY <1>1, <1>3, <1>4, <1>5, <1>6 DEF next

\* The next slot is one the bounds can reach, and the components it is given are in use.
LEMMA NewUnit ==
    ASSUME NEW e, NEW sb, UnitsOK(e, sb), MayGet(e.entities), e.entities.back < MaxCreates,
           NEW W \in SUBSET Kinds
    PROVE  /\ Top(e.entities) \in Places
           /\ Old(e) \in [Kinds -> {None} \cup Nat]
           /\ \A k \in Kinds : MayGet(e.comps[k]) /\ Top(e.comps[k]) \in 0 .. e.comps[k].back
           /\ NewComp(e, W) \in [Kinds -> {None} \cup Nat]
           /\ \A k \in Kinds : NewComp(e, W)[k] # None <=> k \in W
<1>1. /\ e.entities.back \in 0 .. IndexRange - 2 /\ Top(e.entities) \in 0 .. e.entities.back
      /\ IndexRange \in Nat
  BY TopInside, IndexRangeAssumption DEF UnitsOK, Array, MayGet
<1>2. Top(e.entities) \in Places
  BY <1>1, BoundsAssumption DEF Places
<1>3. Old(e) \in [Kinds -> {None} \cup Nat]
  BY <1>2 DEF Old, UnitsOK, Units
<1>4. ASSUME NEW k \in Kinds
      PROVE  MayGet(e.comps[k]) /\ Top(e.comps[k]) \in 0 .. e.comps[k].back
             /\ Top(e.comps[k]) \in Nat
  <2>1. e.comps[k] \in Array /\ Stacked(e.comps[k], {}) /\ e.comps[k].back <= e.entities.back
    BY DEF UnitsOK, CompsOK
  <2>2. Top(e.comps[k]) \in 0 .. e.comps[k].back
    BY <2>1, TopInside
  <2>3. e.comps[k].back \in 0 .. IndexRange - 1
    BY <2>1 DEF Array
  <2> QED
    BY <2>1, <2>2, <2>3, <1>1 DEF MayGet
<1>5. NewComp(e, W) \in [Kinds -> {None} \cup Nat]
  BY <1>3, <1>4 DEF NewComp
<1>6. \A k \in Kinds : NewComp(e, W)[k] # None <=> k \in W
  BY <1>3, <1>4 DEF NewComp, None
<1> QED
  BY <1>2, <1>3, <1>4, <1>5, <1>6

\* create() keeps the components of each kind in shape: it takes one where the slot had none,
\* and then there are not more than units.
LEMMA CreateComps ==
    ASSUME NEW e, NEW sb, UnitsOK(e, sb), MayGet(e.entities), e.entities.back < MaxCreates,
           NEW W \in SUBSET Kinds, NEW id \in Prototypes \cup {None},
           NEW player \in {NoOne, Me, Peer}, NEW s \in {None} \cup Nat, NEW un \in Nat, NEW k \in Kinds
    PROVE  /\ NewSlot(e, W, id, player, s, un) \in [Places -> Units]
           /\ NewComps(e, W)[k] \in Array
           /\ CompsOK(NewSlot(e, W, id, player, s, un), NewComps(e, W), Get(e.entities).back, k)
<1> DEFINE t == Top(e.entities)
           old == Old(e)
           comp == NewComp(e, W)
           u == [id |-> id, player |-> player, serverIndex |-> s, comp |-> comp, unit |-> un]
           next == [e.slot EXCEPT ![t] = u]
           a == e.comps[k]
           b == NewComps(e, W)[k]
           back == e.entities.back
           backN == Get(e.entities).back
<1>1. /\ t \in Places /\ old \in [Kinds -> {None} \cup Nat] /\ MayGet(a) /\ Top(a) \in 0 .. a.back
      /\ comp \in [Kinds -> {None} \cup Nat]
      /\ comp[k] # None <=> k \in W
  BY NewUnit
<1>2. u \in Units /\ next = NewSlot(e, W, id, player, s, un) /\ next \in [Places -> Units]
  BY <1>1 DEF Units, NewSlot, UnitsOK
<1>3. /\ e.slot \in [Places -> Units] /\ a \in Array /\ CompsOK(e.slot, e.comps, back, k)
      /\ Stacked(a, {}) /\ Stacked(e.entities, {}) /\ e.entities \in Array
      /\ \A i \in Holders(e.slot, k) : i < back /\ e.slot[i].comp[k] < a.back
      /\ Lent(a) <= Cardinality(Holders(e.slot, k)) /\ a.back <= back
  BY DEF UnitsOK, CompsOK
<1>4. back \in Nat /\ a.back \in Nat /\ backN \in Nat /\ t < backN /\ back <= backN
  <2>1. Top(e.entities) \in 0 .. e.entities.back
    BY <1>3, TopInside
  <2>2. e.entities.back \in Nat /\ a.back \in Nat
    BY <1>3, IndexRangeAssumption DEF Array
  <2>3. /\ Top(e.entities) < Get(e.entities).back
        /\ Get(e.entities).back = e.entities.back \/ Get(e.entities).back = e.entities.back + 1
    BY <2>1, <2>2, <1>3, StackedGet
  <2> QED
    BY <2>2, <2>3
<1>5. Lent(a) \in Int
  BY <1>3, <1>4 DEF Lent, Array
<1>6. old[k] = e.slot[t].comp[k]
  BY DEF Old
<1>7. comp[k] = IF k \in W THEN IF old[k] = None THEN Top(a) ELSE old[k] ELSE None
  BY DEF NewComp
<1>8. b = IF k \in W /\ old[k] = None THEN Get(a)
          ELSE IF k \notin W /\ old[k] # None THEN Remove(a, old[k])
          ELSE a
  BY DEF NewComps
<1>9. \A i \in Places : next[i].comp[k] = IF i = t THEN comp[k] ELSE e.slot[i].comp[k]
  BY <1>3
<1> DEFINE n == Cardinality(Holders(e.slot, k))
<1>10. /\ n \in Nat
       /\ u.comp[k] # None => Holders(next, k) = Holders(e.slot, k) \cup {t}
       /\ u.comp[k] = None => Holders(next, k) = Holders(e.slot, k) \ {t}
       /\ Cardinality(Holders(next, k)) =
            IF u.comp[k] # None
            THEN IF e.slot[t].comp[k] # None THEN n ELSE n + 1
            ELSE IF e.slot[t].comp[k] # None THEN n - 1 ELSE n
  <2>1. \A i \in Holders(e.slot, k) : i < back
    BY <1>3
  <2>2. e.slot \in [Places -> Units] /\ t \in Places /\ u \in Units /\ back \in Nat
    BY <1>1, <1>2, <1>3, <1>4
  <2> HIDE DEF t, u, back
  <2> QED
    BY <2>1, <2>2, HoldersNext
<1>11. u.comp[k] = comp[k]
  OBVIOUS
<1>12. t \in Holders(e.slot, k) <=> old[k] # None
  BY <1>1, <1>6 DEF Holders
<1> SUFFICES b \in Array /\ CompsOK(next, NewComps(e, W), backN, k)
  BY <1>2
<1> HIDE DEF t, old, comp, u, next, a, b, back, backN, n
<1>13. ASSUME b \in Array, Stacked(b, {}), a.back <= b.back, b.back <= backN,
             comp[k] # None => comp[k] < b.back, Lent(b) <= Cardinality(Holders(next, k))
       PROVE  CompsOK(next, NewComps(e, W), backN, k)
  <2>1. b.back \in Nat
    BY <1>13, IndexRangeAssumption DEF Array
  <2>2. ASSUME NEW i \in Holders(next, k) PROVE i < backN /\ next[i].comp[k] < b.back
    <3>1. CASE i = t
      BY <3>1, <2>2, <1>1, <1>4, <1>9, <1>13 DEF Holders
    <3>2. CASE i # t
      <4>1. i \in Places /\ i \in Int /\ i \in Holders(e.slot, k)
        BY <3>2, <2>2, <1>9 DEF Holders, Places
      <4>2. e.slot[i].comp[k] \in Int
        BY <4>1, <1>3 DEF Units, None
      <4> QED
        BY <4>1, <4>2, <3>2, <2>1, <1>3, <1>4, <1>9, <1>13
    <3> QED
      BY <3>1, <3>2
  <2>3. b = NewComps(e, W)[k]
    BY DEF b
  <2> QED
    BY <2>2, <2>3, <1>13 DEF CompsOK
<1>14. CASE k \in W /\ old[k] = None
  <2>1. b = Get(a) /\ comp[k] = Top(a) /\ Top(a) <= a.back
    BY <1>14, <1>1, <1>4, <1>7, <1>8
  <2>2. /\ b \in Array /\ Stacked(b, {}) /\ Top(a) < b.back /\ Lent(b) = Lent(a) + 1
        /\ b.back = a.back \/ (b.back = a.back + 1 /\ b.back = Lent(b))
    BY <2>1, <1>1, <1>3, StackedGet
  <2>3. Cardinality(Holders(next, k)) = n + 1 /\ Lent(a) <= n
    BY <1>1, <1>3, <1>6, <1>10, <1>11, <1>14 DEF n
  <2>4. Cardinality(Holders(next, k)) <= backN
    <3>1. \A i \in Holders(next, k) : i < backN
      <4>1. Holders(next, k) = Holders(e.slot, k) \cup {t}
        BY <1>1, <1>10, <1>11, <1>14
      <4>2. \A i \in Holders(e.slot, k) : i \in Int
        BY DEF Holders, Places
      <4> QED
        BY <4>1, <4>2, <1>3, <1>4
    <3> QED
      BY <3>1, <1>4, HoldersFinite
  <2>5. Lent(b) <= Cardinality(Holders(next, k)) /\ b.back <= backN /\ a.back <= b.back
    BY <2>2, <2>3, <2>4, <1>3, <1>4, <1>5, <1>10
  <2> QED
    BY <2>1, <2>2, <2>5, <1>13
<1>15. CASE k \notin W /\ old[k] # None
  <2>1. b = Remove(a, old[k]) /\ comp[k] = None
    BY <1>15, <1>7, <1>8
  <2>2. old[k] \in 0 .. a.back - 1
    BY <1>1, <1>3, <1>4, <1>6, <1>12, <1>15
  <2>3. /\ b \in Array /\ Stacked(b, {}) /\ b.back = a.back /\ Lent(b) = Lent(a) - 1
    BY <2>1, <2>2, <1>3, StackedRemove
  <2>4. Cardinality(Holders(next, k)) = n - 1 /\ Lent(a) <= n
    BY <2>1, <1>3, <1>6, <1>10, <1>11, <1>15 DEF n
  <2>5. Lent(b) <= Cardinality(Holders(next, k)) /\ b.back <= backN /\ a.back <= b.back
    BY <2>3, <2>4, <1>3, <1>4, <1>5, <1>10
  <2> QED
    BY <2>1, <2>3, <2>5, <1>13
<1>16. CASE ~(k \in W /\ old[k] = None) /\ ~(k \notin W /\ old[k] # None)
  <2>1. b = a /\ comp[k] = old[k]
    BY <1>16, <1>7, <1>8
  <2>2. Cardinality(Holders(next, k)) = n /\ Lent(a) <= n
    BY <2>1, <1>3, <1>6, <1>10, <1>11 DEF n
  <2>3. comp[k] # None => comp[k] < b.back
    BY <2>1, <1>3, <1>6, <1>12
  <2>4. b.back <= backN /\ a.back <= b.back
    BY <2>1, <1>3, <1>4
  <2> QED
    BY <2>1, <2>2, <2>3, <2>4, <1>3, <1>13
<1> QED
  BY <1>13, <1>14, <1>15, <1>16

\* A prototype takes at most one slot of its array.
LEMMA CachedBack ==
    ASSUME NEW e, IsManager(e), NEW id, e.cachedEntities.back \in Nat
    PROVE  Cached(e, id).cachedEntities.back \in {e.cachedEntities.back, e.cachedEntities.back + 1}
<1>1. Get(e.cachedEntities).back \in {e.cachedEntities.back, e.cachedEntities.back + 1}
  BY DEF Get
<1> QED
  BY <1>1, CachedFields

LEMMA CreateKeeps ==
    ASSUME NEW e, NEW sb, UnitsOK(e, sb), MayGet(e.entities), e.entities.back < MaxCreates,
           NEW id \in Prototypes \cup {None}, NEW player \in {NoOne, Me, Peer},
           NEW s \in {None} \cup Nat, s < sb, NEW un \in Nat
    PROVE  LET c == Create(e, id, player, s, un) IN
           /\ UnitsOK(c, sb)
           /\ c.entities.back \in {e.entities.back, e.entities.back + 1}
           /\ c.cachedEntities.back \in {e.cachedEntities.back, e.cachedEntities.back + 1}
           /\ Top(e.entities) \in 0 .. c.entities.back - 1
<1> DEFINE W == Wanted(Cached(e, id), id)
<1>1. W \in SUBSET Kinds
  BY DEF Wanted
<1> HIDE DEF W
<1>2. PICK c : c = Create(e, id, player, s, un)
  OBVIOUS
<1>3. /\ IsManager(e) /\ Stacked(e.entities, {}) /\ e.entities \in Array
      /\ e.slot \in [Places -> Units] /\ \A i \in Places : e.slot[i].serverIndex < sb
      /\ e.comps \in [Kinds -> Array]
      /\ \A t \in DOMAIN e.index : t \in Nat /\ e.index[t] \in 0 .. e.entities.back - 1
      /\ e.owner \in [Kinds -> [Places -> Int]] /\ e.moving \in [Places -> Int]
      /\ e.cachedEntities.back \in Nat /\ e.entities.back \in Nat
  BY IndexRangeAssumption DEF UnitsOK, Array
<1>4. /\ IsManager(c)
      /\ c.entities = Get(e.entities)
      /\ c.slot = NewSlot(e, W, id, player, s, un)
      /\ c.comps = NewComps(e, W)
      /\ c.owner = NewOwner(e, W)
      /\ c.moving = NewMoving(e, W)
      /\ c.index = e.index
      /\ c.cachedEntities = Cached(e, id).cachedEntities
  <2>1. Created(e, c, W, id, player, s, un)
    BY <1>2, <1>3, CreateFields DEF W
  <2> QED
    BY <2>1 DEF Created
<1>5. Top(e.entities) \in Places /\ Top(e.entities) \in 0 .. e.entities.back
  BY <1>1, <1>3, NewUnit, TopInside
<1>6. /\ c.entities \in Array /\ Stacked(c.entities, {})
      /\ c.entities.back \in {e.entities.back, e.entities.back + 1}
      /\ Top(e.entities) < c.entities.back
  BY <1>3, <1>4, <1>5, StackedGet
<1> DEFINE slot == NewSlot(e, W, id, player, s, un)
<1>15. ASSUME NEW k \in Kinds
       PROVE  /\ slot \in [Places -> Units]
              /\ NewComps(e, W)[k] \in Array
              /\ CompsOK(slot, NewComps(e, W), Get(e.entities).back, k)
  BY <1>1, CreateComps, Zenon
<1> HIDE DEF slot
<1>16. c.slot = slot
  BY <1>4 DEF slot
<1>7. c.slot \in [Places -> Units]
  <2>1. "Transform" \in Kinds
    BY DEF Kinds
  <2> QED
    BY <2>1, <1>15, <1>16
<1>8. \A k \in Kinds : c.comps[k] \in Array /\ CompsOK(c.slot, c.comps, c.entities.back, k)
  BY <1>4, <1>15, <1>16
<1>9. c.comps \in [Kinds -> Array]
  <2>1. c.comps = [k \in Kinds |-> c.comps[k]]
    BY <1>4 DEF NewComps
  <2> QED
    BY <2>1, <1>8
<1>10. \A i \in Places : c.slot[i].serverIndex < sb
  <2>1. \A i \in Places : i # Top(e.entities) => c.slot[i] = e.slot[i]
    BY <1>3, <1>4 DEF NewSlot
  <2>2. c.slot[Top(e.entities)].serverIndex = s
    BY <1>3, <1>4, <1>5 DEF NewSlot
  <2> QED
    BY <2>1, <2>2, <1>3
<1>11. c.owner \in [Kinds -> [Places -> Int]] /\ c.moving \in [Places -> Int]
  <2>1. Top(e.entities) \in Int /\ None \in Int
    BY <1>5 DEF Places, None
  <2> QED
    <3>1. ASSUME NEW k \in Kinds
          PROVE  /\ e.owner[k] \in [Places -> Int]
                 /\ [e.owner[k] EXCEPT ![NewComp(e, W)[k]] = Top(e.entities)] \in [Places -> Int]
      BY <2>1, <1>3
    <3>2. NewOwner(e, W) \in [Kinds -> [Places -> Int]]
      BY <3>1 DEF NewOwner
    <3>3. NewMoving(e, W) \in [Places -> Int]
      BY <2>1, <1>3 DEF NewMoving
    <3> QED
      BY <3>2, <3>3, <1>4
<1>12. \A t \in DOMAIN c.index : t \in Nat /\ c.index[t] \in 0 .. c.entities.back - 1
  BY <1>3, <1>4, <1>6
<1>13. c.cachedEntities.back \in {e.cachedEntities.back, e.cachedEntities.back + 1}
  BY <1>3, <1>4, CachedBack
<1>14. UnitsOK(c, sb)
  BY <1>3, <1>4, <1>6, <1>7, <1>8, <1>9, <1>10, <1>11, <1>12, <1>13 DEF UnitsOK
<1> QED
  BY <1>2, <1>3, <1>5, <1>6, <1>13, <1>14

\* burn() returns what was handed out.
LEMMA BurnKeeps ==
    ASSUME NEW e, NEW sb, UnitsOK(e, sb), NEW id, NEW i \in 0 .. e.entities.back - 1,
           NEW comp \in [Kinds -> {None} \cup Nat],
           \A k \in Kinds : comp[k] # None => comp[k] < e.comps[k].back
    PROVE  LET b == Burn(e, id, i, comp) IN
           /\ UnitsOK(b, sb)
           /\ b.entities.back = e.entities.back
           /\ b.cachedEntities.back = e.cachedEntities.back
<1>1. PICK b : b = Burn(e, id, i, comp)
  OBVIOUS
<1>2. /\ IsManager(e) /\ Stacked(e.entities, {}) /\ e.entities \in Array
      /\ e.comps \in [Kinds -> Array] /\ \A k \in Kinds : CompsOK(e.slot, e.comps, e.entities.back, k)
      /\ e.entities.back \in Nat
  BY IndexRangeAssumption DEF UnitsOK, Array
<1>3. /\ IsManager(b)
      /\ b.entities = Remove(e.entities, i) /\ b.comps = BurnComponents(e.comps, comp)
      /\ b.slot = e.slot /\ b.owner = e.owner /\ b.moving = e.moving /\ b.index = e.index
      /\ b.cachedEntities = Release(e, id).cachedEntities
  BY <1>1, <1>2, BurnFields
<1>4. b.entities \in Array /\ Stacked(b.entities, {}) /\ b.entities.back = e.entities.back
  <2>1. i \in Int
    BY <1>2
  <2>2. /\ Remove(e.entities, i) \in Array /\ Stacked(Remove(e.entities, i), {})
        /\ Remove(e.entities, i).back = e.entities.back
    <3>1. e.entities \in Array /\ Stacked(e.entities, {})
      BY <1>2
    <3> QED
      BY <2>1, <3>1, StackedRemove
  <2> QED
    BY <2>2, <1>3
<1>5. b.cachedEntities.back = e.cachedEntities.back
  <2>1. IsManager(e)
    BY <1>2
  <2>2. \/ Release(e, id).cachedEntities = e.cachedEntities
        \/ Release(e, id).cachedEntities = Remove(e.cachedEntities, e.cache[id].entity)
    BY <2>1, ReleaseFields
  <2>3. Remove(e.cachedEntities, e.cache[id].entity).back = e.cachedEntities.back
    BY DEF Remove
  <2> QED
    BY <2>2, <2>3, <1>3
<1>6. ASSUME NEW k \in Kinds
      PROVE  b.comps[k] \in Array /\ CompsOK(b.slot, b.comps, b.entities.back, k)
  <2>1. b.comps[k] = e.comps[k] \/ (comp[k] # None /\ b.comps[k] = Remove(e.comps[k], comp[k]))
    BY <1>3 DEF BurnComponents, Returned
  <2>2. /\ e.comps[k] \in Array /\ Stacked(e.comps[k], {}) /\ CompsOK(e.slot, e.comps, e.entities.back, k)
        /\ Lent(e.comps[k]) <= Cardinality(Holders(e.slot, k))
        /\ Lent(e.comps[k]) \in Int
    BY <1>2 DEF CompsOK, Array, Stacked, Lent
  <2>3. CASE b.comps[k] = e.comps[k]
    BY <2>3, <2>2, <1>3, <1>4 DEF CompsOK
  <2>4. CASE comp[k] # None /\ b.comps[k] = Remove(e.comps[k], comp[k])
    <3>1. e.comps[k].back \in Nat /\ comp[k] \in 0 .. e.comps[k].back - 1
      BY <2>2, <2>4, IndexRangeAssumption DEF Array, None
    <3>2. /\ b.comps[k] \in Array /\ Stacked(b.comps[k], {}) /\ b.comps[k].back = e.comps[k].back
          /\ Lent(b.comps[k]) = Lent(e.comps[k]) - 1
      BY <2>2, <2>4, <3>1, StackedRemove
    <3>3. Cardinality(Holders(e.slot, k)) \in Nat
      BY <2>2, <1>2, HoldersFinite DEF CompsOK
    <3>4. Lent(b.comps[k]) <= Cardinality(Holders(e.slot, k))
      BY <2>2, <3>2, <3>3
    <3> QED
      BY <2>2, <3>2, <3>4, <1>3, <1>4 DEF CompsOK
  <2> QED
    BY <2>1, <2>3, <2>4
<1>7. b.comps \in [Kinds -> Array]
  <2>1. b.comps = [k \in Kinds |-> b.comps[k]]
    BY <1>3 DEF BurnComponents, Returned
  <2> QED
    BY <2>1, <1>6
<1>8. UnitsOK(b, sb)
  BY <1>3, <1>4, <1>5, <1>6, <1>7 DEF UnitsOK
<1> QED
  BY <1>1, <1>4, <1>5, <1>8

LEMMA InsertKeeps ==
    ASSUME NEW e, NEW sb, UnitsOK(e, sb), NEW s \in Nat, NEW i \in 0 .. e.entities.back - 1
    PROVE  /\ UnitsOK(Insert(e, s, i), sb)
           /\ Insert(e, s, i).entities = e.entities
           /\ Insert(e, s, i).cachedEntities = e.cachedEntities
<1>1. PICK n : n = Insert(e, s, i)
  OBVIOUS
<1>2. IsManager(e)
  BY DEF UnitsOK
<1>3. /\ n = [e EXCEPT !.index = n.index] /\ IsManager(n)
      /\ DOMAIN n.index = DOMAIN e.index \cup {s}
      /\ \A t \in DOMAIN e.index : n.index[t] = e.index[t]
      /\ s \notin DOMAIN e.index => n.index[s] = i
  BY <1>1, <1>2, InsertFields
<1>4. /\ n.entities = e.entities /\ n.slot = e.slot /\ n.comps = e.comps /\ n.owner = e.owner
      /\ n.moving = e.moving /\ n.cachedEntities = e.cachedEntities
  BY <1>2, <1>3 DEF IsManager
<1>5. \A t \in DOMAIN n.index : t \in Nat /\ n.index[t] \in 0 .. n.entities.back - 1
  BY <1>3, <1>4 DEF UnitsOK
<1>6. UnitsOK(n, sb)
  BY <1>3, <1>4, <1>5 DEF UnitsOK
<1> QED
  BY <1>1, <1>4, <1>6

\* More slots at the server do not disturb the units.
LEMMA MoreSlots ==
    ASSUME NEW e, NEW sb \in Int, NEW tb \in Int, sb <= tb, UnitsOK(e, sb)
    PROVE  UnitsOK(e, tb)
<1>1. \A i \in Places : e.slot[i].serverIndex \in Int
  BY DEF UnitsOK, Units, None
<1>2. \A i \in Places : e.slot[i].serverIndex < tb
  BY <1>1 DEF UnitsOK
<1> QED
  BY <1>2 DEF UnitsOK

-----------------------------------------------------------------------------
(* The messages, the server, and the slots the bounds leave. *)

Messages == [op : {"CREATE", "DELETE", "TRANSFORM"}, id : Prototypes \cup {None},
             slot : {None} \cup Nat, client : {Me, Peer}, serverIndex : {None} \cup Nat,
             unit : Nat]

\* A message to the server, and one to the client: sb and back are _back of the server's array
\* and of the client's.
UpOK(msg, sb, back) ==
    /\ msg.serverIndex < sb
    /\ msg.op = "CREATE" => msg.client = Me /\ msg.id \in Prototypes /\ msg.slot \in 0 .. back - 1

DownOK(msg, sb, back) ==
    /\ msg.serverIndex < sb
    /\ msg.op = "CREATE" => /\ msg.id \in Prototypes /\ msg.serverIndex \in Nat
                            /\ msg.client = Me => msg.slot \in 0 .. back - 1

UpsOK(q, sb, back) == q \in Seq(Messages) /\ \A i \in 1 .. Len(q) : UpOK(q[i], sb, back)
DownsOK(q, sb, back) == q \in Seq(Messages) /\ \A i \in 1 .. Len(q) : DownOK(q[i], sb, back)

\* A burnt entity without a server index leaves a stray on the server's stack.
ServerOK(a, others) ==
    /\ a \in Array /\ Stacked(a, {IndexRange - 1})
    /\ \A s \in DOMAIN others : s \in 0 .. a.back - 1 /\ others[s] \in Prototypes

\* The units a message will add at the client.
Due(msg) == IF msg.op = "CREATE" /\ msg.client # Me THEN 1 ELSE 0

\* n creations are enough for the slots handed out and those the messages in q will take:
\* g counts them at each place of the queue.
Counts(g, q, back, cached, n) ==
    /\ g \in [0 .. Len(q) -> Int]
    /\ back <= g[0] /\ cached <= g[0] /\ g[Len(q)] <= n
    /\ \A i \in 1 .. Len(q) : g[i - 1] + Due(q[i]) <= g[i]
    /\ \A i, j \in 0 .. Len(q) : i <= j => g[i] <= g[j]

RoomOK(q, back, cached, n) == \E g : Counts(g, q, back, cached, n)

LEMMA AppendLemma ==
    ASSUME NEW S, NEW q \in Seq(S), NEW x \in S
    PROVE  /\ Append(q, x) \in Seq(S) /\ Len(Append(q, x)) = Len(q) + 1 /\ Len(q) \in Nat
           /\ \A i \in 1 .. Len(q) : Append(q, x)[i] = q[i]
           /\ Append(q, x)[Len(q) + 1] = x
           /\ Append(q, x) # <<>>
OBVIOUS

LEMMA TailLemma ==
    ASSUME NEW S, NEW q \in Seq(S), q # <<>>
    PROVE  /\ Tail(q) \in Seq(S) /\ Len(Tail(q)) = Len(q) - 1 /\ Len(q) \in Nat \ {0}
           /\ \A i \in 1 .. Len(Tail(q)) : Tail(q)[i] = q[i + 1]
           /\ Head(q) = q[1] /\ Head(q) \in S /\ 1 \in 1 .. Len(q)
OBVIOUS

LEMMA UpsAppend ==
    ASSUME NEW q, NEW sb, NEW back, UpsOK(q, sb, back), NEW x \in Messages, UpOK(x, sb, back)
    PROVE  UpsOK(Append(q, x), sb, back)
<1>1. q \in Seq(Messages)
  BY DEF UpsOK
<1> QED
  BY <1>1, AppendLemma DEF UpsOK

LEMMA DownsAppend ==
    ASSUME NEW q, NEW sb, NEW back, DownsOK(q, sb, back), NEW x \in Messages, DownOK(x, sb, back)
    PROVE  DownsOK(Append(q, x), sb, back)
<1>1. q \in Seq(Messages)
  BY DEF DownsOK
<1> QED
  BY <1>1, AppendLemma DEF DownsOK

LEMMA UpsTail ==
    ASSUME NEW q, NEW sb, NEW back, UpsOK(q, sb, back), q # <<>>
    PROVE  UpsOK(Tail(q), sb, back) /\ Head(q) \in Messages /\ UpOK(Head(q), sb, back)
<1>1. q \in Seq(Messages)
  BY DEF UpsOK
<1> QED
  BY <1>1, TailLemma DEF UpsOK

LEMMA DownsTail ==
    ASSUME NEW q, NEW sb, NEW back, DownsOK(q, sb, back), q # <<>>
    PROVE  DownsOK(Tail(q), sb, back) /\ Head(q) \in Messages /\ DownOK(Head(q), sb, back)
<1>1. q \in Seq(Messages)
  BY DEF DownsOK
<1> QED
  BY <1>1, TailLemma DEF DownsOK

\* The arrays only grow.
LEMMA QueuesMore ==
    ASSUME NEW q, NEW sb \in Nat, NEW tb \in Nat, NEW back \in Nat, NEW more \in Nat,
           sb <= tb, back <= more
    PROVE  /\ UpsOK(q, sb, back) => UpsOK(q, tb, more)
           /\ DownsOK(q, sb, back) => DownsOK(q, tb, more)
<1>1. ASSUME NEW x \in Messages
      PROVE  /\ UpOK(x, sb, back) => UpOK(x, tb, more)
             /\ DownOK(x, sb, back) => DownOK(x, tb, more)
  BY DEF UpOK, DownOK, Messages, None
<1>2. q \in Seq(Messages) => \A i \in 1 .. Len(q) : q[i] \in Messages
  OBVIOUS
<1> QED
  BY <1>1, <1>2 DEF UpsOK, DownsOK

LEMMA RoomAppend ==
    ASSUME NEW q \in Seq(Messages), NEW back \in Int, NEW cached \in Int, NEW n \in Int,
           RoomOK(q, back, cached, n), NEW x \in Messages, NEW k \in Int, n + Due(x) <= k
    PROVE  RoomOK(Append(q, x), back, cached, k)
<1>1. PICK g : Counts(g, q, back, cached, n)
  BY DEF RoomOK
<1>2. PICK r : r = Append(q, x)
  OBVIOUS
<1>3. /\ r \in Seq(Messages) /\ Len(r) = Len(q) + 1 /\ Len(q) \in Nat
      /\ \A i \in 1 .. Len(q) : r[i] = q[i]
      /\ r[Len(q) + 1] = x
  BY <1>2, AppendLemma
<1>4. PICK h : h = [i \in 0 .. Len(r) |-> IF i <= Len(q) THEN g[i] ELSE k]
  OBVIOUS
<1>5. /\ g \in [0 .. Len(q) -> Int] /\ back <= g[0] /\ cached <= g[0] /\ g[Len(q)] <= n
      /\ \A i \in 1 .. Len(q) : g[i - 1] + Due(q[i]) <= g[i]
      /\ \A i, j \in 0 .. Len(q) : i <= j => g[i] <= g[j]
  BY <1>1 DEF Counts
<1>6. Due(x) \in {0, 1}
  BY DEF Due
<1>7. /\ \A i \in 0 .. Len(q) : h[i] = g[i] /\ g[i] \in Int
      /\ h[Len(r)] = k
      /\ h \in [0 .. Len(r) -> Int]
  <2>1. \A i \in 0 .. Len(q) : g[i] \in Int
    BY <1>5
  <2>2. \A i \in 0 .. Len(r) : h[i] = (IF i <= Len(q) THEN g[i] ELSE k)
    BY <1>4
  <2>3. \A i \in 0 .. Len(q) : i \in 0 .. Len(r) /\ i <= Len(q)
    BY <1>3
  <2>4. Len(r) \in 0 .. Len(r) /\ ~(Len(r) <= Len(q))
    BY <1>3
  <2>5. \A i \in 0 .. Len(r) : i <= Len(q) => i \in 0 .. Len(q)
    BY <1>3
  <2>6. \A i \in 0 .. Len(r) : h[i] \in Int
    BY <2>1, <2>2, <2>5
  <2> QED
    BY <2>1, <2>2, <2>3, <2>4, <2>6, <1>4
<1>8. \A i \in 0 .. Len(q) : g[i] <= k
  <2>1. \A i \in 0 .. Len(q) : g[i] <= g[Len(q)]
    BY <1>3, <1>5
  <2> QED
    BY <2>1, <1>3, <1>5, <1>6, <1>7
<1>9. ASSUME NEW i \in 1 .. Len(r) PROVE h[i - 1] + Due(r[i]) <= h[i]
  <2>1. CASE i \in 1 .. Len(q)
    BY <2>1, <1>3, <1>5, <1>7
  <2>2. CASE i = Len(r)
    <3>1. h[i - 1] = g[Len(q)] /\ r[i] = x /\ h[i] = k
      BY <2>2, <1>3, <1>7
    <3> QED
      BY <3>1, <1>3, <1>5, <1>6
  <2> QED
    BY <2>1, <2>2, <1>3
<1>10. ASSUME NEW i \in 0 .. Len(r), NEW j \in 0 .. Len(r), i <= j PROVE h[i] <= h[j]
  <2>1. CASE j \in 0 .. Len(q)
    BY <2>1, <1>3, <1>5, <1>7, <1>10
  <2>2. CASE j = Len(r) /\ i \in 0 .. Len(q)
    BY <2>2, <1>7, <1>8
  <2>3. CASE j = Len(r) /\ i = Len(r)
    BY <2>3, <1>7
  <2> QED
    BY <2>1, <2>2, <2>3, <1>3, <1>10
<1>11. back <= h[0] /\ cached <= h[0] /\ h[Len(r)] <= k
  BY <1>3, <1>5, <1>7
<1> QED
  BY <1>2, <1>7, <1>9, <1>10, <1>11 DEF RoomOK, Counts

LEMMA RoomTail ==
    ASSUME NEW q \in Seq(Messages), NEW back \in Int, NEW cached \in Int, NEW n \in Int,
           RoomOK(q, back, cached, n), q # <<>>,
           NEW b \in Int, NEW c \in Int, b <= back + Due(Head(q)), c <= cached + Due(Head(q))
    PROVE  /\ RoomOK(Tail(q), b, c, n)
           /\ back + Due(Head(q)) <= n
<1>1. PICK g : Counts(g, q, back, cached, n)
  BY DEF RoomOK
<1>2. PICK r : r = Tail(q)
  OBVIOUS
<1>3. /\ r \in Seq(Messages) /\ Len(r) = Len(q) - 1 /\ Len(q) \in Nat \ {0}
      /\ \A i \in 1 .. Len(r) : r[i] = q[i + 1]
      /\ Head(q) = q[1]
  BY <1>2, TailLemma
<1>4. PICK h : h = [i \in 0 .. Len(r) |-> g[i + 1]]
  OBVIOUS
<1>5. /\ g \in [0 .. Len(q) -> Int] /\ back <= g[0] /\ cached <= g[0] /\ g[Len(q)] <= n
      /\ \A i \in 1 .. Len(q) : g[i - 1] + Due(q[i]) <= g[i]
      /\ \A i, j \in 0 .. Len(q) : i <= j => g[i] <= g[j]
  BY <1>1 DEF Counts
<1>6. Due(q[1]) \in {0, 1}
  BY DEF Due
<1>7. /\ \A i \in 0 .. Len(r) : h[i] = g[i + 1] /\ g[i + 1] \in Int
      /\ h \in [0 .. Len(r) -> Int]
  <2>1. \A i \in 0 .. Len(r) : i + 1 \in 0 .. Len(q)
    BY <1>3
  <2>2. \A i \in 0 .. Len(r) : g[i + 1] \in Int
    BY <2>1, <1>5
  <2> QED
    BY <2>2, <1>4
<1>8. g[0] + Due(q[1]) <= g[1] /\ g[1] <= g[Len(q)] /\ g[0] \in Int /\ g[1] \in Int /\ g[Len(q)] \in Int
  <2>1. 0 \in 0 .. Len(q) /\ 1 \in 0 .. Len(q) /\ Len(q) \in 0 .. Len(q) /\ 1 \in 1 .. Len(q) /\ 1 <= Len(q)
    BY <1>3
  <2>2. g[1 - 1] + Due(q[1]) <= g[1]
    BY <2>1, <1>5
  <2> QED
    BY <2>1, <2>2, <1>5
<1>9. back + Due(Head(q)) <= n
  BY <1>3, <1>5, <1>6, <1>8
<1>10. b <= h[0] /\ c <= h[0] /\ h[Len(r)] <= n
  <2>1. h[0] = g[1] /\ h[Len(r)] = g[Len(q)]
    BY <1>3, <1>7
  <2> QED
    BY <2>1, <1>3, <1>5, <1>6, <1>8
<1>11. ASSUME NEW i \in 1 .. Len(r) PROVE h[i - 1] + Due(r[i]) <= h[i]
  <2>1. i + 1 \in 1 .. Len(q) /\ r[i] = q[i + 1] /\ h[i] = g[i + 1] /\ h[i - 1] = g[i]
    BY <1>3, <1>7
  <2>2. g[(i + 1) - 1] + Due(q[i + 1]) <= g[i + 1]
    BY <2>1, <1>5
  <2> QED
    BY <2>1, <2>2
<1>12. ASSUME NEW i \in 0 .. Len(r), NEW j \in 0 .. Len(r), i <= j PROVE h[i] <= h[j]
  BY <1>3, <1>5, <1>7, <1>12
<1> QED
  BY <1>2, <1>7, <1>9, <1>10, <1>11, <1>12 DEF RoomOK, Counts

LEMMA RoomMore ==
    ASSUME NEW q \in Seq(Messages), NEW back \in Int, NEW cached \in Int, NEW n \in Int,
           RoomOK(q, back, cached, n), NEW b \in Int, NEW c \in Int, b <= back + 1, c <= cached + 1
    PROVE  /\ RoomOK(q, b, c, n + 1)
           /\ b <= back /\ c <= cached => RoomOK(q, b, c, n)
           /\ back <= n /\ cached <= n
<1>1. PICK g : Counts(g, q, back, cached, n)
  BY DEF RoomOK
<1>2. /\ g \in [0 .. Len(q) -> Int] /\ back <= g[0] /\ cached <= g[0] /\ g[Len(q)] <= n
      /\ \A i \in 1 .. Len(q) : g[i - 1] + Due(q[i]) <= g[i]
      /\ \A i, j \in 0 .. Len(q) : i <= j => g[i] <= g[j]
      /\ Len(q) \in Nat
  BY <1>1 DEF Counts
<1>3. g[0] <= g[Len(q)] /\ g[0] \in Int /\ g[Len(q)] \in Int
  BY <1>2
<1>4. back <= n /\ cached <= n
  BY <1>2, <1>3
<1>5. ASSUME b <= back, c <= cached PROVE RoomOK(q, b, c, n)
  <2>1. b <= g[0] /\ c <= g[0]
    BY <1>2, <1>3, <1>5
  <2>2. Counts(g, q, b, c, n)
    BY <2>1, <1>2 DEF Counts
  <2> QED
    BY <2>2 DEF RoomOK
<1>6. RoomOK(q, b, c, n + 1)
  <2>1. PICK h : h = [i \in 0 .. Len(q) |-> g[i] + 1]
    OBVIOUS
  <2>2. /\ h \in [0 .. Len(q) -> Int]
        /\ \A i \in 0 .. Len(q) : h[i] = g[i] + 1 /\ g[i] \in Int
    BY <2>1, <1>2
  <2>3. b <= h[0] /\ c <= h[0] /\ h[Len(q)] <= n + 1
    BY <2>2, <1>2, <1>3
  <2>4. ASSUME NEW i \in 1 .. Len(q) PROVE h[i - 1] + Due(q[i]) <= h[i]
    <3>1. Due(q[i]) \in {0, 1}
      BY DEF Due
    <3>2. h[i - 1] = g[i - 1] + 1 /\ h[i] = g[i] + 1 /\ g[i] \in Int /\ g[i - 1] \in Int
      BY <2>2, <1>2
    <3> QED
      BY <3>1, <3>2, <1>2
  <2>5. \A i, j \in 0 .. Len(q) : i <= j => h[i] <= h[j]
    BY <2>2, <1>2
  <2> QED
    BY <2>2, <2>3, <2>4, <2>5 DEF RoomOK, Counts
<1> QED
  BY <1>4, <1>5, <1>6

-----------------------------------------------------------------------------
(* The base invariant: the shape of everything, whatever happens. *)

\* What the player has selected: a slot, or nothing yet.
Selections == [slot : {None} \cup Places, unit : Nat]

BaseInv ==
    /\ UnitsOK(m, server.back)
    /\ ServerOK(server, peers)
    /\ UpsOK(toServer, server.back, m.entities.back)
    /\ DownsOK(toClient, server.back, m.entities.back)
    /\ RoomOK(toClient, m.entities.back, m.cachedEntities.back, created)
    /\ created \in 0 .. MaxCreates
    /\ units \in [0 .. server.back - 1 -> Nat]
    /\ selection \in Selections

LEMMA BaseTypes ==
    ASSUME BaseInv
    PROVE  /\ server.back \in Nat /\ m.entities.back \in Nat /\ m.cachedEntities.back \in Nat
           /\ created \in Nat /\ MaxCreates \in Nat /\ m.entities.back <= created
           /\ toServer \in Seq(Messages) /\ toClient \in Seq(Messages)
           /\ IsManager(m) /\ m.slot \in [Places -> Units]
<1>1. server \in Array /\ m.entities \in Array /\ m.cachedEntities.back \in Nat
      /\ toServer \in Seq(Messages) /\ toClient \in Seq(Messages)
      /\ IsManager(m) /\ m.slot \in [Places -> Units]
  BY DEF BaseInv, UnitsOK, ServerOK, UpsOK, DownsOK
<1>2. server.back \in Nat /\ m.entities.back \in Nat /\ created \in Nat /\ MaxCreates \in Nat
  BY <1>1, IndexRangeAssumption, BoundsAssumption DEF BaseInv, Array
<1>3. m.entities.back <= created
  BY <1>1, <1>2, RoomMore DEF BaseInv
<1> QED
  BY <1>1, <1>2, <1>3

LEMMA BaseInit == Init => BaseInv
<1> SUFFICES ASSUME Init PROVE BaseInv
  OBVIOUS
<1>1. /\ m.entities = New /\ m.slot = [i \in Places |-> EmptyUnit] /\ m.comps = [k \in Kinds |-> New]
      /\ m.owner = [k \in Kinds |-> [c \in Places |-> None]] /\ m.moving = [c \in Places |-> None]
      /\ m.cachedEntities = New /\ m.index = <<>> /\ IsManager(m)
  BY DEF Init, IsManager
<1>2. /\ toServer = <<>> /\ toClient = <<>> /\ server = New /\ peers = <<>> /\ created = 0
  BY DEF Init
<1>3. /\ New \in Array /\ \A X : Stacked(New, X)
      /\ Lent(New) = 0 /\ New.back = 0
  BY NewLemma
<1>4. EmptyUnit \in Units
  BY DEF EmptyUnit, Units, NoComponents, Stray
<1>5. \A k \in Kinds : Holders(m.slot, k) = {}
  BY <1>1 DEF Holders, EmptyUnit, NoComponents
<1>6. Cardinality({}) = 0
  BY FS_EmptySet
<1>7. UnitsOK(m, 0)
  <2>1. ASSUME NEW k \in Kinds PROVE CompsOK(m.slot, m.comps, m.entities.back, k)
    <3>1. m.comps[k] = New
      BY <1>1
    <3>2. Stacked(m.comps[k], {}) /\ Lent(m.comps[k]) = 0 /\ m.comps[k].back = 0 /\ m.entities.back = 0
      BY <3>1, <1>1, <1>3
    <3>3. Holders(m.slot, k) = {} /\ Cardinality(Holders(m.slot, k)) = 0
      BY <1>5, <1>6
    <3> QED
      BY <3>2, <3>3 DEF CompsOK
  <2>2. m.slot \in [Places -> Units] /\ \A i \in Places : m.slot[i].serverIndex < 0
    BY <1>1, <1>4 DEF EmptyUnit, None
  <2>3. m.owner \in [Kinds -> [Places -> Int]] /\ m.moving \in [Places -> Int]
    BY <1>1 DEF None
  <2>4. DOMAIN m.index = {}
    BY <1>1
  <2>5. m.entities \in Array /\ Stacked(m.entities, {}) /\ m.comps \in [Kinds -> Array]
    BY <1>1, <1>3
  <2>6. m.cachedEntities.back \in Nat /\ m.entities.back \in Nat
    BY <1>1, <1>3
  <2> QED
    BY <1>1, <2>1, <2>2, <2>3, <2>4, <2>5, <2>6 DEF UnitsOK
<1>8. ServerOK(server, peers)
  <2>1. DOMAIN peers = {}
    BY <1>2
  <2> QED
    BY <1>2, <1>3, <2>1 DEF ServerOK
<1>9. RoomOK(<<>>, 0, 0, 0)
  <2>1. PICK g : g = [i \in 0 .. 0 |-> 0]
    OBVIOUS
  <2>2. Len(<<>>) = 0
    OBVIOUS
  <2>3. g \in [0 .. 0 -> Int] /\ g[0] = 0
    BY <2>1
  <2>4. \A i, j \in 0 .. 0 : i <= j => g[i] <= g[j]
    BY <2>3
  <2>5. Counts(g, <<>>, 0, 0, 0)
    BY <2>2, <2>3, <2>4 DEF Counts
  <2> QED
    BY <2>5 DEF RoomOK
<1>10. UpsOK(<<>>, 0, 0) /\ DownsOK(<<>>, 0, 0)
  BY DEF UpsOK, DownsOK
<1>11. units \in [0 .. -1 -> Nat] /\ selection \in Selections
  <2>1. DOMAIN units = {} /\ units = [s \in {} |-> Stray]
    BY DEF Init
  <2>2. 0 .. -1 = {}
    OBVIOUS
  <2>3. selection \in Selections
    BY DEF Init, Selections, Stray
  <2> QED
    BY <2>1, <2>2, <2>3
<1>12. server.back - 1 = -1
  BY <1>2, <1>3
<1> QED
  BY <1>1, <1>2, <1>3, <1>7, <1>8, <1>9, <1>10, <1>11, <1>12, BoundsAssumption DEF BaseInv

\* What the messages are.
LEMMA MessageType ==
    ASSUME NEW op \in {"CREATE", "DELETE", "TRANSFORM"}, NEW id \in Prototypes \cup {None},
           NEW slot \in {None} \cup Nat, NEW client \in {Me, Peer}, NEW s \in {None} \cup Nat,
           NEW un \in Nat
    PROVE  Message(op, id, slot, client, s, un) \in Messages
BY DEF Message, Messages

LEMMA BaseCreateOwn ==
    ASSUME BaseInv, NEW id \in Prototypes, CreateOwn(id)
    PROVE  BaseInv'
<1>1. /\ created < MaxCreates /\ MayGet(m.entities)
      /\ toServer' = Append(toServer, Message("CREATE", id, Top(m.entities), Me, None, created + 1))
      /\ m' = Create(m, id, Me, None, created + 1) /\ created' = created + 1
      /\ toClient' = toClient /\ server' = server /\ peers' = peers
      /\ units' = units /\ selection' = selection
  BY DEF CreateOwn, MayCreate
<1>2. /\ server.back \in Nat /\ m.entities.back \in Nat /\ m.cachedEntities.back \in Nat
      /\ created \in Nat /\ MaxCreates \in Nat /\ m.entities.back <= created
      /\ toServer \in Seq(Messages) /\ toClient \in Seq(Messages)
  BY BaseTypes
<1>3. None < server.back /\ None \in {None} \cup Nat /\ created + 1 \in Nat
  BY <1>2 DEF None
<1>4. /\ UnitsOK(m', server.back)
      /\ m'.entities.back \in {m.entities.back, m.entities.back + 1}
      /\ m'.cachedEntities.back \in {m.cachedEntities.back, m.cachedEntities.back + 1}
      /\ Top(m.entities) \in 0 .. m'.entities.back - 1
  BY <1>1, <1>2, <1>3, CreateKeeps DEF BaseInv
<1>5. PICK x : x = Message("CREATE", id, Top(m.entities), Me, None, created + 1)
  OBVIOUS
<1>6. x \in Messages /\ UpOK(x, server.back, m'.entities.back)
  <2>1. Top(m.entities) \in Nat
    BY <1>2, <1>4
  <2>2. x \in Messages
    BY <2>1, <1>3, <1>5, MessageType
  <2> QED
    BY <2>2, <1>3, <1>4, <1>5 DEF UpOK, Message
<1> DEFINE n == m'.entities.back
           c == m'.cachedEntities.back
<1>7. UpsOK(toServer, server.back, n) /\ DownsOK(toClient, server.back, n)
  <2>1. n \in Nat /\ m.entities.back <= n
    BY <1>2, <1>4
  <2>2. UpsOK(toServer, server.back, m.entities.back) /\ DownsOK(toClient, server.back, m.entities.back)
    BY DEF BaseInv
  <2>3. server.back \in Nat /\ m.entities.back \in Nat /\ server.back <= server.back
    BY <1>2
  <2> HIDE DEF n
  <2>4. UpsOK(toServer, server.back, n)
    BY <2>1, <2>2, <2>3, QueuesMore
  <2>5. DownsOK(toClient, server.back, n)
    BY <2>1, <2>2, <2>3, QueuesMore
  <2> QED
    BY <2>4, <2>5
<1>8. UpsOK(toServer', server.back, m'.entities.back)
  BY <1>1, <1>5, <1>6, <1>7, UpsAppend
<1>9. RoomOK(toClient, n, c, created + 1)
  <2>1. n \in Int /\ n <= m.entities.back + 1
    BY <1>2, <1>4
  <2>2. c \in Int /\ c <= m.cachedEntities.back + 1
    BY <1>2, <1>4
  <2>3. RoomOK(toClient, m.entities.back, m.cachedEntities.back, created)
    BY DEF BaseInv
  <2> HIDE DEF n, c
  <2> QED
    BY <2>1, <2>2, <2>3, <1>2, RoomMore
<1> QED
  BY <1>1, <1>2, <1>4, <1>7, <1>8, <1>9 DEF BaseInv

\* The oldest message of the client; one that adds no unit leaves as much room as there was.
LEMMA PopClient ==
    ASSUME BaseInv, toClient # <<>>
    PROVE  /\ Head(toClient) \in Messages
           /\ DownOK(Head(toClient), server.back, m.entities.back)
           /\ DownsOK(Tail(toClient), server.back, m.entities.back)
           /\ Due(Head(toClient)) = 0
                => RoomOK(Tail(toClient), m.entities.back, m.cachedEntities.back, created)
<1>1. /\ DownsOK(toClient, server.back, m.entities.back)
      /\ RoomOK(toClient, m.entities.back, m.cachedEntities.back, created)
  BY DEF BaseInv
<1>2. /\ m.entities.back \in Int /\ m.cachedEntities.back \in Int /\ created \in Int
      /\ toClient \in Seq(Messages)
  BY BaseTypes
<1>3. /\ Head(toClient) \in Messages
      /\ DownOK(Head(toClient), server.back, m.entities.back)
      /\ DownsOK(Tail(toClient), server.back, m.entities.back)
  BY <1>1, DownsTail
<1>4. Due(Head(toClient)) = 0
        => RoomOK(Tail(toClient), m.entities.back, m.cachedEntities.back, created)
  <2> SUFFICES ASSUME Due(Head(toClient)) = 0
               PROVE  RoomOK(Tail(toClient), m.entities.back, m.cachedEntities.back, created)
    OBVIOUS
  <2>1. /\ m.entities.back <= m.entities.back + Due(Head(toClient))
        /\ m.cachedEntities.back <= m.cachedEntities.back + Due(Head(toClient))
    BY <1>2
  <2> QED
    BY <2>1, <1>1, <1>2, RoomTail
<1> QED
  BY <1>3, <1>4

LEMMA PopServer ==
    ASSUME BaseInv, toServer # <<>>
    PROVE  /\ Head(toServer) \in Messages
           /\ UpOK(Head(toServer), server.back, m.entities.back)
           /\ UpsOK(Tail(toServer), server.back, m.entities.back)
BY UpsTail DEF BaseInv

\* A message that adds no unit may always be sent.
LEMMA PushClient ==
    ASSUME BaseInv, NEW q \in {toClient, Tail(toClient)}, NEW x \in Messages, Due(x) = 0,
           RoomOK(q, m.entities.back, m.cachedEntities.back, created),
           DownsOK(q, server.back, m.entities.back),
           DownOK(x, server.back, m.entities.back)
    PROVE  /\ DownsOK(Append(q, x), server.back, m.entities.back)
           /\ RoomOK(Append(q, x), m.entities.back, m.cachedEntities.back, created)
<1>1. m.entities.back \in Int /\ m.cachedEntities.back \in Int /\ created \in Int
  BY BaseTypes
<1>2. q \in Seq(Messages)
  BY DEF DownsOK
<1>3. created + Due(x) <= created
  BY <1>1
<1>4. RoomOK(Append(q, x), m.entities.back, m.cachedEntities.back, created)
  BY <1>1, <1>2, <1>3, RoomAppend
<1> QED
  BY <1>4, DownsAppend

\* The manager's slots stay as they are, and the rest in shape.
LEMMA BaseKeep ==
    ASSUME BaseInv, server' = server, peers' = peers, created' = created, units' = units,
           selection' \in Selections,
           UnitsOK(m', server.back), m'.entities.back = m.entities.back,
           m'.cachedEntities.back = m.cachedEntities.back,
           UpsOK(toServer', server.back, m.entities.back),
           DownsOK(toClient', server.back, m.entities.back),
           RoomOK(toClient', m.entities.back, m.cachedEntities.back, created)
    PROVE  BaseInv'
BY DEF BaseInv

LEMMA BaseBurnOwn ==
    ASSUME BaseInv, NEW i \in Places, BurnOwn(i)
    PROVE  BaseInv'
<1>1. PICK x : x = Message("DELETE", m.slot[i].id, i, Me, m.slot[i].serverIndex, Stray)
  OBVIOUS
<1>2. /\ toServer' = Append(toServer, x)
      /\ m' = m \/ m' = Burn(m, m.slot[i].id, i, m.slot[i].comp)
      /\ Valid(m.entities, i)
      /\ created' = created /\ toClient' = toClient /\ server' = server /\ peers' = peers
      /\ units' = units /\ selection' = selection
  BY <1>1 DEF BurnOwn
<1>3. /\ UnitsOK(m, server.back) /\ m.entities.back \in Nat /\ m.slot \in [Places -> Units]
      /\ \A k \in Kinds : CompsOK(m.slot, m.comps, m.entities.back, k)
  BY BaseTypes DEF BaseInv, UnitsOK
<1>4. i \in Nat /\ i \in 0 .. m.entities.back - 1
  BY <1>2, <1>3, BoundsAssumption DEF Valid, Places
<1>5. /\ m.slot[i].comp \in [Kinds -> {None} \cup Nat]
      /\ m.slot[i].id \in Prototypes \cup {None} /\ m.slot[i].serverIndex \in {None} \cup Nat
      /\ m.slot[i].serverIndex < server.back
  BY <1>3 DEF Units, UnitsOK
<1>6. \A k \in Kinds : m.slot[i].comp[k] # None => m.slot[i].comp[k] < m.comps[k].back
  BY <1>3 DEF CompsOK, Holders
<1>7. /\ UnitsOK(m', server.back)
      /\ m'.entities.back = m.entities.back
      /\ m'.cachedEntities.back = m.cachedEntities.back
  <2>1. CASE m' = m
    BY <2>1, <1>3
  <2>2. CASE m' = Burn(m, m.slot[i].id, i, m.slot[i].comp)
    BY <2>2, <1>3, <1>4, <1>5, <1>6, BurnKeeps
  <2> QED
    BY <2>1, <2>2, <1>2
<1>8. x \in Messages /\ UpOK(x, server.back, m.entities.back)
  <2>1. x \in Messages
    BY <1>1, <1>4, <1>5, MessageType DEF Stray
  <2> QED
    BY <2>1, <1>1, <1>5 DEF UpOK, Message
<1>9. UpsOK(toServer', server.back, m.entities.back)
  BY <1>2, <1>8, UpsAppend DEF BaseInv
<1> QED
  BY <1>2, <1>7, <1>9, BaseKeep DEF BaseInv

LEMMA BaseProcessOwnCreate ==
    ASSUME BaseInv, ProcessOwnCreate
    PROVE  BaseInv'
<1>1. PICK msg : msg = Head(toClient)
  OBVIOUS
<1>2. PICK e : e = [m EXCEPT !.slot[msg.slot].serverIndex = msg.serverIndex]
  OBVIOUS
<1>3. /\ toClient # <<>> /\ msg.op = "CREATE" /\ msg.client = Me
      /\ m' = IF Valid(m.entities, msg.slot) THEN Insert(e, msg.serverIndex, msg.slot) ELSE m
      /\ toClient' = Tail(toClient) /\ toServer' = toServer
      /\ created' = created /\ server' = server /\ peers' = peers
      /\ units' = units /\ selection' = selection
  BY <1>1, <1>2 DEF ProcessOwnCreate
<1>4. /\ msg \in Messages /\ DownOK(msg, server.back, m.entities.back)
      /\ DownsOK(toClient', server.back, m.entities.back)
      /\ RoomOK(toClient', m.entities.back, m.cachedEntities.back, created)
  BY <1>1, <1>3, PopClient DEF Due
<1>5. /\ msg.serverIndex \in Nat /\ msg.serverIndex < server.back
      /\ msg.slot \in 0 .. m.entities.back - 1
  BY <1>3, <1>4 DEF DownOK
<1>6. /\ UnitsOK(m, server.back) /\ m.entities.back \in Nat /\ m.slot \in [Places -> Units]
      /\ IsManager(m) /\ m.entities.back <= MaxCreates /\ created \in Nat
  BY BaseTypes DEF BaseInv
<1>7. CASE Valid(m.entities, msg.slot)
  <2>1. PICK u : u = [m.slot[msg.slot] EXCEPT !.serverIndex = msg.serverIndex]
    OBVIOUS
  <2>2. msg.slot \in Places
    BY <1>5, <1>6, BoundsAssumption DEF Places
  <2>3. /\ e.slot = [m.slot EXCEPT ![msg.slot] = u]
        /\ e = [m EXCEPT !.slot = e.slot]
        /\ IsManager(e)
    BY <1>2, <1>6, <2>1 DEF IsManager
  <2>4. /\ e.entities = m.entities /\ e.comps = m.comps /\ e.owner = m.owner
        /\ e.moving = m.moving /\ e.index = m.index /\ e.cachedEntities = m.cachedEntities
    BY <2>3, <1>6 DEF IsManager
  <2>5. /\ u \in Units /\ u.comp = m.slot[msg.slot].comp /\ u.serverIndex = msg.serverIndex
    BY <2>1, <2>2, <1>5, <1>6 DEF Units
  <2>6. /\ e.slot \in [Places -> Units] 
        /\ \A j \in Places : e.slot[j].serverIndex < server.back
        /\ \A j \in Places : e.slot[j].comp = m.slot[j].comp
    BY <2>2, <2>3, <2>5, <1>5, <1>6 DEF UnitsOK
  <2>7. \A k \in Kinds : CompsOK(e.slot, e.comps, e.entities.back, k)
    BY <2>4, <2>6, <1>6 DEF UnitsOK, CompsOK, Holders
  <2>8. UnitsOK(e, server.back)
    BY <2>3, <2>4, <2>6, <2>7, <1>6 DEF UnitsOK
  <2>9. /\ UnitsOK(m', server.back)
        /\ m'.entities = m.entities /\ m'.cachedEntities = m.cachedEntities
    BY <2>4, <2>8, <1>3, <1>5, <1>7, InsertKeeps
  <2> QED
    BY <2>9, <1>3, <1>4, BaseKeep DEF BaseInv
<1>8. CASE ~Valid(m.entities, msg.slot)
  BY <1>3, <1>4, <1>6, <1>8, BaseKeep DEF BaseInv
<1> QED
  BY <1>7, <1>8

LEMMA BaseProcessPeerCreate ==
    ASSUME BaseInv, ProcessPeerCreate
    PROVE  BaseInv'
<1>1. PICK msg : msg = Head(toClient)
  OBVIOUS
<1>2. PICK e : e = Create(m, msg.id, msg.client, msg.serverIndex, msg.unit)
  OBVIOUS
<1>3. /\ toClient # <<>> /\ msg.op = "CREATE" /\ msg.client # Me
      /\ MayGet(m.entities)
      /\ m' = Insert(e, msg.serverIndex, Top(m.entities))
      /\ toClient' = Tail(toClient) /\ toServer' = toServer
      /\ created' = created /\ server' = server /\ peers' = peers
      /\ units' = units /\ selection' = selection
  BY <1>1, <1>2 DEF ProcessPeerCreate, MayCreate
<1>4. /\ msg \in Messages /\ DownOK(msg, server.back, m.entities.back)
      /\ DownsOK(Tail(toClient), server.back, m.entities.back)
  BY <1>1, <1>3, PopClient
<1>5. /\ msg.serverIndex \in Nat /\ msg.serverIndex < server.back
      /\ msg.id \in Prototypes /\ msg.client = Peer
  BY <1>3, <1>4 DEF DownOK, Messages
<1>6. /\ server.back \in Nat /\ m.entities.back \in Nat /\ m.cachedEntities.back \in Nat
      /\ created \in Nat /\ MaxCreates \in Nat /\ created <= MaxCreates
      /\ toServer \in Seq(Messages) /\ toClient \in Seq(Messages)
  BY BaseTypes DEF BaseInv
<1>7. Due(Head(toClient)) = 1
  BY <1>1, <1>3 DEF Due
<1>8. m.entities.back < MaxCreates
  <2>1. RoomOK(toClient, m.entities.back, m.cachedEntities.back, created)
    BY DEF BaseInv
  <2>2. m.entities.back <= m.entities.back + Due(Head(toClient))
        /\ m.cachedEntities.back <= m.cachedEntities.back + Due(Head(toClient))
        /\ created \in Int /\ m.entities.back \in Int /\ m.cachedEntities.back \in Int
    BY <1>6, <1>7
  <2>3. m.entities.back + Due(Head(toClient)) <= created
    BY <2>1, <2>2, <1>3, <1>6, RoomTail
  <2> QED
    BY <2>3, <1>6, <1>7
<1>9. /\ UnitsOK(e, server.back)
      /\ e.entities.back \in {m.entities.back, m.entities.back + 1}
      /\ e.cachedEntities.back \in {m.cachedEntities.back, m.cachedEntities.back + 1}
      /\ Top(m.entities) \in 0 .. e.entities.back - 1
  <2>1. msg.unit \in Nat
    BY <1>4 DEF Messages
  <2> QED
    BY <2>1, <1>2, <1>3, <1>5, <1>8, CreateKeeps DEF BaseInv
<1>10. /\ UnitsOK(m', server.back)
       /\ m'.entities = e.entities /\ m'.cachedEntities = e.cachedEntities
  BY <1>3, <1>5, <1>9, InsertKeeps
<1> DEFINE n == m'.entities.back
           c == m'.cachedEntities.back
<1>11. /\ n \in Nat /\ m.entities.back <= n /\ n <= m.entities.back + 1
  BY <1>6, <1>9, <1>10
<1>12. c \in Int /\ c <= m.cachedEntities.back + 1
  BY <1>6, <1>9, <1>10
<1>13. UpsOK(toServer, server.back, n) /\ DownsOK(Tail(toClient), server.back, n)
  <2>1. UpsOK(toServer, server.back, m.entities.back)
    BY DEF BaseInv
  <2>2. server.back \in Nat /\ m.entities.back \in Nat /\ server.back <= server.back
    BY <1>6
  <2> HIDE DEF n
  <2>3. UpsOK(toServer, server.back, n)
    BY <2>1, <2>2, <1>11, QueuesMore
  <2>4. DownsOK(Tail(toClient), server.back, n)
    BY <2>2, <1>4, <1>11, QueuesMore
  <2> QED
    BY <2>3, <2>4
<1>14. RoomOK(Tail(toClient), n, c, created)
  <2>1. RoomOK(toClient, m.entities.back, m.cachedEntities.back, created)
    BY DEF BaseInv
  <2>2. n <= m.entities.back + Due(Head(toClient)) /\ n \in Int
        /\ c <= m.cachedEntities.back + Due(Head(toClient)) /\ c \in Int
        /\ created \in Int /\ m.entities.back \in Int /\ m.cachedEntities.back \in Int
    BY <1>6, <1>7, <1>11, <1>12
  <2> HIDE DEF n, c
  <2> QED
    BY <2>1, <2>2, <1>3, <1>6, RoomTail
<1> QED
  BY <1>3, <1>10, <1>13, <1>14 DEF BaseInv

LEMMA BaseProcessPeerDelete ==
    ASSUME BaseInv, ProcessPeerDelete
    PROVE  BaseInv'
<1>1. PICK msg : msg = Head(toClient)
  OBVIOUS
<1>2. PICK e : e = Extracted(msg)
  OBVIOUS
<1>3. PICK i : i = m.index[msg.serverIndex]
  OBVIOUS
<1>4. PICK x : x = Message("DELETE", msg.id, i, msg.client, None, Stray)
  OBVIOUS
<1>5. /\ toClient # <<>> /\ msg.op = "DELETE" /\ msg.client # Me
      /\ msg.serverIndex \in DOMAIN m.index
      /\ m' = Burn(e, msg.id, i, NoComponents)
      /\ toClient' = Tail(toClient) /\ toServer' = Append(toServer, x)
      /\ created' = created /\ server' = server /\ peers' = peers
      /\ units' = units /\ selection' = selection
  BY <1>1, <1>2, <1>3, <1>4 DEF ProcessPeerDelete, BurnOther, Deletes
<1>6. /\ msg \in Messages
      /\ DownsOK(toClient', server.back, m.entities.back)
      /\ RoomOK(toClient', m.entities.back, m.cachedEntities.back, created)
  BY <1>1, <1>5, PopClient DEF Due
<1>7. /\ UnitsOK(m, server.back) /\ m.entities.back \in Nat /\ server.back \in Nat
      /\ IsManager(m) /\ m.slot \in [Places -> Units]
  BY BaseTypes DEF BaseInv
<1>8. i \in 0 .. m.entities.back - 1 /\ i \in Nat
  BY <1>3, <1>5, <1>7 DEF UnitsOK
<1>9. /\ e = [m EXCEPT !.index = e.index] /\ IsManager(e)
      /\ DOMAIN e.index = DOMAIN m.index \ {msg.serverIndex}
      /\ \A t \in DOMAIN e.index : e.index[t] = m.index[t]
  BY <1>2, <1>7 DEF Extracted, Restrict, IsManager
<1>10. /\ e.entities = m.entities /\ e.slot = m.slot /\ e.comps = m.comps /\ e.owner = m.owner
       /\ e.moving = m.moving /\ e.cachedEntities = m.cachedEntities
  BY <1>7, <1>9 DEF IsManager
<1>11. UnitsOK(e, server.back)
  <2>1. \A t \in DOMAIN e.index : t \in Nat /\ e.index[t] \in 0 .. e.entities.back - 1
    BY <1>7, <1>9, <1>10 DEF UnitsOK
  <2> QED
    BY <2>1, <1>7, <1>9, <1>10 DEF UnitsOK
<1>12. /\ NoComponents \in [Kinds -> {None} \cup Nat]
       /\ \A k \in Kinds : NoComponents[k] = None
  BY DEF NoComponents
<1>13. /\ UnitsOK(m', server.back)
       /\ m'.entities.back = m.entities.back
       /\ m'.cachedEntities.back = m.cachedEntities.back
  <2>1. i \in 0 .. e.entities.back - 1
    BY <1>8, <1>10
  <2>2. /\ UnitsOK(m', server.back)
        /\ m'.entities.back = e.entities.back
        /\ m'.cachedEntities.back = e.cachedEntities.back
    BY <2>1, <1>5, <1>11, <1>12, BurnKeeps
  <2> QED
    BY <2>2, <1>10
<1>14. x \in Messages /\ UpOK(x, server.back, m.entities.back)
  <2>1. msg.id \in Prototypes \cup {None} /\ msg.client \in {Me, Peer}
    BY <1>6 DEF Messages
  <2>2. None \in {None} \cup Nat /\ None < server.back
    BY <1>7 DEF None
  <2>3. x \in Messages
    BY <2>1, <2>2, <1>4, <1>8, MessageType DEF Stray
  <2> QED
    BY <2>2, <2>3, <1>4 DEF UpOK, Message
<1>15. UpsOK(toServer', server.back, m.entities.back)
  BY <1>5, <1>14, UpsAppend DEF BaseInv
<1> QED
  BY <1>5, <1>6, <1>13, <1>15, BaseKeep DEF BaseInv

\* A deletion that finds nothing, and the client's own, are only taken from the queue.
LEMMA BaseDropDelete ==
    ASSUME BaseInv, ProcessUnknownDelete \/ ProcessOwnDelete
    PROVE  BaseInv'
<1>1. /\ toClient # <<>> /\ Head(toClient).op = "DELETE" /\ toClient' = Tail(toClient)
      /\ m' = m /\ toServer' = toServer /\ created' = created /\ server' = server /\ peers' = peers
      /\ units' = units /\ selection' = selection
  BY DEF ProcessUnknownDelete, ProcessOwnDelete
<1>2. /\ DownsOK(toClient', server.back, m.entities.back)
      /\ RoomOK(toClient', m.entities.back, m.cachedEntities.back, created)
  BY <1>1, PopClient DEF Due
<1> QED
  BY <1>1, <1>2, BaseKeep DEF BaseInv

LEMMA OrderType ==
    ASSUME NEW client \in {Me, Peer}, NEW s \in {None} \cup Nat, NEW un \in Nat
    PROVE  /\ Order(client, s, un) \in Messages /\ Due(Order(client, s, un)) = 0
           /\ \A sb, back : s < sb => UpOK(Order(client, s, un), sb, back)
                                      /\ DownOK(Order(client, s, un), sb, back)
<1>1. Order(client, s, un) \in Messages
  BY MessageType DEF Order
<1> QED
  BY <1>1 DEF Order, Message, Due, UpOK, DownOK

\* An order names the unit that is selected, by its server index, or none in particular.
LEMMA GivesOrder ==
    ASSUME BaseInv, GiveOrder
    PROVE  \E i \in Places, s \in {None} \cup Nat, un \in Nat :
             /\ toServer' = Append(toServer, Order(Me, s, un))
             /\ i = selection.slot /\ i # None /\ s = m.slot[i].serverIndex /\ s < server.back
             /\ un = Stray \/ (un = m.slot[i].unit /\ Valid(m.entities, i))
<1> DEFINE i == selection.slot
           s == m.slot[i].serverIndex
           un == IF StillSelected THEN selection.unit ELSE Stray
<1>1. toServer' = Append(toServer, Order(Me, s, un)) /\ i # None
  BY DEF GiveOrder
<1>2. i \in Places /\ selection.unit \in Nat
  BY <1>1 DEF BaseInv, Selections
<1>3. un = Stray \/ (un = m.slot[i].unit /\ Valid(m.entities, i))
  BY DEF StillSelected
<1>4. s \in {None} \cup Nat /\ s < server.back /\ un \in Nat
  BY <1>2 DEF BaseInv, UnitsOK, Units, Stray
<1> HIDE DEF i, s, un
<1>5. s = m.slot[i].serverIndex /\ i = selection.slot
  BY DEF s, i
<1> QED
  BY <1>1, <1>2, <1>3, <1>4, <1>5

LEMMA BaseGiveOrder ==
    ASSUME BaseInv, GiveOrder
    PROVE  BaseInv'
<1>1. PICK s \in {None} \cup Nat, un \in Nat :
        toServer' = Append(toServer, Order(Me, s, un)) /\ s < server.back
  BY GivesOrder
<1>2. PICK x : x = Order(Me, s, un)
  OBVIOUS
<1>3. UNCHANGED <<m, toClient, server, peers, selection, created, units>>
  BY DEF GiveOrder
<1>4. x \in Messages /\ UpOK(x, server.back, m.entities.back)
  BY <1>1, <1>2, OrderType
<1>5. UpsOK(toServer', server.back, m.entities.back)
  BY <1>1, <1>2, <1>4, UpsAppend DEF BaseInv
<1> QED
  BY <1>3, <1>5, BaseKeep DEF BaseInv

LEMMA BaseSelect ==
    ASSUME BaseInv, NEW c \in Places, Select(c)
    PROVE  BaseInv'
<1>1. /\ UNCHANGED <<m, toServer, toClient, server, peers, created, units>>
      /\ \E i \in Places : selection' = [slot |-> i, unit |-> m.slot[i].unit]
  BY DEF Select
<1>2. \A i \in Places : m.slot[i].unit \in Nat
  BY DEF BaseInv, UnitsOK, Units
<1>3. selection' \in Selections
  BY <1>1, <1>2 DEF Selections
<1> QED
  BY <1>1, <1>3, BaseKeep DEF BaseInv

\* What a unit's movement is set to is an order's index or none.
LEMMA MovingKeeps ==
    ASSUME NEW e, NEW sb, UnitsOK(e, sb), NEW moving \in [Places -> Int]
    PROVE  LET n == [e EXCEPT !.moving = moving] IN
           /\ UnitsOK(n, sb) /\ IsManager(n)
           /\ n.entities = e.entities /\ n.slot = e.slot /\ n.comps = e.comps /\ n.owner = e.owner
           /\ n.moving = moving /\ n.cache = e.cache /\ n.cachedEntities = e.cachedEntities
           /\ n.cachedSlot = e.cachedSlot /\ n.cachedComps = e.cachedComps /\ n.index = e.index
<1>1. PICK n : n = [e EXCEPT !.moving = moving]
  OBVIOUS
<1>2. IsManager(e)
  BY DEF UnitsOK
<1>3. /\ IsManager(n)
      /\ n.entities = e.entities /\ n.slot = e.slot /\ n.comps = e.comps /\ n.owner = e.owner
      /\ n.moving = moving /\ n.cache = e.cache /\ n.cachedEntities = e.cachedEntities
      /\ n.cachedSlot = e.cachedSlot /\ n.cachedComps = e.cachedComps /\ n.index = e.index
  BY <1>1, <1>2 DEF IsManager
<1>4. UnitsOK(n, sb)
  BY <1>3 DEF UnitsOK
<1> QED
  BY <1>1, <1>3, <1>4

\* An order sets the movement of a component, or none.
LEMMA TransformMoves ==
    ASSUME BaseInv, ProcessTransform
    PROVE  /\ UNCHANGED <<toServer, server, peers, created, burnt, units, selection, dropped, misled, orders>>
           /\ \/ m' = m
              \/ \E moving \in [Places -> Int] : m' = [m EXCEPT !.moving = moving]
<1>1. PICK msg : msg = Head(toClient)
  OBVIOUS
<1>2. /\ toClient # <<>>
      /\ UNCHANGED <<toServer, server, peers, created, burnt, units, selection, dropped, misled, orders>>
      /\ \/ m' = m
         \/ \E c : \E moving \in Moved(m.moving, c, msg.unit) :
              m' = [m EXCEPT !.moving = moving]
  BY <1>1 DEF ProcessTransform
<1>3. msg.unit \in Int
  BY <1>1, <1>2, PopClient DEF Messages
<1>4. m.moving \in [Places -> Int]
  BY DEF BaseInv, UnitsOK
<1>5. \A c : \A moving \in Moved(m.moving, c, msg.unit) : moving \in [Places -> Int]
  BY <1>3, <1>4 DEF Moved
<1> QED
  BY <1>2, <1>5

LEMMA UpdateMoves ==
    ASSUME BaseInv, Update
    PROVE  /\ UNCHANGED <<toServer, toClient, server, peers, created, burnt, units, selection, dropped, misled, orders>>
           /\ \E moving \in [Places -> Int] : m' = [m EXCEPT !.moving = moving]
<1>1. m.moving \in [Places -> Int]
  BY DEF BaseInv, UnitsOK
<1>2. \A c : \A moving \in Updated(m.moving, c) : moving \in [Places -> Int]
  BY <1>1 DEF Updated, None
<1> QED
  BY <1>2 DEF Update

LEMMA MovesOnly ==
    ASSUME BaseInv, ProcessTransform \/ Update
    PROVE  /\ IsManager(m') /\ m'.entities = m.entities /\ m'.slot = m.slot /\ m'.comps = m.comps
           /\ m'.owner = m.owner /\ m'.cache = m.cache /\ m'.cachedEntities = m.cachedEntities
           /\ m'.cachedSlot = m.cachedSlot /\ m'.cachedComps = m.cachedComps /\ m'.index = m.index
<1>1. UnitsOK(m, server.back) /\ IsManager(m)
  BY DEF BaseInv, UnitsOK
<1>2. m' = m \/ \E moving \in [Places -> Int] : m' = [m EXCEPT !.moving = moving]
  BY TransformMoves, UpdateMoves
<1>3. CASE m' = m
  BY <1>1, <1>3
<1>4. ASSUME NEW moving \in [Places -> Int], m' = [m EXCEPT !.moving = moving]
      PROVE  /\ IsManager(m') /\ m'.entities = m.entities /\ m'.slot = m.slot /\ m'.comps = m.comps
             /\ m'.owner = m.owner /\ m'.cache = m.cache /\ m'.cachedEntities = m.cachedEntities
             /\ m'.cachedSlot = m.cachedSlot /\ m'.cachedComps = m.cachedComps /\ m'.index = m.index
  BY <1>1, <1>4, MovingKeeps
<1> QED
  BY <1>2, <1>3, <1>4

LEMMA BaseProcessTransform ==
    ASSUME BaseInv, ProcessTransform
    PROVE  BaseInv'
<1>1. /\ toClient # <<>> /\ Head(toClient).op = "TRANSFORM" /\ toClient' = Tail(toClient)
      /\ UNCHANGED <<toServer, server, peers, created, units, selection>>
  BY DEF ProcessTransform
<1>2. /\ DownsOK(toClient', server.back, m.entities.back)
      /\ RoomOK(toClient', m.entities.back, m.cachedEntities.back, created)
  BY <1>1, PopClient DEF Due
<1>3. UnitsOK(m, server.back)
  BY DEF BaseInv
<1>4. /\ UnitsOK(m', server.back)
      /\ m'.entities = m.entities /\ m'.cachedEntities = m.cachedEntities
  <2>1. CASE m' = m
    BY <2>1, <1>3
  <2>2. CASE \E moving \in [Places -> Int] : m' = [m EXCEPT !.moving = moving]
    <3>1. PICK moving \in [Places -> Int] : m' = [m EXCEPT !.moving = moving]
      BY <2>2
    <3> QED
      BY <3>1, <1>3, MovingKeeps
  <2> QED
    BY <2>1, <2>2, TransformMoves
<1> QED
  BY <1>1, <1>2, <1>4, BaseKeep DEF BaseInv

LEMMA BaseUpdate ==
    ASSUME BaseInv, Update
    PROVE  BaseInv'
<1>1. UnitsOK(m, server.back)
  BY DEF BaseInv
<1>2. /\ UnitsOK(m', server.back)
      /\ m'.entities = m.entities /\ m'.cachedEntities = m.cachedEntities
  <2>1. PICK moving \in [Places -> Int] : m' = [m EXCEPT !.moving = moving]
    BY UpdateMoves
  <2> QED
    BY <2>1, <1>1, MovingKeeps
<1> QED
  BY <1>2, UpdateMoves, BaseKeep DEF BaseInv

-----------------------------------------------------------------------------
(* The server's steps. *)

\* Wrap of the index of a unit without one.
LEMMA NoneIsStray == Wrap(None) \in {IndexRange - 1}
BY IndexRangeAssumption DEF Wrap, None

\* The server gives out a place.
LEMMA ServerGet ==
    ASSUME BaseInv, MayPlace
    PROVE  /\ ServerOK(Get(server), peers)
           /\ Top(server) \in Nat /\ Top(server) < Get(server).back
           /\ Get(server).back \in Nat /\ server.back <= Get(server).back
           /\ server.back \in Nat
<1>1. server \in Array /\ Stacked(server, {IndexRange - 1}) /\ MayGet(server) /\ Top(server) <= server.back
  BY DEF BaseInv, ServerOK, MayPlace
<1>2. {IndexRange - 1} \in SUBSET {IndexRange - 1}
  OBVIOUS
<1>3. /\ Get(server) \in Array
      /\ Stacked(Get(server), {IndexRange - 1})
      /\ Top(server) \in Nat /\ Top(server) < Get(server).back
      /\ Get(server).back = server.back \/ Get(server).back = server.back + 1
  BY <1>1, <1>2, StackedGet
<1>4. server.back \in Nat
  BY BaseTypes
<1>5. ServerOK(Get(server), peers)
  BY <1>3, <1>4 DEF BaseInv, ServerOK
<1> QED
  BY <1>3, <1>4, <1>5

LEMMA ServerRemove ==
    ASSUME NEW a, NEW others, ServerOK(a, others), NEW s \in {None} \cup Nat, s < a.back
    PROVE  ServerOK(Remove(a, s), others) /\ Remove(a, s).back = a.back
<1>1. a \in Array /\ Stacked(a, {IndexRange - 1})
  BY DEF ServerOK
<1>2. a.back \in Nat /\ {IndexRange - 1} \in SUBSET {IndexRange - 1} /\ s \in Int
  BY <1>1, IndexRangeAssumption DEF Array, None
<1>3. s \in 0 .. a.back - 1 \/ Wrap(s) \in {IndexRange - 1}
  BY <1>2, NoneIsStray
<1>4. /\ Remove(a, s) \in Array /\ Stacked(Remove(a, s), {IndexRange - 1})
      /\ Remove(a, s).back = a.back
  BY <1>1, <1>2, <1>3, StackedRemove
<1> QED
  BY <1>4 DEF ServerOK

\* The server gives an index to a unit.
LEMMA GivenNext ==
    ASSUME BaseInv, MayPlace, NEW un \in Nat
    PROVE  Given(Top(server), un) \in [0 .. Get(server).back - 1 -> Nat]
<1>1. /\ server \in Array /\ Stacked(server, {IndexRange - 1}) /\ server.back \in Nat
      /\ units \in [0 .. server.back - 1 -> Nat]
  BY BaseTypes DEF BaseInv, ServerOK
<1>2. /\ Top(server) \in Nat /\ Top(server) <= server.back
  BY <1>1, ServerGet DEF MayPlace
<1>3. Get(server).back = IF Top(server) = server.back THEN server.back + 1 ELSE server.back
  BY <1>1 DEF Get
<1>4. (0 .. server.back - 1) \cup {Top(server)} = 0 .. Get(server).back - 1
  BY <1>1, <1>2, <1>3
<1> QED
  BY <1>1, <1>4 DEF Given

LEMMA BaseServeCreate ==
    ASSUME BaseInv, ServeCreate
    PROVE  BaseInv'
<1>1. PICK msg : msg = Head(toServer)
  OBVIOUS
<1>2. PICK x : x = [msg EXCEPT !.serverIndex = Top(server)]
  OBVIOUS
<1>3. /\ toServer # <<>> /\ msg.op = "CREATE" /\ toServer' = Tail(toServer)
      /\ m' = m /\ peers' = peers /\ created' = created /\ selection' = selection
      /\ \/ ~MayPlace /\ toClient' = toClient /\ server' = server /\ units' = units
         \/ /\ MayPlace /\ toClient' = Append(toClient, x) /\ server' = Get(server)
            /\ units' = Given(Top(server), msg.unit)
  BY <1>1, <1>2 DEF ServeCreate
<1>4. /\ msg \in Messages /\ UpOK(msg, server.back, m.entities.back)
      /\ UpsOK(Tail(toServer), server.back, m.entities.back)
  BY <1>1, <1>3, PopServer
<1>5. CASE ~MayPlace /\ toClient' = toClient /\ server' = server /\ units' = units
  BY <1>3, <1>4, <1>5 DEF BaseInv
<1>6. CASE /\ MayPlace /\ toClient' = Append(toClient, x) /\ server' = Get(server)
            /\ units' = Given(Top(server), msg.unit)
  <2>1. /\ ServerOK(server', peers)
        /\ Top(server) \in Nat /\ Top(server) < server'.back
        /\ server'.back \in Nat /\ server.back <= server'.back
        /\ server.back \in Nat
    BY <1>6, ServerGet
  <2>2. /\ m.entities.back \in Nat /\ m.cachedEntities.back \in Int /\ created \in Int
        /\ toClient \in Seq(Messages)
    BY BaseTypes
  <2>3. PICK tb : tb = server'.back
    OBVIOUS
  <2>4. /\ tb \in Nat /\ server.back <= tb /\ m.entities.back <= m.entities.back
    BY <2>1, <2>2, <2>3
  <2>5. UpsOK(Tail(toServer), tb, m.entities.back)
    BY <2>1, <2>2, <2>4, <1>4, QueuesMore
  <2>6. DownsOK(toClient, tb, m.entities.back)
    <3>1. DownsOK(toClient, server.back, m.entities.back)
      BY DEF BaseInv
    <3>2. server.back \in Nat /\ m.entities.back \in Nat
      BY <2>1, <2>2
    <3> QED
      BY <3>1, <3>2, <2>4, QueuesMore
  <2>7. UnitsOK(m, tb)
    BY <2>1, <2>4, MoreSlots DEF BaseInv
  <2>8. /\ x \in Messages /\ DownOK(x, tb, m.entities.back) /\ Due(x) = 0
    BY <1>2, <1>3, <1>4, <2>1, <2>3 DEF Messages, DownOK, UpOK, Due
  <2>9. DownsOK(toClient', tb, m.entities.back)
    BY <2>6, <2>8, <1>6, DownsAppend
  <2>10. RoomOK(toClient', m.entities.back, m.cachedEntities.back, created)
    <3>1. RoomOK(toClient, m.entities.back, m.cachedEntities.back, created)
      BY DEF BaseInv
    <3>2. created + Due(x) <= created /\ m.entities.back \in Int
      BY <2>2, <2>8
    <3> QED
      BY <3>1, <3>2, <2>2, <2>8, <1>6, RoomAppend
  <2>11. units' \in [0 .. server'.back - 1 -> Nat]
    <3>1. msg.unit \in Nat
      BY <1>4 DEF Messages
    <3> QED
      BY <3>1, <1>6, GivenNext
  <2> QED
    BY <1>3, <2>1, <2>3, <2>5, <2>7, <2>9, <2>10, <2>11 DEF BaseInv
<1> QED
  BY <1>3, <1>5, <1>6

LEMMA BaseServeDelete ==
    ASSUME BaseInv, ServeDelete
    PROVE  BaseInv'
<1>1. PICK msg : msg = Head(toServer)
  OBVIOUS
<1>2. /\ toServer # <<>> /\ msg.op = "DELETE" /\ toServer' = Tail(toServer)
      /\ m' = m /\ peers' = peers /\ created' = created /\ units' = units
      /\ selection' = selection
      /\ toClient' = Append(toClient, msg)
      /\ server' = Remove(server, msg.serverIndex)
  BY <1>1 DEF ServeDelete
<1>3. /\ msg \in Messages /\ UpOK(msg, server.back, m.entities.back)
      /\ UpsOK(Tail(toServer), server.back, m.entities.back)
  BY <1>1, <1>2, PopServer
<1>4. msg.serverIndex \in {None} \cup Nat /\ msg.serverIndex < server.back
  BY <1>3 DEF Messages, UpOK
<1>5. ServerOK(server', peers) /\ server'.back = server.back
  BY <1>2, <1>4, ServerRemove DEF BaseInv
<1>6. DownOK(msg, server.back, m.entities.back) /\ Due(msg) = 0
  BY <1>2, <1>4 DEF DownOK, Due
<1>7. /\ DownsOK(toClient', server.back, m.entities.back)
      /\ RoomOK(toClient', m.entities.back, m.cachedEntities.back, created)
  BY <1>2, <1>3, <1>6, PushClient DEF BaseInv
<1> QED
  BY <1>2, <1>3, <1>5, <1>7 DEF BaseInv

LEMMA BaseServeTransform ==
    ASSUME BaseInv, ServeTransform
    PROVE  BaseInv'
<1>1. PICK msg : msg = Head(toServer)
  OBVIOUS
<1>2. /\ toServer # <<>> /\ msg.op = "TRANSFORM" /\ toServer' = Tail(toServer)
      /\ m' = m /\ peers' = peers /\ created' = created /\ server' = server
      /\ units' = units /\ selection' = selection
      /\ toClient' = Append(toClient, msg)
  BY <1>1 DEF ServeTransform
<1>3. /\ msg \in Messages /\ UpOK(msg, server.back, m.entities.back)
      /\ UpsOK(Tail(toServer), server.back, m.entities.back)
  BY <1>1, <1>2, PopServer
<1>4. DownOK(msg, server.back, m.entities.back) /\ Due(msg) = 0
  BY <1>2, <1>3 DEF DownOK, UpOK, Due
<1>5. /\ DownsOK(toClient', server.back, m.entities.back)
      /\ RoomOK(toClient', m.entities.back, m.cachedEntities.back, created)
  BY <1>2, <1>3, <1>4, PushClient DEF BaseInv
<1> QED
  BY <1>2, <1>3, <1>5, BaseKeep DEF BaseInv

LEMMA BasePeerOrder ==
    ASSUME BaseInv, NEW s \in DOMAIN units, NEW un \in Nat,
           toClient' = Append(toClient, Order(Peer, s, un)),
           UNCHANGED <<m, toServer, server, peers, selection, created, units>>
    PROVE  BaseInv'
<1>1. PICK x : x = Order(Peer, s, un)
  OBVIOUS
<1>2. s \in 0 .. server.back - 1 /\ server.back \in Nat
  BY BaseTypes DEF BaseInv
<1>3. x \in Messages /\ DownOK(x, server.back, m.entities.back) /\ Due(x) = 0
  BY <1>1, <1>2, OrderType
<1>4. /\ DownsOK(toClient', server.back, m.entities.back)
      /\ RoomOK(toClient', m.entities.back, m.cachedEntities.back, created)
  BY <1>1, <1>3, PushClient DEF BaseInv
<1> QED
  BY <1>4, BaseKeep DEF BaseInv

\* The orders of the other players name an index the server has given.
LEMMA PeerOrders ==
    ASSUME BaseInv, PeerStrayOrder \/ \E s \in DOMAIN peers : PeerOrder(s)
    PROVE  /\ \E s \in DOMAIN units, un \in Nat :
                 /\ toClient' = Append(toClient, Order(Peer, s, un))
                 /\ un = Stray \/ (s \in DOMAIN peers /\ un = units[s])
           /\ UNCHANGED <<m, toServer, server, peers, selection, crashed, created, burnt, units,
                          dropped, misled>>
           /\ ~crashed
<1>1. \A s \in DOMAIN peers : s \in DOMAIN units
  BY BaseTypes DEF BaseInv, ServerOK
<1>2. \A s \in DOMAIN units : units[s] \in Nat
  BY DEF BaseInv
<1>3. CASE PeerStrayOrder
  BY <1>3 DEF PeerStrayOrder, Stray
<1>4. CASE \E s \in DOMAIN peers : PeerOrder(s)
  BY <1>1, <1>2, <1>4 DEF PeerOrder
<1> QED
  BY <1>3, <1>4

LEMMA BasePeerOrders ==
    ASSUME BaseInv, PeerStrayOrder \/ \E s \in DOMAIN peers : PeerOrder(s)
    PROVE  BaseInv'
<1>1. PICK s \in DOMAIN units, un \in Nat : toClient' = Append(toClient, Order(Peer, s, un))
  BY PeerOrders
<1>2. UNCHANGED <<m, toServer, server, peers, selection, created, units>>
  BY PeerOrders
<1> QED
  BY <1>1, <1>2, BasePeerOrder

LEMMA BasePeerDelete ==
    ASSUME BaseInv, NEW s \in DOMAIN peers, PeerDelete(s)
    PROVE  BaseInv'
<1>1. PICK x : x = Message("DELETE", peers[s], 0, Peer, s, Stray)
  OBVIOUS
<1>2. /\ toClient' = Append(toClient, x)
      /\ server' = Remove(server, s) /\ peers' = Restrict(peers, DOMAIN peers \ {s})
      /\ m' = m /\ toServer' = toServer /\ created' = created
      /\ units' = units /\ selection' = selection
  BY <1>1 DEF PeerDelete
<1>3. s \in Nat /\ s < server.back /\ peers[s] \in Prototypes
  BY BaseTypes DEF BaseInv, ServerOK
<1>4. ServerOK(server', peers) /\ server'.back = server.back
  BY <1>2, <1>3, ServerRemove DEF BaseInv
<1>5. ServerOK(server', peers')
  BY <1>2, <1>4 DEF ServerOK, Restrict
<1>6. x \in Messages /\ DownOK(x, server.back, m.entities.back) /\ Due(x) = 0
  <2>1. x \in Messages
    BY <1>1, <1>3, MessageType DEF Stray
  <2> QED
    BY <2>1, <1>1, <1>3 DEF Message, DownOK, Due
<1>7. /\ DownsOK(toClient', server.back, m.entities.back)
      /\ RoomOK(toClient', m.entities.back, m.cachedEntities.back, created)
  BY <1>2, <1>6, PushClient DEF BaseInv
<1> QED
  BY <1>2, <1>4, <1>5, <1>7 DEF BaseInv

LEMMA BasePeerCreate ==
    ASSUME BaseInv, NEW id \in Prototypes, PeerCreate(id)
    PROVE  BaseInv'
<1>1. PICK x : x = Message("CREATE", id, 0, Peer, Top(server), created + 1)
  OBVIOUS
<1>2. /\ toClient' = Append(toClient, x) /\ MayPlace
      /\ server' = Get(server) /\ peers' = Extended(peers, Top(server), id)
      /\ m' = m /\ toServer' = toServer /\ created' = created + 1 /\ created < MaxCreates
      /\ units' = Given(Top(server), created + 1) /\ selection' = selection
  BY <1>1 DEF PeerCreate
<1>3. /\ ServerOK(server', peers)
      /\ Top(server) \in Nat /\ Top(server) < server'.back
      /\ server'.back \in Nat /\ server.back <= server'.back
      /\ server.back \in Nat
  BY <1>2, ServerGet
<1>4. ServerOK(server', peers')
  BY <1>2, <1>3 DEF ServerOK, Extended
<1>5. /\ m.entities.back \in Nat /\ m.cachedEntities.back \in Int /\ created \in Nat
      /\ toClient \in Seq(Messages) /\ MaxCreates \in Nat
  BY BaseTypes
<1>6. PICK tb : tb = server'.back
  OBVIOUS
<1>7. /\ tb \in Nat /\ server.back <= tb /\ m.entities.back <= m.entities.back
  BY <1>3, <1>5, <1>6
<1>8. UpsOK(toServer, tb, m.entities.back)
  <2>1. UpsOK(toServer, server.back, m.entities.back)
    BY DEF BaseInv
  <2> QED
    BY <2>1, <1>3, <1>5, <1>7, QueuesMore
<1>9. DownsOK(toClient, tb, m.entities.back)
  <2>1. DownsOK(toClient, server.back, m.entities.back)
    BY DEF BaseInv
  <2>2. server.back \in Nat /\ m.entities.back \in Nat
    BY <1>3, <1>5
  <2> QED
    BY <2>1, <2>2, <1>7, QueuesMore
<1>10. UnitsOK(m, tb)
  BY <1>3, <1>7, MoreSlots DEF BaseInv
<1>11. x \in Messages /\ DownOK(x, tb, m.entities.back)
  <2>3. created + 1 \in Nat
    BY <1>5
  <2>1. x \in Messages
    BY <1>1, <1>3, <2>3, MessageType
  <2>2. Peer # Me
    BY DEF Peer, Me
  <2> QED
    BY <2>1, <2>2, <1>1, <1>3, <1>6 DEF Message, DownOK
<1>12. DownsOK(toClient', tb, m.entities.back)
  BY <1>2, <1>9, <1>11, DownsAppend
<1>13. RoomOK(toClient', m.entities.back, m.cachedEntities.back, created + 1)
  <2>1. RoomOK(toClient, m.entities.back, m.cachedEntities.back, created)
    BY DEF BaseInv
  <2>2. created + Due(x) <= created + 1 /\ m.entities.back \in Int
        /\ created \in Int /\ created + 1 \in Int
    BY <1>5 DEF Due
  <2> QED
    BY <2>1, <2>2, <1>2, <1>5, <1>11, RoomAppend
<1>14. created' \in 0 .. MaxCreates
  BY <1>2, <1>5
<1>15. units' \in [0 .. server'.back - 1 -> Nat]
  BY <1>2, <1>5, GivenNext
<1> QED
  BY <1>2, <1>4, <1>6, <1>8, <1>10, <1>12, <1>13, <1>14, <1>15 DEF BaseInv

\* The steps that are not about the client's units.
LEMMA QuietSteps ==
    ASSUME \/ UNCHANGED vars
           \/ \E id \in Prototypes : PeerCreate(id)
           \/ GiveOrder \/ PeerStrayOrder \/ \E c \in Places : Select(c)
           \/ \E s \in DOMAIN peers : PeerDelete(s) \/ PeerOrder(s)
           \/ ProcessUnknownDelete \/ ProcessOwnDelete
           \/ ServeCreate \/ ServeDelete \/ ServeTransform
    PROVE  UNCHANGED <<m, burnt, dropped, misled>>
BY DEF vars, PeerCreate, GiveOrder, Select, PeerDelete, PeerOrder, PeerStrayOrder, ProcessUnknownDelete, ProcessOwnDelete,
       ServeCreate, ServeDelete, ServeTransform

LEMMA BaseStep == BaseInv /\ [Next]_vars => BaseInv'
<1> SUFFICES ASSUME BaseInv, [Next]_vars PROVE BaseInv'
  OBVIOUS
<1>1. CASE UNCHANGED vars
  BY <1>1 DEF vars, BaseInv
<1>2. CASE Next
  BY <1>2, BaseCreateOwn, BasePeerCreate, BaseBurnOwn, BaseGiveOrder, BaseSelect, BasePeerDelete,
     BasePeerOrders, BaseProcessOwnCreate, BaseProcessPeerCreate, BaseProcessPeerDelete,
     BaseDropDelete, BaseProcessTransform, BaseUpdate, BaseServeCreate, BaseServeDelete,
     BaseServeTransform
     DEF Next, entity_message, receive_entity_message
<1> QED
  BY <1>1, <1>2

LEMMA Base == Spec => []BaseInv
BY BaseInit, BaseStep, PTL DEF Spec

\* In every reachable state there are no more components of a kind than slots of units:
\* create() takes one only for a slot without a pointer to one, so never more are lent than
\* slots have a pointer, however often one is given back (ComponentManager.cpp:13).
THEOREM PeakOfComponents == Spec => []ComponentsPeak
<1>1. BaseInv => ComponentsPeak
  BY DEF BaseInv, UnitsOK, CompsOK, ComponentsPeak
<1> QED
  BY <1>1, Base, PTL

-----------------------------------------------------------------------------
(* As long as no prototype left the cache, its arrays only grow, and a     *)
(* prototype, and with it a unit, has the components its file lists.       *)

Grown(a) == a \in Array /\ a.indicies = <<a.back>>

LEMMA GrownGet ==
    ASSUME NEW a, Grown(a)
    PROVE  /\ Top(a) = a.back /\ a.back \in Nat
           /\ MayGet(a) => Grown(Get(a)) /\ Get(a).back = a.back + 1
<1>1. /\ a \in Array /\ a.indicies = <<a.back>> /\ a.back \in 0 .. IndexRange - 1
      /\ a.size \in 0 .. IndexRange - 1 /\ IndexRange \in Nat
  BY IndexRangeAssumption DEF Grown, Array
<1>2. Top(a) = a.back /\ a.back \in Nat
  BY <1>1 DEF Top
<1>3. ASSUME MayGet(a) PROVE Grown(Get(a)) /\ Get(a).back = a.back + 1
  <2>1. a.back + 1 \in 0 .. IndexRange - 1
    BY <1>1, <1>3 DEF MayGet
  <2>2. Wrap(a.back + 1) = a.back + 1
    BY <2>1, WrapInRange
  <2>3. Popped(a) = <<>>
    BY <1>1 DEF Popped
  <2>4. Get(a) = [size |-> Wrap(a.size + 1), back |-> a.back + 1, indicies |-> <<a.back + 1>>]
    <3>1. Append(<<>>, a.back + 1) = <<a.back + 1>>
      OBVIOUS
    <3> QED
      BY <3>1, <1>2, <2>2, <2>3 DEF Get
  <2>5. Wrap(a.size + 1) \in 0 .. IndexRange - 1
    BY <1>1 DEF Wrap
  <2>6. <<a.back + 1>> \in Seq(0 .. IndexRange - 1)
    BY <2>1
  <2> QED
    BY <2>1, <2>4, <2>5, <2>6 DEF Grown, Array
<1> QED
  BY <1>2, <1>3

\* The slot has the components its prototype's file lists.
Fits(u) == u.id \in Prototypes /\ \A k \in Kinds : u.comp[k] # None <=> k \in Has[u.id]

Follows(e) ==
    /\ Grown(e.cachedEntities)
    /\ \A k \in Kinds : Grown(e.cachedComps[k])
    /\ e.cachedSlot \in [Places -> [Kinds -> Int]]
    /\ \A i \in Places : e.cachedEntities.back <= i => e.cachedSlot[i] = NoComponents
    /\ \A id \in DOMAIN e.cache :
         /\ id \in Prototypes /\ e.cache[id] \in [entity : Places, ref : Int]
         /\ e.cache[id].entity < e.cachedEntities.back
         /\ \A k \in Kinds : e.cachedSlot[e.cache[id].entity][k] # None <=> k \in Has[id]
    /\ \A i \in Places : i < e.entities.back => Fits(e.slot[i])

LEMMA LoadFields ==
    ASSUME NEW e, IsManager(e), NEW id, id \notin DOMAIN e.cache
    PROVE  LET f == Cached(e, id)
               slot == Top(e.cachedEntities) IN
           /\ f.cachedEntities = Get(e.cachedEntities)
           /\ f.cachedSlot = [e.cachedSlot EXCEPT ![slot] =
                [k \in Kinds |-> IF k \in Has[id] THEN Top(e.cachedComps[k]) ELSE @[k]]]
           /\ f.cachedComps = Taken(e.cachedComps, Has[id])
           /\ f.cache = Extended(e.cache, id, [entity |-> slot, ref |-> 0])
<1>1. Cached(e, id) = Load(e, id)
  BY DEF Cached
<1>2. Load(e, id) =
        [e EXCEPT
          !.cachedEntities = Get(e.cachedEntities),
          !.cachedSlot = [e.cachedSlot EXCEPT ![Top(e.cachedEntities)] =
                [k \in Kinds |-> IF k \in Has[id] THEN Top(e.cachedComps[k]) ELSE @[k]]],
          !.cachedComps = Taken(e.cachedComps, Has[id]),
          !.cache = Extended(e.cache, id, [entity |-> Top(e.cachedEntities), ref |-> 0])]
  BY DEF Load, IsManager
<1> QED
  BY <1>1, <1>2 DEF IsManager

\* The guard of MayCreate, of any EntityManager.
Loadable(e, id) ==
    id \in DOMAIN e.cache \/ (/\ MayGet(e.cachedEntities)
                              /\ \A k \in Has[id] : MayGet(e.cachedComps[k]))

LEMMA FollowsCached ==
    ASSUME NEW e, IsManager(e), Follows(e), NEW id \in Prototypes, Loadable(e, id),
           e.cachedEntities.back < MaxCreates
    PROVE  /\ Follows(Cached(e, id)) /\ id \in DOMAIN Cached(e, id).cache
           /\ Wanted(Cached(e, id), id) = Has[id]
<1> DEFINE f == Cached(e, id)
<1>1. IsManager(f) /\ f.entities = e.entities /\ f.slot = e.slot
  BY CachedFields
<1>2. Has[id] \subseteq Kinds
  BY HasAssumption DEF Kinds
<1>3. CASE id \in DOMAIN e.cache
  <2>1. f = e
    BY <1>3 DEF Cached
  <2>2. Wanted(e, id) = Has[id]
    BY <1>2, <1>3 DEF Wanted, Follows
  <2> QED
    BY <2>1, <2>2, <1>3
<1>4. CASE id \notin DOMAIN e.cache
  <2> DEFINE slot == Top(e.cachedEntities)
             loaded == [k \in Kinds |-> IF k \in Has[id] THEN Top(e.cachedComps[k])
                                                         ELSE e.cachedSlot[slot][k]]
  <2>1. /\ Grown(e.cachedEntities) /\ \A k \in Kinds : Grown(e.cachedComps[k])
        /\ e.cachedSlot \in [Places -> [Kinds -> Int]]
    BY DEF Follows
  <2>2. /\ slot = e.cachedEntities.back /\ slot \in Nat /\ slot \in Places
        /\ Grown(Get(e.cachedEntities)) /\ Get(e.cachedEntities).back = slot + 1
    <3>1. /\ slot = e.cachedEntities.back /\ slot \in Nat
          /\ Grown(Get(e.cachedEntities)) /\ Get(e.cachedEntities).back = e.cachedEntities.back + 1
      BY <2>1, <1>4, GrownGet DEF Loadable
    <3> QED
      BY <3>1, BoundsAssumption DEF Places
  <2>3. e.cachedSlot[slot] = NoComponents
    BY <2>2 DEF Follows
  <2>4. \A k \in Kinds : Top(e.cachedComps[k]) \in Nat
    BY <2>1, GrownGet
  <2>5. /\ loaded \in [Kinds -> Int]
        /\ \A k \in Kinds : loaded[k] # None <=> k \in Has[id]
    BY <2>3, <2>4 DEF NoComponents, None
  <2>6. /\ f.cachedEntities = Get(e.cachedEntities)
        /\ f.cachedSlot = [e.cachedSlot EXCEPT ![slot] = loaded]
        /\ f.cachedComps = Taken(e.cachedComps, Has[id])
        /\ f.cache = Extended(e.cache, id, [entity |-> slot, ref |-> 0])
    BY <1>4, LoadFields
  <2> HIDE DEF f, slot, loaded
  <2>7. \A k \in Kinds : Grown(f.cachedComps[k])
    <3>1. \A k \in Has[id] : Grown(Get(e.cachedComps[k]))
      BY <2>1, <1>2, <1>4, GrownGet DEF Loadable
    <3> QED
      BY <3>1, <2>1, <2>6 DEF Taken
  <2>8. /\ f.cachedSlot \in [Places -> [Kinds -> Int]]
        /\ f.cachedSlot[slot] = loaded
        /\ \A i \in Places \ {slot} : f.cachedSlot[i] = e.cachedSlot[i]
    BY <2>1, <2>2, <2>5, <2>6
  <2>9. \A i \in Places : f.cachedEntities.back <= i => f.cachedSlot[i] = NoComponents
    <3>1. ASSUME NEW i \in Places, f.cachedEntities.back <= i PROVE f.cachedSlot[i] = NoComponents
      <4>1. i \in Int /\ i # slot /\ e.cachedEntities.back <= i
        BY <2>2, <2>6, <3>1 DEF Places
      <4> QED
        BY <4>1, <2>8 DEF Follows
    <3> QED
      BY <3>1
  <2>10. /\ DOMAIN f.cache = DOMAIN e.cache \cup {id}
         /\ f.cache[id] = [entity |-> slot, ref |-> 0]
         /\ \A p \in DOMAIN e.cache : f.cache[p] = e.cache[p]
    BY <2>6, <1>4 DEF Extended
  <2>11. ASSUME NEW p \in DOMAIN f.cache
         PROVE  /\ p \in Prototypes /\ f.cache[p] \in [entity : Places, ref : Int]
                /\ f.cache[p].entity < f.cachedEntities.back
                /\ \A k \in Kinds : f.cachedSlot[f.cache[p].entity][k] # None <=> k \in Has[p]
    <3>1. CASE p = id
      BY <3>1, <2>2, <2>5, <2>6, <2>8, <2>10
    <3>2. CASE p \in DOMAIN e.cache
      <4>1. /\ p \in Prototypes /\ e.cache[p] \in [entity : Places, ref : Int]
            /\ e.cache[p].entity < e.cachedEntities.back
            /\ \A k \in Kinds : e.cachedSlot[e.cache[p].entity][k] # None <=> k \in Has[p]
        BY <3>2 DEF Follows
      <4>2. /\ e.cache[p].entity \in Int /\ e.cache[p].entity \in Places
            /\ e.cache[p].entity # slot /\ e.cache[p].entity < slot + 1
        BY <4>1, <2>2 DEF Places
      <4>3. f.cachedSlot[e.cache[p].entity] = e.cachedSlot[e.cache[p].entity]
        BY <4>2, <2>8
      <4> QED
        BY <4>1, <4>2, <4>3, <3>2, <2>2, <2>6, <2>10
    <3> QED
      BY <3>1, <3>2, <2>10
  <2>12. \A i \in Places : i < f.entities.back => Fits(f.slot[i])
    BY <1>1 DEF Follows, f
  <2>13. Follows(f)
    BY <2>2, <2>6, <2>7, <2>8, <2>9, <2>11, <2>12 DEF Follows
  <2>14. Wanted(f, id) = Has[id]
    BY <2>10, <2>11, <1>2 DEF Wanted
  <2> QED
    BY <2>10, <2>13, <2>14 DEF f
<1> QED
  BY <1>3, <1>4

\* create() puts a unit that fits into the next slot.
LEMMA FollowsCreate ==
    ASSUME NEW e, NEW sb, UnitsOK(e, sb), Follows(e), NEW id \in Prototypes, Loadable(e, id),
           MayGet(e.entities), e.entities.back < MaxCreates, e.cachedEntities.back < MaxCreates,
           NEW player, NEW s, NEW un
    PROVE  Follows(Create(e, id, player, s, un))
<1> DEFINE f == Cached(e, id)
<1>1. IsManager(e) /\ e.slot \in [Places -> Units] /\ e.entities \in Array
  BY DEF UnitsOK
<1>2. Follows(f) /\ id \in DOMAIN f.cache /\ Wanted(f, id) = Has[id]
  BY <1>1, FollowsCached
<1>3. PICK W : W = Has[id]
  OBVIOUS
<1>4. W \in SUBSET Kinds
  BY <1>3, HasAssumption DEF Kinds
<1>5. Top(e.entities) \in Places /\ \A k \in Kinds : NewComp(e, W)[k] # None <=> k \in W
  BY <1>4, NewUnit
<1>6. PICK c : c = Create(e, id, player, s, un)
  OBVIOUS
<1>7. Created(e, c, W, id, player, s, un)
  BY <1>1, <1>2, <1>3, <1>6, CreateFields
<1>8. /\ c.entities = Get(e.entities) /\ c.slot = NewSlot(e, W, id, player, s, un)
      /\ c.cachedEntities = f.cachedEntities /\ c.cachedSlot = f.cachedSlot
      /\ c.cachedComps = f.cachedComps
      /\ c.cache = [f.cache EXCEPT ![id].ref = @ + 1]
  BY <1>7 DEF Created
<1> HIDE DEF f
<1>9. f.slot = e.slot /\ f.entities = e.entities
  BY <1>1, CachedFields DEF f
<1>10. ASSUME NEW i \in Places, i < c.entities.back PROVE Fits(c.slot[i])
  <2>1. CASE i = Top(e.entities)
    <3>1. c.slot[i] = [id |-> id, player |-> player, serverIndex |-> s, comp |-> NewComp(e, W), unit |-> un]
      BY <2>1, <1>1, <1>8 DEF NewSlot
    <3> QED
      BY <3>1, <1>3, <1>5 DEF Fits
  <2>2. CASE i # Top(e.entities)
    <3>1. c.slot[i] = e.slot[i]
      BY <2>2, <1>1, <1>8 DEF NewSlot
    <3>2. c.entities.back = IF Top(e.entities) = e.entities.back THEN e.entities.back + 1
                                                                  ELSE e.entities.back
      BY <1>8 DEF Get
    <3>3. i \in Int /\ e.entities.back \in Int
      BY <1>1 DEF Places, Array
    <3>4. i < e.entities.back
      BY <3>2, <3>3, <2>2, <1>10
    <3>5. Fits(f.slot[i])
      BY <3>4, <1>2, <1>9 DEF Follows
    <3> QED
      BY <3>1, <3>5, <1>9
  <2> QED
    BY <2>1, <2>2
<1>11. /\ DOMAIN c.cache = DOMAIN f.cache
       /\ \A p \in DOMAIN f.cache : /\ c.cache[p] \in [entity : Places, ref : Int]
                                    /\ c.cache[p].entity = f.cache[p].entity
  <2>1. \A p \in DOMAIN f.cache : f.cache[p] \in [entity : Places, ref : Int]
    BY <1>2 DEF Follows
  <2>2. DOMAIN c.cache = DOMAIN f.cache
    BY <1>8
  <2>3. \A p \in DOMAIN f.cache :
          c.cache[p] = IF p = id THEN [f.cache[id] EXCEPT !.ref = @ + 1] ELSE f.cache[p]
    BY <1>8
  <2> QED
    BY <2>1, <2>2, <2>3
<1>12. Follows(c)
  <2>1. \A p \in DOMAIN c.cache :
          /\ p \in Prototypes /\ c.cache[p] \in [entity : Places, ref : Int]
          /\ c.cache[p].entity < c.cachedEntities.back
          /\ \A k \in Kinds : c.cachedSlot[c.cache[p].entity][k] # None <=> k \in Has[p]
    BY <1>2, <1>8, <1>11 DEF Follows
  <2>2. /\ Grown(c.cachedEntities) /\ \A k \in Kinds : Grown(c.cachedComps[k])
        /\ c.cachedSlot \in [Places -> [Kinds -> Int]]
        /\ \A i \in Places : c.cachedEntities.back <= i => c.cachedSlot[i] = NoComponents
    BY <1>2, <1>8 DEF Follows
  <2> QED
    BY <2>1, <2>2, <1>10 DEF Follows
<1> QED
  BY <1>6, <1>12

\* A burnt unit's slot and prototype stay as they are.
LEMMA FollowsBurn ==
    ASSUME NEW e, IsManager(e), Follows(e), NEW id \in DOMAIN e.cache, ~LastUse(e, id),
           NEW i, NEW comp
    PROVE  Follows(Burn(e, id, i, comp))
<1>1. PICK b : b = Burn(e, id, i, comp)
  OBVIOUS
<1>2. PICK r : r = Release(e, id)
  OBVIOUS
<1>3. /\ b.entities = Remove(e.entities, i) /\ b.slot = e.slot
      /\ b.cache = r.cache /\ b.cachedEntities = r.cachedEntities
      /\ b.cachedSlot = r.cachedSlot /\ b.cachedComps = r.cachedComps
  BY <1>1, <1>2, BurnFields
<1>4. /\ r.cache = [e.cache EXCEPT ![id].ref = @ - 1]
      /\ r.cachedEntities = e.cachedEntities /\ r.cachedComps = e.cachedComps
      /\ r.cachedSlot = e.cachedSlot
  BY <1>2, ReleaseFields
<1>5. b.entities.back = e.entities.back
  BY <1>3 DEF Remove
<1>6. /\ DOMAIN b.cache = DOMAIN e.cache
      /\ \A p \in DOMAIN e.cache : /\ b.cache[p] \in [entity : Places, ref : Int]
                                   /\ b.cache[p].entity = e.cache[p].entity
  <2>1. \A p \in DOMAIN e.cache : e.cache[p] \in [entity : Places, ref : Int]
    BY DEF Follows
  <2>2. DOMAIN b.cache = DOMAIN e.cache
    BY <1>3, <1>4
  <2>3. \A p \in DOMAIN e.cache :
          b.cache[p] = IF p = id THEN [e.cache[id] EXCEPT !.ref = @ - 1] ELSE e.cache[p]
    BY <1>3, <1>4
  <2> QED
    BY <2>1, <2>2, <2>3
<1>7. Follows(b)
  BY <1>3, <1>4, <1>5, <1>6 DEF Follows
<1> QED
  BY <1>1, <1>7

\* What a unit's id and components do not depend on.
LEMMA FollowsSame ==
    ASSUME NEW e, Follows(e), NEW f, f.entities = e.entities, f.cache = e.cache,
           f.cachedEntities = e.cachedEntities, f.cachedSlot = e.cachedSlot,
           f.cachedComps = e.cachedComps,
           \A i \in Places : f.slot[i].id = e.slot[i].id /\ f.slot[i].comp = e.slot[i].comp
    PROVE  Follows(f)
BY DEF Follows, Fits

FollowInv == ~dropped => Follows(m)

\* The slots handed out are ones the bounds reach, in the entities and the prototypes.
LEMMA RoomLeft ==
    ASSUME BaseInv
    PROVE  /\ m.entities.back \in Nat /\ m.cachedEntities.back \in Nat
           /\ m.entities.back <= created /\ m.cachedEntities.back <= created
           /\ created \in Nat /\ created <= MaxCreates /\ MaxCreates \in Nat
           /\ toClient # <<>> /\ Due(Head(toClient)) = 1
                => m.entities.back < MaxCreates /\ m.cachedEntities.back < MaxCreates
<1>1. /\ m.entities.back \in Nat /\ m.cachedEntities.back \in Nat /\ created \in Nat
      /\ MaxCreates \in Nat /\ toClient \in Seq(Messages) /\ created <= MaxCreates
  BY BaseTypes DEF BaseInv
<1>2. PICK g : Counts(g, toClient, m.entities.back, m.cachedEntities.back, created)
  BY DEF BaseInv, RoomOK
<1>3. /\ RoomOK(toClient, m.entities.back, m.cachedEntities.back, created)
      /\ RoomOK(toClient, m.cachedEntities.back, m.entities.back, created)
  BY <1>2 DEF RoomOK, Counts
<1>4. m.entities.back <= created /\ m.cachedEntities.back <= created
  <2>1. m.entities.back <= m.entities.back + 1 /\ m.cachedEntities.back <= m.cachedEntities.back + 1
    BY <1>1
  <2> QED
    BY <2>1, <1>1, <1>3, RoomMore
<1>5. ASSUME toClient # <<>>, Due(Head(toClient)) = 1
      PROVE  m.entities.back < MaxCreates /\ m.cachedEntities.back < MaxCreates
  <2>1. /\ m.entities.back <= m.entities.back + Due(Head(toClient))
        /\ m.cachedEntities.back <= m.cachedEntities.back + Due(Head(toClient))
        /\ m.entities.back \in Int /\ m.cachedEntities.back \in Int /\ created \in Int
    BY <1>1, <1>5
  <2>2. m.entities.back + Due(Head(toClient)) <= created
    BY <2>1, <1>1, <1>3, <1>5, RoomTail
  <2>3. m.cachedEntities.back + Due(Head(toClient)) <= created
    BY <2>1, <1>1, <1>3, <1>5, RoomTail
  <2> QED
    BY <2>2, <2>3, <1>1, <1>5
<1> QED
  BY <1>1, <1>4, <1>5

LEMMA FollowInit == Init => FollowInv
<1> SUFFICES ASSUME Init PROVE Follows(m)
  BY DEF FollowInv
<1>1. /\ m.entities = New /\ m.cachedEntities = New /\ m.cachedComps = [k \in Kinds |-> New]
      /\ m.cachedSlot = [i \in Places |-> NoComponents] /\ m.cache = <<>>
  BY DEF Init
<1>2. Grown(New) /\ New.back = 0
  BY NewLemma DEF Grown, New
<1>3. DOMAIN m.cache = {}
  BY <1>1
<1>4. \A i \in Places : ~(i < 0)
  BY BoundsAssumption DEF Places
<1>5. NoComponents \in [Kinds -> Int]
  BY DEF NoComponents, None
<1> QED
  BY <1>1, <1>2, <1>3, <1>4, <1>5 DEF Follows

\* The steps that leave the units and prototypes alone.
LEMMA FollowUnchanged ==
    ASSUME FollowInv, m' = m, dropped' = dropped
    PROVE  FollowInv'
BY DEF FollowInv

LEMMA FollowStep == BaseInv /\ FollowInv /\ [Next]_vars => FollowInv'
<1> SUFFICES ASSUME BaseInv, FollowInv, [Next]_vars PROVE FollowInv'
  OBVIOUS
<1>1. /\ UnitsOK(m, server.back) /\ IsManager(m) /\ m.slot \in [Places -> Units]
      /\ m.entities.back \in Nat /\ m.cachedEntities.back \in Nat
      /\ m.entities.back <= created /\ m.cachedEntities.back <= created
      /\ created \in Nat /\ created <= MaxCreates /\ MaxCreates \in Nat
  BY RoomLeft DEF BaseInv, UnitsOK
<1>2. ASSUME NEW id \in Prototypes, CreateOwn(id) PROVE FollowInv'
  <2>1. /\ created < MaxCreates /\ MayGet(m.entities) /\ Loadable(m, id)
        /\ m' = Create(m, id, Me, None, created + 1) /\ dropped' = dropped
    BY <1>2 DEF CreateOwn, MayCreate, Loadable
  <2>2. m.entities.back < MaxCreates /\ m.cachedEntities.back < MaxCreates
    BY <2>1, <1>1
  <2>3. Follows(m) => Follows(m')
    BY <2>1, <2>2, <1>1, FollowsCreate
  <2> QED
    BY <2>1, <2>3 DEF FollowInv
<1>3. ASSUME NEW i \in Places, BurnOwn(i) PROVE FollowInv'
  <2>1. PICK id : id = m.slot[i].id
    OBVIOUS
  <2>2. \/ m' = m /\ dropped' = dropped
        \/ /\ id \in DOMAIN m.cache /\ m' = Burn(m, id, i, m.slot[i].comp)
           /\ dropped' = (dropped \/ LastUse(m, id))
    BY <1>3, <2>1 DEF BurnOwn
  <2>3. Follows(m) /\ ~LastUse(m, id) => Follows(m')
    BY <2>2, <1>1, FollowsBurn
  <2> QED
    BY <2>2, <2>3 DEF FollowInv
<1>4. ASSUME ProcessOwnCreate PROVE FollowInv'
  <2>1. PICK msg : msg = Head(toClient)
    OBVIOUS
  <2>2. PICK e : e = [m EXCEPT !.slot[msg.slot].serverIndex = msg.serverIndex]
    OBVIOUS
  <2>3. /\ m' = (IF Valid(m.entities, msg.slot) THEN Insert(e, msg.serverIndex, msg.slot) ELSE m)
        /\ dropped' = dropped
    BY <1>4, <2>1, <2>2 DEF ProcessOwnCreate
  <2>4. PICK n : n = Insert(e, msg.serverIndex, msg.slot)
    OBVIOUS
  <2>5. IsManager(e) /\ n = [e EXCEPT !.index = n.index]
    <3>1. IsManager(e)
      BY <2>2, <1>1 DEF IsManager
    <3> QED
      BY <3>1, <2>4, InsertFields
  <2>6. /\ n.entities = m.entities /\ n.cache = m.cache
        /\ n.cachedEntities = m.cachedEntities /\ n.cachedSlot = m.cachedSlot
        /\ n.cachedComps = m.cachedComps /\ n.slot = e.slot
    BY <2>2, <2>5, <1>1 DEF IsManager
  <2>7. \A i \in Places : n.slot[i].id = m.slot[i].id /\ n.slot[i].comp = m.slot[i].comp
    BY <2>2, <2>6, <1>1 DEF Units
  <2>8. Follows(m) => Follows(n)
    BY <2>6, <2>7, FollowsSame
  <2> QED
    BY <2>3, <2>4, <2>8 DEF FollowInv
<1>5. ASSUME ProcessPeerCreate PROVE FollowInv'
  <2>1. PICK msg : msg = Head(toClient)
    OBVIOUS
  <2>2. PICK e : e = Create(m, msg.id, msg.client, msg.serverIndex, msg.unit)
    OBVIOUS
  <2>3. /\ toClient # <<>> /\ msg.op = "CREATE" /\ msg.client # Me
        /\ MayGet(m.entities) /\ Loadable(m, msg.id)
        /\ m' = Insert(e, msg.serverIndex, Top(m.entities)) /\ dropped' = dropped
    BY <1>5, <2>1, <2>2 DEF ProcessPeerCreate, MayCreate, Loadable
  <2>4. msg.id \in Prototypes /\ Due(Head(toClient)) = 1
    BY <2>1, <2>3, PopClient DEF DownOK, Due
  <2>5. m.entities.back < MaxCreates /\ m.cachedEntities.back < MaxCreates
    BY <2>3, <2>4, RoomLeft
  <2>6. Follows(m) => Follows(e)
    BY <2>2, <2>3, <2>4, <2>5, <1>1, FollowsCreate
  <2>7. IsManager(e)
    BY <2>2, <1>1, CreateFields DEF Created
  <2>8. IsManager(e) /\ m' = [e EXCEPT !.index = m'.index]
    <3>1. PICK n : n = m'
      OBVIOUS
    <3>2. n = [e EXCEPT !.index = n.index]
      BY <3>1, <2>3, <2>7, InsertFields
    <3> QED
      BY <3>1, <3>2, <2>7
  <2>9. /\ m'.entities = e.entities /\ m'.cache = e.cache
        /\ m'.cachedEntities = e.cachedEntities /\ m'.cachedSlot = e.cachedSlot
        /\ m'.cachedComps = e.cachedComps /\ m'.slot = e.slot
    BY <2>8 DEF IsManager
  <2>10. Follows(e) => Follows(m')
    BY <2>9, FollowsSame
  <2> QED
    BY <2>3, <2>6, <2>10 DEF FollowInv
<1>6. ASSUME ProcessPeerDelete PROVE FollowInv'
  <2>1. PICK msg : msg = Head(toClient)
    OBVIOUS
  <2>2. PICK e : e = Extracted(msg)
    OBVIOUS
  <2>3. /\ msg.id \in DOMAIN m.cache
        /\ m' = Burn(e, msg.id, m.index[msg.serverIndex], NoComponents)
        /\ dropped' = (dropped \/ LastUse(m, msg.id))
    BY <1>6, <2>1, <2>2 DEF ProcessPeerDelete, BurnOther, Deletes
  <2>4. e = [m EXCEPT !.index = e.index] /\ IsManager(e)
    BY <2>2, <1>1 DEF Extracted, IsManager
  <2>5. /\ e.entities = m.entities /\ e.cache = m.cache
        /\ e.cachedEntities = m.cachedEntities /\ e.cachedSlot = m.cachedSlot
        /\ e.cachedComps = m.cachedComps /\ e.slot = m.slot
    BY <2>4, <1>1 DEF IsManager
  <2>6. Follows(m) => Follows(e)
    BY <2>5, FollowsSame
  <2>7. LastUse(e, msg.id) = LastUse(m, msg.id)
    BY <2>5 DEF LastUse
  <2>8. Follows(e) /\ ~LastUse(e, msg.id) => Follows(m')
    BY <2>3, <2>4, <2>5, FollowsBurn
  <2> QED
    BY <2>3, <2>6, <2>7, <2>8 DEF FollowInv
<1>7. ASSUME NEW moving \in [Places -> Int], m' = [m EXCEPT !.moving = moving], dropped' = dropped
      PROVE  FollowInv'
  <2>1. /\ m'.entities = m.entities /\ m'.cache = m.cache
        /\ m'.cachedEntities = m.cachedEntities /\ m'.cachedSlot = m.cachedSlot
        /\ m'.cachedComps = m.cachedComps /\ m'.slot = m.slot
    BY <1>1, <1>7, MovingKeeps
  <2>2. Follows(m) => Follows(m')
    BY <2>1, FollowsSame
  <2> QED
    BY <2>2, <1>7 DEF FollowInv
<1>8. ASSUME ProcessTransform PROVE FollowInv'
  <2>1. /\ dropped' = dropped
        /\ \/ m' = m
           \/ \E moving \in [Places -> Int] : m' = [m EXCEPT !.moving = moving]
    BY <1>8, TransformMoves
  <2> QED
    BY <2>1, <1>7, FollowUnchanged
<1>9. ASSUME Update PROVE FollowInv'
  <2>1. /\ dropped' = dropped
        /\ \E moving \in [Places -> Int] : m' = [m EXCEPT !.moving = moving]
    BY <1>9, UpdateMoves
  <2> QED
    BY <2>1, <1>7
<1>10. CASE \/ UNCHANGED vars
            \/ \E id \in Prototypes : PeerCreate(id)
            \/ GiveOrder \/ PeerStrayOrder \/ \E c \in Places : Select(c)
            \/ \E s \in DOMAIN peers : PeerDelete(s) \/ PeerOrder(s)
            \/ ProcessUnknownDelete \/ ProcessOwnDelete
            \/ ServeCreate \/ ServeDelete \/ ServeTransform
  <2>1. m' = m /\ dropped' = dropped
    BY <1>10, QuietSteps
  <2> QED
    BY <2>1, FollowUnchanged
<1> QED
  BY <1>2, <1>3, <1>4, <1>5, <1>6, <1>8, <1>9, <1>10 DEF Next, entity_message, receive_entity_message

\* In every reachable state, as long as no prototype left the cache, a live unit has exactly
\* the components its prototype's file lists, whatever unit its slot held before
\* (EntityManager.cpp:81).
THEOREM UnitsFollow == Spec => []ComponentsFollowPrototype
<1>1. FollowInv => ComponentsFollowPrototype
  BY HasAssumption DEF FollowInv, Follows, Fits, ComponentsFollowPrototype, Live, Valid, Kinds
<1> QED
  BY <1>1, Base, FollowInit, FollowStep, PTL DEF Spec

-----------------------------------------------------------------------------
(* The arrays of which no element was returned twice: until an own unit is *)
(* burnt, or until a deletion is misled.                                   *)

LiveOf(a) == {i \in Places : Valid(a, i)}

\* size() counts the elements in use.
Solid(a) ==
    /\ a \in Array /\ WellStacked(a)
    /\ a.size = Cardinality(LiveOf(a))

LEMMA LiveFinite ==
    ASSUME NEW a
    PROVE  /\ IsFiniteSet(LiveOf(a)) /\ Cardinality(LiveOf(a)) \in Nat
           /\ \A i \in LiveOf(a) : Cardinality(LiveOf(a)) >= 1
<1>1. MaxCreates - 1 \in Int /\ 0 \in Int
  BY BoundsAssumption
<1>2. IsFiniteSet(Places)
  BY <1>1, FS_Interval DEF Places
<1>3. LiveOf(a) \in SUBSET Places
  BY DEF LiveOf
<1>4. IsFiniteSet(LiveOf(a))
  BY <1>2, <1>3, FS_Subset
<1>5. Cardinality(LiveOf(a)) \in Nat
  BY <1>4, FS_CardinalityType
<1>6. Cardinality(LiveOf(a)) = 0 => LiveOf(a) = {}
  BY <1>4, FS_EmptySet
<1> QED
  BY <1>4, <1>5, <1>6

\* A stack without repetitions is a case of those a slot may be given back to twice.
LEMMA WellIsStacked ==
    ASSUME NEW a \in Array, WellStacked(a)
    PROVE  /\ Stacked(a, {}) /\ {} \in SUBSET {IndexRange - 1}
           /\ Len(a.indicies) \in Nat /\ Len(a.indicies) >= 1
           /\ DOMAIN a.indicies = 1 .. Len(a.indicies)
           /\ a.back \in 0 .. IndexRange - 1 /\ a.size \in Nat /\ a.size <= a.back
BY IndexRangeAssumption DEF WellStacked, Stacked, Array

\* get() keeps the stack without repetitions, and what it hands out leaves the stack.
LEMMA WellGet ==
    ASSUME NEW a \in Array, WellStacked(a), MayGet(a)
    PROVE  /\ Get(a) \in Array /\ WellStacked(Get(a))
           /\ Top(a) \in Free(a) /\ Top(a) < Get(a).back /\ Top(a) \notin Free(Get(a))
           /\ Free(a) \ {Top(a)} \subseteq Free(Get(a))
           /\ Free(Get(a)) \subseteq Free(a) \cup {Get(a).back}
           /\ Get(a).size = a.size + 1
           /\ Get(a).back = IF Top(a) = a.back THEN a.back + 1 ELSE a.back
<1> DEFINE q == a.indicies
           n == Len(q)
           g == Get(a)
           r == g.indicies
<1>1. /\ Stacked(a, {}) /\ {} \in SUBSET {IndexRange - 1}
      /\ n \in Nat /\ n >= 1 /\ DOMAIN q = 1 .. n
      /\ a.back \in 0 .. IndexRange - 2 /\ a.size \in Nat /\ a.size <= a.back
      /\ \A k \in 1 .. n : q[k] \in Nat
  BY WellIsStacked, IndexRangeAssumption DEF Array, MayGet
<1>2. Top(a) \in 0 .. a.back /\ Top(a) \in Free(a) /\ Top(a) = q[n]
  BY <1>1, TopInside DEF Top
<1>3. /\ g \in Array /\ Top(a) \in Nat /\ Top(a) < g.back
      /\ Free(g) \subseteq Free(a) \cup {g.back}
  BY <1>1, <1>2, StackedGet
<1>4. /\ \A k \in 2 .. n : q[k] < a.back
      /\ \A j, k \in 1 .. n : j # k => q[j] # q[k]
      /\ q[1] = a.back
      /\ a.size + n = a.back + 1
  BY <1>1 DEF WellStacked
<1>5. g.size = a.size + 1
  BY <1>1, WrapInRange, IndexRangeAssumption DEF Get
<1>6. Free(a) = {q[k] : k \in 1 .. n}
  BY <1>1 DEF Free
<1>7. /\ Popped(a) \in Seq(0 .. IndexRange - 1) /\ Len(Popped(a)) = n - 1
      /\ \A k \in 1 .. n - 1 : Popped(a)[k] = q[k]
      /\ DOMAIN Popped(a) = 1 .. n - 1
  BY <1>1, PoppedLemma
<1>8. Wrap(a.back + 1) = a.back + 1
  BY <1>1, WrapInRange, IndexRangeAssumption
<1>9. g.back = (IF q[n] = a.back THEN a.back + 1 ELSE a.back)
      /\ r = (IF q[n] = a.back THEN Append(Popped(a), a.back + 1) ELSE Popped(a))
  BY <1>2, <1>8 DEF Get
<1>10. WellStacked(g) <=> /\ Len(r) >= 1
                          /\ r[1] = g.back
                          /\ \A k \in 2 .. Len(r) : r[k] < g.back
                          /\ \A j, k \in DOMAIN r : j # k => r[j] # r[k]
                          /\ g.size + Len(r) = g.back + 1
  BY DEF WellStacked
<1>11. Free(g) = {r[k] : k \in DOMAIN r}
  BY DEF Free
<1> HIDE DEF q, n, g, r
<1>12. CASE n = 1
  <2>1. q[n] = a.back /\ r = Append(Popped(a), a.back + 1) /\ g.back = a.back + 1
    BY <1>4, <1>9, <1>12
  <2>2. Len(r) = 1 /\ DOMAIN r = 1 .. 1 /\ r[1] = a.back + 1
    BY <2>1, <1>1, <1>7, <1>12, IndexRangeAssumption
  <2>3. Free(g) = {a.back + 1} /\ Free(a) = {a.back}
    BY <2>2, <1>4, <1>6, <1>11, <1>12
  <2>4. WellStacked(g)
    BY <2>1, <2>2, <1>1, <1>4, <1>5, <1>10, <1>12
  <2> QED
    BY <2>1, <2>3, <2>4, <1>1, <1>2, <1>3, <1>5 DEF g
<1>13. CASE n > 1
  <2>1. q[n] # a.back /\ r = Popped(a) /\ g.back = a.back
    BY <1>1, <1>4, <1>9, <1>13
  <2>2. WellStacked(g)
    <3>1. \A j, k \in 1 .. n - 1 : j # k => r[j] # r[k]
      BY <2>1, <1>1, <1>4, <1>7
    <3>2. \A k \in 2 .. n - 1 : r[k] < a.back
      BY <2>1, <1>1, <1>4, <1>7
    <3> QED
      BY <2>1, <3>1, <3>2, <1>1, <1>4, <1>5, <1>7, <1>10, <1>13
  <2>3. Free(g) = {q[k] : k \in 1 .. n - 1}
    BY <2>1, <1>7, <1>11
  <2>4. Top(a) \notin Free(g)
    BY <2>3, <1>1, <1>2, <1>4
  <2>5. Free(a) \ {Top(a)} \subseteq Free(g)
    BY <2>3, <1>1, <1>2, <1>6
  <2> QED
    BY <2>1, <2>2, <2>4, <2>5, <1>2, <1>3, <1>5 DEF g
<1> QED
  BY <1>1, <1>12, <1>13

\* remove() of a slot in use keeps the stack without repetitions.
LEMMA WellRemove ==
    ASSUME NEW a \in Array, WellStacked(a), a.size >= 1,
           NEW i \in 0 .. a.back - 1, i \notin Free(a)
    PROVE  /\ Remove(a, i) \in Array /\ WellStacked(Remove(a, i))
           /\ Free(Remove(a, i)) = Free(a) \cup {i}
           /\ Remove(a, i).back = a.back /\ Remove(a, i).size = a.size - 1
<1> DEFINE q == a.indicies
           n == Len(q)
           r == Append(q, i)
<1>1. /\ Stacked(a, {}) /\ {} \in SUBSET {IndexRange - 1}
      /\ n \in Nat /\ n >= 1 /\ DOMAIN q = 1 .. n
      /\ a.back \in 0 .. IndexRange - 1 /\ a.size \in Nat /\ a.size <= a.back
      /\ q \in Seq(0 .. IndexRange - 1)
  BY WellIsStacked, IndexRangeAssumption DEF Array
<1>2. Remove(a, i) \in Array /\ Remove(a, i).back = a.back
  BY <1>1, StackedRemove
<1>3. Wrap(i) = i /\ Wrap(a.size - 1) = a.size - 1
  BY <1>1, WrapInRange, IndexRangeAssumption
<1>4. Remove(a, i).size = a.size - 1 /\ Remove(a, i).indicies = r
  BY <1>3 DEF Remove
<1>5. /\ Len(r) = n + 1 /\ DOMAIN r = 1 .. n + 1
      /\ \A k \in 1 .. n : r[k] = q[k]
      /\ r[n + 1] = i
  BY <1>1, IndexRangeAssumption
<1>6. Free(a) = {q[k] : k \in 1 .. n}
  BY <1>1 DEF Free
<1>7. /\ \A k \in 2 .. n : q[k] < a.back
      /\ \A j, k \in 1 .. n : j # k => q[j] # q[k]
      /\ q[1] = a.back
      /\ a.size + n = a.back + 1
  BY <1>1 DEF WellStacked
<1> HIDE DEF q, n, r
<1>8. \A j, k \in 1 .. n + 1 : j # k => r[j] # r[k]
  <2>1. \A k \in 1 .. n : q[k] # i
    BY <1>6
  <2> QED
    BY <2>1, <1>1, <1>5, <1>7
<1>9. \A k \in 2 .. n + 1 : r[k] < a.back
  BY <1>1, <1>5, <1>7
<1>10. WellStacked(Remove(a, i))
  <2>1. WellStacked(Remove(a, i)) <=>
           /\ Len(r) >= 1
           /\ r[1] = a.back
           /\ \A k \in 2 .. Len(r) : r[k] < a.back
           /\ \A j, k \in DOMAIN r : j # k => r[j] # r[k]
           /\ a.size - 1 + Len(r) = a.back + 1
    BY <1>2, <1>4 DEF WellStacked
  <2>2. Len(r) >= 1 /\ r[1] = a.back /\ a.size - 1 + Len(r) = a.back + 1
    BY <1>1, <1>5, <1>7
  <2> QED
    BY <2>1, <2>2, <1>5, <1>8, <1>9
<1>11. Free(Remove(a, i)) = Free(a) \cup {i}
  <2>1. Free(Remove(a, i)) = {r[k] : k \in 1 .. n + 1}
    BY <1>4, <1>5 DEF Free
  <2>2. 1 .. n + 1 = (1 .. n) \cup {n + 1}
    BY <1>1
  <2> QED
    BY <2>1, <2>2, <1>5, <1>6
<1> QED
  BY <1>2, <1>4, <1>10, <1>11

\* get() adds one element to those in use.
LEMMA LiveGet ==
    ASSUME NEW a \in Array, WellStacked(a), MayGet(a), Top(a) \in Places
    PROVE  /\ Get(a) \in Array /\ WellStacked(Get(a)) /\ Get(a).size = a.size + 1
           /\ LiveOf(Get(a)) = LiveOf(a) \cup {Top(a)}
           /\ Top(a) \notin LiveOf(a) /\ Top(a) \in Nat
           /\ \A i : Valid(a, i) => i # Top(a)
           /\ \A i \in Nat : Valid(a, i) => Valid(Get(a), i)
           /\ Valid(Get(a), Top(a))
<1>1. /\ Get(a) \in Array /\ WellStacked(Get(a))
      /\ Top(a) \in Free(a) /\ Top(a) < Get(a).back /\ Top(a) \notin Free(Get(a))
      /\ Free(a) \ {Top(a)} \subseteq Free(Get(a))
      /\ Free(Get(a)) \subseteq Free(a) \cup {Get(a).back}
      /\ Get(a).size = a.size + 1
      /\ Get(a).back = IF Top(a) = a.back THEN a.back + 1 ELSE a.back
  BY WellGet
<1>2. a.back \in Nat /\ Get(a).back \in Nat
  BY <1>1, IndexRangeAssumption DEF Array
<1>3. a.back <= Get(a).back
  BY <1>1, <1>2
<1>4. \A i \in Nat : Valid(a, i) => Valid(Get(a), i)
  BY <1>1, <1>2, <1>3 DEF Valid
<1>5. Valid(Get(a), Top(a)) /\ ~Valid(a, Top(a))
  BY <1>1 DEF Valid
<1>6. ASSUME NEW i \in Nat, Valid(Get(a), i), i # Top(a) PROVE Valid(a, i)
  <2>1. i < Get(a).back /\ i \notin Free(Get(a))
    BY <1>6 DEF Valid
  <2>2. i \notin Free(a)
    BY <2>1, <1>1, <1>6
  <2>3. i < a.back
    BY <2>1, <1>1, <1>2, <1>6
  <2> QED
    BY <2>2, <2>3 DEF Valid
<1>7. \A i \in Places : i \in Nat
  BY BoundsAssumption DEF Places
<1>8. LiveOf(Get(a)) = LiveOf(a) \cup {Top(a)}
  BY <1>4, <1>5, <1>6, <1>7 DEF LiveOf
<1>9. Top(a) \notin LiveOf(a) /\ Top(a) \in Nat
  BY <1>5, <1>7 DEF LiveOf
<1> QED
  BY <1>1, <1>4, <1>5, <1>8, <1>9

\* remove() of an element in use takes it from those.
LEMMA LiveRemove ==
    ASSUME NEW a \in Array, WellStacked(a), a.size >= 1, NEW i \in Nat, Valid(a, i)
    PROVE  /\ Remove(a, i) \in Array /\ WellStacked(Remove(a, i))
           /\ Remove(a, i).size = a.size - 1 /\ Remove(a, i).back = a.back
           /\ LiveOf(Remove(a, i)) = LiveOf(a) \ {i}
           /\ \A j : Valid(Remove(a, i), j) <=> Valid(a, j) /\ j # i
<1>1. i \in 0 .. a.back - 1 /\ i \notin Free(a)
  BY IndexRangeAssumption DEF Valid, Array
<1>2. /\ Remove(a, i) \in Array /\ WellStacked(Remove(a, i))
      /\ Free(Remove(a, i)) = Free(a) \cup {i}
      /\ Remove(a, i).back = a.back /\ Remove(a, i).size = a.size - 1
  BY <1>1, WellRemove
<1>3. \A j : Valid(Remove(a, i), j) <=> Valid(a, j) /\ j # i
  BY <1>2 DEF Valid
<1>4. LiveOf(Remove(a, i)) = LiveOf(a) \ {i}
  BY <1>3 DEF LiveOf
<1> QED
  BY <1>2, <1>3, <1>4

LEMMA SolidNew == Solid(New) /\ LiveOf(New) = {}
<1>1. New \in Array /\ WellStacked(New) /\ New.size = 0 /\ New.back = 0
  BY NewLemma
<1>2. LiveOf(New) = {}
  BY <1>1, BoundsAssumption DEF LiveOf, Valid, Places
<1> QED
  BY <1>1, <1>2, FS_EmptySet DEF Solid

LEMMA SolidGet ==
    ASSUME NEW a, Solid(a), MayGet(a), Top(a) \in Places
    PROVE  /\ Solid(Get(a))
           /\ LiveOf(Get(a)) = LiveOf(a) \cup {Top(a)}
           /\ Top(a) \notin LiveOf(a)
<1>1. a \in Array /\ WellStacked(a) /\ a.size = Cardinality(LiveOf(a))
  BY DEF Solid
<1>2. /\ Get(a) \in Array /\ WellStacked(Get(a)) /\ Get(a).size = a.size + 1
      /\ LiveOf(Get(a)) = LiveOf(a) \cup {Top(a)}
      /\ Top(a) \notin LiveOf(a)
  BY <1>1, LiveGet
<1>3. Cardinality(LiveOf(a) \cup {Top(a)}) = Cardinality(LiveOf(a)) + 1
  BY <1>2, LiveFinite, FS_AddElement
<1> QED
  BY <1>1, <1>2, <1>3 DEF Solid

LEMMA SolidRemove ==
    ASSUME NEW a, Solid(a), NEW i \in LiveOf(a)
    PROVE  /\ Solid(Remove(a, i))
           /\ LiveOf(Remove(a, i)) = LiveOf(a) \ {i}
<1>1. a \in Array /\ WellStacked(a) /\ a.size = Cardinality(LiveOf(a))
  BY DEF Solid
<1>2. a.size >= 1 /\ i \in Nat /\ Valid(a, i)
  <2>1. Cardinality(LiveOf(a)) >= 1
    BY LiveFinite
  <2>2. i \in Nat /\ Valid(a, i)
    BY BoundsAssumption DEF LiveOf, Places
  <2> QED
    BY <2>1, <2>2, <1>1
<1>3. /\ Remove(a, i) \in Array /\ WellStacked(Remove(a, i)) /\ Remove(a, i).size = a.size - 1
      /\ LiveOf(Remove(a, i)) = LiveOf(a) \ {i}
  BY <1>1, <1>2, LiveRemove
<1>4. Cardinality(LiveOf(a) \ {i}) = Cardinality(LiveOf(a)) - 1
  BY LiveFinite, FS_RemoveElement
<1> QED
  BY <1>1, <1>3, <1>4 DEF Solid

\* c is e with one more unit in use, in slot t.
UnitAdded(e, c, t, id, player, s, un) ==
    /\ IsManager(c) /\ Solid(c.entities)
    /\ LiveOf(c.entities) = LiveOf(e.entities) \cup {t}
    /\ t \notin LiveOf(e.entities) /\ t \in Places
    /\ c.index = e.index
    /\ \A i \in Places \ {t} : c.slot[i] = e.slot[i]
    /\ c.slot[t].id = id /\ c.slot[t].player = player /\ c.slot[t].serverIndex = s
    /\ c.slot[t].unit = un

\* What create() does to the units in use.
LEMMA CreateLive ==
    ASSUME NEW e, NEW sb, UnitsOK(e, sb), MayGet(e.entities), e.entities.back < MaxCreates,
           Solid(e.entities), NEW id, NEW player, NEW s, NEW un
    PROVE  UnitAdded(e, Create(e, id, player, s, un), Top(e.entities), id, player, s, un)
<1>1. IsManager(e) /\ e.slot \in [Places -> Units]
  BY DEF UnitsOK
<1>2. PICK W : W = Wanted(Cached(e, id), id)
  OBVIOUS
<1>3. PICK c : c = Create(e, id, player, s, un)
  OBVIOUS
<1>4. Created(e, c, W, id, player, s, un)
  BY <1>1, <1>2, <1>3, CreateFields
<1>5. {} \in SUBSET Kinds
  OBVIOUS
<1>6. Top(e.entities) \in Places
  BY <1>5, NewUnit
<1>7. /\ Solid(c.entities)
      /\ LiveOf(c.entities) = LiveOf(e.entities) \cup {Top(e.entities)}
      /\ Top(e.entities) \notin LiveOf(e.entities)
  BY <1>4, <1>6, SolidGet DEF Created
<1>8. /\ \A i \in Places \ {Top(e.entities)} : c.slot[i] = e.slot[i]
      /\ c.slot[Top(e.entities)] =
           [id |-> id, player |-> player, serverIndex |-> s, comp |-> NewComp(e, W), unit |-> un]
  BY <1>1, <1>4, <1>6 DEF Created, NewSlot
<1>9. c.index = e.index /\ IsManager(c)
  BY <1>4 DEF Created
<1> QED
  BY <1>3, <1>6, <1>7, <1>8, <1>9 DEF UnitAdded

\* What burn() does to the units in use.
LEMMA BurnLive ==
    ASSUME NEW e, IsManager(e), Solid(e.entities), NEW i \in LiveOf(e.entities), NEW id, NEW comp
    PROVE  LET b == Burn(e, id, i, comp) IN
           /\ Solid(b.entities) /\ LiveOf(b.entities) = LiveOf(e.entities) \ {i}
           /\ b.index = e.index /\ b.slot = e.slot
BY BurnFields, SolidRemove

-----------------------------------------------------------------------------
(* The server's indices, and the units that wait for theirs.               *)

\* Every index leads to the unit in use that has it.
Linked(e) ==
    \A s \in DOMAIN e.index : /\ e.index[s] \in LiveOf(e.entities)
                              /\ e.slot[e.index[s]].serverIndex = s

\* The announcement of an own unit, on its way to the server or back.
Own(msg) == msg.op = "CREATE" /\ msg.client = Me

\* The unit in the slot is in use and waits for its index.
Waits(e, t) == t \in LiveOf(e.entities) /\ e.slot[t].serverIndex = None

Await(q, e) == \A i \in 1 .. Len(q) : Own(q[i]) => Waits(e, q[i].slot)

Distinct(q) == \A i, j \in 1 .. Len(q) : Own(q[i]) /\ Own(q[j]) /\ i # j => q[i].slot # q[j].slot

Apart(q, r) == \A i \in 1 .. Len(q), j \in 1 .. Len(r) : Own(q[i]) /\ Own(r[j]) => q[i].slot # r[j].slot

\* Both ways of the connection.
Pending(up, down, e) ==
    /\ Await(up, e) /\ Await(down, e)
    /\ Distinct(up) /\ Distinct(down) /\ Apart(up, down)

LEMMA PendingPush ==
    ASSUME NEW up \in Seq(Messages), NEW down \in Seq(Messages), NEW e, Pending(up, down, e),
           NEW x \in Messages, ~Own(x)
    PROVE  Pending(Append(up, x), down, e) /\ Pending(up, Append(down, x), e)
<1>1. PICK u : u = Append(up, x)
  OBVIOUS
<1>2. PICK d : d = Append(down, x)
  OBVIOUS
<1>3. /\ Len(u) = Len(up) + 1 /\ Len(up) \in Nat /\ \A i \in 1 .. Len(up) : u[i] = up[i]
      /\ ~Own(u[Len(up) + 1])
  BY <1>1, AppendLemma
<1>4. /\ Len(d) = Len(down) + 1 /\ Len(down) \in Nat /\ \A i \in 1 .. Len(down) : d[i] = down[i]
      /\ ~Own(d[Len(down) + 1])
  BY <1>2, AppendLemma
<1>5. \A i \in 1 .. Len(u) : Own(u[i]) => i \in 1 .. Len(up) /\ u[i] = up[i]
  BY <1>3
<1>6. \A i \in 1 .. Len(d) : Own(d[i]) => i \in 1 .. Len(down) /\ d[i] = down[i]
  BY <1>4
<1>7. Pending(u, down, e)
  BY <1>5 DEF Pending, Await, Distinct, Apart
<1>8. Pending(up, d, e)
  BY <1>6 DEF Pending, Await, Distinct, Apart
<1> QED
  BY <1>1, <1>2, <1>7, <1>8

LEMMA PendingTail ==
    ASSUME NEW up \in Seq(Messages), NEW down \in Seq(Messages), NEW e, Pending(up, down, e)
    PROVE  /\ up # <<>> => Pending(Tail(up), down, e)
           /\ down # <<>> => Pending(up, Tail(down), e)
<1>1. ASSUME up # <<>> PROVE Pending(Tail(up), down, e)
  <2>1. PICK u : u = Tail(up)
    OBVIOUS
  <2>2. \A i \in 1 .. Len(u) : u[i] = up[i + 1] /\ i + 1 \in 1 .. Len(up)
    BY <2>1, <1>1, TailLemma
  <2>3. \A i, j \in 1 .. Len(u) : i # j => i + 1 # j + 1
    OBVIOUS
  <2>4. Pending(u, down, e)
    BY <2>2, <2>3 DEF Pending, Await, Distinct, Apart
  <2> QED
    BY <2>1, <2>4
<1>2. ASSUME down # <<>> PROVE Pending(up, Tail(down), e)
  <2>1. PICK d : d = Tail(down)
    OBVIOUS
  <2>2. \A i \in 1 .. Len(d) : d[i] = down[i + 1] /\ i + 1 \in 1 .. Len(down)
    BY <2>1, <1>2, TailLemma
  <2>3. \A i, j \in 1 .. Len(d) : i # j => i + 1 # j + 1
    OBVIOUS
  <2>4. Pending(up, d, e)
    BY <2>2, <2>3 DEF Pending, Await, Distinct, Apart
  <2> QED
    BY <2>1, <2>4
<1> QED
  BY <1>1, <1>2

\* The units that wait wait on.
LEMMA PendingKeeps ==
    ASSUME NEW up, NEW down, NEW e, Pending(up, down, e), NEW f, \A t : Waits(e, t) => Waits(f, t)
    PROVE  Pending(up, down, f)
BY DEF Pending, Await

\* An own unit that has just been created is announced.
LEMMA PendingNew ==
    ASSUME NEW up \in Seq(Messages), NEW down \in Seq(Messages), NEW e, Pending(up, down, e),
           NEW x \in Messages, ~Waits(e, x.slot),
           NEW f, \A t : Waits(e, t) => Waits(f, t), Waits(f, x.slot)
    PROVE  Pending(Append(up, x), down, f)
<1>1. PICK u : u = Append(up, x)
  OBVIOUS
<1>2. /\ Len(u) = Len(up) + 1 /\ Len(up) \in Nat /\ \A i \in 1 .. Len(up) : u[i] = up[i]
      /\ u[Len(up) + 1] = x
  BY <1>1, AppendLemma
<1>3. \A i \in 1 .. Len(u) : (i \in 1 .. Len(up) /\ u[i] = up[i]) \/ (i = Len(up) + 1 /\ u[i] = x)
  BY <1>2
<1>4. /\ \A i \in 1 .. Len(up) : Own(up[i]) => Waits(e, up[i].slot) /\ up[i].slot # x.slot
      /\ \A i \in 1 .. Len(down) : Own(down[i]) => Waits(e, down[i].slot) /\ down[i].slot # x.slot
  BY DEF Pending, Await
<1>5. Await(u, f) /\ Await(down, f)
  BY <1>3, <1>4 DEF Await
<1>6. Distinct(u)
  <2>1. Distinct(up)
    BY DEF Pending
  <2> QED
    BY <2>1, <1>3, <1>4 DEF Distinct
<1>7. Apart(u, down)
  <2>1. Apart(up, down)
    BY DEF Pending
  <2> QED
    BY <2>1, <1>3, <1>4 DEF Apart
<1> QED
  BY <1>1, <1>5, <1>6, <1>7 DEF Pending

\* The server sends an announcement back.
LEMMA PendingMoves ==
    ASSUME NEW up \in Seq(Messages), NEW down \in Seq(Messages), NEW e, Pending(up, down, e),
           up # <<>>, NEW x \in Messages, Own(Head(up)), x.slot = Head(up).slot
    PROVE  Pending(Tail(up), Append(down, x), e)
<1>1. PICK u : u = Tail(up)
  OBVIOUS
<1>2. PICK d : d = Append(down, x)
  OBVIOUS
<1>3. /\ \A i \in 1 .. Len(u) : u[i] = up[i + 1] /\ i + 1 \in 1 .. Len(up) /\ i + 1 # 1
      /\ Head(up) = up[1] /\ 1 \in 1 .. Len(up)
  BY <1>1, TailLemma
<1>4. /\ Len(d) = Len(down) + 1 /\ Len(down) \in Nat /\ \A i \in 1 .. Len(down) : d[i] = down[i]
      /\ d[Len(down) + 1] = x
  BY <1>2, AppendLemma
<1>5. \A i \in 1 .. Len(d) : (i \in 1 .. Len(down) /\ d[i] = down[i]) \/ (i = Len(down) + 1 /\ d[i] = x)
  BY <1>4
<1>6. /\ Await(up, e) /\ Await(down, e) /\ Distinct(up) /\ Distinct(down) /\ Apart(up, down)
  BY DEF Pending
<1>7. Waits(e, x.slot)
  BY <1>3, <1>6 DEF Await
<1>8. Await(u, e) /\ Await(d, e)
  BY <1>3, <1>5, <1>6, <1>7 DEF Await
<1>9. \A i, j \in 1 .. Len(u) : i # j => i + 1 # j + 1
  OBVIOUS
<1>10. Distinct(u)
  BY <1>3, <1>6, <1>9 DEF Distinct
<1>11. \A i \in 1 .. Len(down) : Own(down[i]) => down[i].slot # x.slot
  BY <1>3, <1>6 DEF Apart
<1>12. Distinct(d)
  BY <1>5, <1>6, <1>11 DEF Distinct
<1>13. \A i \in 1 .. Len(u) : Own(u[i]) => u[i].slot # x.slot
  BY <1>3, <1>6 DEF Distinct
<1>14. Apart(u, d)
  BY <1>3, <1>5, <1>6, <1>13 DEF Apart
<1> QED
  BY <1>1, <1>2, <1>8, <1>10, <1>12, <1>14 DEF Pending

\* The client takes an announcement of its own: nothing else is about that unit.
LEMMA PendingTaken ==
    ASSUME NEW up \in Seq(Messages), NEW down \in Seq(Messages), NEW e, Pending(up, down, e),
           down # <<>>, Own(Head(down)),
           NEW f, \A t : Waits(e, t) /\ t # Head(down).slot => Waits(f, t)
    PROVE  /\ Pending(up, Tail(down), f)
           /\ Waits(e, Head(down).slot)
<1>1. PICK d : d = Tail(down)
  OBVIOUS
<1>2. /\ \A i \in 1 .. Len(d) : d[i] = down[i + 1] /\ i + 1 \in 1 .. Len(down) /\ i + 1 # 1
      /\ Head(down) = down[1] /\ 1 \in 1 .. Len(down)
  BY <1>1, TailLemma
<1>3. /\ Await(up, e) /\ Await(down, e) /\ Distinct(up) /\ Distinct(down) /\ Apart(up, down)
  BY DEF Pending
<1>4. \A i \in 1 .. Len(d) : Own(d[i]) => d[i].slot # Head(down).slot
  BY <1>2, <1>3 DEF Distinct
<1>5. \A i \in 1 .. Len(up) : Own(up[i]) => up[i].slot # Head(down).slot
  BY <1>2, <1>3 DEF Apart
<1>6. Await(d, f) /\ Await(up, f)
  BY <1>2, <1>3, <1>4, <1>5 DEF Await
<1>7. \A i, j \in 1 .. Len(d) : i # j => i + 1 # j + 1
  OBVIOUS
<1>8. Distinct(d)
  BY <1>2, <1>3, <1>7 DEF Distinct
<1>9. Apart(up, d)
  BY <1>2, <1>3 DEF Apart
<1>10. Waits(e, Head(down).slot)
  BY <1>2, <1>3 DEF Await
<1> QED
  BY <1>1, <1>3, <1>6, <1>8, <1>9, <1>10 DEF Pending

SoundInv ==
    /\ burnt \in Nat
    /\ ~misled => Solid(m.entities)
    /\ burnt = 0 => Solid(m.entities) /\ Linked(m) /\ Pending(toServer, toClient, m)

LEMMA SoundInit == Init => SoundInv
<1> SUFFICES ASSUME Init PROVE SoundInv
  OBVIOUS
<1>1. m.entities = New /\ DOMAIN m.index = {} /\ toServer = <<>> /\ toClient = <<>> /\ burnt = 0
  BY DEF Init
<1>2. Linked(m)
  BY <1>1 DEF Linked
<1>3. Len(<<>>) = 0
  OBVIOUS
<1>4. Pending(<<>>, <<>>, m)
  BY <1>3 DEF Pending, Await, Distinct, Apart
<1> QED
  BY <1>1, <1>2, <1>4, SolidNew DEF SoundInv

LEMMA SoundCreateOwn ==
    ASSUME BaseInv, SoundInv, NEW id \in Prototypes, CreateOwn(id)
    PROVE  SoundInv'
<1>1. PICK x : x = Message("CREATE", id, Top(m.entities), Me, None, created + 1)
  OBVIOUS
<1>2. PICK t : t = Top(m.entities)
  OBVIOUS
<1>3. /\ created < MaxCreates /\ MayGet(m.entities) /\ toServer' = Append(toServer, x)
      /\ m' = Create(m, id, Me, None, created + 1) /\ UNCHANGED <<toClient, burnt, misled>>
  BY <1>1 DEF CreateOwn, MayCreate
<1>4. /\ UnitsOK(m, server.back) /\ m.entities.back < MaxCreates
      /\ toServer \in Seq(Messages) /\ toClient \in Seq(Messages)
  BY <1>3, BaseTypes DEF BaseInv
<1>5. ASSUME Solid(m.entities)
      PROVE  /\ Solid(m'.entities)
             /\ LiveOf(m'.entities) = LiveOf(m.entities) \cup {t}
             /\ t \notin LiveOf(m.entities) /\ t \in Places
             /\ m'.index = m.index
             /\ \A i \in Places \ {t} : m'.slot[i] = m.slot[i]
             /\ m'.slot[t].serverIndex = None
  <2>1. UnitsOK(m, server.back) /\ m.entities.back < MaxCreates /\ MayGet(m.entities) /\ Solid(m.entities)
    BY <1>3, <1>4, <1>5
  <2>2. UnitAdded(m, Create(m, id, Me, None, created + 1), Top(m.entities), id, Me, None, created + 1)
    BY <2>1, CreateLive
  <2> QED
    BY <2>2, <1>2, <1>3 DEF UnitAdded
<1>6. ASSUME burnt = 0 PROVE Linked(m') /\ Pending(toServer', toClient', m')
  <2>1. Solid(m.entities) /\ Linked(m) /\ Pending(toServer, toClient, m)
    BY <1>6 DEF SoundInv
  <2>2. \A i \in LiveOf(m.entities) : i \in LiveOf(m'.entities) /\ m'.slot[i] = m.slot[i]
    BY <2>1, <1>5 DEF LiveOf
  <2>3. Linked(m')
    BY <2>1, <2>2, <1>5 DEF Linked
  <2>4. /\ ~Waits(m, t) /\ Waits(m', t)
        /\ \A i : Waits(m, i) => Waits(m', i)
    BY <2>1, <2>2, <1>5 DEF Waits
  <2>5. x \in Messages /\ x.slot = t
    <3>1. t \in Nat
      BY <2>1, <1>5, BoundsAssumption DEF Places
    <3>2. None \in {None} \cup Nat /\ created + 1 \in Nat
      BY BaseTypes
    <3>3. x \in Messages
      BY <3>1, <3>2, <1>1, <1>2, MessageType
    <3> QED
      BY <3>3, <1>1, <1>2 DEF Message
  <2>6. PICK f : f = m'
    OBVIOUS
  <2>7. Pending(Append(toServer, x), toClient, f)
    BY <2>1, <2>4, <2>5, <2>6, <1>4, PendingNew
  <2> QED
    BY <2>3, <2>6, <2>7, <1>3
<1> QED
  BY <1>3, <1>5, <1>6 DEF SoundInv

LEMMA SoundBurnOwn ==
    ASSUME BaseInv, SoundInv, NEW i \in Places, BurnOwn(i)
    PROVE  SoundInv'
<1>1. /\ m' = m \/ m' = Burn(m, m.slot[i].id, i, m.slot[i].comp)
      /\ i \in LiveOf(m.entities)
      /\ burnt' = burnt + 1 /\ misled' = misled
  BY DEF BurnOwn, LiveOf
<1>2. burnt' \in Nat /\ burnt' # 0
  BY <1>1 DEF SoundInv
<1>3. IsManager(m)
  BY BaseTypes
<1>4. Solid(m.entities) => Solid(m'.entities)
  BY <1>1, <1>3, BurnLive
<1> QED
  BY <1>1, <1>2, <1>4 DEF SoundInv

LEMMA SoundProcessOwnCreate ==
    ASSUME BaseInv, SoundInv, ProcessOwnCreate
    PROVE  SoundInv'
<1>1. PICK msg : msg = Head(toClient)
  OBVIOUS
<1>2. PICK e : e = [m EXCEPT !.slot[msg.slot].serverIndex = msg.serverIndex]
  OBVIOUS
<1>3. PICK n : n = Insert(e, msg.serverIndex, msg.slot)
  OBVIOUS
<1>4. /\ toClient # <<>> /\ msg.op = "CREATE" /\ msg.client = Me
      /\ m' = (IF Valid(m.entities, msg.slot) THEN n ELSE m)
      /\ toClient' = Tail(toClient) /\ UNCHANGED <<toServer, burnt, misled>>
  BY <1>1, <1>2, <1>3 DEF ProcessOwnCreate
<1>5. /\ IsManager(m) /\ m.slot \in [Places -> Units]
      /\ toServer \in Seq(Messages) /\ toClient \in Seq(Messages)
      /\ \A s \in DOMAIN m.index : s \in Nat
  BY BaseTypes DEF BaseInv, UnitsOK
<1>6. /\ IsManager(e) /\ e.entities = m.entities /\ e.index = m.index
      /\ e.slot = [m.slot EXCEPT ![msg.slot] = [@ EXCEPT !.serverIndex = msg.serverIndex]]
  BY <1>2, <1>5 DEF IsManager
<1>7. /\ n.entities = m.entities /\ n.slot = e.slot
      /\ DOMAIN n.index = DOMAIN m.index \cup {msg.serverIndex}
      /\ \A s \in DOMAIN m.index : n.index[s] = m.index[s]
      /\ msg.serverIndex \notin DOMAIN m.index => n.index[msg.serverIndex] = msg.slot
  <2>1. /\ n = [e EXCEPT !.index = n.index]
        /\ DOMAIN n.index = DOMAIN e.index \cup {msg.serverIndex}
        /\ \A s \in DOMAIN e.index : n.index[s] = e.index[s]
        /\ msg.serverIndex \notin DOMAIN e.index => n.index[msg.serverIndex] = msg.slot
    BY <1>3, <1>6, InsertFields
  <2>2. n.entities = e.entities /\ n.slot = e.slot
    BY <2>1, <1>6 DEF IsManager
  <2> QED
    BY <2>1, <2>2, <1>6
<1>8. m'.entities = m.entities
  BY <1>4, <1>7
<1>9. ASSUME burnt = 0 PROVE Linked(m') /\ Pending(toServer, Tail(toClient), m')
  <2>1. Solid(m.entities) /\ Linked(m) /\ Pending(toServer, toClient, m)
    BY <1>9 DEF SoundInv
  <2>2. CASE ~Valid(m.entities, msg.slot)
    <3>1. m' = m
      BY <2>2, <1>4
    <3>2. Pending(toServer, Tail(toClient), m)
      BY <2>1, <1>4, <1>5, PendingTail
    <3> QED
      BY <3>1, <3>2, <2>1
  <2>3. CASE Valid(m.entities, msg.slot)
    <3>1. Own(Head(toClient))
      BY <1>1, <1>4 DEF Own
    <3>2. Waits(m, msg.slot)
      <4>1. \A t : Waits(m, t) /\ t # Head(toClient).slot => Waits(m, t)
        OBVIOUS
      <4> QED
        BY <4>1, <3>1, <2>1, <1>1, <1>4, <1>5, PendingTaken
    <3>3. msg.slot \in Places /\ m.slot[msg.slot].serverIndex = None
      BY <3>2 DEF Waits, LiveOf
    <3>4. /\ \A i \in Places \ {msg.slot} : n.slot[i] = m.slot[i]
          /\ n.slot[msg.slot].serverIndex = msg.serverIndex
      <4>1. m.slot[msg.slot] \in Units
        BY <3>3, <1>5
      <4> QED
        BY <4>1, <3>3, <1>5, <1>6, <1>7 DEF Units
    <3>5. \A t : Waits(m, t) /\ t # Head(toClient).slot => Waits(n, t)
      BY <3>4, <1>1, <1>7 DEF Waits, LiveOf
    <3>6. Pending(toServer, Tail(toClient), n)
      BY <3>1, <3>5, <2>1, <1>4, <1>5, PendingTaken
    <3>7. Linked(n)
      <4>1. ASSUME NEW s \in DOMAIN n.index
            PROVE  n.index[s] \in LiveOf(n.entities) /\ n.slot[n.index[s]].serverIndex = s
        <5>1. CASE s \in DOMAIN m.index
          <6>1. s # None
            BY <5>1, <1>5 DEF None
          <6>2. m.index[s] \in LiveOf(m.entities) /\ m.slot[m.index[s]].serverIndex = s
            BY <5>1, <2>1 DEF Linked
          <6>3. m.index[s] \in Places \ {msg.slot}
            BY <6>1, <6>2, <3>3 DEF LiveOf
          <6> QED
            BY <6>2, <6>3, <5>1, <3>4, <1>7
        <5>2. CASE s \notin DOMAIN m.index
          BY <5>2, <3>2, <3>4, <1>7 DEF Waits
        <5> QED
          BY <5>1, <5>2
      <4> QED
        BY <4>1 DEF Linked
    <3> QED
      BY <3>6, <3>7, <2>3, <1>4
  <2> QED
    BY <2>2, <2>3
<1> QED
  BY <1>4, <1>8, <1>9 DEF SoundInv

LEMMA SoundProcessPeerCreate ==
    ASSUME BaseInv, SoundInv, ProcessPeerCreate
    PROVE  SoundInv'
<1>1. PICK msg : msg = Head(toClient)
  OBVIOUS
<1>2. PICK e : e = Create(m, msg.id, msg.client, msg.serverIndex, msg.unit)
  OBVIOUS
<1>3. PICK t : t = Top(m.entities)
  OBVIOUS
<1>4. PICK n : n = Insert(e, msg.serverIndex, t)
  OBVIOUS
<1>5. /\ toClient # <<>> /\ msg.op = "CREATE" /\ msg.client # Me /\ MayGet(m.entities)
      /\ m' = n
      /\ toClient' = Tail(toClient) /\ UNCHANGED <<toServer, burnt, misled>>
  BY <1>1, <1>2, <1>3, <1>4 DEF ProcessPeerCreate, MayCreate
<1>6. UnitsOK(m, server.back) /\ m.entities.back < MaxCreates
  BY <1>1, <1>5, RoomLeft DEF BaseInv, Due
<1>7. IsManager(m) /\ toServer \in Seq(Messages) /\ toClient \in Seq(Messages)
  BY BaseTypes
<1>8. ASSUME Solid(m.entities)
      PROVE  /\ IsManager(e) /\ Solid(e.entities)
             /\ LiveOf(e.entities) = LiveOf(m.entities) \cup {t}
             /\ t \notin LiveOf(m.entities) /\ t \in Places
             /\ e.index = m.index
             /\ \A i \in Places \ {t} : e.slot[i] = m.slot[i]
             /\ e.slot[t].serverIndex = msg.serverIndex
  <2>1. UnitsOK(m, server.back) /\ m.entities.back < MaxCreates /\ MayGet(m.entities) /\ Solid(m.entities)
    BY <1>5, <1>6, <1>8
  <2>2. UnitAdded(m, Create(m, msg.id, msg.client, msg.serverIndex, msg.unit), Top(m.entities),
                  msg.id, msg.client, msg.serverIndex, msg.unit)
    BY <2>1, CreateLive
  <2> QED
    BY <2>2, <1>2, <1>3 DEF UnitAdded
<1>9. ASSUME Solid(m.entities)
      PROVE  /\ n.entities = e.entities /\ n.slot = e.slot
             /\ DOMAIN n.index = DOMAIN m.index \cup {msg.serverIndex}
             /\ \A s \in DOMAIN m.index : n.index[s] = m.index[s]
             /\ msg.serverIndex \notin DOMAIN m.index => n.index[msg.serverIndex] = t
  <2>1. IsManager(e) /\ e.index = m.index
    BY <1>8, <1>9
  <2>2. /\ n = [e EXCEPT !.index = n.index]
        /\ DOMAIN n.index = DOMAIN e.index \cup {msg.serverIndex}
        /\ \A s \in DOMAIN e.index : n.index[s] = e.index[s]
        /\ msg.serverIndex \notin DOMAIN e.index => n.index[msg.serverIndex] = t
    BY <2>1, <1>4, InsertFields
  <2>3. n.entities = e.entities /\ n.slot = e.slot
    BY <2>1, <2>2 DEF IsManager
  <2> QED
    BY <2>1, <2>2, <2>3
<1>10. ASSUME burnt = 0 PROVE Linked(n) /\ Pending(toServer, Tail(toClient), n)
  <2>1. Solid(m.entities) /\ Linked(m) /\ Pending(toServer, toClient, m)
    BY <1>10 DEF SoundInv
  <2>2. \A i \in LiveOf(m.entities) : i \in LiveOf(n.entities) /\ n.slot[i] = m.slot[i]
    BY <2>1, <1>8, <1>9 DEF LiveOf
  <2>3. t \in LiveOf(n.entities) /\ n.slot[t].serverIndex = msg.serverIndex
    BY <2>1, <1>8, <1>9
  <2>4. Linked(n)
    BY <2>1, <2>2, <2>3, <1>9 DEF Linked
  <2>5. \A i : Waits(m, i) => Waits(n, i)
    BY <2>2 DEF Waits
  <2>6. Pending(toServer, Tail(toClient), m)
    BY <2>1, <1>5, <1>7, PendingTail
  <2>7. Pending(toServer, Tail(toClient), n)
    BY <2>5, <2>6, PendingKeeps
  <2> QED
    BY <2>4, <2>7
<1> QED
  BY <1>5, <1>8, <1>9, <1>10 DEF SoundInv

LEMMA SoundProcessPeerDelete ==
    ASSUME BaseInv, SoundInv, ProcessPeerDelete
    PROVE  SoundInv'
<1>1. PICK msg : msg = Head(toClient)
  OBVIOUS
<1>2. PICK e : e = Extracted(msg)
  OBVIOUS
<1>3. PICK i : i = m.index[msg.serverIndex]
  OBVIOUS
<1>4. PICK x : x = Message("DELETE", msg.id, i, msg.client, None, Stray)
  OBVIOUS
<1>5. /\ toClient # <<>> /\ msg.serverIndex \in DOMAIN m.index
      /\ m' = Burn(e, msg.id, i, NoComponents)
      /\ misled' = (misled \/ ~IsUnit(i, msg))
      /\ toClient' = Tail(toClient) /\ toServer' = Append(toServer, x) /\ burnt' = burnt
  BY <1>1, <1>2, <1>3, <1>4 DEF ProcessPeerDelete, BurnOther, Deletes
<1>6. /\ UnitsOK(m, server.back) /\ IsManager(m) /\ m.entities.back \in Nat
      /\ m.entities.back <= MaxCreates /\ MaxCreates \in Nat
      /\ toServer \in Seq(Messages) /\ toClient \in Seq(Messages)
  BY BaseTypes, RoomLeft DEF BaseInv
<1>7. i \in Places /\ msg.serverIndex \in Nat /\ i \in Nat
  <2>1. i \in 0 .. m.entities.back - 1 /\ msg.serverIndex \in Nat
    BY <1>3, <1>5, <1>6 DEF UnitsOK
  <2> QED
    BY <2>1, <1>6 DEF Places
<1>8. /\ IsManager(e) /\ e.entities = m.entities /\ e.slot = m.slot
      /\ DOMAIN e.index = DOMAIN m.index \ {msg.serverIndex}
      /\ \A t \in DOMAIN e.index : e.index[t] = m.index[t]
  BY <1>2, <1>6 DEF Extracted, Restrict, IsManager
<1>9. ASSUME Solid(m.entities), i \in LiveOf(m.entities)
      PROVE  /\ Solid(m'.entities) /\ LiveOf(m'.entities) = LiveOf(m.entities) \ {i}
             /\ m'.index = e.index /\ m'.slot = m.slot
  <2>1. Solid(e.entities) /\ i \in LiveOf(e.entities) /\ IsManager(e)
    BY <1>8, <1>9
  <2>2. PICK b : b = Burn(e, msg.id, i, NoComponents)
    OBVIOUS
  <2>3. /\ Solid(b.entities) /\ LiveOf(b.entities) = LiveOf(e.entities) \ {i}
        /\ b.index = e.index /\ b.slot = e.slot
    BY <2>1, <2>2, BurnLive
  <2> QED
    BY <2>2, <2>3, <1>5, <1>8
<1>10. ASSUME ~misled' PROVE Solid(m'.entities)
  <2>1. Valid(m.entities, i) /\ ~misled
    BY <1>5, <1>10 DEF IsUnit
  <2>2. i \in LiveOf(m.entities) /\ Solid(m.entities)
    BY <2>1, <1>7 DEF LiveOf, SoundInv
  <2> QED
    BY <2>2, <1>9
<1>11. ASSUME burnt = 0 PROVE Solid(m'.entities) /\ Linked(m') /\ Pending(toServer', toClient', m')
  <2>1. Solid(m.entities) /\ Linked(m) /\ Pending(toServer, toClient, m)
    BY <1>11 DEF SoundInv
  <2>2. i \in LiveOf(m.entities) /\ m.slot[i].serverIndex = msg.serverIndex
    BY <2>1, <1>3, <1>5 DEF Linked
  <2>3. /\ Solid(m'.entities) /\ LiveOf(m'.entities) = LiveOf(m.entities) \ {i}
        /\ m'.index = e.index /\ m'.slot = m.slot
    BY <2>1, <2>2, <1>9
  <2>4. Linked(m')
    BY <2>1, <2>2, <2>3, <1>8 DEF Linked
  <2>5. \A t : Waits(m, t) => Waits(m', t)
    BY <2>2, <2>3, <1>7 DEF Waits, None
  <2>6. x \in Messages /\ ~Own(x)
    <3>1. msg.id \in Prototypes \cup {None} /\ msg.client \in {Me, Peer}
      BY <1>1, <1>5, PopClient DEF Messages
    <3>2. None \in {None} \cup Nat
      OBVIOUS
    <3>3. x \in Messages
      BY <3>1, <3>2, <1>4, <1>7, MessageType DEF Stray
    <3> QED
      BY <3>3, <1>4 DEF Own, Message
  <2>7. Pending(Append(toServer, x), toClient, m)
    BY <2>1, <2>6, <1>6, PendingPush
  <2>8. PICK u : u = Append(toServer, x)
    OBVIOUS
  <2>9. u \in Seq(Messages)
    BY <2>6, <2>8, <1>6, AppendLemma
  <2>10. Pending(u, Tail(toClient), m)
    BY <2>7, <2>8, <2>9, <1>5, <1>6, PendingTail
  <2>11. PICK f : f = m'
    OBVIOUS
  <2>12. Pending(u, Tail(toClient), f)
    BY <2>5, <2>10, <2>11, PendingKeeps
  <2> QED
    BY <2>3, <2>4, <2>8, <2>11, <2>12, <1>5
<1> QED
  BY <1>5, <1>10, <1>11 DEF SoundInv

\* The steps that leave the units alone and keep what is pending.
LEMMA SoundKeep ==
    ASSUME SoundInv, UNCHANGED <<burnt, misled>>, m'.entities = m.entities, m'.slot = m.slot,
           m'.index = m.index,
           burnt = 0 /\ Pending(toServer, toClient, m) => Pending(toServer', toClient', m)
    PROVE  SoundInv'
<1>1. Linked(m) => Linked(m')
  BY DEF Linked
<1>2. Pending(toServer', toClient', m) => Pending(toServer', toClient', m')
  BY DEF Pending, Await, Waits
<1> QED
  BY <1>1, <1>2 DEF SoundInv

LEMMA SoundStep == BaseInv /\ SoundInv /\ [Next]_vars => SoundInv'
<1> SUFFICES ASSUME BaseInv, SoundInv, [Next]_vars PROVE SoundInv'
  OBVIOUS
<1>1. toServer \in Seq(Messages) /\ toClient \in Seq(Messages)
  BY BaseTypes
<1>2. ASSUME toClient # <<>>, UNCHANGED <<toServer, burnt, misled>>, toClient' = Tail(toClient),
             m'.entities = m.entities, m'.slot = m.slot, m'.index = m.index
      PROVE  SoundInv'
  BY <1>1, <1>2, PendingTail, SoundKeep
<1>3. ASSUME NEW x \in Messages, ~Own(x), UNCHANGED <<m, toClient, burnt, misled>>,
             toServer' = Append(toServer, x)
      PROVE  SoundInv'
  BY <1>1, <1>3, PendingPush, SoundKeep
<1>4. ASSUME NEW x \in Messages, ~Own(x), UNCHANGED <<m, toServer, burnt, misled>>,
             toClient' = Append(toClient, x)
      PROVE  SoundInv'
  BY <1>1, <1>4, PendingPush, SoundKeep
<1>5. ASSUME toServer # <<>>, NEW x \in Messages, UNCHANGED <<m, burnt, misled>>,
             ~Own(x) \/ (Own(Head(toServer)) /\ x.slot = Head(toServer).slot),
             toServer' = Tail(toServer), toClient' = Append(toClient, x)
      PROVE  SoundInv'
  <2>1. ASSUME Pending(toServer, toClient, m) PROVE Pending(Tail(toServer), Append(toClient, x), m)
    <3>1. CASE ~Own(x)
      <4>1. PICK d : d = Append(toClient, x)
        OBVIOUS
      <4>2. Pending(toServer, d, m)
        BY <4>1, <3>1, <2>1, <1>1, PendingPush
      <4>3. d \in Seq(Messages)
        BY <4>1, <1>1, AppendLemma
      <4> QED
        BY <4>1, <4>2, <4>3, <1>1, <1>5, PendingTail
    <3>2. CASE Own(Head(toServer)) /\ x.slot = Head(toServer).slot
      BY <3>2, <2>1, <1>1, <1>5, PendingMoves
    <3> QED
      BY <3>1, <3>2, <1>5
  <2> QED
    BY <2>1, <1>5, SoundKeep
<1>6. CASE UNCHANGED vars
  BY <1>6, SoundKeep DEF vars
<1>7. ASSUME ProcessTransform PROVE SoundInv'
  <2>1. /\ toClient # <<>> /\ toClient' = Tail(toClient) /\ UNCHANGED <<toServer, burnt, misled>>
    BY <1>7 DEF ProcessTransform
  <2>2. m'.entities = m.entities /\ m'.slot = m.slot /\ m'.index = m.index
    BY <1>7, MovesOnly
  <2> QED
    BY <2>1, <2>2, <1>2
<1>8. ASSUME Update PROVE SoundInv'
  <2>1. UNCHANGED <<toServer, toClient, burnt, misled>>
    BY <1>8 DEF Update
  <2>2. m'.entities = m.entities /\ m'.slot = m.slot /\ m'.index = m.index
    BY <1>8, MovesOnly
  <2> QED
    BY <2>1, <2>2, SoundKeep
<1>9. ASSUME ProcessUnknownDelete \/ ProcessOwnDelete PROVE SoundInv'
  <2>1. toClient # <<>> /\ toClient' = Tail(toClient) /\ UNCHANGED <<m, toServer, burnt, misled>>
    BY <1>9 DEF ProcessUnknownDelete, ProcessOwnDelete
  <2> QED
    BY <2>1, <1>2
<1>10. ASSUME GiveOrder PROVE SoundInv'
  <2>1. PICK s \in {None} \cup Nat, un \in Nat : toServer' = Append(toServer, Order(Me, s, un))
    BY <1>10, GivesOrder
  <2>2. PICK x : x = Order(Me, s, un)
    OBVIOUS
  <2>3. x \in Messages /\ ~Own(x)
    BY <2>2, OrderType DEF Own, Order, Message
  <2> QED
    BY <2>1, <2>2, <2>3, <1>3, <1>10 DEF GiveOrder
<1>11. ASSUME PeerStrayOrder \/ \E s \in DOMAIN peers : PeerOrder(s) PROVE SoundInv'
  <2>1. PICK s \in DOMAIN units, un \in Nat : toClient' = Append(toClient, Order(Peer, s, un))
    BY <1>11, PeerOrders
  <2>2. PICK x : x = Order(Peer, s, un)
    OBVIOUS
  <2>3. s \in {None} \cup Nat
    BY BaseTypes DEF BaseInv
  <2>4. x \in Messages /\ ~Own(x)
    BY <2>2, <2>3, OrderType DEF Own, Order, Message
  <2>5. UNCHANGED <<m, toServer, burnt, misled>>
    BY <1>11, PeerOrders
  <2> QED
    BY <2>1, <2>2, <2>4, <2>5, <1>4
<1>12. ASSUME NEW s \in DOMAIN peers, PeerDelete(s) PROVE SoundInv'
  <2>1. PICK x : x = Message("DELETE", peers[s], 0, Peer, s, Stray)
    OBVIOUS
  <2>2. s \in Nat /\ peers[s] \in Prototypes
    BY BaseTypes DEF BaseInv, ServerOK
  <2>3. x \in Messages
    BY <2>1, <2>2, MessageType DEF Stray
  <2>4. ~Own(x)
    BY <2>1 DEF Own, Message
  <2> QED
    BY <2>1, <2>3, <2>4, <1>4, <1>12 DEF PeerDelete
<1>13. ASSUME NEW id \in Prototypes, PeerCreate(id) PROVE SoundInv'
  <2>1. PICK x : x = Message("CREATE", id, 0, Peer, Top(server), created + 1)
    OBVIOUS
  <2>2. Top(server) \in Nat /\ created + 1 \in Nat
    BY <1>13, ServerGet, BaseTypes DEF PeerCreate
  <2>3. x \in Messages
    BY <2>1, <2>2, MessageType
  <2>4. ~Own(x)
    BY <2>1 DEF Own, Message, Me, Peer
  <2> QED
    BY <2>1, <2>3, <2>4, <1>4, <1>13 DEF PeerCreate
<1>14. ASSUME ServeCreate PROVE SoundInv'
  <2>1. PICK x : x = [Head(toServer) EXCEPT !.serverIndex = Top(server)]
    OBVIOUS
  <2>2. /\ toServer # <<>> /\ Head(toServer).op = "CREATE" /\ toServer' = Tail(toServer)
        /\ UNCHANGED <<m, burnt, misled>>
        /\ \/ toClient' = toClient
           \/ MayPlace /\ toClient' = Append(toClient, x)
    BY <1>14, <2>1 DEF ServeCreate
  <2>3. CASE toClient' = toClient
    <3>1. Pending(toServer, toClient, m) => Pending(toServer', toClient', m)
      BY <2>2, <2>3, <1>1, PendingTail
    <3> QED
      BY <3>1, <2>2, SoundKeep
  <2>4. CASE MayPlace /\ toClient' = Append(toClient, x)
    <3>1. Head(toServer) \in Messages /\ Head(toServer).client = Me
      BY <2>2, PopServer DEF UpOK
    <3>2. Top(server) \in Nat
      BY <2>4, ServerGet
    <3>3. x \in Messages /\ Own(Head(toServer)) /\ x.slot = Head(toServer).slot
      BY <3>1, <3>2, <2>1, <2>2 DEF Messages, Own
    <3> QED
      BY <3>3, <2>2, <2>4, <1>5
  <2> QED
    BY <2>2, <2>3, <2>4
<1>15. ASSUME ServeDelete \/ ServeTransform PROVE SoundInv'
  <2>1. PICK x : x = Head(toServer)
    OBVIOUS
  <2>2. /\ toServer # <<>> /\ x.op # "CREATE" /\ toServer' = Tail(toServer)
        /\ toClient' = Append(toClient, x)
        /\ UNCHANGED <<m, burnt, misled>>
    BY <1>15, <2>1 DEF ServeDelete, ServeTransform
  <2>3. x \in Messages /\ ~Own(x)
    BY <2>1, <2>2, PopServer DEF Own
  <2> QED
    BY <2>2, <2>3, <1>5
<1>17. ASSUME NEW c \in Places, Select(c) PROVE SoundInv'
  BY <1>17, SoundKeep DEF Select
<1>16. CASE Next
  BY <1>16, <1>17, <1>7, <1>8, <1>9, <1>10, <1>11, <1>12, <1>13, <1>14, <1>15, SoundCreateOwn,
     SoundBurnOwn, SoundProcessOwnCreate, SoundProcessPeerCreate, SoundProcessPeerDelete
     DEF Next, entity_message, receive_entity_message
<1> QED
  BY <1>6, <1>16

LEMMA Sound == Spec => []SoundInv
BY Base, SoundInit, SoundStep, PTL DEF Spec

\* In every reachable state, as long as no own unit was burnt, every index of the server in
\* the map leads to a unit in use, and to the one with that index (EntityManager.cpp:223,
\* 229, 235).
THEOREM IndicesLeadToUnits == Spec => []IndexMapsLive
<1>1. SoundInv => IndexMapsLive
  BY DEF SoundInv, Linked, LiveOf, IndexMapsLive, Live
<1> QED
  BY <1>1, Sound, PTL

-----------------------------------------------------------------------------
(* The reference counts, as long as no deletion was misled.                *)

UnitsOf(e, id) == {i \in LiveOf(e.entities) : e.slot[i].id = id}

IsEntry(c) == c = [entity |-> c.entity, ref |-> c.ref]

Counted(e) ==
    /\ DOMAIN e.cache = {e.slot[i].id : i \in LiveOf(e.entities)}
    /\ \A id \in DOMAIN e.cache : /\ IsEntry(e.cache[id])
                                  /\ e.cache[id].ref = Cardinality(UnitsOf(e, id))

LEMMA UnitsOfFinite ==
    ASSUME NEW e, NEW id
    PROVE  /\ IsFiniteSet(UnitsOf(e, id)) /\ Cardinality(UnitsOf(e, id)) \in Nat
           /\ UnitsOf(e, id) # {} => Cardinality(UnitsOf(e, id)) >= 1
<1>1. IsFiniteSet(LiveOf(e.entities))
  BY LiveFinite
<1>2. UnitsOf(e, id) \in SUBSET LiveOf(e.entities)
  BY DEF UnitsOf
<1>3. IsFiniteSet(UnitsOf(e, id))
  BY <1>1, <1>2, FS_Subset
<1>4. Cardinality(UnitsOf(e, id)) \in Nat
  BY <1>3, FS_CardinalityType
<1>5. Cardinality(UnitsOf(e, id)) = 0 => UnitsOf(e, id) = {}
  BY <1>3, FS_EmptySet
<1> QED
  BY <1>3, <1>4, <1>5

\* A prototype that is loaded has no use yet.
LEMMA CachedCache ==
    ASSUME NEW e, IsManager(e), NEW id
    PROVE  /\ DOMAIN Cached(e, id).cache = DOMAIN e.cache \cup {id}
           /\ \A p \in DOMAIN e.cache : Cached(e, id).cache[p] = e.cache[p]
           /\ id \notin DOMAIN e.cache
                => IsEntry(Cached(e, id).cache[id]) /\ Cached(e, id).cache[id].ref = 0
<1>1. CASE id \in DOMAIN e.cache
  BY <1>1 DEF Cached
<1>2. CASE id \notin DOMAIN e.cache
  <2>1. PICK f, slot : f = Cached(e, id) /\ slot = Top(e.cachedEntities)
    OBVIOUS
  <2>2. f.cache = Extended(e.cache, id, [entity |-> slot, ref |-> 0])
    BY <2>1, <1>2, LoadFields
  <2>3. /\ DOMAIN f.cache = DOMAIN e.cache \cup {id}
        /\ \A p \in DOMAIN e.cache : f.cache[p] = e.cache[p]
        /\ f.cache[id] = [entity |-> slot, ref |-> 0]
    BY <2>2, <1>2 DEF Extended
  <2> QED
    BY <2>1, <2>3, <1>2 DEF IsEntry
<1> QED
  BY <1>1, <1>2

LEMMA CountedCreate ==
    ASSUME NEW e, NEW sb, UnitsOK(e, sb), MayGet(e.entities), e.entities.back < MaxCreates,
           Solid(e.entities), Counted(e), NEW id, NEW player, NEW s, NEW un
    PROVE  Counted(Create(e, id, player, s, un))
<1>1. IsManager(e)
  BY DEF UnitsOK
<1>2. PICK c : c = Create(e, id, player, s, un)
  OBVIOUS
<1>3. PICK t : t = Top(e.entities)
  OBVIOUS
<1>4. PICK f : f = Cached(e, id)
  OBVIOUS
<1>5. /\ LiveOf(c.entities) = LiveOf(e.entities) \cup {t}
      /\ t \notin LiveOf(e.entities) /\ t \in Places
      /\ \A i \in Places \ {t} : c.slot[i] = e.slot[i]
      /\ c.slot[t].id = id
  <2>1. UnitAdded(e, Create(e, id, player, s, un), Top(e.entities), id, player, s, un)
    BY CreateLive
  <2> QED
    BY <2>1, <1>2, <1>3 DEF UnitAdded
<1>6. c.cache = [f.cache EXCEPT ![id].ref = @ + 1]
  <2>1. Created(e, c, Wanted(Cached(e, id), id), id, player, s, un)
    BY <1>1, <1>2, CreateFields
  <2> QED
    BY <2>1, <1>4 DEF Created
<1>7. /\ DOMAIN f.cache = DOMAIN e.cache \cup {id}
      /\ \A p \in DOMAIN e.cache : f.cache[p] = e.cache[p]
      /\ id \notin DOMAIN e.cache => IsEntry(f.cache[id]) /\ f.cache[id].ref = 0
  BY <1>1, <1>4, CachedCache
<1>8. \A i \in LiveOf(e.entities) : i \in Places \ {t} /\ c.slot[i] = e.slot[i]
  BY <1>5 DEF LiveOf
<1>9. /\ UnitsOf(c, id) = UnitsOf(e, id) \cup {t} /\ t \notin UnitsOf(e, id)
      /\ \A p : p # id => UnitsOf(c, p) = UnitsOf(e, p)
  BY <1>5, <1>8 DEF UnitsOf
<1>10. Cardinality(UnitsOf(c, id)) = Cardinality(UnitsOf(e, id)) + 1
  BY <1>9, UnitsOfFinite, FS_AddElement
<1>11. {c.slot[i].id : i \in LiveOf(c.entities)} = {e.slot[i].id : i \in LiveOf(e.entities)} \cup {id}
  BY <1>5, <1>8
<1>12. DOMAIN c.cache = {c.slot[i].id : i \in LiveOf(c.entities)}
  BY <1>6, <1>7, <1>11 DEF Counted
<1>13. f.cache[id].ref = Cardinality(UnitsOf(e, id)) /\ IsEntry(f.cache[id])
  <2>1. CASE id \in DOMAIN e.cache
    BY <2>1, <1>7 DEF Counted
  <2>2. CASE id \notin DOMAIN e.cache
    <3>1. UnitsOf(e, id) = {}
      BY <2>2 DEF Counted, UnitsOf
    <3>2. Cardinality({}) = 0
      BY FS_EmptySet
    <3> QED
      BY <3>1, <3>2, <2>2, <1>7
  <2> QED
    BY <2>1, <2>2
<1>14. c.cache[id].ref = Cardinality(UnitsOf(c, id)) /\ IsEntry(c.cache[id])
  <2>1. c.cache[id] = [f.cache[id] EXCEPT !.ref = @ + 1]
    BY <1>6, <1>7
  <2> QED
    BY <2>1, <1>10, <1>13 DEF IsEntry
<1>15. ASSUME NEW p \in DOMAIN c.cache, p # id
       PROVE  c.cache[p].ref = Cardinality(UnitsOf(c, p)) /\ IsEntry(c.cache[p])
  <2>1. p \in DOMAIN e.cache /\ c.cache[p] = e.cache[p]
    BY <1>6, <1>7, <1>15
  <2> QED
    BY <2>1, <1>9, <1>15 DEF Counted
<1>16. Counted(c)
  BY <1>12, <1>14, <1>15 DEF Counted
<1> QED
  BY <1>2, <1>16

\* Another unit needs the prototype.
LEMMA ReleaseCache ==
    ASSUME NEW e, IsManager(e), NEW id, ~LastUse(e, id)
    PROVE  Release(e, id).cache = [e.cache EXCEPT ![id].ref = @ - 1]
<1>1. Release(e, id) = [e EXCEPT !.cache = [e.cache EXCEPT ![id].ref = @ - 1]]
  BY DEF Release, ReleaseAt, LastUse, IsManager
<1> QED
  BY <1>1 DEF IsManager

LEMMA CountedBurn ==
    ASSUME NEW e, IsManager(e), Solid(e.entities), Counted(e), NEW i \in LiveOf(e.entities),
           NEW id, e.slot[i].id = id, NEW comp
    PROVE  Counted(Burn(e, id, i, comp))
<1>1. PICK b : b = Burn(e, id, i, comp)
  OBVIOUS
<1>2. /\ LiveOf(b.entities) = LiveOf(e.entities) \ {i} /\ b.slot = e.slot
      /\ b.cache = Release(e, id).cache
  BY <1>1, BurnLive, BurnFields
<1>3. /\ UnitsOf(b, id) = UnitsOf(e, id) \ {i} /\ i \in UnitsOf(e, id)
      /\ \A p : p # id => UnitsOf(b, p) = UnitsOf(e, p)
  BY <1>2 DEF UnitsOf
<1>4. Cardinality(UnitsOf(b, id)) = Cardinality(UnitsOf(e, id)) - 1
  <2>1. IsFiniteSet(UnitsOf(e, id))
    BY UnitsOfFinite
  <2>2. Cardinality(UnitsOf(e, id) \ {i}) = Cardinality(UnitsOf(e, id)) - 1
    BY <2>1, <1>3, FS_RemoveElement
  <2> QED
    BY <2>2, <1>3
<1>5. id \in DOMAIN e.cache /\ IsEntry(e.cache[id]) /\ e.cache[id].ref = Cardinality(UnitsOf(e, id))
  BY DEF Counted
<1>6. Cardinality(UnitsOf(e, id)) \in Nat /\ Cardinality(UnitsOf(b, id)) \in Nat
  BY UnitsOfFinite
<1>7. ASSUME NEW p \in DOMAIN e.cache, p # id
      PROVE  /\ p \in {b.slot[j].id : j \in LiveOf(b.entities)}
             /\ e.cache[p].ref = Cardinality(UnitsOf(b, p)) /\ IsEntry(e.cache[p])
  <2>1. PICK j \in LiveOf(e.entities) : p = e.slot[j].id
    BY DEF Counted
  <2>2. j \in LiveOf(b.entities) /\ b.slot[j].id = p
    BY <2>1, <1>2, <1>7
  <2> QED
    BY <2>2, <1>3, <1>7 DEF Counted
<1>8. {b.slot[j].id : j \in LiveOf(b.entities)} \subseteq DOMAIN e.cache
  BY <1>2 DEF Counted
<1>9. CASE LastUse(e, id)
  <2>1. b.cache = [p \in DOMAIN e.cache \ {id} |-> e.cache[p]]
    BY <1>2, <1>9, ReleaseFields
  <2>2. UnitsOf(b, id) = {}
    <3>1. Cardinality(UnitsOf(b, id)) = 0
      BY <1>4, <1>5, <1>6, <1>9 DEF LastUse
    <3> QED
      BY <3>1, UnitsOfFinite
  <2>3. id \notin {b.slot[j].id : j \in LiveOf(b.entities)}
    BY <2>2 DEF UnitsOf
  <2>4. DOMAIN b.cache = {b.slot[j].id : j \in LiveOf(b.entities)}
    BY <2>1, <2>3, <1>7, <1>8
  <2>5. \A p \in DOMAIN b.cache : IsEntry(b.cache[p]) /\ b.cache[p].ref = Cardinality(UnitsOf(b, p))
    BY <2>1, <1>7
  <2> QED
    BY <2>4, <2>5, <1>1 DEF Counted
<1>10. CASE ~LastUse(e, id)
  <2>1. b.cache = [e.cache EXCEPT ![id].ref = @ - 1]
    <3>1. Release(e, id).cache = [e.cache EXCEPT ![id].ref = @ - 1]
      BY <1>10, ReleaseCache
    <3> QED
      BY <3>1, <1>2
  <2>2. UnitsOf(b, id) # {}
    <3>1. Cardinality(UnitsOf(b, id)) # 0
      BY <1>4, <1>5, <1>6, <1>10 DEF LastUse
    <3>2. Cardinality({}) = 0
      BY FS_EmptySet
    <3> QED
      BY <3>1, <3>2
  <2>3. id \in {b.slot[j].id : j \in LiveOf(b.entities)}
    BY <2>2 DEF UnitsOf
  <2>4. DOMAIN b.cache = {b.slot[j].id : j \in LiveOf(b.entities)}
    BY <2>1, <2>3, <1>7, <1>8
  <2>5. IsEntry(b.cache[id]) /\ b.cache[id].ref = Cardinality(UnitsOf(b, id))
    <3>1. b.cache[id] = [e.cache[id] EXCEPT !.ref = @ - 1]
      BY <2>1, <1>5
    <3> QED
      BY <3>1, <1>4, <1>5 DEF IsEntry
  <2>6. \A p \in DOMAIN b.cache \ {id} :
          IsEntry(b.cache[p]) /\ b.cache[p].ref = Cardinality(UnitsOf(b, p))
    BY <2>1, <1>7
  <2> QED
    BY <2>4, <2>5, <2>6, <1>1 DEF Counted
<1> QED
  BY <1>9, <1>10

LEMMA CountedSame ==
    ASSUME NEW e, Counted(e), NEW f, f.entities = e.entities, f.cache = e.cache,
           \A i \in Places : f.slot[i].id = e.slot[i].id
    PROVE  Counted(f)
<1>1. \A i \in LiveOf(e.entities) : f.slot[i].id = e.slot[i].id
  BY DEF LiveOf
<1>2. \A id : UnitsOf(f, id) = UnitsOf(e, id)
  BY <1>1 DEF UnitsOf
<1>3. {f.slot[i].id : i \in LiveOf(f.entities)} = {e.slot[i].id : i \in LiveOf(e.entities)}
  BY <1>1
<1> QED
  BY <1>2, <1>3 DEF Counted

CountInv == ~misled => Counted(m)

LEMMA CountInit == Init => CountInv
<1> SUFFICES ASSUME Init PROVE Counted(m)
  BY DEF CountInv
<1>1. m.entities = New /\ DOMAIN m.cache = {}
  BY DEF Init
<1>2. LiveOf(m.entities) = {}
  BY <1>1, SolidNew
<1> QED
  BY <1>1, <1>2 DEF Counted

LEMMA CountStep == BaseInv /\ SoundInv /\ CountInv /\ [Next]_vars => CountInv'
<1> SUFFICES ASSUME BaseInv, SoundInv, CountInv, [Next]_vars PROVE CountInv'
  OBVIOUS
<1>1. /\ UnitsOK(m, server.back) /\ IsManager(m) /\ m.slot \in [Places -> Units]
      /\ m.entities.back \in Nat /\ m.entities.back <= created
      /\ created \in Nat /\ created <= MaxCreates /\ MaxCreates \in Nat
      /\ ~misled => Solid(m.entities)
  BY RoomLeft DEF BaseInv, UnitsOK, SoundInv
<1>2. ASSUME misled' = misled, m'.entities = m.entities, m'.cache = m.cache,
             \A i \in Places : m'.slot[i].id = m.slot[i].id
      PROVE  CountInv'
  BY <1>2, CountedSame DEF CountInv
<1>3. ASSUME NEW id \in Prototypes, CreateOwn(id) PROVE CountInv'
  <2>1. /\ created < MaxCreates /\ MayGet(m.entities)
        /\ m' = Create(m, id, Me, None, created + 1) /\ misled' = misled
    BY <1>3 DEF CreateOwn, MayCreate
  <2>2. m.entities.back < MaxCreates
    BY <2>1, <1>1
  <2>3. ~misled /\ Counted(m) => Counted(Create(m, id, Me, None, created + 1))
    BY <2>1, <2>2, <1>1, CountedCreate
  <2> QED
    BY <2>1, <2>3 DEF CountInv
<1>4. ASSUME NEW i \in Places, BurnOwn(i) PROVE CountInv'
  <2>1. PICK id : id = m.slot[i].id
    OBVIOUS
  <2>2. /\ m' = m \/ m' = Burn(m, id, i, m.slot[i].comp)
        /\ misled' = misled /\ i \in LiveOf(m.entities)
    BY <1>4, <2>1 DEF BurnOwn, LiveOf
  <2>3. ~misled /\ Counted(m) => Counted(Burn(m, id, i, m.slot[i].comp))
    BY <2>1, <2>2, <1>1, CountedBurn
  <2> QED
    BY <2>2, <2>3 DEF CountInv
<1>5. ASSUME ProcessOwnCreate PROVE CountInv'
  <2>1. PICK msg : msg = Head(toClient)
    OBVIOUS
  <2>2. PICK e : e = [m EXCEPT !.slot[msg.slot].serverIndex = msg.serverIndex]
    OBVIOUS
  <2>3. PICK n : n = Insert(e, msg.serverIndex, msg.slot)
    OBVIOUS
  <2>4. /\ m' = (IF Valid(m.entities, msg.slot) THEN n ELSE m) /\ misled' = misled
    BY <1>5, <2>1, <2>2, <2>3 DEF ProcessOwnCreate
  <2>5. IsManager(e) /\ n = [e EXCEPT !.index = n.index]
    <3>1. IsManager(e)
      BY <2>2, <1>1 DEF IsManager
    <3> QED
      BY <3>1, <2>3, InsertFields
  <2>6. n.entities = m.entities /\ n.cache = m.cache /\ n.slot = e.slot
    BY <2>2, <2>5, <1>1 DEF IsManager
  <2>7. \A i \in Places : n.slot[i].id = m.slot[i].id
    BY <2>2, <2>6, <1>1 DEF Units
  <2> QED
    BY <2>4, <2>6, <2>7, <1>2
<1>6. ASSUME ProcessPeerCreate PROVE CountInv'
  <2>1. PICK msg : msg = Head(toClient)
    OBVIOUS
  <2>2. PICK e : e = Create(m, msg.id, msg.client, msg.serverIndex, msg.unit)
    OBVIOUS
  <2>3. /\ toClient # <<>> /\ msg.op = "CREATE" /\ msg.client # Me /\ MayGet(m.entities)
        /\ m' = Insert(e, msg.serverIndex, Top(m.entities)) /\ misled' = misled
    BY <1>6, <2>1, <2>2 DEF ProcessPeerCreate, MayCreate
  <2>4. m.entities.back < MaxCreates
    BY <2>1, <2>3, RoomLeft DEF Due
  <2>5. ~misled /\ Counted(m) => Counted(Create(m, msg.id, msg.client, msg.serverIndex, msg.unit))
    BY <2>3, <2>4, <1>1, CountedCreate
  <2>6. IsManager(e)
    BY <2>2, <1>1, CreateFields DEF Created
  <2>7. PICK n : n = Insert(e, msg.serverIndex, Top(m.entities))
    OBVIOUS
  <2>8. n = [e EXCEPT !.index = n.index]
    BY <2>6, <2>7, InsertFields
  <2>9. n.entities = e.entities /\ n.cache = e.cache /\ n.slot = e.slot
    BY <2>6, <2>8 DEF IsManager
  <2>10. Counted(e) => Counted(n)
    BY <2>9, CountedSame
  <2> QED
    BY <2>2, <2>3, <2>5, <2>7, <2>10 DEF CountInv
<1>7. ASSUME ProcessPeerDelete PROVE CountInv'
  <2>1. PICK msg : msg = Head(toClient)
    OBVIOUS
  <2>2. PICK e : e = Extracted(msg)
    OBVIOUS
  <2>3. PICK i : i = m.index[msg.serverIndex]
    OBVIOUS
  <2>4. /\ msg.serverIndex \in DOMAIN m.index
        /\ m' = Burn(e, msg.id, i, NoComponents)
        /\ misled' = (misled \/ ~IsUnit(i, msg))
    BY <1>7, <2>1, <2>2, <2>3 DEF ProcessPeerDelete, BurnOther, Deletes
  <2>5. /\ IsManager(e) /\ e.entities = m.entities /\ e.cache = m.cache /\ e.slot = m.slot
    BY <2>2, <1>1 DEF Extracted, IsManager
  <2>6. i \in Places
    BY <2>3, <2>4, <1>1 DEF UnitsOK, Places
  <2>7. ASSUME ~misled' PROVE Counted(m')
    <3>1. /\ ~misled /\ i \in LiveOf(m.entities) /\ m.slot[i].id = msg.id
      BY <2>4, <2>6, <2>7 DEF IsUnit, LiveOf
    <3>2. Counted(m) /\ Solid(m.entities)
      BY <3>1, <1>1 DEF CountInv
    <3>3. Counted(e) /\ Solid(e.entities) /\ i \in LiveOf(e.entities) /\ e.slot[i].id = msg.id
      BY <3>1, <3>2, <2>5, CountedSame
    <3> QED
      BY <3>3, <2>4, <2>5, CountedBurn
  <2> QED
    BY <2>7 DEF CountInv
<1>8. ASSUME ProcessTransform \/ Update PROVE CountInv'
  <2>1. misled' = misled
    BY <1>8 DEF ProcessTransform, Update
  <2>2. m'.entities = m.entities /\ m'.cache = m.cache /\ m'.slot = m.slot
    BY <1>8, MovesOnly
  <2> QED
    BY <2>1, <2>2, <1>2
<1>9. CASE \/ UNCHANGED vars
           \/ \E id \in Prototypes : PeerCreate(id)
           \/ GiveOrder \/ PeerStrayOrder \/ \E c \in Places : Select(c)
           \/ \E s \in DOMAIN peers : PeerDelete(s) \/ PeerOrder(s)
           \/ ProcessUnknownDelete \/ ProcessOwnDelete
           \/ ServeCreate \/ ServeDelete \/ ServeTransform
  <2>1. m' = m /\ misled' = misled
    BY <1>9, QuietSteps
  <2> QED
    BY <2>1, <1>2
<1> QED
  BY <1>3, <1>4, <1>5, <1>6, <1>7, <1>8, <1>9 DEF Next, entity_message, receive_entity_message

\* In every reachable state, as long as no deletion hit another unit than the one meant, the
\* cache holds exactly the prototypes of the units in use, each with the number of them
\* (EntityManager.cpp:100, 109, 235).
THEOREM CountsAreUses == Spec => []RefCountIsUse
<1>1. CountInv => RefCountIsUse
  BY DEF CountInv, Counted, UnitsOf, LiveOf, RefCountIsUse, Live
<1> QED
  BY <1>1, Base, Sound, CountInit, CountStep, PTL DEF Spec

-----------------------------------------------------------------------------
(* The units the server's indices stand for, as the messages bring them to *)
(* the client, as long as no own unit was burnt.                           *)

\* The server gave the index s away and has not got it back.
Used(a, s) == s \in 0 .. a.back - 1 /\ \A k \in 1 .. Len(a.indicies) : a.indicies[k] # s

\* An index is on the stack once, but for the stray that deletions without an index leave;
\* and the units of others have theirs.
ServerSound(a, others) ==
    /\ \A k, l \in 1 .. Len(a.indicies) :
         k # l /\ a.indicies[k] = a.indicies[l] => a.indicies[k] = IndexRange - 1
    /\ \A s \in DOMAIN others : Used(a, s)

\* The server gave the index s to the unit u, which is no one else's.
Mine(a, others, given, s, u) == Used(a, s) /\ s \notin DOMAIN others /\ given[s] = u

\* What the index s stands for at the server.
Stands(a, given, s) == IF Used(a, s) THEN given[s] ELSE None

\* The message changes what the index s stands for; afterwards it stands for v.
Touches(msg, s) == msg.op # "TRANSFORM" /\ msg.serverIndex = s

Says(msg, s, v) == Touches(msg, s) /\ v = (IF msg.op = "CREATE" THEN msg.unit ELSE None)

\* What the index s stands for at the client.
Holds(e, s, v) == v = (IF s \in DOMAIN e.index THEN e.slot[e.index[s]].unit ELSE None)

\* The same, when the client has taken the first k messages of q.
Known(q, e, k, s, v) ==
    \/ Holds(e, s, v) /\ \A l \in 1 .. k : ~Touches(q[l], s)
    \/ \E j \in 1 .. k : Says(q[j], s, v) /\ \A l \in j + 1 .. k : ~Touches(q[l], s)

\* Indices come free to the units that get them, and orders meet the units they are for.
Tracked(q, e) ==
    \A i \in 1 .. Len(q) : q[i].serverIndex # None =>
        /\ q[i].op = "CREATE" => Known(q, e, i - 1, q[i].serverIndex, None)
        /\ q[i].op = "TRANSFORM" /\ q[i].unit # Stray
             => Known(q, e, i - 1, q[i].serverIndex, q[i].unit)

\* In the end the client knows what the server has given.
Learnt(q, e, a, given) == \A s \in Nat : Known(q, e, Len(q), s, Stands(a, given, s))

\* From the kth on no message is about the index s.
Settled(q, k, s) == \A l \in k .. Len(q) : ~Touches(q[l], s)

\* What is on its way to the server, and to the client; no deletion is of an own unit.
UpTracked(q, e, a, others, given) ==
    \A i \in 1 .. Len(q) :
        /\ Own(q[i]) => q[i].unit = e.slot[q[i].slot].unit
        /\ q[i].op = "DELETE" => q[i].client # Me /\ q[i].serverIndex = None
        /\ q[i].op = "TRANSFORM" /\ q[i].unit # Stray /\ q[i].serverIndex # None
             => Mine(a, others, given, q[i].serverIndex, q[i].unit)

DownTracked(q, e, a, others, given) ==
    \A i \in 1 .. Len(q) :
        /\ Own(q[i]) => /\ q[i].unit = e.slot[q[i].slot].unit
                        /\ Mine(a, others, given, q[i].serverIndex, q[i].unit)
                        /\ Settled(q, i + 1, q[i].serverIndex)
        /\ q[i].op = "DELETE" => q[i].client # Me

\* No own unit was ever deleted, and the indices they have are theirs for good.
OwnSettled(q, e, a, others, given) ==
    \A i \in Places : e.slot[i].player = Me =>
        /\ i \in LiveOf(e.entities)
        /\ e.slot[i].serverIndex # None
             => /\ Mine(a, others, given, e.slot[i].serverIndex, e.slot[i].unit)
                /\ Settled(q, 1, e.slot[i].serverIndex)

Track(up, down, e, a, others, given, selected) ==
    /\ ServerSound(a, others)
    /\ Tracked(down, e) /\ Learnt(down, e, a, given)
    /\ UpTracked(up, e, a, others, given) /\ DownTracked(down, e, a, others, given)
    /\ OwnSettled(down, e, a, others, given)
    /\ selected # None => e.slot[selected].player = Me

TrackInv ==
    burnt = 0 /\ ~crashed => Track(toServer, toClient, m, server, peers, units, selection.slot)

\* What a message in a queue is.
LEMMA QueuedMessage ==
    ASSUME NEW q \in Seq(Messages), NEW i \in 1 .. Len(q)
    PROVE  /\ q[i] \in Messages /\ q[i].serverIndex \in {None} \cup Nat /\ q[i].unit \in Nat
           /\ q[i].serverIndex # None => q[i].serverIndex \in Nat
<1>1. q[i] \in Messages
  OBVIOUS
<1> QED
  BY <1>1 DEF Messages

LEMMA KnownNow ==
    ASSUME NEW q, NEW e, NEW s, NEW v
    PROVE  Known(q, e, 0, s, v) <=> Holds(e, s, v)
<1>1. 1 .. 0 = {}
  OBVIOUS
<1> QED
  BY <1>1 DEF Known

LEMMA KnownAppend ==
    ASSUME NEW q \in Seq(Messages), NEW x \in Messages, NEW e, NEW s, NEW v
    PROVE  /\ \A k \in 0 .. Len(q) : Known(q, e, k, s, v) => Known(Append(q, x), e, k, s, v)
           /\ Known(q, e, Len(q), s, v) /\ ~Touches(x, s) => Known(Append(q, x), e, Len(q) + 1, s, v)
           /\ Says(x, s, v) => Known(Append(q, x), e, Len(q) + 1, s, v)
<1>1. PICK r : r = Append(q, x)
  OBVIOUS
<1>2. PICK n : n = Len(q)
  OBVIOUS
<1>3. n \in Nat /\ (\A i \in 1 .. n : r[i] = q[i]) /\ r[n + 1] = x
  BY <1>1, <1>2, AppendLemma
<1>4. ASSUME NEW k \in 0 .. n, Known(q, e, k, s, v) PROVE Known(r, e, k, s, v)
  <2>1. \A l \in 1 .. k : r[l] = q[l]
    BY <1>3
  <2>2. \A j \in 1 .. k : \A l \in j + 1 .. k : l \in 1 .. k
    BY <1>3
  <2> QED
    BY <2>1, <2>2, <1>4 DEF Known
<1>5. ASSUME Known(q, e, n, s, v), ~Touches(x, s) PROVE Known(r, e, n + 1, s, v)
  <2>1. Known(r, e, n, s, v)
    BY <1>3, <1>4, <1>5
  <2>2. CASE Holds(e, s, v) /\ \A l \in 1 .. n : ~Touches(r[l], s)
    <3>1. \A l \in 1 .. n + 1 : ~Touches(r[l], s)
      <4>1. \A l \in 1 .. n + 1 : l \in 1 .. n \/ l = n + 1
        BY <1>3
      <4> QED
        BY <4>1, <2>2, <1>3, <1>5
    <3> QED
      BY <3>1, <2>2 DEF Known
  <2>3. ASSUME NEW j \in 1 .. n, Says(r[j], s, v), \A l \in j + 1 .. n : ~Touches(r[l], s)
        PROVE  Known(r, e, n + 1, s, v)
    <3>1. \A l \in j + 1 .. n + 1 : l \in j + 1 .. n \/ l = n + 1
      BY <1>3
    <3>2. \A l \in j + 1 .. n + 1 : ~Touches(r[l], s)
      BY <3>1, <2>3, <1>3, <1>5
    <3>3. j \in 1 .. n + 1
      BY <1>3
    <3> QED
      BY <3>2, <3>3, <2>3 DEF Known
  <2> QED
    BY <2>1, <2>2, <2>3 DEF Known
<1>6. ASSUME Says(x, s, v) PROVE Known(r, e, n + 1, s, v)
  <2>1. n + 1 \in 1 .. n + 1 /\ (n + 1) + 1 .. n + 1 = {}
    BY <1>3
  <2> QED
    BY <2>1, <1>3, <1>6 DEF Known
<1> QED
  BY <1>1, <1>2, <1>4, <1>5, <1>6

\* The manager e, when it takes the message, becomes f.
Heeds(msg, e, f) ==
    \A s \in Nat : \A v : /\ Holds(e, s, v) /\ ~Touches(msg, s) => Holds(f, s, v)
                          /\ Says(msg, s, v) => Holds(f, s, v)

LEMMA KnownTail ==
    ASSUME NEW q \in Seq(Messages), q # <<>>, NEW e, NEW f, Heeds(Head(q), e, f), NEW s \in Nat, NEW v,
           NEW k \in 1 .. Len(q), Known(q, e, k, s, v)
    PROVE  Known(Tail(q), f, k - 1, s, v)
<1>1. PICK r : r = Tail(q)
  OBVIOUS
<1>2. PICK n : n = Len(q)
  OBVIOUS
<1>3. /\ n \in Nat \ {0} /\ Head(q) = q[1] /\ k \in 1 .. n
      /\ \A i \in 1 .. n - 1 : r[i] = q[i + 1]
  BY <1>1, <1>2, TailLemma
<1>4. /\ Holds(e, s, v) /\ ~Touches(q[1], s) => Holds(f, s, v)
      /\ Says(q[1], s, v) => Holds(f, s, v)
  BY <1>3 DEF Heeds
<1>5. CASE Holds(e, s, v) /\ \A l \in 1 .. k : ~Touches(q[l], s)
  <2>1. Holds(f, s, v)
    BY <1>3, <1>4, <1>5
  <2>2. \A l \in 1 .. k - 1 : l + 1 \in 1 .. k /\ r[l] = q[l + 1]
    BY <1>3
  <2> QED
    BY <2>1, <2>2, <1>5 DEF Known
<1>6. ASSUME NEW j \in 1 .. k, Says(q[j], s, v), \A l \in j + 1 .. k : ~Touches(q[l], s)
      PROVE  Known(r, f, k - 1, s, v)
  <2>1. CASE j = 1
    <3>1. Holds(f, s, v)
      BY <2>1, <1>4, <1>6
    <3>2. \A l \in 1 .. k - 1 : l + 1 \in j + 1 .. k /\ r[l] = q[l + 1]
      BY <2>1, <1>3
    <3> QED
      BY <3>1, <3>2, <1>6 DEF Known
  <2>2. CASE j # 1
    <3>1. PICK i : i = j - 1
      OBVIOUS
    <3>2. i \in 1 .. k - 1 /\ r[i] = q[j]
      BY <3>1, <2>2, <1>3
    <3>3. \A l \in i + 1 .. k - 1 : l + 1 \in j + 1 .. k /\ r[l] = q[l + 1]
      BY <3>1, <2>2, <1>3
    <3> QED
      BY <3>2, <3>3, <1>6 DEF Known
  <2> QED
    BY <2>1, <2>2
<1> QED
  BY <1>1, <1>5, <1>6 DEF Known

\* What the indices stand for stays.
Stays(e, f) == \A s \in Nat : \A v : Holds(e, s, v) => Holds(f, s, v)

LEMMA TrackedKeeps ==
    ASSUME NEW q \in Seq(Messages), NEW e, NEW f, Stays(e, f), NEW a, NEW given
    PROVE  (Tracked(q, e) => Tracked(q, f)) /\ (Learnt(q, e, a, given) => Learnt(q, f, a, given))
<1>1. ASSUME NEW k, NEW s \in Nat, NEW v, Known(q, e, k, s, v) PROVE Known(q, f, k, s, v)
  BY <1>1 DEF Known, Stays
<1>2. \A i \in 1 .. Len(q) : q[i].serverIndex # None => q[i].serverIndex \in Nat
  BY QueuedMessage
<1> QED
  BY <1>1, <1>2 DEF Tracked, Learnt

LEMMA TrackedTail ==
    ASSUME NEW q \in Seq(Messages), q # <<>>, NEW e, NEW f, Heeds(Head(q), e, f), NEW a, NEW given
    PROVE  /\ Tracked(q, e) => Tracked(Tail(q), f)
           /\ Learnt(q, e, a, given) => Learnt(Tail(q), f, a, given)
<1>1. PICK r : r = Tail(q)
  OBVIOUS
<1>2. PICK n : n = Len(q)
  OBVIOUS
<1>3. /\ n \in Nat \ {0} /\ Len(r) = n - 1
      /\ \A i \in 1 .. n - 1 : r[i] = q[i + 1] /\ i + 1 \in 1 .. n
      /\ r \in Seq(Messages)
  BY <1>1, <1>2, TailLemma
<1>4. ASSUME NEW k \in 1 .. n, NEW s \in Nat, NEW v, Known(q, e, k, s, v) PROVE Known(r, f, k - 1, s, v)
  BY <1>1, <1>2, <1>4, KnownTail
<1>5. ASSUME Tracked(q, e) PROVE Tracked(r, f)
  <2> SUFFICES ASSUME NEW i \in 1 .. n - 1, r[i].serverIndex # None
               PROVE  /\ r[i].op = "CREATE" => Known(r, f, i - 1, r[i].serverIndex, None)
                      /\ r[i].op = "TRANSFORM" /\ r[i].unit # Stray
                           => Known(r, f, i - 1, r[i].serverIndex, r[i].unit)
    BY <1>3 DEF Tracked
  <2>1. r[i] = q[i + 1] /\ i + 1 \in 1 .. Len(q) /\ (i + 1) - 1 = i /\ i \in 1 .. n
    BY <1>2, <1>3
  <2>2. r[i].serverIndex \in Nat
    BY <1>3, QueuedMessage
  <2>3. PICK j : j = i + 1
    OBVIOUS
  <2>4. j \in 1 .. Len(q) /\ q[j] = r[i] /\ j - 1 = i
    BY <2>1, <2>3
  <2>5. /\ r[i].op = "CREATE" => Known(q, e, i, r[i].serverIndex, None)
        /\ r[i].op = "TRANSFORM" /\ r[i].unit # Stray => Known(q, e, i, r[i].serverIndex, r[i].unit)
    BY <2>4, <1>5 DEF Tracked
  <2> QED
    BY <2>1, <2>2, <2>5, <1>4
<1>6. ASSUME Learnt(q, e, a, given) PROVE Learnt(r, f, a, given)
  <2> SUFFICES ASSUME NEW s \in Nat PROVE Known(r, f, n - 1, s, Stands(a, given, s))
    BY <1>3 DEF Learnt
  <2>1. Known(q, e, n, s, Stands(a, given, s)) /\ n \in 1 .. n
    BY <1>2, <1>3, <1>6 DEF Learnt
  <2> QED
    BY <2>1, <1>4
<1> QED
  BY <1>1, <1>5, <1>6

\* The server sends a message: what its indices stand for changes as the message says.
LEMMA TrackedPush ==
    ASSUME NEW q \in Seq(Messages), NEW x \in Messages, NEW e, NEW a, NEW given, NEW b, NEW next,
           Tracked(q, e), Learnt(q, e, a, given),
           x.op = "CREATE" => ~Used(a, x.serverIndex),
           x.op = "TRANSFORM" /\ x.unit # Stray /\ x.serverIndex # None
             => Used(a, x.serverIndex) /\ given[x.serverIndex] = x.unit,
           \A s \in Nat : IF Touches(x, s) THEN Says(x, s, Stands(b, next, s))
                          ELSE Stands(b, next, s) = Stands(a, given, s)
    PROVE  Tracked(Append(q, x), e) /\ Learnt(Append(q, x), e, b, next)
<1>1. PICK r : r = Append(q, x)
  OBVIOUS
<1>2. PICK n : n = Len(q)
  OBVIOUS
<1>3. /\ n \in Nat /\ (\A i \in 1 .. n : r[i] = q[i]) /\ r[n + 1] = x /\ Len(r) = n + 1
      /\ r \in Seq(Messages)
  BY <1>1, <1>2, AppendLemma
<1>4. ASSUME NEW k \in 0 .. n, NEW s, NEW v, Known(q, e, k, s, v) PROVE Known(r, e, k, s, v)
  BY <1>1, <1>2, <1>4, KnownAppend
<1>5. \A s \in Nat : Known(q, e, n, s, Stands(a, given, s))
  BY <1>2 DEF Learnt
<1>6. Tracked(r, e)
  <2> SUFFICES ASSUME NEW i \in 1 .. n + 1, r[i].serverIndex # None
               PROVE  /\ r[i].op = "CREATE" => Known(r, e, i - 1, r[i].serverIndex, None)
                      /\ r[i].op = "TRANSFORM" /\ r[i].unit # Stray
                           => Known(r, e, i - 1, r[i].serverIndex, r[i].unit)
    BY <1>3 DEF Tracked
  <2>1. CASE i \in 1 .. n
    <3>1. r[i] = q[i] /\ i \in 1 .. Len(q) /\ i - 1 \in 0 .. n
      BY <2>1, <1>2, <1>3
    <3>2. /\ r[i].op = "CREATE" => Known(q, e, i - 1, r[i].serverIndex, None)
          /\ r[i].op = "TRANSFORM" /\ r[i].unit # Stray
               => Known(q, e, i - 1, r[i].serverIndex, r[i].unit)
      BY <3>1 DEF Tracked
    <3> QED
      BY <3>1, <3>2, <1>4
  <2>2. CASE i = n + 1
    <3>1. r[i] = x /\ i - 1 = n /\ n \in 0 .. n
      BY <2>2, <1>3
    <3>2. x.serverIndex \in Nat
      BY <3>1 DEF Messages
    <3>3. Known(q, e, n, x.serverIndex, Stands(a, given, x.serverIndex))
      BY <3>2, <1>5
    <3>4. /\ x.op = "CREATE" => Stands(a, given, x.serverIndex) = None
          /\ x.op = "TRANSFORM" /\ x.unit # Stray => Stands(a, given, x.serverIndex) = x.unit
      BY <3>1 DEF Stands
    <3>5. Known(r, e, n, x.serverIndex, Stands(a, given, x.serverIndex))
      BY <3>1, <3>3, <1>4
    <3> QED
      BY <3>1, <3>4, <3>5
  <2> QED
    BY <2>1, <2>2, <1>3
<1>7. Learnt(r, e, b, next)
  <2> SUFFICES ASSUME NEW s \in Nat PROVE Known(r, e, n + 1, s, Stands(b, next, s))
    BY <1>3 DEF Learnt
  <2>1. CASE Touches(x, s)
    <3>1. Says(x, s, Stands(b, next, s))
      BY <2>1
    <3> QED
      BY <3>1, <1>1, <1>2, KnownAppend
  <2>2. CASE ~Touches(x, s)
    <3>1. Known(q, e, n, s, Stands(b, next, s))
      BY <2>2, <1>5
    <3> QED
      BY <2>2, <3>1, <1>1, <1>2, KnownAppend
  <2> QED
    BY <2>1, <2>2
<1> QED
  BY <1>1, <1>6, <1>7

\* The indices that are a unit's own stay so, and the message is about none of them.
Stable(a, others, given, b, rest, next, x) ==
    \A s, u : Mine(a, others, given, s, u) => Mine(b, rest, next, s, u) /\ ~Touches(x, s)

LEMMA SettledPush ==
    ASSUME NEW q \in Seq(Messages), NEW x \in Messages, NEW s, NEW k \in Nat \ {0}, k <= Len(q) + 1,
           Settled(q, k, s), ~Touches(x, s)
    PROVE  Settled(Append(q, x), k, s)
<1>1. PICK r : r = Append(q, x)
  OBVIOUS
<1>2. PICK n : n = Len(q)
  OBVIOUS
<1>3. n \in Nat /\ (\A i \in 1 .. n : r[i] = q[i]) /\ r[n + 1] = x /\ Len(r) = n + 1
  BY <1>1, <1>2, AppendLemma
<1>4. ASSUME NEW l \in k .. n + 1 PROVE ~Touches(r[l], s)
  <2>1. (l \in 1 .. n /\ l \in k .. n) \/ l = n + 1
    BY <1>3
  <2>2. CASE l \in 1 .. n /\ l \in k .. n
    BY <2>2, <1>2, <1>3 DEF Settled
  <2>3. CASE l = n + 1
    BY <2>3, <1>3
  <2> QED
    BY <2>1, <2>2, <2>3
<1> QED
  BY <1>1, <1>3, <1>4 DEF Settled

LEMMA SettledTail ==
    ASSUME NEW q \in Seq(Messages), q # <<>>, NEW s, NEW k \in Nat \ {0}, Settled(q, k + 1, s)
    PROVE  Settled(Tail(q), k, s)
<1>1. PICK r : r = Tail(q)
  OBVIOUS
<1>2. PICK n : n = Len(q)
  OBVIOUS
<1>3. n \in Nat \ {0} /\ Len(r) = n - 1 /\ \A i \in 1 .. n - 1 : r[i] = q[i + 1]
  BY <1>1, <1>2, TailLemma
<1>4. \A l \in k .. n - 1 : r[l] = q[l + 1] /\ l + 1 \in k + 1 .. n
  BY <1>3
<1>5. \A l \in k .. n - 1 : ~Touches(r[l], s)
  BY <1>2, <1>4 DEF Settled
<1> QED
  BY <1>1, <1>3, <1>5 DEF Settled

LEMMA DownPush ==
    ASSUME NEW q \in Seq(Messages), NEW x \in Messages, NEW e, NEW a, NEW others, NEW given,
           NEW b, NEW rest, NEW next, DownTracked(q, e, a, others, given),
           Stable(a, others, given, b, rest, next, x),
           Own(x) => x.unit = e.slot[x.slot].unit /\ Mine(b, rest, next, x.serverIndex, x.unit),
           x.op = "DELETE" => x.client # Me
    PROVE  DownTracked(Append(q, x), e, b, rest, next)
<1>1. PICK r : r = Append(q, x)
  OBVIOUS
<1>2. PICK n : n = Len(q)
  OBVIOUS
<1>3. n \in Nat /\ (\A i \in 1 .. n : r[i] = q[i]) /\ r[n + 1] = x /\ Len(r) = n + 1
  BY <1>1, <1>2, AppendLemma
<1>4. ASSUME NEW i \in 1 .. n + 1
      PROVE  /\ Own(r[i]) => /\ r[i].unit = e.slot[r[i].slot].unit
                             /\ Mine(b, rest, next, r[i].serverIndex, r[i].unit)
                             /\ Settled(r, i + 1, r[i].serverIndex)
             /\ r[i].op = "DELETE" => r[i].client # Me
  <2>1. CASE i \in 1 .. n
    <3>1. r[i] = q[i] /\ i + 1 \in Nat \ {0} /\ i + 1 <= n + 1
      BY <2>1, <1>3
    <3>2. /\ Own(q[i]) => /\ q[i].unit = e.slot[q[i].slot].unit
                          /\ Mine(a, others, given, q[i].serverIndex, q[i].unit)
                          /\ Settled(q, i + 1, q[i].serverIndex)
          /\ q[i].op = "DELETE" => q[i].client # Me
      BY <2>1, <1>2 DEF DownTracked
    <3>3. Own(q[i]) => /\ Mine(b, rest, next, q[i].serverIndex, q[i].unit)
                       /\ ~Touches(x, q[i].serverIndex)
      BY <3>2 DEF Stable
    <3>4. Own(q[i]) => Settled(r, i + 1, q[i].serverIndex)
      BY <3>1, <3>2, <3>3, <1>1, <1>2, SettledPush
    <3> QED
      BY <3>1, <3>2, <3>3, <3>4
  <2>2. CASE i = n + 1
    <3>1. r[i] = x /\ i + 1 .. n + 1 = {}
      BY <2>2, <1>3
    <3>2. Settled(r, i + 1, r[i].serverIndex)
      BY <3>1, <1>3 DEF Settled
    <3> QED
      BY <3>1, <3>2
  <2> QED
    BY <2>1, <2>2, <1>3
<1> QED
  BY <1>1, <1>3, <1>4 DEF DownTracked

LEMMA OwnPush ==
    ASSUME NEW q \in Seq(Messages), NEW x \in Messages, NEW e, NEW a, NEW others, NEW given,
           NEW b, NEW rest, NEW next, OwnSettled(q, e, a, others, given),
           Stable(a, others, given, b, rest, next, x)
    PROVE  OwnSettled(Append(q, x), e, b, rest, next)
<1>1. 1 \in Nat \ {0} /\ 1 <= Len(q) + 1
  OBVIOUS
<1>2. ASSUME NEW s, NEW u, Mine(a, others, given, s, u), Settled(q, 1, s)
      PROVE  Mine(b, rest, next, s, u) /\ Settled(Append(q, x), 1, s)
  <2>1. Mine(b, rest, next, s, u) /\ ~Touches(x, s)
    BY <1>2 DEF Stable
  <2> QED
    BY <2>1, <1>1, <1>2, SettledPush
<1> QED
  BY <1>2 DEF OwnSettled

LEMMA UpKeeps ==
    ASSUME NEW q, NEW e, NEW f, NEW a, NEW others, NEW given, NEW b, NEW rest, NEW next,
           UpTracked(q, e, a, others, given),
           \A i \in 1 .. Len(q) : Own(q[i]) => f.slot[q[i].slot].unit = e.slot[q[i].slot].unit,
           \A s, u : Mine(a, others, given, s, u) => Mine(b, rest, next, s, u)
    PROVE  UpTracked(q, f, b, rest, next)
BY DEF UpTracked

LEMMA UpTail ==
    ASSUME NEW q \in Seq(Messages), q # <<>>, NEW e, NEW a, NEW others, NEW given,
           UpTracked(q, e, a, others, given)
    PROVE  UpTracked(Tail(q), e, a, others, given)
<1>1. PICK r : r = Tail(q)
  OBVIOUS
<1>2. \A i \in 1 .. Len(r) : r[i] = q[i + 1] /\ i + 1 \in 1 .. Len(q)
  BY <1>1, TailLemma
<1> QED
  BY <1>1, <1>2 DEF UpTracked

\* A message to the server that fits.
Sendable(x, e, a, others, given) ==
    /\ Own(x) => x.unit = e.slot[x.slot].unit
    /\ x.op = "DELETE" => x.client # Me /\ x.serverIndex = None
    /\ x.op = "TRANSFORM" /\ x.unit # Stray /\ x.serverIndex # None
         => Mine(a, others, given, x.serverIndex, x.unit)

\* A message is sent to the server.
LEMMA TrackSend ==
    ASSUME NEW up \in Seq(Messages), NEW down, NEW x \in Messages, NEW e, NEW a, NEW others,
           NEW given, NEW selected, Track(up, down, e, a, others, given, selected),
           Sendable(x, e, a, others, given)
    PROVE  Track(Append(up, x), down, e, a, others, given, selected)
<1>1. PICK r : r = Append(up, x)
  OBVIOUS
<1>2. PICK n : n = Len(up)
  OBVIOUS
<1>3. n \in Nat /\ (\A i \in 1 .. n : r[i] = up[i]) /\ r[n + 1] = x /\ Len(r) = n + 1
  BY <1>1, <1>2, AppendLemma
<1>4. \A i \in 1 .. n + 1 : (i \in 1 .. n /\ r[i] = up[i]) \/ r[i] = x
  BY <1>3
<1>5. \A i \in 1 .. n : Sendable(up[i], e, a, others, given)
  BY <1>2 DEF Track, UpTracked, Sendable
<1>6. \A i \in 1 .. n + 1 : Sendable(r[i], e, a, others, given)
  BY <1>4, <1>5
<1>7. UpTracked(r, e, a, others, given)
  BY <1>3, <1>6 DEF UpTracked, Sendable
<1> QED
  BY <1>1, <1>7 DEF Track

\* The server sends a message, its own or one it was sent.
LEMMA TrackPush ==
    ASSUME NEW up \in Seq(Messages), NEW down \in Seq(Messages), NEW x \in Messages, NEW e,
           NEW a, NEW others, NEW given, NEW b, NEW rest, NEW next, NEW selected,
           Track(up, down, e, a, others, given, selected),
           NEW left, left = up \/ (up # <<>> /\ left = Tail(up)),
           ServerSound(b, rest), Stable(a, others, given, b, rest, next, x),
           x.op = "CREATE" => ~Used(a, x.serverIndex),
           x.op = "TRANSFORM" /\ x.unit # Stray /\ x.serverIndex # None
             => Used(a, x.serverIndex) /\ given[x.serverIndex] = x.unit,
           \A s \in Nat : IF Touches(x, s) THEN Says(x, s, Stands(b, next, s))
                          ELSE Stands(b, next, s) = Stands(a, given, s),
           Own(x) => x.unit = e.slot[x.slot].unit /\ Mine(b, rest, next, x.serverIndex, x.unit),
           x.op = "DELETE" => x.client # Me
    PROVE  Track(left, Append(down, x), e, b, rest, next, selected)
<1>1. /\ Tracked(down, e) /\ Learnt(down, e, a, given) /\ UpTracked(up, e, a, others, given)
      /\ DownTracked(down, e, a, others, given) /\ OwnSettled(down, e, a, others, given)
      /\ selected # None => e.slot[selected].player = Me
  BY DEF Track
<1>2. Tracked(Append(down, x), e) /\ Learnt(Append(down, x), e, b, next)
  BY <1>1, TrackedPush
<1>3. DownTracked(Append(down, x), e, b, rest, next)
  BY <1>1, DownPush
<1>4. OwnSettled(Append(down, x), e, b, rest, next)
  BY <1>1, OwnPush
<1>5. UpTracked(left, e, a, others, given)
  BY <1>1, UpTail
<1>6. \A s, u : Mine(a, others, given, s, u) => Mine(b, rest, next, s, u)
  BY DEF Stable
<1>7. UpTracked(left, e, b, rest, next)
  BY <1>5, <1>6, UpKeeps
<1> QED
  BY <1>1, <1>2, <1>3, <1>4, <1>7 DEF Track

\* The own units of e and f are the same; those with an index have it from the server.
SameOwn(down, e, f, a, others, given) ==
    \A i \in Places : f.slot[i].player = Me =>
        /\ e.slot[i].player = Me /\ i \in LiveOf(f.entities) /\ f.slot[i].unit = e.slot[i].unit
        /\ \/ f.slot[i].serverIndex = e.slot[i].serverIndex
           \/ /\ Mine(a, others, given, f.slot[i].serverIndex, f.slot[i].unit)
              /\ Settled(down, 1, f.slot[i].serverIndex)

\* The client takes a message.
LEMMA TrackTaken ==
    ASSUME NEW up \in Seq(Messages), NEW down \in Seq(Messages), down # <<>>, NEW e, NEW f,
           NEW a, NEW others, NEW given, NEW selected,
           Track(up, down, e, a, others, given, selected), Pending(up, down, e),
           Heeds(Head(down), e, f), \A j : Waits(e, j) => f.slot[j].unit = e.slot[j].unit,
           SameOwn(Tail(down), e, f, a, others, given),
           selected # None /\ e.slot[selected].player = Me => f.slot[selected].player = Me
    PROVE  Track(up, Tail(down), f, a, others, given, selected)
<1>1. PICK r : r = Tail(down)
  OBVIOUS
<1>2. /\ Len(down) \in Nat \ {0} /\ Len(r) = Len(down) - 1
      /\ \A i \in 1 .. Len(r) : r[i] = down[i + 1] /\ i + 1 \in 1 .. Len(down)
  BY <1>1, TailLemma
<1>3. /\ ServerSound(a, others) /\ Tracked(down, e) /\ Learnt(down, e, a, given)
      /\ UpTracked(up, e, a, others, given)
      /\ DownTracked(down, e, a, others, given) /\ OwnSettled(down, e, a, others, given)
      /\ selected # None => e.slot[selected].player = Me
  BY DEF Track
<1>4. Tracked(r, f) /\ Learnt(r, f, a, given)
  BY <1>1, <1>3, TrackedTail
<1>5. \A i \in 1 .. Len(up) : Own(up[i]) => f.slot[up[i].slot].unit = e.slot[up[i].slot].unit
  BY DEF Pending, Await
<1>6. UpTracked(up, f, a, others, given)
  BY <1>3, <1>5, UpKeeps
<1>7. ASSUME NEW i \in 1 .. Len(r)
      PROVE  /\ Own(r[i]) => /\ r[i].unit = f.slot[r[i].slot].unit
                             /\ Mine(a, others, given, r[i].serverIndex, r[i].unit)
                             /\ Settled(r, i + 1, r[i].serverIndex)
             /\ r[i].op = "DELETE" => r[i].client # Me
  <2>1. PICK j : j = i + 1
    OBVIOUS
  <2>2. j \in 1 .. Len(down) /\ r[i] = down[j] /\ i + 1 = j /\ j \in Nat \ {0}
    BY <2>1, <1>2
  <2>3. /\ Own(down[j]) => /\ down[j].unit = e.slot[down[j].slot].unit
                           /\ Mine(a, others, given, down[j].serverIndex, down[j].unit)
                           /\ Settled(down, j + 1, down[j].serverIndex)
        /\ down[j].op = "DELETE" => down[j].client # Me
    BY <2>2, <1>3 DEF DownTracked
  <2>4. Own(down[j]) => f.slot[down[j].slot].unit = e.slot[down[j].slot].unit
    BY <2>2 DEF Pending, Await
  <2>5. Own(down[j]) => Settled(r, j, down[j].serverIndex)
    BY <2>2, <2>3, <1>1, SettledTail
  <2> QED
    BY <2>2, <2>3, <2>4, <2>5
<1>8. DownTracked(r, f, a, others, given)
  BY <1>7 DEF DownTracked
<1>9. ASSUME NEW i \in Places, f.slot[i].player = Me, f.slot[i].serverIndex # None
      PROVE  /\ Mine(a, others, given, f.slot[i].serverIndex, f.slot[i].unit)
             /\ Settled(r, 1, f.slot[i].serverIndex)
  <2>1. CASE f.slot[i].serverIndex = e.slot[i].serverIndex
    <3>1. e.slot[i].player = Me /\ f.slot[i].unit = e.slot[i].unit
      BY <1>9 DEF SameOwn
    <3>2. /\ Mine(a, others, given, e.slot[i].serverIndex, e.slot[i].unit)
          /\ Settled(down, 1, e.slot[i].serverIndex)
      BY <3>1, <2>1, <1>3, <1>9 DEF OwnSettled
    <3>3. Settled(down, 1 + 1, e.slot[i].serverIndex) /\ 1 \in Nat \ {0}
      BY <3>2 DEF Settled
    <3>4. Settled(r, 1, e.slot[i].serverIndex)
      BY <3>3, <1>1, SettledTail
    <3> QED
      BY <3>1, <3>2, <3>4, <2>1
  <2>2. CASE f.slot[i].serverIndex # e.slot[i].serverIndex
    BY <2>2, <1>1, <1>9 DEF SameOwn
  <2> QED
    BY <2>1, <2>2
<1>10. OwnSettled(r, f, a, others, given)
  BY <1>9 DEF OwnSettled, SameOwn
<1> QED
  BY <1>1, <1>3, <1>4, <1>6, <1>8, <1>10 DEF Track

\* A unit is added that has no index yet.
LEMMA TrackGrows ==
    ASSUME NEW up \in Seq(Messages), NEW down \in Seq(Messages), NEW e, NEW f,
           NEW a, NEW others, NEW given, NEW selected,
           Track(up, down, e, a, others, given, selected), Pending(up, down, e), Stays(e, f),
           \A j : Waits(e, j) => f.slot[j].unit = e.slot[j].unit,
           \A i \in Places : f.slot[i].player = Me =>
               /\ i \in LiveOf(f.entities)
               /\ f.slot[i] = e.slot[i] \/ f.slot[i].serverIndex = None,
           selected # None /\ e.slot[selected].player = Me => f.slot[selected].player = Me
    PROVE  Track(up, down, f, a, others, given, selected)
<1>1. /\ ServerSound(a, others) /\ Tracked(down, e) /\ Learnt(down, e, a, given)
      /\ UpTracked(up, e, a, others, given)
      /\ DownTracked(down, e, a, others, given) /\ OwnSettled(down, e, a, others, given)
      /\ selected # None => e.slot[selected].player = Me
  BY DEF Track
<1>2. Tracked(down, f) /\ Learnt(down, f, a, given)
  BY <1>1, TrackedKeeps
<1>3. /\ \A i \in 1 .. Len(up) : Own(up[i]) => f.slot[up[i].slot].unit = e.slot[up[i].slot].unit
      /\ \A i \in 1 .. Len(down) : Own(down[i]) => f.slot[down[i].slot].unit = e.slot[down[i].slot].unit
  BY DEF Pending, Await
<1>4. UpTracked(up, f, a, others, given)
  BY <1>1, <1>3, UpKeeps
<1>5. DownTracked(down, f, a, others, given)
  BY <1>1, <1>3 DEF DownTracked
<1>6. OwnSettled(down, f, a, others, given)
  BY <1>1 DEF OwnSettled
<1> QED
  BY <1>1, <1>2, <1>4, <1>5, <1>6 DEF Track

\* The server gives the index on top of its stack away, and no other.
LEMMA UsedGet ==
    ASSUME NEW a \in Array, Stacked(a, {IndexRange - 1}), MayGet(a), Top(a) <= a.back,
           NEW others, ServerSound(a, others)
    PROVE  /\ ~Used(a, Top(a)) /\ Used(Get(a), Top(a)) /\ Top(a) \in Nat
           /\ \A s : s # Top(a) => (Used(Get(a), s) <=> Used(a, s))
           /\ ServerSound(Get(a), others)
<1> DEFINE q == a.indicies
           n == Len(q)
           p == Popped(a)
           t == q[n]
<1>1. /\ n \in Nat /\ n >= 1
      /\ \A k \in 1 .. n : q[k] \in 0 .. IndexRange - 1
      /\ a.back \in 0 .. IndexRange - 2 /\ a.back \in Nat /\ t \in Nat /\ t <= a.back
  BY IndexRangeAssumption DEF Array, Stacked, MayGet, Top
<1>2. /\ q[1] = a.back
      /\ \A k \in 2 .. n : q[k] < a.back \/ q[k] = IndexRange - 1
  BY <1>1 DEF Stacked
<1>3. /\ Len(p) = n - 1
      /\ \A k \in 1 .. n - 1 : p[k] = q[k]
      /\ p \in Seq(0 .. IndexRange - 1)
  BY <1>1, PoppedLemma
<1>4. Top(a) = t
  BY DEF Top
<1>5. \A k, l \in 1 .. n : k # l /\ q[k] = q[l] => q[k] = IndexRange - 1
  BY DEF ServerSound
<1>6. \A s : Used(a, s) <=> s \in 0 .. a.back - 1 /\ \A k \in 1 .. n : q[k] # s
  BY DEF Used
<1>7. ~Used(a, t)
  BY <1>1, <1>6
<1> HIDE DEF q, n, p, t
<1>8. CASE n = 1
  <2> DEFINE r == Append(p, a.back + 1)
  <2>1. t = a.back
    BY <1>2, <1>8 DEF t
  <2>2. Wrap(t + 1) = a.back + 1
    BY <2>1, <1>1, WrapInRange, IndexRangeAssumption
  <2>3. Get(a).indicies = r /\ Get(a).back = a.back + 1
    BY <2>1, <2>2, <1>4 DEF Get, p
  <2>4. Len(r) = 1 /\ r[1] = a.back + 1
    BY <1>1, <1>3, <1>8
  <2> HIDE DEF r
  <2>5. \A s : Used(Get(a), s) <=> s \in 0 .. a.back
    BY <2>3, <2>4, <1>1 DEF Used
  <2>6. \A s : Used(a, s) <=> s \in 0 .. a.back - 1
    BY <1>1, <1>2, <1>6, <1>8
  <2>7. \A s : s # t => (Used(Get(a), s) <=> Used(a, s))
    BY <2>1, <2>5, <2>6, <1>1
  <2>8. Used(Get(a), t)
    BY <2>1, <2>5, <1>1
  <2>9. ServerSound(Get(a), others)
    <3>1. \A k, l \in 1 .. Len(r) : k # l => FALSE
      BY <2>4
    <3>2. \A s \in DOMAIN others : Used(Get(a), s)
      BY <2>7, <2>8 DEF ServerSound
    <3> QED
      BY <3>1, <3>2, <2>3 DEF ServerSound
  <2> QED
    BY <2>7, <2>8, <2>9, <1>1, <1>4, <1>7
<1>9. CASE n > 1
  <2>1. n \in 2 .. n /\ n \in 1 .. n /\ t = q[n]
    BY <1>1, <1>9 DEF t
  <2>2. t < a.back
    <3>1. t # IndexRange - 1
      BY <1>1, IndexRangeAssumption
    <3>2. q[n] < a.back \/ q[n] = IndexRange - 1
      BY <2>1, <1>2
    <3> QED
      BY <3>1, <3>2, <2>1
  <2>3. Get(a).indicies = p /\ Get(a).back = a.back
    BY <2>2, <1>1, <1>4 DEF Get, p
  <2>4. \A k \in 1 .. n - 1 : q[k] # t
    <3>1. \A k \in 1 .. n - 1 : k \in 1 .. n /\ k # n
      BY <1>1
    <3>2. t # IndexRange - 1
      BY <1>1, IndexRangeAssumption
    <3>3. \A k \in 1 .. n : k # n /\ q[k] = q[n] => q[k] = IndexRange - 1
      BY <2>1, <1>5
    <3> QED
      BY <3>1, <3>2, <3>3, <2>1
  <2>5. \A s : Used(Get(a), s) <=> s \in 0 .. a.back - 1 /\ \A k \in 1 .. n - 1 : q[k] # s
    BY <2>3, <1>3 DEF Used
  <2>6. \A k \in 1 .. n : k \in 1 .. n - 1 \/ k = n
    BY <1>1
  <2>7. \A s : s # t => (Used(Get(a), s) <=> Used(a, s))
    BY <2>1, <2>5, <2>6, <1>6
  <2>8. Used(Get(a), t)
    BY <2>2, <2>4, <2>5, <1>1
  <2>9. ServerSound(Get(a), others)
    <3>1. \A k, l \in 1 .. n - 1 : k # l /\ p[k] = p[l] => p[k] = IndexRange - 1
      BY <1>1, <1>3, <1>5
    <3>2. \A s \in DOMAIN others : Used(Get(a), s)
      BY <2>7, <2>8 DEF ServerSound
    <3> QED
      BY <3>1, <3>2, <2>3, <1>3 DEF ServerSound
  <2> QED
    BY <2>7, <2>8, <2>9, <1>1, <1>4, <1>7
<1> QED
  BY <1>1, <1>8, <1>9

\* It gets an index back; the stray was none.
LEMMA UsedRemove ==
    ASSUME NEW a \in Array, NEW i, NEW w, w = Wrap(i), w \in Nat, w = IndexRange - 1 \/ Used(a, w),
           NEW others, ServerSound(a, others), w \notin DOMAIN others
    PROVE  /\ \A s : Used(Remove(a, i), s) <=> Used(a, s) /\ s # w
           /\ ServerSound(Remove(a, i), others)
<1> DEFINE q == a.indicies
           n == Len(q)
           r == Append(q, w)
<1>1. n \in Nat /\ q \in Seq(0 .. IndexRange - 1) /\ a.back \in 0 .. IndexRange - 1
  BY DEF Array
<1>2. Remove(a, i).indicies = r /\ Remove(a, i).back = a.back
  BY DEF Remove
<1>3. Len(r) = n + 1 /\ (\A k \in 1 .. n : r[k] = q[k]) /\ r[n + 1] = w
  BY <1>1
<1>4. \A s : Used(a, s) <=> s \in 0 .. a.back - 1 /\ \A k \in 1 .. n : q[k] # s
  BY DEF Used
<1>5. \A k, l \in 1 .. n : k # l /\ q[k] = q[l] => q[k] = IndexRange - 1
  BY DEF ServerSound
<1> HIDE DEF q, n, r
<1>6. \A k \in 1 .. n + 1 : k \in 1 .. n \/ k = n + 1
  BY <1>1
<1>7. n + 1 \in 1 .. n + 1 /\ \A k \in 1 .. n : k \in 1 .. n + 1
  BY <1>1
<1>8. \A s : Used(Remove(a, i), s) <=> Used(a, s) /\ s # w
  <2>1. \A s : Used(Remove(a, i), s) <=> s \in 0 .. a.back - 1 /\ \A k \in 1 .. n + 1 : r[k] # s
    BY <1>2, <1>3 DEF Used
  <2>2. \A s : (\A k \in 1 .. n + 1 : r[k] # s) <=> (\A k \in 1 .. n : q[k] # s) /\ s # w
    BY <1>3, <1>6, <1>7
  <2> QED
    BY <2>1, <2>2, <1>4
<1>9. ServerSound(Remove(a, i), others)
  <2>1. ASSUME NEW k \in 1 .. n + 1, NEW l \in 1 .. n + 1, k # l, r[k] = r[l]
        PROVE  r[k] = IndexRange - 1
    <3>1. CASE k \in 1 .. n /\ l \in 1 .. n
      BY <3>1, <2>1, <1>3, <1>5
    <3>2. CASE k = n + 1 \/ l = n + 1
      <4>1. r[k] = w /\ \E j \in 1 .. n : q[j] = w
        BY <3>2, <2>1, <1>3, <1>6
      <4>2. ~Used(a, w)
        BY <4>1, <1>4
      <4> QED
        BY <4>1, <4>2
    <3> QED
      BY <3>1, <3>2, <1>6
  <2>2. \A s \in DOMAIN others : Used(Remove(a, i), s)
    BY <1>8 DEF ServerSound
  <2> QED
    BY <2>1, <2>2, <1>2, <1>3 DEF ServerSound
<1> QED
  BY <1>8, <1>9

-----------------------------------------------------------------------------
(* The steps. *)

LEMMA TrackFacts ==
    ASSUME BaseInv, SoundInv, TrackInv, burnt = 0, ~crashed
    PROVE  /\ Track(toServer, toClient, m, server, peers, units, selection.slot)
           /\ Solid(m.entities) /\ Linked(m) /\ Pending(toServer, toClient, m)
           /\ toServer \in Seq(Messages) /\ toClient \in Seq(Messages)
           /\ UnitsOK(m, server.back) /\ IsManager(m) /\ m.slot \in [Places -> Units]
           /\ server \in Array /\ Stacked(server, {IndexRange - 1})
           /\ units \in [0 .. server.back - 1 -> Nat] /\ selection.slot \in {None} \cup Places
           /\ \A s \in DOMAIN m.index : s \in Nat
BY BaseTypes DEF TrackInv, SoundInv, BaseInv, ServerOK, Selections, UnitsOK

LEMMA TrackInit == Init => TrackInv
<1> SUFFICES ASSUME Init PROVE Track(toServer, toClient, m, server, peers, units, selection.slot)
  BY DEF TrackInv
<1>1. /\ toServer = <<>> /\ toClient = <<>> /\ server = New /\ DOMAIN peers = {} /\ DOMAIN m.index = {}
      /\ m.slot = [i \in Places |-> EmptyUnit] /\ selection.slot = None
  BY DEF Init
<1>2. Len(<<>>) = 0 /\ 1 .. 0 = {}
  OBVIOUS
<1>3. /\ server.back = 0 /\ Len(server.indicies) = 1
  BY <1>1 DEF New
<1>4. \A s : ~Used(server, s)
  BY <1>3 DEF Used
<1>5. ServerSound(server, peers)
  BY <1>1, <1>3 DEF ServerSound
<1>6. \A s : Holds(m, s, None)
  BY <1>1 DEF Holds
<1>7. Tracked(toClient, m) /\ UpTracked(toServer, m, server, peers, units)
      /\ DownTracked(toClient, m, server, peers, units)
  BY <1>1, <1>2 DEF Tracked, UpTracked, DownTracked
<1>8. Learnt(toClient, m, server, units)
  BY <1>1, <1>2, <1>4, <1>6, KnownNow DEF Learnt, Stands
<1>9. OwnSettled(toClient, m, server, peers, units)
  <2>1. EmptyUnit.player # Me
    BY DEF EmptyUnit, NoOne, Me
  <2>2. \A i \in Places : m.slot[i] = EmptyUnit
    BY <1>1
  <2> QED
    BY <2>1, <2>2 DEF OwnSettled
<1> QED
  BY <1>1, <1>5, <1>7, <1>8, <1>9 DEF Track


LEMMA TrackCreateOwn ==
    ASSUME BaseInv, SoundInv, TrackInv, NEW id \in Prototypes, CreateOwn(id)
    PROVE  TrackInv'
<1> SUFFICES ASSUME burnt = 0, ~crashed
             PROVE  Track(toServer', toClient', m', server', peers', units', selection'.slot)
  BY DEF CreateOwn, TrackInv
<1>1. PICK x : x = Message("CREATE", id, Top(m.entities), Me, None, created + 1)
  OBVIOUS
<1>2. PICK t : t = Top(m.entities)
  OBVIOUS
<1>3. PICK c : c = Create(m, id, Me, None, created + 1)
  OBVIOUS
<1>4. /\ created < MaxCreates /\ MayGet(m.entities) /\ toServer' = Append(toServer, x) /\ m' = c
      /\ UNCHANGED <<toClient, server, peers, units, selection>>
  BY <1>1, <1>3 DEF CreateOwn, MayCreate
<1>5. /\ Track(toServer, toClient, m, server, peers, units, selection.slot)
      /\ Solid(m.entities) /\ Linked(m) /\ Pending(toServer, toClient, m)
      /\ toServer \in Seq(Messages) /\ toClient \in Seq(Messages)
      /\ UnitsOK(m, server.back) /\ selection.slot \in {None} \cup Places
  BY TrackFacts
<1>6. m.entities.back < MaxCreates
  BY <1>4, BaseTypes
<1>7. UnitAdded(m, c, t, id, Me, None, created + 1)
  <2>1. UnitAdded(m, Create(m, id, Me, None, created + 1), Top(m.entities), id, Me, None, created + 1)
    BY <1>4, <1>5, <1>6, CreateLive
  <2> QED
    BY <2>1, <1>2, <1>3
<1>8. /\ LiveOf(c.entities) = LiveOf(m.entities) \cup {t}
      /\ t \notin LiveOf(m.entities) /\ t \in Places /\ c.index = m.index
      /\ \A i \in Places \ {t} : c.slot[i] = m.slot[i]
      /\ c.slot[t].player = Me /\ c.slot[t].serverIndex = None /\ c.slot[t].unit = created + 1
  BY <1>7 DEF UnitAdded
<1>9. \A i \in LiveOf(m.entities) : i \in Places /\ i # t /\ c.slot[i] = m.slot[i]
  BY <1>8 DEF LiveOf
<1>10. Stays(m, c)
  <2>1. \A s \in DOMAIN m.index : c.slot[m.index[s]] = m.slot[m.index[s]]
    BY <1>5, <1>9 DEF Linked
  <2> QED
    BY <2>1, <1>8 DEF Stays, Holds
<1>11. \A j : Waits(m, j) => c.slot[j].unit = m.slot[j].unit
  BY <1>9 DEF Waits
<1>12. \A i \in Places : m.slot[i].player = Me => i \in LiveOf(m.entities)
  BY <1>5 DEF Track, OwnSettled
<1>13. \A i \in Places : c.slot[i].player = Me =>
           /\ i \in LiveOf(c.entities)
           /\ c.slot[i] = m.slot[i] \/ c.slot[i].serverIndex = None
  BY <1>8, <1>12
<1>14. selection.slot # None /\ m.slot[selection.slot].player = Me
         => c.slot[selection.slot].player = Me
  BY <1>5, <1>9, <1>12
<1>15. Track(toServer, toClient, c, server, peers, units, selection.slot)
  BY <1>5, <1>10, <1>11, <1>13, <1>14, TrackGrows
<1>16. x \in Messages /\ Sendable(x, c, server, peers, units)
  <2>1. t \in Nat /\ created + 1 \in Nat
    BY <1>8, BaseTypes, BoundsAssumption DEF Places
  <2>2. x \in Messages
    BY <2>1, <1>1, <1>2, MessageType
  <2>3. x.op = "CREATE" /\ x.slot = t /\ x.unit = created + 1
    BY <1>1, <1>2 DEF Message
  <2> QED
    BY <2>2, <2>3, <1>8 DEF Sendable
<1>17. Track(Append(toServer, x), toClient, c, server, peers, units, selection.slot)
  BY <1>5, <1>15, <1>16, TrackSend
<1> QED
  BY <1>4, <1>17

LEMMA TrackGiveOrder ==
    ASSUME BaseInv, SoundInv, TrackInv, GiveOrder
    PROVE  TrackInv'
<1> SUFFICES ASSUME burnt = 0, ~crashed
             PROVE  Track(toServer', toClient', m', server', peers', units', selection'.slot)
  BY DEF GiveOrder, TrackInv
<1>1. PICK i \in Places, s \in {None} \cup Nat, un \in Nat :
        /\ toServer' = Append(toServer, Order(Me, s, un))
        /\ i = selection.slot /\ i # None /\ s = m.slot[i].serverIndex
        /\ un = Stray \/ (un = m.slot[i].unit /\ Valid(m.entities, i))
  BY GivesOrder
<1>2. PICK x : x = Order(Me, s, un)
  OBVIOUS
<1>3. UNCHANGED <<m, toClient, server, peers, units, selection>>
  BY DEF GiveOrder
<1>4. /\ Track(toServer, toClient, m, server, peers, units, selection.slot)
      /\ toServer \in Seq(Messages)
  BY TrackFacts
<1>5. /\ x \in Messages /\ x.op = "TRANSFORM" /\ x.unit = un /\ x.serverIndex = s
  BY <1>2, OrderType DEF Order, Message
<1>6. un # Stray /\ s # None => Mine(server, peers, units, s, un)
  BY <1>1, <1>4 DEF Track, OwnSettled
<1>7. Sendable(x, m, server, peers, units)
  BY <1>5, <1>6 DEF Sendable, Own
<1>8. Track(Append(toServer, x), toClient, m, server, peers, units, selection.slot)
  BY <1>4, <1>5, <1>7, TrackSend
<1> QED
  BY <1>1, <1>2, <1>3, <1>8

\* The messages of the server that give no index and take none.
LEMMA TrackPass ==
    ASSUME BaseInv, SoundInv, TrackInv, burnt = 0, ~crashed,
           NEW x \in Messages, x.op = "TRANSFORM",
           x.unit # Stray /\ x.serverIndex # None
             => Used(server, x.serverIndex) /\ units[x.serverIndex] = x.unit,
           NEW left, left = toServer \/ (toServer # <<>> /\ left = Tail(toServer))
    PROVE  Track(left, Append(toClient, x), m, server, peers, units, selection.slot)
<1>1. /\ Track(toServer, toClient, m, server, peers, units, selection.slot)
      /\ toServer \in Seq(Messages) /\ toClient \in Seq(Messages)
  BY TrackFacts
<1>2. \A s : ~Touches(x, s)
  BY DEF Touches
<1>3. Stable(server, peers, units, server, peers, units, x) /\ ServerSound(server, peers)
  BY <1>1, <1>2 DEF Stable, Track
<1>4. ~Own(x) /\ x.op # "CREATE" /\ x.op # "DELETE"
  BY DEF Own
<1> QED
  BY <1>1, <1>2, <1>3, <1>4, TrackPush

LEMMA TrackServeTransform ==
    ASSUME BaseInv, SoundInv, TrackInv, ServeTransform
    PROVE  TrackInv'
<1> SUFFICES ASSUME burnt = 0, ~crashed
             PROVE  Track(toServer', toClient', m', server', peers', units', selection'.slot)
  BY DEF ServeTransform, TrackInv
<1>1. PICK x : x = Head(toServer)
  OBVIOUS
<1>2. /\ toServer # <<>> /\ x.op = "TRANSFORM" /\ toServer' = Tail(toServer)
      /\ toClient' = Append(toClient, x)
      /\ UNCHANGED <<m, server, peers, units, selection>>
  BY <1>1 DEF ServeTransform
<1>3. x \in Messages /\ 1 \in 1 .. Len(toServer) /\ x = toServer[1]
  BY <1>1, <1>2, TailLemma, BaseTypes
<1>4. UpTracked(toServer, m, server, peers, units)
  BY TrackFacts DEF Track
<1>5. x.unit # Stray /\ x.serverIndex # None
        => Used(server, x.serverIndex) /\ units[x.serverIndex] = x.unit
  BY <1>2, <1>3, <1>4 DEF UpTracked, Mine
<1>6. Track(Tail(toServer), Append(toClient, x), m, server, peers, units, selection.slot)
  BY <1>2, <1>3, <1>5, TrackPass
<1> QED
  BY <1>2, <1>6

LEMMA TrackPeerOrders ==
    ASSUME BaseInv, SoundInv, TrackInv, PeerStrayOrder \/ \E s \in DOMAIN peers : PeerOrder(s)
    PROVE  TrackInv'
<1>1. /\ UNCHANGED <<m, toServer, server, peers, selection, crashed, burnt, units>>
      /\ ~crashed
  BY PeerOrders
<1> SUFFICES ASSUME burnt = 0
             PROVE  Track(toServer', toClient', m', server', peers', units', selection'.slot)
  BY <1>1 DEF TrackInv
<1>2. PICK s \in DOMAIN units, un \in Nat :
        /\ toClient' = Append(toClient, Order(Peer, s, un))
        /\ un = Stray \/ (s \in DOMAIN peers /\ un = units[s])
  BY PeerOrders
<1>3. PICK x : x = Order(Peer, s, un)
  OBVIOUS
<1>4. s \in {None} \cup Nat
  BY BaseTypes DEF BaseInv
<1>5. x \in Messages /\ x.op = "TRANSFORM" /\ x.unit = un /\ x.serverIndex = s
  BY <1>3, <1>4, OrderType DEF Order, Message
<1>6. ServerSound(server, peers)
  BY <1>1, TrackFacts DEF Track
<1>7. x.unit # Stray => Used(server, x.serverIndex) /\ units[x.serverIndex] = x.unit
  BY <1>2, <1>5, <1>6 DEF ServerSound
<1>8. Track(toServer, Append(toClient, x), m, server, peers, units, selection.slot)
  BY <1>1, <1>5, <1>7, TrackPass
<1> QED
  BY <1>1, <1>2, <1>3, <1>8

\* The server gives the index on top of its stack to a unit, of this player or of another.
LEMMA TrackGives ==
    ASSUME BaseInv, SoundInv, TrackInv, burnt = 0, ~crashed, MayPlace,
           NEW x \in Messages, x.op = "CREATE", x.serverIndex = Top(server),
           NEW rest, \/ rest = peers /\ x.client = Me
                     \/ DOMAIN rest = DOMAIN peers \cup {Top(server)} /\ x.client # Me,
           x.client = Me => x.unit = m.slot[x.slot].unit,
           NEW left, left = toServer \/ (toServer # <<>> /\ left = Tail(toServer))
    PROVE  Track(left, Append(toClient, x), m, Get(server), rest, Given(Top(server), x.unit),
                 selection.slot)
<1>1. /\ Track(toServer, toClient, m, server, peers, units, selection.slot)
      /\ toServer \in Seq(Messages) /\ toClient \in Seq(Messages)
      /\ server \in Array /\ Stacked(server, {IndexRange - 1})
      /\ units \in [0 .. server.back - 1 -> Nat]
  BY TrackFacts
<1>2. PICK t : t = Top(server)
  OBVIOUS
<1>3. PICK b : b = Get(server)
  OBVIOUS
<1>4. PICK next : next = Given(t, x.unit)
  OBVIOUS
<1>5. ServerSound(server, peers) /\ MayGet(server) /\ Top(server) <= server.back
  BY <1>1 DEF Track, MayPlace
<1>6. /\ ~Used(server, t) /\ Used(b, t) /\ t \in Nat
      /\ \A s : s # t => (Used(b, s) <=> Used(server, s))
      /\ ServerSound(b, peers)
  BY <1>1, <1>2, <1>3, <1>5, UsedGet
<1>7. next[t] = x.unit /\ \A s : Used(server, s) => next[s] = units[s] /\ s # t
  <2>1. \A s : Used(server, s) => s \in DOMAIN units
    BY <1>1 DEF Used
  <2> QED
    BY <2>1, <1>4, <1>6 DEF Given
<1>8. ServerSound(b, rest)
  BY <1>2, <1>6 DEF ServerSound
<1>9. \A s : Touches(x, s) <=> s = t
  BY <1>2 DEF Touches
<1>10. Stable(server, peers, units, b, rest, next, x)
  BY <1>2, <1>6, <1>7, <1>9 DEF Stable, Mine
<1>11. \A s \in Nat : IF Touches(x, s) THEN Says(x, s, Stands(b, next, s))
                      ELSE Stands(b, next, s) = Stands(server, units, s)
  BY <1>6, <1>7, <1>9 DEF Says, Stands
<1>12. t \notin DOMAIN peers
  BY <1>5, <1>6 DEF ServerSound
<1>13. Own(x) => x.unit = m.slot[x.slot].unit /\ Mine(b, rest, next, x.serverIndex, x.unit)
  BY <1>2, <1>6, <1>7, <1>12 DEF Own, Mine
<1>14. ~Used(server, x.serverIndex)
  BY <1>2, <1>6
<1>15. Track(left, Append(toClient, x), m, b, rest, next, selection.slot)
  BY <1>1, <1>8, <1>10, <1>11, <1>13, <1>14, TrackPush
<1> QED
  BY <1>2, <1>3, <1>4, <1>15


LEMMA TrackServeCreate ==
    ASSUME BaseInv, SoundInv, TrackInv, ServeCreate
    PROVE  TrackInv'
<1> SUFFICES ASSUME burnt = 0, ~crashed, ~crashed'
             PROVE  Track(toServer', toClient', m', server', peers', units', selection'.slot)
  BY DEF ServeCreate, TrackInv
<1>1. PICK msg : msg = Head(toServer)
  OBVIOUS
<1>2. PICK x : x = [msg EXCEPT !.serverIndex = Top(server)]
  OBVIOUS
<1>3. /\ toServer # <<>> /\ msg.op = "CREATE" /\ toServer' = Tail(toServer) /\ MayPlace
      /\ toClient' = Append(toClient, x) /\ server' = Get(server)
      /\ units' = Given(Top(server), msg.unit) /\ UNCHANGED <<m, peers, selection>>
  BY <1>1, <1>2 DEF ServeCreate
<1>4. msg \in Messages /\ 1 \in 1 .. Len(toServer) /\ msg = toServer[1]
  BY <1>1, <1>3, TailLemma, BaseTypes
<1>5. msg.client = Me
  BY <1>1, <1>3, PopServer DEF UpOK
<1>6. UpTracked(toServer, m, server, peers, units)
  BY TrackFacts DEF Track
<1>7. msg.unit = m.slot[msg.slot].unit
  BY <1>3, <1>4, <1>5, <1>6 DEF UpTracked, Own
<1>8. Top(server) \in Nat
  BY <1>3, ServerGet
<1>9. /\ x \in Messages /\ x.op = "CREATE" /\ x.serverIndex = Top(server) /\ x.client = Me
      /\ x.slot = msg.slot /\ x.unit = msg.unit
  BY <1>2, <1>3, <1>4, <1>5, <1>8 DEF Messages
<1>10. Track(Tail(toServer), Append(toClient, x), m, Get(server), peers, Given(Top(server), x.unit),
             selection.slot)
  BY <1>3, <1>7, <1>9, TrackGives
<1> QED
  BY <1>3, <1>9, <1>10

LEMMA TrackPeerCreate ==
    ASSUME BaseInv, SoundInv, TrackInv, NEW id \in Prototypes, PeerCreate(id)
    PROVE  TrackInv'
<1> SUFFICES ASSUME burnt = 0, ~crashed
             PROVE  Track(toServer', toClient', m', server', peers', units', selection'.slot)
  BY DEF PeerCreate, TrackInv
<1>1. PICK x : x = Message("CREATE", id, 0, Peer, Top(server), created + 1)
  OBVIOUS
<1>2. PICK rest : rest = Extended(peers, Top(server), id)
  OBVIOUS
<1>3. /\ MayPlace /\ toClient' = Append(toClient, x) /\ server' = Get(server) /\ peers' = rest
      /\ units' = Given(Top(server), created + 1) /\ UNCHANGED <<m, toServer, selection>>
  BY <1>1, <1>2 DEF PeerCreate
<1>4. Top(server) \in Nat /\ created + 1 \in Nat
  BY <1>3, ServerGet, BaseTypes
<1>5. /\ x \in Messages /\ x.op = "CREATE" /\ x.serverIndex = Top(server) /\ x.client # Me
      /\ x.unit = created + 1
  BY <1>1, <1>4, MessageType DEF Message, Me, Peer
<1>6. DOMAIN rest = DOMAIN peers \cup {Top(server)}
  BY <1>2 DEF Extended
<1>7. Track(toServer, Append(toClient, x), m, Get(server), rest, Given(Top(server), x.unit),
            selection.slot)
  BY <1>3, <1>5, <1>6, TrackGives
<1> QED
  BY <1>3, <1>5, <1>7

LEMMA TrackPeerDelete ==
    ASSUME BaseInv, SoundInv, TrackInv, NEW s \in DOMAIN peers, PeerDelete(s)
    PROVE  TrackInv'
<1> SUFFICES ASSUME burnt = 0, ~crashed
             PROVE  Track(toServer', toClient', m', server', peers', units', selection'.slot)
  BY DEF PeerDelete, TrackInv
<1>1. PICK x : x = Message("DELETE", peers[s], 0, Peer, s, Stray)
  OBVIOUS
<1>2. PICK b : b = Remove(server, s)
  OBVIOUS
<1>3. PICK rest : rest = Restrict(peers, DOMAIN peers \ {s})
  OBVIOUS
<1>4. /\ toClient' = Append(toClient, x) /\ server' = b /\ peers' = rest
      /\ UNCHANGED <<m, toServer, units, selection>>
  BY <1>1, <1>2, <1>3 DEF PeerDelete
<1>5. /\ Track(toServer, toClient, m, server, peers, units, selection.slot)
      /\ toServer \in Seq(Messages) /\ toClient \in Seq(Messages) /\ server \in Array
  BY TrackFacts
<1>6. ServerSound(server, peers)
  BY <1>5 DEF Track
<1>7. s \in Nat /\ peers[s] \in Prototypes /\ s = Wrap(s) /\ Used(server, s)
  <2>1. s \in 0 .. server.back - 1 /\ peers[s] \in Prototypes
    BY DEF BaseInv, ServerOK
  <2>2. server.back \in 0 .. IndexRange - 1
    BY <1>5 DEF Array
  <2>3. s \in 0 .. IndexRange - 1
    BY <2>1, <2>2, IndexRangeAssumption
  <2> QED
    BY <2>1, <2>3, <1>6, WrapInRange DEF ServerSound
<1>8. DOMAIN rest = DOMAIN peers \ {s}
  BY <1>3 DEF Restrict
<1>9. ServerSound(server, rest) /\ s \notin DOMAIN rest
  BY <1>6, <1>8 DEF ServerSound
<1>10. (\A i : Used(b, i) <=> Used(server, i) /\ i # s) /\ ServerSound(b, rest)
  BY <1>2, <1>5, <1>7, <1>9, UsedRemove
<1>11. x \in Messages /\ x.op = "DELETE" /\ x.serverIndex = s /\ x.client # Me
  BY <1>1, <1>7, MessageType DEF Message, Me, Peer, Stray
<1>12. \A i : Touches(x, i) <=> i = s
  BY <1>11 DEF Touches
<1>13. Stable(server, peers, units, b, rest, units, x)
  BY <1>8, <1>10, <1>12 DEF Stable, Mine
<1>14. \A i \in Nat : IF Touches(x, i) THEN Says(x, i, Stands(b, units, i))
                      ELSE Stands(b, units, i) = Stands(server, units, i)
  BY <1>10, <1>11, <1>12 DEF Says, Stands
<1>15. ~Own(x) /\ x.op # "CREATE" /\ x.op # "TRANSFORM"
  BY <1>11 DEF Own
<1>16. Track(toServer, Append(toClient, x), m, b, rest, units, selection.slot)
  BY <1>5, <1>10, <1>11, <1>13, <1>14, <1>15, TrackPush
<1> QED
  BY <1>4, <1>16

LEMMA TrackServeDelete ==
    ASSUME BaseInv, SoundInv, TrackInv, ServeDelete
    PROVE  TrackInv'
<1> SUFFICES ASSUME burnt = 0, ~crashed
             PROVE  Track(toServer', toClient', m', server', peers', units', selection'.slot)
  BY DEF ServeDelete, TrackInv
<1>1. PICK x : x = Head(toServer)
  OBVIOUS
<1>2. PICK b : b = Remove(server, x.serverIndex)
  OBVIOUS
<1>3. /\ toServer # <<>> /\ x.op = "DELETE" /\ toServer' = Tail(toServer)
      /\ toClient' = Append(toClient, x) /\ server' = b
      /\ UNCHANGED <<m, peers, units, selection>>
  BY <1>1, <1>2 DEF ServeDelete
<1>4. /\ Track(toServer, toClient, m, server, peers, units, selection.slot)
      /\ toServer \in Seq(Messages) /\ toClient \in Seq(Messages) /\ server \in Array
  BY TrackFacts
<1>5. ServerSound(server, peers) /\ UpTracked(toServer, m, server, peers, units)
  BY <1>4 DEF Track
<1>6. x \in Messages /\ 1 \in 1 .. Len(toServer) /\ x = toServer[1]
  BY <1>1, <1>3, <1>4, TailLemma
<1>7. x.client # Me /\ x.serverIndex = None
  BY <1>3, <1>5, <1>6 DEF UpTracked
<1>8. server.back \in 0 .. IndexRange - 1 /\ IndexRange - 1 \in Nat
  BY <1>4, IndexRangeAssumption DEF Array
<1>9. \A s : Used(server, s) => s \in Nat /\ s # IndexRange - 1
  BY <1>8 DEF Used
<1>10. PICK w : w = Wrap(x.serverIndex)
  OBVIOUS
<1>11. w = IndexRange - 1
  BY <1>7, <1>10, NoneIsStray
<1>12. w \notin DOMAIN peers
  BY <1>5, <1>9, <1>11 DEF ServerSound
<1>13. (\A s : Used(b, s) <=> Used(server, s)) /\ ServerSound(b, peers)
  <2>1. (\A s : Used(b, s) <=> Used(server, s) /\ s # w) /\ ServerSound(b, peers)
    BY <1>2, <1>4, <1>5, <1>8, <1>10, <1>11, <1>12, UsedRemove
  <2> QED
    BY <2>1, <1>9, <1>11
<1>14. \A s \in Nat : ~Touches(x, s)
  BY <1>7 DEF Touches, None
<1>15. Stable(server, peers, units, b, peers, units, x)
  BY <1>9, <1>13, <1>14 DEF Stable, Mine
<1>16. \A s \in Nat : Stands(b, units, s) = Stands(server, units, s)
  BY <1>13 DEF Stands
<1>17. ~Own(x) /\ x.op # "CREATE" /\ x.op # "TRANSFORM"
  BY <1>3 DEF Own
<1>18. Track(Tail(toServer), Append(toClient, x), m, b, peers, units, selection.slot)
  BY <1>3, <1>4, <1>6, <1>7, <1>13, <1>14, <1>15, <1>16, <1>17, TrackPush
<1> QED
  BY <1>3, <1>18

LEMMA TrackSelect ==
    ASSUME BaseInv, SoundInv, TrackInv, NEW c \in Places, Select(c)
    PROVE  TrackInv'
<1> SUFFICES ASSUME burnt = 0, ~crashed
             PROVE  Track(toServer', toClient', m', server', peers', units', selection'.slot)
  BY DEF Select, TrackInv
<1>1. m.slot[selection'.slot].player = Me
  BY DEF Select
<1>2. UNCHANGED <<m, toServer, toClient, server, peers, units>>
  BY DEF Select
<1>3. Track(toServer, toClient, m, server, peers, units, selection'.slot)
  BY <1>1, TrackFacts DEF Track
<1> QED
  BY <1>2, <1>3

\* The manager's units, slots and indices stay.
LEMMA TrackUpdate ==
    ASSUME BaseInv, SoundInv, TrackInv, Update
    PROVE  TrackInv'
<1> SUFFICES ASSUME burnt = 0, ~crashed
             PROVE  Track(toServer', toClient', m', server', peers', units', selection'.slot)
  BY DEF Update, TrackInv
<1>1. UNCHANGED <<toServer, toClient, server, peers, units, selection>>
  BY DEF Update
<1>2. PICK f : f = m'
  OBVIOUS
<1>3. f.entities = m.entities /\ f.slot = m.slot /\ f.index = m.index
  BY <1>2, MovesOnly
<1>4. Track(toServer, toClient, m, server, peers, units, selection.slot)
  BY TrackFacts
<1>5. \A s, v : Holds(m, s, v) => Holds(f, s, v)
  BY <1>3 DEF Holds
<1>6. Stays(m, f)
  BY <1>5 DEF Stays
<1>7. \A j : Waits(m, j) => f.slot[j].unit = m.slot[j].unit
  BY <1>3
<1>8. \A i \in Places : f.slot[i].player = Me =>
          /\ i \in LiveOf(f.entities)
          /\ f.slot[i] = m.slot[i] \/ f.slot[i].serverIndex = None
  BY <1>3, <1>4 DEF Track, OwnSettled
<1>9. selection.slot # None /\ m.slot[selection.slot].player = Me => f.slot[selection.slot].player = Me
  BY <1>3
<1>10. Track(toServer, toClient, f, server, peers, units, selection.slot)
  BY <1>4, <1>6, <1>7, <1>8, <1>9, TrackFacts, TrackGrows
<1> QED
  BY <1>1, <1>2, <1>10


LEMMA TrackProcessTransform ==
    ASSUME BaseInv, SoundInv, TrackInv, ProcessTransform
    PROVE  TrackInv'
<1> SUFFICES ASSUME burnt = 0, ~crashed
             PROVE  Track(toServer', toClient', m', server', peers', units', selection'.slot)
  BY DEF ProcessTransform, TrackInv
<1>1. /\ toClient # <<>> /\ Head(toClient).op = "TRANSFORM" /\ toClient' = Tail(toClient)
      /\ UNCHANGED <<toServer, server, peers, units, selection>>
  BY DEF ProcessTransform
<1>2. PICK f : f = m'
  OBVIOUS
<1>3. f.entities = m.entities /\ f.slot = m.slot /\ f.index = m.index
  BY <1>2, MovesOnly
<1>4. /\ Track(toServer, toClient, m, server, peers, units, selection.slot)
      /\ Pending(toServer, toClient, m)
      /\ toServer \in Seq(Messages) /\ toClient \in Seq(Messages)
  BY TrackFacts
<1>5. \A s, v : Holds(m, s, v) => Holds(f, s, v)
  BY <1>3 DEF Holds
<1>6. Heeds(Head(toClient), m, f)
  BY <1>1, <1>5 DEF Heeds, Says, Touches
<1>7. \A j : Waits(m, j) => f.slot[j].unit = m.slot[j].unit
  BY <1>3
<1>8. SameOwn(Tail(toClient), m, f, server, peers, units)
  BY <1>3, <1>4 DEF Track, OwnSettled, SameOwn
<1>9. selection.slot # None /\ m.slot[selection.slot].player = Me => f.slot[selection.slot].player = Me
  BY <1>3
<1>10. Track(toServer, Tail(toClient), f, server, peers, units, selection.slot)
  BY <1>1, <1>4, <1>6, <1>7, <1>8, <1>9, TrackTaken
<1> QED
  BY <1>1, <1>2, <1>10

\* The index a new unit gets is not one the map has.
LEMMA FreshIndex ==
    ASSUME BaseInv, SoundInv, TrackInv, burnt = 0, ~crashed, toClient # <<>>,
           Head(toClient).op = "CREATE"
    PROVE  Head(toClient).serverIndex \in Nat /\ Head(toClient).serverIndex \notin DOMAIN m.index
<1>1. PICK s : s = Head(toClient).serverIndex
  OBVIOUS
<1>2. Track(toServer, toClient, m, server, peers, units, selection.slot) /\ Linked(m)
      /\ m.slot \in [Places -> Units] /\ toClient \in Seq(Messages)
  BY TrackFacts
<1>3. 1 \in 1 .. Len(toClient) /\ Head(toClient) = toClient[1] /\ 1 - 1 = 0
  BY <1>2, TailLemma
<1>4. s \in Nat /\ s # None
  <2>1. DownOK(Head(toClient), server.back, m.entities.back)
    BY PopClient
  <2> QED
    BY <2>1, <1>1 DEF DownOK, None
<1>5. Tracked(toClient, m)
  BY <1>2 DEF Track
<1>6. Known(toClient, m, 0, s, None)
  BY <1>1, <1>3, <1>4, <1>5 DEF Tracked
<1>7. Holds(m, s, None)
  BY <1>6, KnownNow
<1>8. ASSUME s \in DOMAIN m.index PROVE FALSE
  <2>1. m.index[s] \in Places
    BY <1>2, <1>8 DEF Linked, LiveOf
  <2>2. m.slot[m.index[s]].unit \in Nat
    BY <2>1, <1>2 DEF Units
  <2> QED
    BY <2>2, <1>7, <1>8 DEF Holds, None
<1> QED
  BY <1>1, <1>4, <1>8

LEMMA TrackProcessPeerCreate ==
    ASSUME BaseInv, SoundInv, TrackInv, ProcessPeerCreate
    PROVE  TrackInv'
<1> SUFFICES ASSUME burnt = 0, ~crashed
             PROVE  Track(toServer', toClient', m', server', peers', units', selection'.slot)
  BY DEF ProcessPeerCreate, TrackInv
<1>1. PICK msg : msg = Head(toClient)
  OBVIOUS
<1>2. PICK e : e = Create(m, msg.id, msg.client, msg.serverIndex, msg.unit)
  OBVIOUS
<1>3. PICK t : t = Top(m.entities)
  OBVIOUS
<1>4. PICK n : n = Insert(e, msg.serverIndex, t)
  OBVIOUS
<1>5. /\ toClient # <<>> /\ msg.op = "CREATE" /\ msg.client # Me /\ MayGet(m.entities)
      /\ m' = n /\ toClient' = Tail(toClient)
      /\ UNCHANGED <<toServer, server, peers, units, selection>>
  BY <1>1, <1>2, <1>3, <1>4 DEF ProcessPeerCreate, MayCreate
<1>6. /\ Track(toServer, toClient, m, server, peers, units, selection.slot)
      /\ Solid(m.entities) /\ Linked(m) /\ Pending(toServer, toClient, m)
      /\ toServer \in Seq(Messages) /\ toClient \in Seq(Messages)
      /\ UnitsOK(m, server.back) /\ selection.slot \in {None} \cup Places
  BY TrackFacts
<1>7. m.entities.back < MaxCreates
  BY <1>1, <1>5, RoomLeft DEF Due
<1>8. UnitAdded(m, e, t, msg.id, msg.client, msg.serverIndex, msg.unit)
  <2>1. UnitAdded(m, Create(m, msg.id, msg.client, msg.serverIndex, msg.unit), Top(m.entities),
                  msg.id, msg.client, msg.serverIndex, msg.unit)
    BY <1>5, <1>6, <1>7, CreateLive
  <2> QED
    BY <2>1, <1>2, <1>3
<1>9. /\ IsManager(e) /\ LiveOf(e.entities) = LiveOf(m.entities) \cup {t}
      /\ t \notin LiveOf(m.entities) /\ t \in Places /\ e.index = m.index
      /\ \A i \in Places \ {t} : e.slot[i] = m.slot[i]
      /\ e.slot[t].player = msg.client /\ e.slot[t].unit = msg.unit
  BY <1>8 DEF UnitAdded
<1>10. msg.serverIndex \in Nat /\ msg.serverIndex \notin DOMAIN m.index
  BY <1>1, <1>5, FreshIndex
<1>11. /\ n.entities = e.entities /\ n.slot = e.slot
       /\ DOMAIN n.index = DOMAIN m.index \cup {msg.serverIndex}
       /\ \A s \in DOMAIN m.index : n.index[s] = m.index[s]
       /\ n.index[msg.serverIndex] = t
  <2>1. /\ n = [e EXCEPT !.index = n.index]
        /\ DOMAIN n.index = DOMAIN e.index \cup {msg.serverIndex}
        /\ \A s \in DOMAIN e.index : n.index[s] = e.index[s]
        /\ msg.serverIndex \notin DOMAIN e.index => n.index[msg.serverIndex] = t
    BY <1>4, <1>9, InsertFields
  <2>2. n.entities = e.entities /\ n.slot = e.slot
    BY <2>1, <1>9 DEF IsManager
  <2> QED
    BY <2>1, <2>2, <1>9, <1>10
<1>12. \A i \in LiveOf(m.entities) : i \in Places /\ i # t /\ n.slot[i] = m.slot[i] /\ i \in LiveOf(n.entities)
  BY <1>9, <1>11 DEF LiveOf
<1>13. Heeds(msg, m, n)
  <2>1. \A s \in DOMAIN m.index : n.slot[n.index[s]] = m.slot[m.index[s]]
    BY <1>6, <1>11, <1>12 DEF Linked
  <2>2. \A s, v : Holds(m, s, v) /\ ~Touches(msg, s) => Holds(n, s, v)
    BY <2>1, <1>5, <1>11 DEF Holds, Touches
  <2>3. n.slot[n.index[msg.serverIndex]].unit = msg.unit
    BY <1>9, <1>11
  <2>4. \A s, v : Says(msg, s, v) => Holds(n, s, v)
    BY <2>3, <1>5, <1>11 DEF Holds, Says, Touches
  <2> QED
    BY <2>2, <2>4 DEF Heeds
<1>14. \A j : Waits(m, j) => n.slot[j].unit = m.slot[j].unit
  BY <1>12 DEF Waits
<1>15. \A i \in Places : m.slot[i].player = Me => i \in LiveOf(m.entities)
  BY <1>6 DEF Track, OwnSettled
<1>16. SameOwn(Tail(toClient), m, n, server, peers, units)
  <2>1. \A i \in Places : n.slot[i].player = Me => i # t /\ n.slot[i] = m.slot[i]
    BY <1>5, <1>9, <1>11
  <2> QED
    BY <2>1, <1>12, <1>15 DEF SameOwn
<1>17. selection.slot # None /\ m.slot[selection.slot].player = Me => n.slot[selection.slot].player = Me
  BY <1>6, <1>12, <1>15
<1>18. Track(toServer, Tail(toClient), n, server, peers, units, selection.slot)
  BY <1>1, <1>5, <1>6, <1>13, <1>14, <1>16, <1>17, TrackTaken
<1> QED
  BY <1>5, <1>18

LEMMA TrackProcessOwnCreate ==
    ASSUME BaseInv, SoundInv, TrackInv, ProcessOwnCreate
    PROVE  TrackInv'
<1> SUFFICES ASSUME burnt = 0, ~crashed
             PROVE  Track(toServer', toClient', m', server', peers', units', selection'.slot)
  BY DEF ProcessOwnCreate, TrackInv
<1>1. PICK msg : msg = Head(toClient)
  OBVIOUS
<1>2. PICK e : e = [m EXCEPT !.slot[msg.slot].serverIndex = msg.serverIndex]
  OBVIOUS
<1>3. PICK n : n = Insert(e, msg.serverIndex, msg.slot)
  OBVIOUS
<1>4. /\ toClient # <<>> /\ msg.op = "CREATE" /\ msg.client = Me
      /\ m' = (IF Valid(m.entities, msg.slot) THEN n ELSE m)
      /\ toClient' = Tail(toClient)
      /\ UNCHANGED <<toServer, server, peers, units, selection>>
  BY <1>1, <1>2, <1>3 DEF ProcessOwnCreate
<1>5. /\ Track(toServer, toClient, m, server, peers, units, selection.slot)
      /\ Linked(m) /\ Pending(toServer, toClient, m)
      /\ toServer \in Seq(Messages) /\ toClient \in Seq(Messages)
      /\ IsManager(m) /\ m.slot \in [Places -> Units]
  BY TrackFacts
<1>6. 1 \in 1 .. Len(toClient) /\ msg = toClient[1] /\ Own(msg) /\ 1 + 1 = 2
  BY <1>1, <1>4, <1>5, TailLemma DEF Own
<1>7. Waits(m, msg.slot)
  BY <1>5, <1>6 DEF Pending, Await
<1>8. m' = n /\ msg.slot \in Places
  BY <1>4, <1>7 DEF Waits, LiveOf
<1>9. /\ msg.unit = m.slot[msg.slot].unit
      /\ Mine(server, peers, units, msg.serverIndex, msg.unit)
      /\ Settled(toClient, 2, msg.serverIndex)
  BY <1>5, <1>6 DEF Track, DownTracked
<1>10. Settled(Tail(toClient), 1, msg.serverIndex)
  <2>1. 1 \in Nat \ {0} /\ 1 + 1 = 2
    OBVIOUS
  <2> QED
    BY <2>1, <1>4, <1>5, <1>9, SettledTail
<1>11. msg.serverIndex \in Nat /\ msg.serverIndex \notin DOMAIN m.index
  BY <1>1, <1>4, FreshIndex
<1>12. /\ IsManager(e) /\ e.entities = m.entities /\ e.index = m.index
       /\ e.slot = [m.slot EXCEPT ![msg.slot] = [@ EXCEPT !.serverIndex = msg.serverIndex]]
  BY <1>2, <1>5 DEF IsManager
<1>13. /\ n.entities = m.entities /\ n.slot = e.slot
       /\ DOMAIN n.index = DOMAIN m.index \cup {msg.serverIndex}
       /\ \A s \in DOMAIN m.index : n.index[s] = m.index[s]
       /\ n.index[msg.serverIndex] = msg.slot
  <2>1. /\ n = [e EXCEPT !.index = n.index]
        /\ DOMAIN n.index = DOMAIN e.index \cup {msg.serverIndex}
        /\ \A s \in DOMAIN e.index : n.index[s] = e.index[s]
        /\ msg.serverIndex \notin DOMAIN e.index => n.index[msg.serverIndex] = msg.slot
    BY <1>3, <1>12, InsertFields
  <2>2. n.entities = e.entities /\ n.slot = e.slot
    BY <2>1, <1>12 DEF IsManager
  <2> QED
    BY <2>1, <2>2, <1>11, <1>12
<1>14. /\ \A i \in Places \ {msg.slot} : n.slot[i] = m.slot[i]
       /\ \A i \in Places : n.slot[i].unit = m.slot[i].unit /\ n.slot[i].player = m.slot[i].player
       /\ n.slot[msg.slot].serverIndex = msg.serverIndex
  <2>1. m.slot[msg.slot] \in Units
    BY <1>5, <1>8
  <2>2. /\ n.slot[msg.slot] = [m.slot[msg.slot] EXCEPT !.serverIndex = msg.serverIndex]
        /\ \A i \in Places \ {msg.slot} : n.slot[i] = m.slot[i]
    BY <1>5, <1>8, <1>12, <1>13
  <2> QED
    BY <2>1, <2>2 DEF Units
<1>15. Heeds(msg, m, n)
  <2>1. \A s \in DOMAIN m.index : n.slot[n.index[s]].unit = m.slot[m.index[s]].unit
    BY <1>5, <1>13, <1>14 DEF Linked, LiveOf
  <2>2. \A s, v : Holds(m, s, v) /\ ~Touches(msg, s) => Holds(n, s, v)
    BY <2>1, <1>4, <1>13 DEF Holds, Touches
  <2>3. n.slot[n.index[msg.serverIndex]].unit = msg.unit
    BY <1>8, <1>9, <1>13, <1>14
  <2>4. \A s, v : Says(msg, s, v) => Holds(n, s, v)
    BY <2>3, <1>4, <1>13 DEF Holds, Says, Touches
  <2> QED
    BY <2>2, <2>4 DEF Heeds
<1>16. \A j : Waits(m, j) => n.slot[j].unit = m.slot[j].unit
  BY <1>14 DEF Waits, LiveOf
<1>17. \A i \in Places : m.slot[i].player = Me => i \in LiveOf(m.entities)
  BY <1>5 DEF Track, OwnSettled
<1>18. SameOwn(Tail(toClient), m, n, server, peers, units)
  <2>1. ASSUME NEW i \in Places, n.slot[i].player = Me
        PROVE  /\ m.slot[i].player = Me /\ i \in LiveOf(n.entities) /\ n.slot[i].unit = m.slot[i].unit
               /\ \/ n.slot[i].serverIndex = m.slot[i].serverIndex
                  \/ /\ Mine(server, peers, units, n.slot[i].serverIndex, n.slot[i].unit)
                     /\ Settled(Tail(toClient), 1, n.slot[i].serverIndex)
    <3>1. m.slot[i].player = Me /\ i \in LiveOf(n.entities) /\ n.slot[i].unit = m.slot[i].unit
      BY <2>1, <1>13, <1>14, <1>17
    <3>2. CASE i = msg.slot
      BY <3>1, <3>2, <1>9, <1>10, <1>14
    <3>3. CASE i # msg.slot
      BY <3>1, <3>3, <1>14
    <3> QED
      BY <3>2, <3>3
  <2> QED
    BY <2>1 DEF SameOwn
<1>19. selection.slot # None /\ m.slot[selection.slot].player = Me => n.slot[selection.slot].player = Me
  <2>1. selection.slot \in {None} \cup Places
    BY TrackFacts
  <2> QED
    BY <2>1, <1>14
<1>20. Track(toServer, Tail(toClient), n, server, peers, units, selection.slot)
  BY <1>1, <1>4, <1>5, <1>15, <1>16, <1>18, <1>19, TrackTaken
<1> QED
  BY <1>4, <1>8, <1>20

LEMMA TrackProcessPeerDelete ==
    ASSUME BaseInv, SoundInv, TrackInv, ProcessPeerDelete
    PROVE  TrackInv'
<1> SUFFICES ASSUME burnt = 0, ~crashed
             PROVE  Track(toServer', toClient', m', server', peers', units', selection'.slot)
  BY DEF ProcessPeerDelete, BurnOther, TrackInv
<1>1. PICK msg : msg = Head(toClient)
  OBVIOUS
<1>2. PICK e : e = Extracted(msg)
  OBVIOUS
<1>3. PICK i : i = m.index[msg.serverIndex]
  OBVIOUS
<1>4. PICK x : x = Message("DELETE", msg.id, i, msg.client, None, Stray)
  OBVIOUS
<1>5. PICK b : b = Burn(e, msg.id, i, NoComponents)
  OBVIOUS
<1>6. /\ toClient # <<>> /\ msg.op = "DELETE" /\ msg.client # Me /\ msg.serverIndex \in DOMAIN m.index
      /\ m' = b /\ toClient' = Tail(toClient) /\ toServer' = Append(toServer, x)
      /\ UNCHANGED <<server, peers, units, selection>>
  BY <1>1, <1>2, <1>3, <1>4, <1>5 DEF ProcessPeerDelete, BurnOther, Deletes
<1>7. /\ Track(toServer, toClient, m, server, peers, units, selection.slot)
      /\ Solid(m.entities) /\ Linked(m) /\ Pending(toServer, toClient, m)
      /\ toServer \in Seq(Messages) /\ toClient \in Seq(Messages)
      /\ IsManager(m) /\ m.slot \in [Places -> Units]
      /\ \A s \in DOMAIN m.index : s \in Nat
  BY TrackFacts
<1>8. /\ 1 \in 1 .. Len(toClient) /\ msg = toClient[1]
  BY <1>1, <1>6, <1>7, TailLemma
<1>9. /\ IsManager(e) /\ e.entities = m.entities /\ e.slot = m.slot
      /\ DOMAIN e.index = DOMAIN m.index \ {msg.serverIndex}
      /\ \A t \in DOMAIN e.index : e.index[t] = m.index[t]
  BY <1>2, <1>7 DEF Extracted, Restrict, IsManager
<1>10. i \in LiveOf(m.entities) /\ m.slot[i].serverIndex = msg.serverIndex /\ msg.serverIndex \in Nat
  BY <1>3, <1>6, <1>7 DEF Linked
<1>11. b.index = e.index /\ b.slot = m.slot /\ LiveOf(b.entities) = LiveOf(m.entities) \ {i}
  <2>1. Solid(e.entities) /\ i \in LiveOf(e.entities) /\ IsManager(e)
    BY <1>7, <1>9, <1>10
  <2>2. /\ Solid(b.entities) /\ LiveOf(b.entities) = LiveOf(e.entities) \ {i}
        /\ b.index = e.index /\ b.slot = e.slot
    BY <2>1, <1>5, BurnLive
  <2> QED
    BY <2>2, <1>9
<1>12. Heeds(msg, m, b)
  <2>1. \A s, v : Holds(m, s, v) /\ ~Touches(msg, s) => Holds(b, s, v)
    BY <1>6, <1>9, <1>11 DEF Holds, Touches
  <2>2. \A s, v : Says(msg, s, v) => Holds(b, s, v)
    BY <1>6, <1>9, <1>11 DEF Holds, Says, Touches
  <2> QED
    BY <2>1, <2>2 DEF Heeds
<1>13. \A j \in Places : m.slot[j].player = Me => j \in LiveOf(b.entities)
  <2>1. ASSUME NEW j \in Places, m.slot[j].player = Me PROVE j \in LiveOf(m.entities) /\ j # i
    <3>1. /\ j \in LiveOf(m.entities)
          /\ m.slot[j].serverIndex # None => Settled(toClient, 1, m.slot[j].serverIndex)
      BY <2>1, <1>7 DEF Track, OwnSettled
    <3>2. Touches(msg, msg.serverIndex) /\ msg.serverIndex # None
      BY <1>6, <1>10 DEF Touches, None
    <3>3. ~Settled(toClient, 1, msg.serverIndex)
      BY <3>2, <1>8 DEF Settled
    <3> QED
      BY <3>1, <3>2, <3>3, <1>10
  <2> QED
    BY <2>1, <1>11
<1>14. SameOwn(Tail(toClient), m, b, server, peers, units)
  BY <1>11, <1>13 DEF SameOwn
<1>15. /\ \A j : Waits(m, j) => b.slot[j].unit = m.slot[j].unit
       /\ selection.slot # None /\ m.slot[selection.slot].player = Me
            => b.slot[selection.slot].player = Me
  BY <1>11
<1>16. Track(toServer, Tail(toClient), b, server, peers, units, selection.slot)
  BY <1>1, <1>6, <1>7, <1>12, <1>14, <1>15, TrackTaken
<1>17. x \in Messages /\ x.op = "DELETE" /\ x.client # Me /\ x.serverIndex = None
  <2>1. msg.id \in Prototypes \cup {None} /\ msg.client \in {Me, Peer}
    BY <1>1, <1>6, PopClient DEF Messages
  <2>2. i \in {None} \cup Nat
    BY <1>10, BoundsAssumption DEF LiveOf, Places
  <2> QED
    BY <2>1, <2>2, <1>4, <1>6, MessageType DEF Message, Stray
<1>18. Sendable(x, b, server, peers, units)
  BY <1>17 DEF Sendable, Own
<1>19. Track(Append(toServer, x), Tail(toClient), b, server, peers, units, selection.slot)
  BY <1>7, <1>16, <1>17, <1>18, TrackSend
<1> QED
  BY <1>6, <1>19

\* No own unit was deleted.
LEMMA TrackProcessOwnDelete ==
    ASSUME BaseInv, SoundInv, TrackInv, ProcessOwnDelete
    PROVE  TrackInv'
<1> SUFFICES ASSUME burnt = 0, ~crashed PROVE FALSE
  BY DEF ProcessOwnDelete, TrackInv
<1>1. toClient # <<>> /\ Head(toClient).op = "DELETE" /\ Head(toClient).client = Me
  BY DEF ProcessOwnDelete
<1>2. Track(toServer, toClient, m, server, peers, units, selection.slot) /\ toClient \in Seq(Messages)
  BY TrackFacts
<1>3. 1 \in 1 .. Len(toClient) /\ Head(toClient) = toClient[1]
  BY <1>1, <1>2, TailLemma
<1> QED
  BY <1>1, <1>2, <1>3 DEF Track, DownTracked

LEMMA TrackStep == BaseInv /\ SoundInv /\ TrackInv /\ [Next]_vars => TrackInv'
<1> SUFFICES ASSUME BaseInv, SoundInv, TrackInv, [Next]_vars PROVE TrackInv'
  OBVIOUS
<1>1. CASE UNCHANGED vars
  BY <1>1 DEF vars, TrackInv
<1>2. ASSUME NEW i \in Places, BurnOwn(i) PROVE TrackInv'
  <2>1. burnt' # 0
    BY <1>2 DEF BurnOwn, SoundInv
  <2> QED
    BY <2>1 DEF TrackInv
<1>3. ASSUME ProcessUnknownDelete PROVE TrackInv'
  BY <1>3 DEF ProcessUnknownDelete, TrackInv
<1>4. CASE Next
  BY <1>2, <1>3, <1>4, TrackCreateOwn, TrackGiveOrder, TrackServeTransform, TrackPeerOrders,
     TrackServeCreate, TrackPeerCreate, TrackPeerDelete, TrackServeDelete, TrackSelect, TrackUpdate,
     TrackProcessTransform, TrackProcessPeerCreate, TrackProcessOwnCreate, TrackProcessPeerDelete,
     TrackProcessOwnDelete DEF Next, entity_message, receive_entity_message
<1> QED
  BY <1>1, <1>4

\* In every reachable state the server's indices are tracked.
LEMMA Tracks == Spec => []TrackInv
BY Base, Sound, TrackInit, TrackStep, PTL DEF Spec


-----------------------------------------------------------------------------
(* The components of units, as long as none was burnt with a unit.         *)

\* Each slot with a pointer has a component in use of its own, which points back.
Pairs(slot, a, owner, k) ==
    /\ a \in Array /\ WellStacked(a) /\ a.size = Cardinality(Holders(slot, k))
    /\ \A i \in Holders(slot, k) : Valid(a, slot[i].comp[k]) /\ owner[slot[i].comp[k]] = i

LEMMA PairsCreate ==
    ASSUME NEW e, NEW sb, UnitsOK(e, sb), MayGet(e.entities), e.entities.back < MaxCreates,
           NEW W \in SUBSET Kinds, NEW id \in Prototypes \cup {None},
           NEW player \in {NoOne, Me, Peer}, NEW s \in {None} \cup Nat, NEW un \in Nat, NEW k \in Kinds,
           Pairs(e.slot, e.comps[k], e.owner[k], k)
    PROVE  /\ Pairs(NewSlot(e, W, id, player, s, un), NewComps(e, W)[k], NewOwner(e, W)[k], k)
           /\ \A i \in Holders(e.slot, k) : i # Top(e.entities)
                => e.slot[i].comp[k] # NewComp(e, W)[k]
<1> DEFINE t == Top(e.entities)
           old == e.slot[t].comp[k]
           p == NewComp(e, W)[k]
           u == [id |-> id, player |-> player, serverIndex |-> s, comp |-> NewComp(e, W), unit |-> un]
           next == [e.slot EXCEPT ![t] = u]
           a == e.comps[k]
           b == NewComps(e, W)[k]
           owner == e.owner[k]
           ownerN == NewOwner(e, W)[k]
           back == e.entities.back
           n == Cardinality(Holders(e.slot, k))
<1>1. /\ t \in Places /\ t \in Nat /\ Old(e) \in [Kinds -> {None} \cup Nat] /\ MayGet(a)
      /\ Top(a) \in 0 .. a.back
      /\ NewComp(e, W) \in [Kinds -> {None} \cup Nat]
      /\ p # None <=> k \in W
  <2>1. t \in Nat
    BY NewUnit DEF Places
  <2> QED
    BY <2>1, NewUnit
<1>2. u \in Units /\ next = NewSlot(e, W, id, player, s, un) /\ next \in [Places -> Units]
  BY <1>1 DEF Units, NewSlot, UnitsOK
<1>3. /\ e.slot \in [Places -> Units] /\ owner \in [Places -> Int]
      /\ \A i \in Holders(e.slot, k) : i < back
      /\ a.back <= back /\ e.entities \in Array
  BY DEF UnitsOK, CompsOK
<1>4. /\ a \in Array /\ WellStacked(a) /\ a.size = n
      /\ \A i \in Holders(e.slot, k) : Valid(a, e.slot[i].comp[k]) /\ owner[e.slot[i].comp[k]] = i
  BY DEF Pairs
<1>5. back \in Nat /\ a.back \in Nat /\ Top(a) \in Places
  <2>1. back \in Nat /\ a.back \in Nat
    BY <1>3, <1>4, IndexRangeAssumption DEF Array
  <2> QED
    BY <2>1, <1>1, <1>3, BoundsAssumption DEF Places
<1>6. /\ old \in {None} \cup Nat /\ u.comp[k] = p
      /\ p = IF k \in W THEN IF old = None THEN Top(a) ELSE old ELSE None
      /\ b = (IF k \in W /\ old = None THEN Get(a)
              ELSE IF k \notin W /\ old # None THEN Remove(a, old)
              ELSE a)
      /\ ownerN = IF k \in W THEN [owner EXCEPT ![p] = t] ELSE owner
      /\ t \in Holders(e.slot, k) <=> old # None
  <2>1. old = Old(e)[k]
    BY DEF Old
  <2> QED
    BY <2>1, <1>1 DEF NewComp, NewComps, NewOwner, Holders
<1>7. \A i \in Places : next[i].comp[k] = IF i = t THEN p ELSE e.slot[i].comp[k]
  BY <1>3, <1>6
<1>8. /\ n \in Nat
      /\ p # None => Holders(next, k) = Holders(e.slot, k) \cup {t}
      /\ p = None => Holders(next, k) = Holders(e.slot, k) \ {t}
      /\ Cardinality(Holders(next, k)) =
           IF p # None THEN IF old # None THEN n ELSE n + 1
                       ELSE IF old # None THEN n - 1 ELSE n
  <2>1. \A i \in Holders(e.slot, k) : i < back
    BY <1>3
  <2>2. e.slot \in [Places -> Units] /\ t \in Places /\ u \in Units /\ back \in Nat
    BY <1>1, <1>2, <1>3, <1>5
  <2>3. u.comp[k] = p
    BY <1>6
  <2> HIDE DEF t, u, back, p
  <2> QED
    BY <2>1, <2>2, <2>3, HoldersNext
<1>9. \A i \in Holders(e.slot, k) : i \in Places /\ e.slot[i].comp[k] \in Nat
  BY <1>3 DEF Holders, Units
<1> SUFFICES /\ Pairs(next, b, ownerN, k)
             /\ \A i \in Holders(e.slot, k) : i # t => e.slot[i].comp[k] # p
  BY <1>2
<1> HIDE DEF t, old, p, u, next, a, b, owner, ownerN, back, n
<1>10. \A i \in Holders(e.slot, k) : i # t => e.slot[i].comp[k] # p
  <2>1. CASE k \in W /\ old = None
    <3>1. \A x : Valid(a, x) => x # Top(a)
      BY <1>1, <1>4, <1>5, LiveGet
    <3> QED
      BY <3>1, <2>1, <1>4, <1>6
  <2>2. CASE k \in W /\ old # None
    <3>1. t \in Holders(e.slot, k) /\ e.slot[t].comp[k] = p
      BY <2>2, <1>6 DEF old
    <3> QED
      BY <3>1, <1>4
  <2>3. CASE k \notin W
    BY <2>3, <1>6, <1>9 DEF None
  <2> QED
    BY <2>1, <2>2, <2>3
<1>11. CASE k \in W /\ old = None
  <2>1. b = Get(a) /\ p = Top(a) /\ p \in Nat /\ p # None /\ ownerN = [owner EXCEPT ![p] = t]
    BY <1>1, <1>6, <1>11
  <2>2. /\ b \in Array /\ WellStacked(b) /\ b.size = a.size + 1
        /\ \A x \in Nat : Valid(a, x) => Valid(b, x)
        /\ Valid(b, p)
    BY <2>1, <1>1, <1>4, <1>5, LiveGet
  <2>3. b.size = Cardinality(Holders(next, k))
    BY <2>1, <2>2, <1>4, <1>8, <1>11
  <2>4. ASSUME NEW i \in Holders(next, k)
        PROVE  Valid(b, next[i].comp[k]) /\ ownerN[next[i].comp[k]] = i
    <3>1. CASE i = t
      BY <3>1, <2>1, <2>2, <1>1, <1>3, <1>5, <1>7
    <3>2. CASE i # t
      <4>1. i \in Holders(e.slot, k) /\ next[i].comp[k] = e.slot[i].comp[k]
        BY <3>2, <2>1, <1>7, <1>8, <1>9
      <4> QED
        BY <4>1, <3>2, <2>1, <2>2, <1>3, <1>4, <1>9, <1>10
    <3> QED
      BY <3>1, <3>2
  <2> QED
    BY <2>2, <2>3, <2>4, <1>10 DEF Pairs
<1>12. CASE k \in W /\ old # None
  <2>1. b = a /\ p = old /\ p # None /\ ownerN = [owner EXCEPT ![p] = t]
    BY <1>6, <1>12
  <2>2. t \in Holders(e.slot, k) /\ e.slot[t].comp[k] = p /\ Valid(a, p) /\ owner[p] = t
    BY <2>1, <1>4, <1>6, <1>12 DEF old
  <2>3. ownerN = owner
    BY <2>1, <2>2, <1>3
  <2>4. Holders(next, k) = Holders(e.slot, k) /\ Cardinality(Holders(next, k)) = n
    BY <2>1, <2>2, <1>8, <1>12
  <2>5. \A i \in Holders(next, k) : next[i].comp[k] = e.slot[i].comp[k]
    BY <2>2, <2>4, <1>7, <1>9
  <2> QED
    BY <2>1, <2>3, <2>4, <2>5, <1>4, <1>10 DEF Pairs
<1>13. CASE k \notin W /\ old # None
  <2>1. b = Remove(a, old) /\ p = None /\ ownerN = owner
    BY <1>6, <1>13
  <2>2. t \in Holders(e.slot, k) /\ e.slot[t].comp[k] = old /\ Valid(a, old) /\ owner[old] = t /\ old \in Nat
    BY <1>4, <1>6, <1>13 DEF old
  <2>3. a.size >= 1
    <3>1. IsFiniteSet(Holders(e.slot, k))
      BY <1>3, <1>5, HoldersFinite
    <3>2. n # 0
      BY <3>1, <2>2, FS_EmptySet DEF n
    <3> QED
      BY <3>2, <1>4, <1>8
  <2>4. /\ b \in Array /\ WellStacked(b) /\ b.size = a.size - 1
        /\ \A x : Valid(b, x) <=> Valid(a, x) /\ x # old
    BY <2>1, <2>2, <2>3, <1>4, LiveRemove
  <2>5. Holders(next, k) = Holders(e.slot, k) \ {t} /\ Cardinality(Holders(next, k)) = n - 1
    BY <2>1, <1>8, <1>13
  <2>6. \A i \in Holders(next, k) : next[i].comp[k] = e.slot[i].comp[k] /\ i # t
    BY <2>5, <1>7, <1>9
  <2>7. ASSUME NEW i \in Holders(next, k)
        PROVE  Valid(b, next[i].comp[k]) /\ ownerN[next[i].comp[k]] = i
    BY <2>1, <2>2, <2>4, <2>5, <2>6, <1>4
  <2> QED
    BY <2>4, <2>5, <2>7, <1>4, <1>10 DEF Pairs
<1>14. CASE k \notin W /\ old = None
  <2>1. b = a /\ p = None /\ ownerN = owner
    BY <1>6, <1>14
  <2>2. Holders(next, k) = Holders(e.slot, k) /\ Cardinality(Holders(next, k)) = n /\ t \notin Holders(e.slot, k)
    BY <2>1, <1>6, <1>8, <1>14
  <2>3. \A i \in Holders(next, k) : next[i].comp[k] = e.slot[i].comp[k]
    BY <2>2, <1>7, <1>9
  <2> QED
    BY <2>1, <2>2, <2>3, <1>4, <1>10 DEF Pairs
<1> QED
  BY <1>11, <1>12, <1>13, <1>14

\* A unit in use does not move on an order meant for another.
MoveOK(e) ==
    \A i \in LiveOf(e.entities) :
        /\ e.slot[i].comp["Transform"] # None
        /\ e.moving[e.slot[i].comp["Transform"]] \notin {None, Stray}
        => e.moving[e.slot[i].comp["Transform"]] = e.slot[i].unit

AllPairs(e) == \A k \in Kinds : Pairs(e.slot, e.comps[k], e.owner[k], k)

\* The pointers of two slots differ, and they are to components there are.
LEMMA PairsApart ==
    ASSUME NEW e, NEW sb, UnitsOK(e, sb), e.entities.back <= MaxCreates, AllPairs(e), NEW k \in Kinds,
           NEW i \in Places, e.slot[i].comp[k] # None
    PROVE  /\ e.slot[i].comp[k] \in Places
           /\ \A j \in Places : j # i => e.slot[j].comp[k] # e.slot[i].comp[k]
<1>1. Pairs(e.slot, e.comps[k], e.owner[k], k)
  BY DEF AllPairs
<1>2. i \in Holders(e.slot, k)
  BY DEF Holders
<1>3. e.slot[i].comp[k] \in Nat /\ e.slot[i].comp[k] < e.comps[k].back
  BY <1>2 DEF UnitsOK, CompsOK, Units
<1>4. e.comps[k].back <= e.entities.back /\ e.comps[k] \in Array /\ e.entities \in Array
  BY DEF UnitsOK, CompsOK
<1>5. e.slot[i].comp[k] \in Places
  BY <1>3, <1>4, IndexRangeAssumption, BoundsAssumption DEF Places, Array
<1>6. ASSUME NEW j \in Places, e.slot[j].comp[k] = e.slot[i].comp[k] PROVE j = i
  <2>1. j \in Holders(e.slot, k)
    BY <1>6 DEF Holders
  <2> QED
    BY <2>1, <1>1, <1>2, <1>6 DEF Pairs
<1> QED
  BY <1>5, <1>6

LEMMA PairedCreate ==
    ASSUME NEW e, NEW sb, UnitsOK(e, sb), MayGet(e.entities), e.entities.back < MaxCreates,
           Solid(e.entities), NEW id \in Prototypes \cup {None},
           NEW player \in {NoOne, Me, Peer}, NEW s \in {None} \cup Nat, NEW un \in Nat, AllPairs(e), MoveOK(e)
    PROVE  AllPairs(Create(e, id, player, s, un)) /\ MoveOK(Create(e, id, player, s, un))
<1>1. PICK W : W = Wanted(Cached(e, id), id)
  OBVIOUS
<1>2. PICK c : c = Create(e, id, player, s, un)
  OBVIOUS
<1>3. PICK t : t = Top(e.entities)
  OBVIOUS
<1>4. IsManager(e) /\ e.slot \in [Places -> Units] /\ e.moving \in [Places -> Int]
      /\ e.entities.back \in Int /\ MaxCreates \in Int
  BY IndexRangeAssumption, BoundsAssumption DEF UnitsOK, Array
<1>5. W \in SUBSET Kinds
  BY <1>1 DEF Wanted
<1>6. /\ c.slot = NewSlot(e, W, id, player, s, un) /\ c.comps = NewComps(e, W)
      /\ c.owner = NewOwner(e, W) /\ c.moving = NewMoving(e, W)
  <2>1. Created(e, c, W, id, player, s, un)
    BY <1>1, <1>2, <1>4, CreateFields
  <2> QED
    BY <2>1 DEF Created
<1>7. ASSUME NEW k \in Kinds
      PROVE  /\ Pairs(c.slot, c.comps[k], c.owner[k], k)
             /\ \A i \in Holders(e.slot, k) : i # t => e.slot[i].comp[k] # NewComp(e, W)[k]
  <2>1. Pairs(e.slot, e.comps[k], e.owner[k], k)
    BY DEF AllPairs
  <2>2. /\ Pairs(NewSlot(e, W, id, player, s, un), NewComps(e, W)[k], NewOwner(e, W)[k], k)
        /\ \A i \in Holders(e.slot, k) : i # Top(e.entities)
             => e.slot[i].comp[k] # NewComp(e, W)[k]
    BY <2>1, <1>5, PairsCreate
  <2> QED
    BY <2>2, <1>3, <1>6
<1>8. AllPairs(c)
  BY <1>7 DEF AllPairs
<1>9. /\ LiveOf(c.entities) = LiveOf(e.entities) \cup {t}
      /\ t \notin LiveOf(e.entities) /\ t \in Places
      /\ \A i \in Places \ {t} : c.slot[i] = e.slot[i]
  <2>1. UnitAdded(e, Create(e, id, player, s, un), Top(e.entities), id, player, s, un)
    BY CreateLive
  <2> QED
    BY <2>1, <1>2, <1>3 DEF UnitAdded
<1>10. "Transform" \in Kinds
  BY DEF Kinds
<1>11. c.slot[t].comp = NewComp(e, W)
  BY <1>3, <1>4, <1>6, <1>9 DEF NewSlot
<1> DEFINE p == NewComp(e, W)["Transform"]
<1>12. \A q \in Places : q # p => c.moving[q] = e.moving[q]
  BY <1>4, <1>6 DEF NewMoving
<1>13. p # None => "Transform" \in W
  BY <1>5, <1>10, NewUnit
<1>14. p # None /\ p \in Places => c.moving[p] = None
  BY <1>4, <1>6, <1>13 DEF NewMoving
<1>15. p # None => p \in Places
  <2>2. Top(e.comps["Transform"]) \in 0 .. e.comps["Transform"].back
    BY <1>5, <1>10, NewUnit
  <2>3. e.comps["Transform"].back <= e.entities.back /\ e.comps["Transform"].back \in Int
    BY <1>10, IndexRangeAssumption DEF UnitsOK, CompsOK, Array
  <2>4. Top(e.comps["Transform"]) \in Places
    BY <2>2, <2>3, <1>4 DEF Places
  <2>5. Old(e)["Transform"] # None => Old(e)["Transform"] \in Places
    BY <1>3, <1>4, <1>9, <1>10, PairsApart DEF Old
  <2> QED
    BY <2>4, <2>5, <1>10 DEF NewComp
<1> HIDE DEF p
<1>16. ASSUME NEW i \in LiveOf(c.entities), c.slot[i].comp["Transform"] # None,
              c.moving[c.slot[i].comp["Transform"]] \notin {None, Stray}
       PROVE  c.moving[c.slot[i].comp["Transform"]] = c.slot[i].unit
  <2>1. CASE i = t
    <3>1. c.slot[i].comp["Transform"] = p
      BY <2>1, <1>11 DEF p
    <3> QED
      BY <3>1, <1>14, <1>15, <1>16
  <2>2. CASE i # t
    <3>1. i \in LiveOf(e.entities) /\ i \in Places /\ c.slot[i] = e.slot[i]
      BY <2>2, <1>9, <1>16 DEF LiveOf
    <3>2. i \in Holders(e.slot, "Transform")
      BY <3>1, <1>16 DEF Holders
    <3>3. e.slot[i].comp["Transform"] # p
      BY <3>2, <2>2, <1>7, <1>10 DEF p
    <3>4. e.slot[i].comp["Transform"] \in Places
      BY <3>1, <1>4, <1>10, <1>16, PairsApart
    <3>5. c.moving[e.slot[i].comp["Transform"]] = e.moving[e.slot[i].comp["Transform"]]
      BY <3>3, <3>4, <1>12 DEF p
    <3> QED
      BY <3>1, <3>5, <1>16 DEF MoveOK
  <2> QED
    BY <2>1, <2>2
<1>17. MoveOK(c)
  BY <1>16 DEF MoveOK
<1> QED
  BY <1>2, <1>8, <1>17

PairedInv == burnt = 0 => AllPairs(m) /\ MoveOK(m)

LEMMA PairedInit == Init => PairedInv
<1> SUFFICES ASSUME Init PROVE AllPairs(m) /\ MoveOK(m)
  BY DEF PairedInv
<1>1. /\ m.entities = New /\ m.slot = [i \in Places |-> EmptyUnit] /\ m.comps = [k \in Kinds |-> New]
  BY DEF Init
<1>2. New \in Array /\ WellStacked(New) /\ New.size = 0
  BY NewLemma
<1>3. \A k \in Kinds : Holders(m.slot, k) = {}
  BY <1>1 DEF Holders, EmptyUnit, NoComponents
<1>4. Cardinality({}) = 0
  BY FS_EmptySet
<1>5. ASSUME NEW k \in Kinds PROVE Pairs(m.slot, m.comps[k], m.owner[k], k)
  <2>1. m.comps[k] = New
    BY <1>1
  <2> QED
    BY <2>1, <1>2, <1>3, <1>4 DEF Pairs
<1>6. LiveOf(m.entities) = {}
  BY <1>1, SolidNew
<1> QED
  BY <1>5, <1>6 DEF AllPairs, MoveOK

\* What the pairs and the movement of units do not depend on.
LEMMA PairedSame ==
    ASSUME NEW e, AllPairs(e), MoveOK(e), NEW f, f.comps = e.comps, f.owner = e.owner,
           LiveOf(f.entities) \subseteq LiveOf(e.entities),
           \A i \in Places : f.slot[i].comp = e.slot[i].comp /\ f.slot[i].unit = e.slot[i].unit,
           f.moving = e.moving
    PROVE  AllPairs(f) /\ MoveOK(f)
<1>1. \A k \in Kinds : Holders(f.slot, k) = Holders(e.slot, k)
  BY DEF Holders
<1>2. ASSUME NEW k \in Kinds PROVE Pairs(f.slot, f.comps[k], f.owner[k], k)
  <2>1. Pairs(e.slot, e.comps[k], e.owner[k], k)
    BY DEF AllPairs
  <2>2. \A i \in Holders(f.slot, k) : f.slot[i].comp[k] = e.slot[i].comp[k]
    BY DEF Holders
  <2> QED
    BY <2>1, <2>2, <1>1 DEF Pairs
<1>3. MoveOK(f)
  BY DEF MoveOK, LiveOf
<1> QED
  BY <1>2, <1>3 DEF AllPairs

LEMMA PairedStep == BaseInv /\ SoundInv /\ TrackInv /\ PairedInv /\ [Next]_vars => PairedInv'
<1> SUFFICES ASSUME BaseInv, SoundInv, TrackInv, PairedInv, [Next]_vars PROVE PairedInv'
  OBVIOUS
<1>1. /\ UnitsOK(m, server.back) /\ IsManager(m) /\ m.slot \in [Places -> Units]
      /\ m.entities.back \in Nat /\ m.entities.back <= created
      /\ created \in Nat /\ created <= MaxCreates /\ MaxCreates \in Nat
      /\ burnt = 0 => Solid(m.entities) /\ Linked(m) /\ AllPairs(m) /\ MoveOK(m)
  BY RoomLeft DEF BaseInv, UnitsOK, SoundInv, PairedInv
<1>2. m.entities.back <= MaxCreates
  BY <1>1
<1>3. ASSUME NEW id \in Prototypes, CreateOwn(id) PROVE PairedInv'
  <2>1. /\ created < MaxCreates /\ MayGet(m.entities)
        /\ m' = Create(m, id, Me, None, created + 1) /\ burnt' = burnt
    BY <1>3 DEF CreateOwn, MayCreate
  <2>2. m.entities.back < MaxCreates
    BY <2>1, <1>1
  <2>3. PICK c : c = Create(m, id, Me, None, created + 1)
    OBVIOUS
  <2>5. created + 1 \in Nat /\ None \in {None} \cup Nat /\ Me \in {NoOne, Me, Peer}
    BY <1>1
  <2>4. burnt = 0 => AllPairs(c) /\ MoveOK(c)
    BY <2>1, <2>2, <2>3, <2>5, <1>1, PairedCreate
  <2> QED
    BY <2>1, <2>3, <2>4 DEF PairedInv
<1>4. ASSUME NEW i \in Places, BurnOwn(i) PROVE PairedInv'
  <2>1. burnt' # 0
    BY <1>4 DEF BurnOwn, SoundInv
  <2> QED
    BY <2>1 DEF PairedInv
<1>5. ASSUME ProcessOwnCreate PROVE PairedInv'
  <2>1. PICK msg : msg = Head(toClient)
    OBVIOUS
  <2>2. PICK e : e = [m EXCEPT !.slot[msg.slot].serverIndex = msg.serverIndex]
    OBVIOUS
  <2>3. PICK n : n = Insert(e, msg.serverIndex, msg.slot)
    OBVIOUS
  <2>4. /\ toClient # <<>> /\ msg.op = "CREATE" /\ msg.client = Me
        /\ m' = (IF Valid(m.entities, msg.slot) THEN n ELSE m) /\ burnt' = burnt
    BY <1>5, <2>1, <2>2, <2>3 DEF ProcessOwnCreate
  <2>5. IsManager(e) /\ n = [e EXCEPT !.index = n.index]
    <3>1. IsManager(e)
      BY <2>2, <1>1 DEF IsManager
    <3> QED
      BY <3>1, <2>3, InsertFields
  <2>6. /\ n.entities = m.entities /\ n.comps = m.comps /\ n.owner = m.owner
        /\ n.moving = m.moving /\ n.slot = e.slot
    BY <2>2, <2>5, <1>1 DEF IsManager
  <2>7. \A i \in Places : n.slot[i].comp = m.slot[i].comp /\ n.slot[i].unit = m.slot[i].unit
    BY <2>2, <2>6, <1>1 DEF Units
  <2>8. AllPairs(m) /\ MoveOK(m) => AllPairs(n) /\ MoveOK(n)
    BY <2>6, <2>7, PairedSame
  <2> QED
    BY <2>4, <2>8 DEF PairedInv
<1>6. ASSUME ProcessPeerCreate PROVE PairedInv'
  <2>1. PICK msg : msg = Head(toClient)
    OBVIOUS
  <2>2. PICK e : e = Create(m, msg.id, msg.client, msg.serverIndex, msg.unit)
    OBVIOUS
  <2>3. PICK n : n = Insert(e, msg.serverIndex, Top(m.entities))
    OBVIOUS
  <2>4. /\ toClient # <<>> /\ msg.op = "CREATE" /\ msg.client # Me /\ MayGet(m.entities)
        /\ m' = n /\ burnt' = burnt
    BY <1>6, <2>1, <2>2, <2>3 DEF ProcessPeerCreate, MayCreate
  <2>5. m.entities.back < MaxCreates
    BY <2>1, <2>4, RoomLeft DEF Due
  <2>6. /\ msg.id \in Prototypes \cup {None} /\ msg.client \in {NoOne, Me, Peer}
        /\ msg.serverIndex \in {None} \cup Nat /\ msg.unit \in Nat
    BY <2>1, <2>4, PopClient DEF Messages
  <2>7. burnt = 0 => AllPairs(e) /\ MoveOK(e)
    BY <2>2, <2>4, <2>5, <2>6, <1>1, PairedCreate
  <2>8. IsManager(e)
    BY <2>2, <1>1, CreateFields DEF Created
  <2>9. n = [e EXCEPT !.index = n.index]
    BY <2>3, <2>8, InsertFields
  <2>10. /\ n.entities = e.entities /\ n.comps = e.comps /\ n.owner = e.owner
         /\ n.moving = e.moving /\ n.slot = e.slot
    BY <2>8, <2>9 DEF IsManager
  <2>11. AllPairs(e) /\ MoveOK(e) => AllPairs(n) /\ MoveOK(n)
    BY <2>10, PairedSame
  <2> QED
    BY <2>4, <2>7, <2>11 DEF PairedInv
<1>7. ASSUME ProcessPeerDelete PROVE PairedInv'
  <2>1. PICK msg : msg = Head(toClient)
    OBVIOUS
  <2>2. PICK e : e = Extracted(msg)
    OBVIOUS
  <2>3. PICK i : i = m.index[msg.serverIndex]
    OBVIOUS
  <2>4. PICK b : b = Burn(e, msg.id, i, NoComponents)
    OBVIOUS
  <2>5. msg.serverIndex \in DOMAIN m.index /\ m' = b /\ burnt' = burnt
    BY <1>7, <2>1, <2>2, <2>3, <2>4 DEF ProcessPeerDelete, BurnOther, Deletes
  <2>6. /\ IsManager(e) /\ e.entities = m.entities /\ e.comps = m.comps /\ e.slot = m.slot
        /\ e.owner = m.owner /\ e.moving = m.moving
    BY <2>2, <1>1 DEF Extracted, IsManager
  <2>7. /\ b.comps = BurnComponents(e.comps, NoComponents)
        /\ b.slot = e.slot /\ b.owner = e.owner /\ b.moving = e.moving
    BY <2>4, <2>6, BurnFields
  <2>8. b.comps = m.comps
    <3>1. m.comps \in [Kinds -> Array]
      BY <1>1 DEF UnitsOK
    <3>2. \A k \in Kinds : NoComponents[k] = None
      BY DEF NoComponents
    <3> QED
      BY <3>1, <3>2, <2>6, <2>7 DEF BurnComponents, Returned
  <2>9. ASSUME burnt = 0 PROVE LiveOf(b.entities) \subseteq LiveOf(m.entities)
    <3>1. Solid(e.entities) /\ i \in LiveOf(e.entities) /\ IsManager(e)
      BY <2>3, <2>5, <2>6, <2>9, <1>1 DEF Linked
    <3>2. LiveOf(b.entities) = LiveOf(e.entities) \ {i}
      BY <3>1, <2>4, BurnLive
    <3> QED
      BY <3>2, <2>6
  <2>10. burnt = 0 /\ AllPairs(m) /\ MoveOK(m) => AllPairs(b) /\ MoveOK(b)
    BY <2>6, <2>7, <2>8, <2>9, PairedSame
  <2> QED
    BY <2>5, <2>10 DEF PairedInv
<1>8. ASSUME burnt' = burnt, NEW u \in {None} \cup Nat, NEW p,
             u \notin {None, Stray}
               => \E i \in Places : p = m.slot[i].comp["Transform"] /\ p # None /\ u = m.slot[i].unit,
             m' = [m EXCEPT !.moving = [m.moving EXCEPT ![p] = u]]
      PROVE  PairedInv'
  <2>1. PICK moving : moving = [m.moving EXCEPT ![p] = u]
    OBVIOUS
  <2>2. m.moving \in [Places -> Int] /\ moving \in [Places -> Int]
    <3>1. m.moving \in [Places -> Int]
      BY <1>1 DEF UnitsOK
    <3>2. u \in Int
      BY DEF None
    <3> QED
      BY <3>1, <3>2, <2>1
  <2>3. PICK n : n = [m EXCEPT !.moving = moving]
    OBVIOUS
  <2>4. /\ n.entities = m.entities /\ n.slot = m.slot /\ n.comps = m.comps /\ n.owner = m.owner
        /\ n.moving = moving
    BY <2>2, <2>3, <1>1, MovingKeeps
  <2>5. ASSUME AllPairs(m), MoveOK(m) PROVE AllPairs(n) /\ MoveOK(n)
    <3>1. AllPairs(n)
      BY <2>4, <2>5 DEF AllPairs
    <3>2. ASSUME NEW j \in LiveOf(m.entities), m.slot[j].comp["Transform"] # None,
                 moving[m.slot[j].comp["Transform"]] \notin {None, Stray}
          PROVE  moving[m.slot[j].comp["Transform"]] = m.slot[j].unit
      <4>1. j \in Places /\ "Transform" \in Kinds
        BY DEF LiveOf, Kinds
      <4>2. PICK q : q = m.slot[j].comp["Transform"]
        OBVIOUS
      <4>3. q \in Places
        BY <4>1, <4>2, <3>2, <2>5, <1>1, <1>2, PairsApart
      <4>4. CASE q = p
        <5>1. moving[q] = u /\ u \notin {None, Stray}
          BY <4>2, <4>3, <4>4, <3>2, <2>1, <2>2
        <5>2. PICK i \in Places : m.slot[i].comp["Transform"] = q /\ q # None /\ u = m.slot[i].unit
          BY <5>1, <4>4, <1>8
        <5>3. j = i
          BY <5>2, <4>1, <4>2, <2>5, <1>1, <1>2, PairsApart
        <5> QED
          BY <5>1, <5>2, <5>3, <4>2
      <4>5. CASE q # p
        <5>1. moving[q] = m.moving[q]
          BY <4>3, <4>5, <2>1, <2>2
        <5> QED
          BY <5>1, <4>2, <3>2, <2>5 DEF MoveOK
      <4> QED
        BY <4>4, <4>5
    <3>3. MoveOK(n)
      BY <3>2, <2>4 DEF MoveOK
    <3> QED
      BY <3>1, <3>3
  <2> QED
    BY <2>1, <2>3, <2>5, <1>8 DEF PairedInv
<1>9. ASSUME m' = m, burnt' = burnt PROVE PairedInv'
  BY <1>9 DEF PairedInv
<1>10. ASSUME ProcessTransform PROVE PairedInv'
  <2>1. PICK s : s = Head(toClient).serverIndex
    OBVIOUS
  <2>2. PICK i, p : i = m.index[s] /\ p = m.slot[m.index[s]].comp["Transform"]
    OBVIOUS
  <2>3. PICK u : u = Head(toClient).unit
    OBVIOUS
  <2>4. /\ burnt' = burnt /\ ~crashed /\ toClient # <<>> /\ Head(toClient).op = "TRANSFORM"
        /\ \/ m' = m
           \/ /\ s \in DOMAIN m.index /\ p # None
              /\ m' = [m EXCEPT !.moving = [m.moving EXCEPT ![p] = u]]
    <3>1. \A moving : m' = [m EXCEPT !.moving = moving] /\ moving = m.moving => m' = m
      BY <1>1 DEF IsManager
    <3> QED
      BY <3>1, <1>10, <2>1, <2>2, <2>3 DEF ProcessTransform, Moved
  <2>5. CASE m' = m
    BY <2>4, <2>5, <1>9
  <2>6. CASE s \in DOMAIN m.index /\ p # None /\ m' = [m EXCEPT !.moving = [m.moving EXCEPT ![p] = u]]
    <3>1. s \in Nat /\ i \in Places /\ u \in Nat
      <4>1. s \in Nat /\ i \in 0 .. m.entities.back - 1
        BY <2>2, <2>6, <1>1 DEF UnitsOK
      <4>2. i \in Places
        BY <4>1, <1>1, <1>2 DEF Places
      <4>3. Head(toClient) \in Messages
        BY <2>4, PopClient
      <4> QED
        BY <4>1, <4>2, <4>3, <2>3 DEF Messages
    <3>2. CASE burnt = 0
      <4>1. u \notin {None, Stray} => u = m.slot[i].unit
        <5>1. Tracked(toClient, m)
          BY <3>2, <2>4 DEF TrackInv, Track
        <5>2. 1 \in 1 .. Len(toClient) /\ Head(toClient) = toClient[1]
          BY <2>4, BaseTypes, TailLemma
        <5>3. 1 - 1 = 0 /\ s # None
          BY <3>1 DEF None
        <5>4. u # Stray => Known(toClient, m, 0, s, u)
          BY <5>1, <5>2, <5>3, <2>1, <2>3, <2>4 DEF Tracked
        <5>5. u # Stray => Holds(m, s, u)
          BY <5>4, KnownNow
        <5> QED
          BY <5>5, <2>2, <2>6 DEF Holds
      <4>2. u \in {None} \cup Nat
        BY <3>1
      <4>3. u \notin {None, Stray}
              => \E j \in Places : p = m.slot[j].comp["Transform"] /\ p # None /\ u = m.slot[j].unit
        BY <4>1, <3>1, <2>2, <2>6
      <4> QED
        BY <4>2, <4>3, <2>4, <2>6, <1>8
    <3>3. CASE burnt # 0
      BY <3>3, <2>4 DEF PairedInv
    <3> QED
      BY <3>2, <3>3
  <2> QED
    BY <2>4, <2>5, <2>6
<1>11. ASSUME Update PROVE PairedInv'
  <2>1. PICK c \in Places : m' = m \/ m' = [m EXCEPT !.moving = [m.moving EXCEPT ![c] = None]]
    <3>1. \A moving : m' = [m EXCEPT !.moving = moving] /\ moving = m.moving => m' = m
      BY <1>1 DEF IsManager
    <3> QED
      BY <3>1, <1>11 DEF Update, Updated
  <2>2. burnt' = burnt
    BY <1>11 DEF Update
  <2>3. CASE m' = m
    BY <2>2, <2>3, <1>9
  <2>4. CASE m' = [m EXCEPT !.moving = [m.moving EXCEPT ![c] = None]]
    <3>1. None \in {None} \cup Nat
      OBVIOUS
    <3> QED
      BY <3>1, <2>2, <2>4, <1>8
  <2> QED
    BY <2>1, <2>3, <2>4
<1>12. CASE \/ UNCHANGED vars
            \/ \E id \in Prototypes : PeerCreate(id)
            \/ GiveOrder \/ PeerStrayOrder \/ \E c \in Places : Select(c)
            \/ \E s \in DOMAIN peers : PeerDelete(s) \/ PeerOrder(s)
            \/ ProcessUnknownDelete \/ ProcessOwnDelete
            \/ ServeCreate \/ ServeDelete \/ ServeTransform
  <2>1. m' = m /\ burnt' = burnt
    BY <1>12, QuietSteps
  <2> QED
    BY <2>1, <1>9
<1> QED
  BY <1>3, <1>4, <1>5, <1>6, <1>7, <1>10, <1>11, <1>12
     DEF Next, entity_message, receive_entity_message

\* In every reachable state, as long as no unit was burnt with its components, every
\* component pointer is to a component in use and of its slot alone, which points back, and
\* size() counts the slots that have one (EntityManager.cpp:61, ComponentManager.cpp:53).
THEOREM PointersPair == Spec => []Paired
<1>1. PairedInv => Paired
  <2> SUFFICES ASSUME PairedInv, burnt = 0, NEW k \in Kinds
               PROVE  LET holders == {i \in Places : m.slot[i].comp[k] # None} IN
                      /\ \A i \in holders : Valid(m.comps[k], m.slot[i].comp[k])
                      /\ \A i, j \in holders : m.slot[i].comp[k] = m.slot[j].comp[k] => i = j
                      /\ \A i \in holders : m.owner[k][m.slot[i].comp[k]] = i
                      /\ m.comps[k].size = Cardinality(holders)
    BY DEF Paired
  <2>1. Pairs(m.slot, m.comps[k], m.owner[k], k)
    BY DEF PairedInv, AllPairs
  <2> QED
    BY <2>1 DEF Pairs, Holders
<1> QED
  BY <1>1, Base, Sound, Tracks, PairedInit, PairedStep, PTL DEF Spec

\* In every reachable state, as long as no own unit was burnt, an order meant for one unit
\* moves no other, however the server's indices, the slots and the components are given to
\* other units while it is under way; orders through a selection of a burnt unit, which are
\* meant for none, are left out (EntityManager.cpp:244, TransformComponent.cpp:19).
THEOREM UnitsObeyOrders == Spec => []OrdersMoveTheirUnit
<1>1. PairedInv => OrdersMoveTheirUnit
  BY DEF PairedInv, MoveOK, LiveOf, OrdersMoveTheirUnit, Live
<1> QED
  BY <1>1, Base, Sound, Tracks, PairedInit, PairedStep, PTL DEF Spec

=============================================================================
