-------------------------- MODULE CompactArrayOps --------------------------
(***************************************************************************)
(* The slot allocator CompactArray<T> (CompactArray.h) as operators on the *)
(* record of its bookkeeping fields.  The slots' contents are left to the  *)
(* modules that use the array; their stored index is the "stamp" that      *)
(* remove() trusts.                                                        *)
(***************************************************************************)
EXTENDS Integers, Sequences

CONSTANT IndexRange     \* 2^16: _back, _size and the stacked indices are uint16_t

ASSUME IndexRangeAssumption == IndexRange \in Nat /\ IndexRange > 1

\* Variant of Wrap: the index is sent as the int it is.
WrapNot(i) == i

\* Conversion of an int to the width of an index.
Wrap(i) == i % IndexRange

Slots == 0 .. IndexRange - 2

\* The bookkeeping of an array: its fields _size, _back and _indicies.
Array == [size : 0 .. IndexRange - 1, back : 0 .. IndexRange - 1,
          indicies : Seq(0 .. IndexRange - 1)]

New == [size |-> 0, back |-> 0, indicies |-> <<0>>]

\* Variant of MayGet: without the assertion.
MayGetAlways(a) == a.back < IndexRange

\* assert(_back != 65535)
MayGet(a) == a.back # IndexRange - 1

Top(a) == a.indicies[Len(a.indicies)]

Popped(a) == SubSeq(a.indicies, 1, Len(a.indicies) - 1)

\* Variant of Get: the index handed out stays on the stack.
GetWithoutPop(a) ==
    LET grows == Top(a) = a.back
    IN  [size     |-> Wrap(a.size + 1),
         back     |-> IF grows THEN a.back + 1 ELSE a.back,
         indicies |-> IF grows THEN Append(Popped(a), Wrap(Top(a) + 1)) ELSE a.indicies]

\* Variant of Get: the size is not counted.
GetWithoutSize(a) ==
    LET grows == Top(a) = a.back
    IN  [size     |-> a.size,
         back     |-> IF grows THEN a.back + 1 ELSE a.back,
         indicies |-> IF grows THEN Append(Popped(a), Wrap(Top(a) + 1)) ELSE Popped(a)]

\* get(): the slot handed out is Top(a); this is the array it leaves behind.
Get(a) ==
    LET grows == Top(a) = a.back
    IN  [size     |-> Wrap(a.size + 1),
         back     |-> IF grows THEN a.back + 1 ELSE a.back,
         indicies |-> IF grows THEN Append(Popped(a), Wrap(Top(a) + 1)) ELSE Popped(a)]

\* Variant of Remove: the slot is not put back on the stack.
RemoveWithoutPush(a, index) ==
    [size |-> Wrap(a.size - 1), back |-> a.back, indicies |-> a.indicies]

\* Variant of Remove: the next slot is put back.
RemoveNext(a, index) ==
    [size |-> Wrap(a.size - 1), back |-> a.back,
     indicies |-> Append(a.indicies, Wrap(index + 1))]

\* remove(t), of an element whose stored index is "index".  Nothing is checked.
Remove(a, index) ==
    [size |-> Wrap(a.size - 1), back |-> a.back,
     indicies |-> Append(a.indicies, Wrap(index))]

Free(a) == {a.indicies[k] : k \in DOMAIN a.indicies}

\* Variant of Valid: the free stack is not searched.
ValidBelowBack(a, index) == index < a.back

\* valid(index), which at(index) asks before it hands out a pointer.
Valid(a, index) == index < a.back /\ index \notin Free(a)

\* Variant of Visited: the iteration ends at size().
VisitedUpToSize(a, stamp) ==
    {i \in 0 .. a.size - 1 : i = 0 \/ stamp[i] # -1}

\* The slots begin() .. end() visits: slot 0 whenever the array is not empty, then
\* every slot below _back whose stored index is not -1.
Visited(a, stamp) ==
    {i \in 0 .. a.back - 1 : i = 0 \/ stamp[i] # -1}

\* The shape of the free stack: its bottom is _back itself, so get() always finds an
\* index to pop; the indices above it are free slots below _back, each once; and
\* the slots on the stack and the _size slots in use make up 0 .. _back.
WellStacked(a) ==
    /\ Len(a.indicies) >= 1
    /\ a.indicies[1] = a.back
    /\ \A k \in 2 .. Len(a.indicies) : a.indicies[k] < a.back
    /\ \A j, k \in DOMAIN a.indicies : j # k => a.indicies[j] # a.indicies[k]
    /\ a.size + Len(a.indicies) = a.back + 1
=============================================================================
