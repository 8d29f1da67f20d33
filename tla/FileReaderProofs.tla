-------------------------- MODULE FileReaderProofs --------------------------
(***************************************************************************)
(* Proofs about FileReader, for every set of names, every hash and files   *)
(* of every length.  The lemmas on probing say what the search for a slot  *)
(* finds in a table of any size; the invariants say what the constructor   *)
(* has put into the tables when it has read the lines before "next".       *)
(***************************************************************************)
EXTENDS FileReader, SequenceTheorems, FiniteSetTheorems, TLAPS

-----------------------------------------------------------------------------
(* The inductive invariants. *)

\* The tables are there.
Made == status \in {"parsing", "ready", "full"}

\* The lines with a key of section s, and those that are counted for it.
KeysAt(lines, s) == {j \in DOMAIN lines : lines[j].kind = "key" /\ SectionAt(lines, j) = s}
CountedAt(lines, s) == {j \in DOMAIN lines : lines[j].kind \in Counted /\ SectionAt(lines, j) = s}

NoIndentedLine == \A j \in DOMAIN file : file[j].kind # "indented"

\* The slots of _data with keys, and the slots of a table with a value.
Taken(d) == {i \in DOMAIN d : d[i].table # <<>>}
Used(t) == {c \in DOMAIN t : t[c].value # Empty}

\* What the counting pass found.
CountOK ==
    /\ Len(data) = Len(query)
    /\ SectionAt(file, Len(file)) + 1 <= Len(query)
    /\ \A s \in 0 .. SectionAt(file, Len(file)) :
         /\ Cardinality(KeysAt(file, s)) <= query[s + 1]
         /\ (~newline /\ NoIndentedLine) => query[s + 1] = Cardinality(KeysAt(file, s))

\* What of it the parser has used up.
ParseOK ==
    /\ found <= SectionAt(file, next - 1)
    /\ Cardinality(Taken(data)) <= found + 1
    /\ Len(data[current + 1].table) = query[found + 1]
    /\ NoTightLine =>
         /\ found = SectionAt(file, next - 1)
         /\ Cardinality(Used(data[current + 1].table)) <=
              Cardinality({j \in KeysAt(file, found) : j < next})

FullInv ==
    /\ TypeOK
    /\ status = "closed" => next = 1 /\ found = 0
    /\ Made => CountOK
    /\ status = "parsing" => ParseOK
    /\ status = "ready" => next = Len(file) + 1
    /\ NeverFull

\* The hash of the name in a line, of the section of a header; the default section has 0.
HashOf(j) == Hash[file[j].name]
HashOfSection(h) == IF h = 0 THEN 0 ELSE HashOf(h)

\* Every value of the table was written in a line of the section h, under a key with the
\* hash that is stored with it.
WrittenIn(t, h) ==
    \A c \in Used(t) : \E j \in KeysOf(h) :
        j < next /\ HashOf(j) = t[c].key_val /\ file[j].value = t[c].value

PlaceOf(slot, h) == slot.key_val = HashOfSection(h) /\ WrittenIn(slot.table, h)

PlaceInv ==
    NoTightLine =>
        /\ status \in {"parsing", "ready"} =>
             \A i \in Taken(data) : \E h \in Headers \cup {0} : PlaceOf(data[i], h)
        /\ status = "parsing" => PlaceOf(data[current + 1], HeaderOf(next - 1))

\* The slot that is d places after the one the hash names, in a table of n slots.
Place(n, hash, d) == ((hash + d) % n) + 1

\* What a line with a key makes of a slot, and what the section h has made up to line m.
Entry(j) == [key_val |-> HashOf(j), value |-> file[j].value]
Entries(h, m) == {Entry(j) : j \in {i \in KeysOf(h) : i < m}}

\* The table holds the keys and values K and no others, each where a search for it ends.
Stores(t, K) ==
    /\ \A c \in Used(t) : t[c] \in K
    /\ \A c \in DOMAIN t \ Used(t) : t[c] = Unused
    /\ \A k \in K : \E d \in 0 .. Len(t) - 1 :
         /\ t[Place(Len(t), k.key_val, d)] = k
         /\ \A e \in 0 .. d - 1 :
              /\ Place(Len(t), k.key_val, e) \in Used(t)
              /\ t[Place(Len(t), k.key_val, e)].key_val # k.key_val

\* The header h has its table where a search for it ends, and its keys so far are there.
Stands(h) ==
    \E d \in 0 .. Len(data) - 1 :
        LET slot == data[Place(Len(data), HashOf(h), d)] IN
        /\ slot.key_val = HashOf(h)
        /\ Stores(slot.table, Entries(h, next))
        /\ Len(slot.table) = query[SectionAt(file, h) + 1] /\ slot.table # <<>>
        /\ \A e \in 0 .. d - 1 :
             /\ Place(Len(data), HashOf(h), e) \in Taken(data)
             /\ data[Place(Len(data), HashOf(h), e)].key_val # HashOf(h)

StandInv ==
    (WellFormed /\ status \in {"parsing", "ready"}) =>
        /\ \A h \in Headers : h < next => Stands(h)
        /\ \A i \in DOMAIN data :
             data[i].key_val = 0 \/ \E h \in Headers : h < next /\ data[i].key_val = HashOf(h)
        /\ status = "parsing" =>
             /\ data[current + 1].key_val = HashOfSection(HeaderOf(next - 1))
             /\ \A i \in Taken(data) :
                  data[i].key_val = data[current + 1].key_val => i = current + 1

IInv == FullInv /\ PlaceInv /\ StandInv

-----------------------------------------------------------------------------
(* Numbers, and the search for a slot. *)

\* A set of natural numbers has a least one, which Min finds.
LEMMA MinOfSet ==
    ASSUME NEW S \in SUBSET Nat, S # {}
    PROVE  Min(S) \in S /\ \A y \in S : Min(S) <= y
<1> DEFINE R == OpToRel(<, Nat)
<1>1. IsWellFoundedOn(R, Nat)
  BY NatLessThanWellFounded
<1>2. \A x, y \in Nat : <<y, x>> \in R <=> y < x
  BY DEF OpToRel
<1> HIDE DEF R
<1>. S \subseteq Nat
  OBVIOUS
<1>3. PICK x \in S : \A y \in S : ~(<<y, x>> \in R)
  BY <1>1, WFMin
<1>4. ASSUME NEW y \in S PROVE x <= y
  <2>1. x \in Nat /\ y \in Nat /\ ~(<<y, x>> \in R)
    BY <1>3
  <2>2. ~(y < x)
    BY <2>1, <1>2, Zenon
  <2> QED
    BY <2>1, <2>2
<1> QED
  BY <1>3, <1>4 DEF Min

\* A set of natural numbers below a bound has a greatest one, which Max finds.
LEMMA MaxOfSet ==
    ASSUME NEW n \in Nat, NEW S \in SUBSET (0 .. n), S # {}
    PROVE  Max(S) \in S /\ \A y \in S : Max(S) >= y
<1> DEFINE T == {n - x : x \in S}
<1>1. T \in SUBSET Nat /\ T # {}
  <2>1. \A x \in S : n - x \in Nat
    OBVIOUS
  <2> QED
    BY <2>1
<1>2. PICK x \in S : Min(T) = n - x
  BY <1>1, MinOfSet
<1>3. \A y \in S : n - x <= n - y
  BY <1>1, <1>2, MinOfSet
<1>4. \A y \in S : x >= y
  BY <1>3
<1> QED
  BY <1>4 DEF Max

\* Two steps of a full turn.
LEMMA Remainder ==
    ASSUME NEW n \in Nat, n > 0, NEW a \in Nat
    PROVE  a % n \in 0 .. n - 1
OBVIOUS

LEMMA RemainderOf ==
    ASSUME NEW n \in Nat, n > 0, NEW q \in Int, NEW r \in 0 .. n - 1
    PROVE  (n * q + r) % n = r
OBVIOUS

\* A full turn from any hash meets every slot.
LEMMA FullTurn ==
    ASSUME NEW n \in Nat, n > 0, NEW hash \in Nat, NEW i \in 1 .. n
    PROVE  \E d \in 0 .. n - 1 : Place(n, hash, d) = i
<1> DEFINE q == hash \div n
           r == hash % n
<1>1. q \in Int /\ r \in 0 .. n - 1 /\ hash = n * q + r
  OBVIOUS
<1> HIDE DEF q, r
<1>2. CASE i - 1 >= r
  <2> DEFINE d == i - 1 - r
  <2>1. d \in 0 .. n - 1 /\ hash + d = n * q + (i - 1)
    BY <1>1, <1>2
  <2>2. (hash + d) % n = i - 1
    BY <2>1, <1>1, RemainderOf
  <2> HIDE DEF d
  <2>3. (i - 1) + 1 = i
    OBVIOUS
  <2> QED
    BY <2>1, <2>2, <2>3 DEF Place
<1>3. CASE i - 1 < r
  <2> DEFINE d == i - 1 - r + n
  <2>1. d \in 0 .. n - 1 /\ hash + d = n * (q + 1) + (i - 1) /\ q + 1 \in Int
    BY <1>1, <1>3
  <2>2. (hash + d) % n = i - 1
    BY <2>1, <1>1, RemainderOf
  <2> HIDE DEF d
  <2>3. (i - 1) + 1 = i
    OBVIOUS
  <2> QED
    BY <2>1, <2>2, <2>3 DEF Place
<1> QED
  BY <1>1, <1>2, <1>3

\* What Probe answers: -1 when no slot fits, else the first that does.
LEMMA ProbeFails ==
    ASSUME NEW n \in Nat, n > 0, NEW hash \in Nat, NEW fits \in SUBSET (1 .. n),
           Probe(n, hash, fits) = -1
    PROVE  fits = {}
<1> DEFINE hits == {d \in 0 .. n - 1 : Place(n, hash, d) \in fits}
<1>1. Probe(n, hash, fits) = IF hits = {} THEN -1 ELSE (hash + Min(hits)) % n
  BY DEF Probe, Place
<1>2. hits # {} => (hash + Min(hits)) % n \in 0 .. n - 1
  <2>1. hits # {} => Min(hits) \in Nat
    BY MinOfSet
  <2> HIDE DEF hits
  <2> QED
    BY <2>1, Remainder
<1>3. hits = {}
  <2> HIDE DEF hits
  <2> QED
    BY <1>1, <1>2
<1>4. ASSUME NEW i \in fits PROVE FALSE
  <2>1. PICK d \in 0 .. n - 1 : Place(n, hash, d) = i
    BY FullTurn
  <2> QED
    BY <2>1, <1>3
<1> QED
  BY <1>4

LEMMA ProbeFinds ==
    ASSUME NEW n \in Nat, n > 0, NEW hash \in Nat, NEW fits \in SUBSET (1 .. n),
           Probe(n, hash, fits) # -1
    PROVE  /\ Probe(n, hash, fits) \in 0 .. n - 1
           /\ Probe(n, hash, fits) + 1 \in fits
           /\ \E d \in 0 .. n - 1 :
                /\ Probe(n, hash, fits) + 1 = Place(n, hash, d)
                /\ \A e \in 0 .. d - 1 : Place(n, hash, e) \notin fits
<1> DEFINE hits == {d \in 0 .. n - 1 : Place(n, hash, d) \in fits}
           m == Min(hits)
<1>1. Probe(n, hash, fits) = IF hits = {} THEN -1 ELSE (hash + m) % n
  BY DEF Probe, Place
<1>2. hits # {}
  BY <1>1
<1>3. m \in hits /\ \A e \in hits : m <= e
  BY <1>2, MinOfSet
<1>4. m \in 0 .. n - 1 /\ Place(n, hash, m) \in fits
  BY <1>3
<1>5. ASSUME NEW e \in 0 .. m - 1 PROVE Place(n, hash, e) \notin fits
  <2>1. e \in 0 .. n - 1 /\ ~(m <= e)
    BY <1>4
  <2>2. e \notin hits
    BY <2>1, <1>3
  <2> QED
    BY <2>1, <2>2
<1>6. Probe(n, hash, fits) + 1 = Place(n, hash, m)
  BY <1>1, <1>2 DEF Place
<1>7. Probe(n, hash, fits) = (hash + m) % n
  BY <1>1, <1>2
<1> HIDE DEF hits, m
<1>8. Probe(n, hash, fits) \in 0 .. n - 1
  BY <1>4, <1>7, Remainder
<1> QED
  BY <1>4, <1>5, <1>6, <1>8

\* A search ends at the first slot that fits.
LEMMA ProbeEnds ==
    ASSUME NEW n \in Nat, n > 0, NEW hash \in Nat, NEW fits \in SUBSET (1 .. n),
           NEW d \in 0 .. n - 1, Place(n, hash, d) \in fits,
           \A e \in 0 .. d - 1 : Place(n, hash, e) \notin fits
    PROVE  Probe(n, hash, fits) + 1 = Place(n, hash, d)
<1>1. Probe(n, hash, fits) # -1
  BY ProbeFails
<1>2. PICK c \in 0 .. n - 1 :
        /\ Probe(n, hash, fits) + 1 = Place(n, hash, c)
        /\ \A e \in 0 .. c - 1 : Place(n, hash, e) \notin fits
  BY <1>1, ProbeFinds
<1>3. Place(n, hash, c) \in fits
  BY <1>1, <1>2, ProbeFinds
<1>4. ~(c < d) /\ ~(d < c)
  BY <1>2, <1>3
<1>5. c = d
  BY <1>4
<1> QED
  BY <1>2, <1>5

\* The slots of a search are slots of the table; a hash of 0 names the first.
LEMMA PlaceInTable ==
    ASSUME NEW n \in Nat, n > 0, NEW hash \in Nat, NEW d \in 0 .. n - 1
    PROVE  Place(n, hash, d) \in 1 .. n /\ (hash = 0 => Place(n, hash, d) = d + 1)
<1>1. hash + d \in Nat /\ (hash + d) % n \in 0 .. n - 1
  BY Remainder
<1>2. hash = 0 => (hash + d) % n = d
  OBVIOUS
<1> QED
  BY <1>1, <1>2 DEF Place

-----------------------------------------------------------------------------
(* Counting sections and keys. *)

HeadersTo(lines, j) == {i \in 1 .. j : lines[i].kind = "section"}

\* The number of the section grows with each header.
LEMMA SectionAtNat ==
    ASSUME NEW lines, NEW j \in Nat
    PROVE  /\ IsFiniteSet(HeadersTo(lines, j))
           /\ SectionAt(lines, j) = Cardinality(HeadersTo(lines, j))
           /\ SectionAt(lines, j) \in Nat
           /\ SectionAt(lines, 0) = 0
<1>1. SectionAt(lines, j) = Cardinality(HeadersTo(lines, j))
  BY DEF SectionAt, Quantify, HeadersTo
<1>2. IsFiniteSet(1 .. j)
  BY FS_Interval
<1>3. HeadersTo(lines, j) \in SUBSET (1 .. j)
  BY DEF HeadersTo
<1>4. IsFiniteSet(HeadersTo(lines, j))
  BY <1>2, <1>3, FS_Subset
<1>5. SectionAt(lines, j) \in Nat
  BY <1>1, <1>4, FS_CardinalityType
<1>6. SectionAt(lines, 0) = Cardinality({})
  <2>1. {i \in 1 .. 0 : lines[i].kind = "section"} = {}
    OBVIOUS
  <2> QED
    BY <2>1 DEF SectionAt, Quantify
<1> QED
  BY <1>1, <1>4, <1>5, <1>6, FS_EmptySet

LEMMA SectionAtNext ==
    ASSUME NEW lines, NEW j \in Nat, j > 0
    PROVE  SectionAt(lines, j) =
             IF lines[j].kind = "section" THEN SectionAt(lines, j - 1) + 1
             ELSE SectionAt(lines, j - 1)
<1>1. j - 1 \in Nat
  OBVIOUS
<1>2. /\ IsFiniteSet(HeadersTo(lines, j - 1))
      /\ SectionAt(lines, j - 1) = Cardinality(HeadersTo(lines, j - 1))
      /\ SectionAt(lines, j) = Cardinality(HeadersTo(lines, j))
  BY <1>1, SectionAtNat
<1>3. HeadersTo(lines, j) = IF lines[j].kind = "section" THEN HeadersTo(lines, j - 1) \cup {j}
                            ELSE HeadersTo(lines, j - 1)
  <2>1. 1 .. j = (1 .. j - 1) \cup {j} /\ j \notin 1 .. j - 1
    OBVIOUS
  <2> QED
    BY <2>1 DEF HeadersTo
<1>4. j \notin HeadersTo(lines, j - 1)
  BY DEF HeadersTo
<1> QED
  BY <1>2, <1>3, <1>4, FS_AddElement

LEMMA SectionAtGrows ==
    ASSUME NEW lines, NEW i \in Nat, NEW j \in Nat, i <= j
    PROVE  /\ SectionAt(lines, i) <= SectionAt(lines, j)
           /\ SectionAt(lines, i) = SectionAt(lines, j) =>
                \A h \in HeadersTo(lines, j) : h <= i
           /\ (\A h \in HeadersTo(lines, j) : h <= i) => SectionAt(lines, i) = SectionAt(lines, j)
<1>1. /\ IsFiniteSet(HeadersTo(lines, j))
      /\ SectionAt(lines, i) = Cardinality(HeadersTo(lines, i))
      /\ SectionAt(lines, j) = Cardinality(HeadersTo(lines, j))
  BY SectionAtNat
<1>2. HeadersTo(lines, i) \in SUBSET HeadersTo(lines, j)
  BY DEF HeadersTo
<1>3. /\ Cardinality(HeadersTo(lines, i)) <= Cardinality(HeadersTo(lines, j))
      /\ Cardinality(HeadersTo(lines, j)) = Cardinality(HeadersTo(lines, i)) =>
           HeadersTo(lines, j) = HeadersTo(lines, i)
  BY <1>1, <1>2, FS_Subset
<1>4. \A h \in HeadersTo(lines, i) : h <= i
  BY DEF HeadersTo
<1>5. (\A h \in HeadersTo(lines, j) : h <= i) => HeadersTo(lines, i) = HeadersTo(lines, j)
  BY DEF HeadersTo
<1> QED
  BY <1>1, <1>3, <1>4, <1>5

\* The counting pass has a count for each section, of its keys and indented lines.
LEMMA QueryCounts ==
    ASSUME NEW lines, lines \in Seq(Line)
    PROVE  /\ Query(lines) \in Seq(Nat)
           /\ Len(Query(lines)) = SectionAt(lines, Len(lines)) + 1
           /\ \A s \in 0 .. SectionAt(lines, Len(lines)) :
                /\ Query(lines)[s + 1] = Cardinality(CountedAt(lines, s))
                /\ IsFiniteSet(CountedAt(lines, s))
<1> DEFINE n == SectionAt(lines, Len(lines))
<1>1. Len(lines) \in Nat /\ DOMAIN lines = 1 .. Len(lines)
  OBVIOUS
<1>2. n \in Nat
  BY <1>1, SectionAtNat
<1>3. ASSUME NEW s \in Nat PROVE IsFiniteSet(CountedAt(lines, s)) /\ Cardinality(CountedAt(lines, s)) \in Nat
  <2>1. IsFiniteSet(1 .. Len(lines))
    BY <1>1, FS_Interval
  <2>2. CountedAt(lines, s) \in SUBSET (1 .. Len(lines))
    BY <1>1 DEF CountedAt
  <2>3. IsFiniteSet(CountedAt(lines, s))
    BY <2>1, <2>2, FS_Subset
  <2> QED
    BY <2>3, FS_CardinalityType
<1>4. Query(lines) = [s \in 1 .. n + 1 |->
          Cardinality({j \in DOMAIN lines : lines[j].kind \in Counted /\ SectionAt(lines, j) + 1 = s})]
  BY DEF Query, Quantify
<1>5. ASSUME NEW s \in 1 .. n + 1
      PROVE  {j \in DOMAIN lines : lines[j].kind \in Counted /\ SectionAt(lines, j) + 1 = s}
                = CountedAt(lines, s - 1)
  <2>1. \A j \in DOMAIN lines : SectionAt(lines, j) \in Nat
    BY <1>1, SectionAtNat
  <2>2. \A j \in DOMAIN lines : SectionAt(lines, j) + 1 = s <=> SectionAt(lines, j) = s - 1
    BY <2>1, <1>2
  <2> QED
    BY <2>2 DEF CountedAt
<1>6. Query(lines) = [s \in 1 .. n + 1 |-> Cardinality(CountedAt(lines, s - 1))]
  BY <1>4, <1>5
<1> HIDE DEF n
<1>7. \A s \in 1 .. n + 1 : Cardinality(CountedAt(lines, s - 1)) \in Nat
  BY <1>2, <1>3
<1>8. Query(lines) \in Seq(Nat) /\ Len(Query(lines)) = n + 1
  BY <1>2, <1>6, <1>7
<1>9. ASSUME NEW s \in 0 .. n
      PROVE  Query(lines)[s + 1] = Cardinality(CountedAt(lines, s)) /\ IsFiniteSet(CountedAt(lines, s))
  <2>1. s + 1 \in 1 .. n + 1 /\ (s + 1) - 1 = s /\ s \in Nat
    BY <1>2
  <2> QED
    BY <2>1, <1>3, <1>6
<1> QED
  BY <1>8, <1>9 DEF n

\* A line that is counted again adds to the counts.
LEMMA CountedAgain ==
    ASSUME NEW lines, lines \in Seq(Line), NEW line \in Line
    PROVE  LET more == Append(lines, line) IN
           /\ SectionAt(lines, Len(lines)) <= SectionAt(more, Len(more))
           /\ \A s \in Nat : CountedAt(lines, s) \subseteq CountedAt(more, s)
<1> DEFINE more == Append(lines, line)
           n == Len(lines)
<1>1. /\ n \in Nat /\ Len(more) = n + 1 /\ DOMAIN lines = 1 .. n /\ DOMAIN more = 1 .. n + 1
      /\ \A i \in 1 .. n : more[i] = lines[i]
  OBVIOUS
<1> HIDE DEF more, n
<1>2. ASSUME NEW j \in 0 .. n PROVE SectionAt(more, j) = SectionAt(lines, j)
  <2>1. HeadersTo(more, j) = HeadersTo(lines, j)
    BY <1>1 DEF HeadersTo
  <2> QED
    BY <2>1, <1>1, SectionAtNat
<1>3. SectionAt(more, n) <= SectionAt(more, n + 1)
  BY <1>1, SectionAtGrows
<1>4. \A s \in Nat : CountedAt(lines, s) \subseteq CountedAt(more, s)
  BY <1>1, <1>2 DEF CountedAt
<1> QED
  BY <1>1, <1>2, <1>3, <1>4 DEF more, n

-----------------------------------------------------------------------------
(* The types of the tables, and the calls. *)

LEMMA NewTable ==
    ASSUME NEW n \in Nat
    PROVE  /\ EmptyTable(n) \in Seq(Key_Value) /\ Len(EmptyTable(n)) = n
           /\ DOMAIN EmptyTable(n) = 1 .. n
           /\ \A c \in 1 .. n : EmptyTable(n)[c] = Unused
           /\ EmptyTable(n) = <<>> <=> n = 0
<1>1. Unused \in Key_Value
  BY DEF Unused, Key_Value, Values
<1>2. EmptyTable(n) \in Seq(Key_Value) /\ Len(EmptyTable(n)) = n /\ DOMAIN EmptyTable(n) = 1 .. n
  BY <1>1 DEF EmptyTable
<1>3. EmptyTable(n) = <<>> <=> n = 0
  BY <1>2, EmptySeq
<1>4. \A c \in 1 .. n : EmptyTable(n)[c] = Unused
  BY DEF EmptyTable
<1> QED
  BY <1>2, <1>3, <1>4

LEMMA NothingUsed == \A n \in Nat : Used(EmptyTable(n)) = {}
<1> SUFFICES ASSUME NEW n \in Nat PROVE Used(EmptyTable(n)) = {}
  OBVIOUS
<1>1. DOMAIN EmptyTable(n) = 1 .. n /\ \A c \in 1 .. n : EmptyTable(n)[c] = Unused
  BY NewTable
<1> QED
  BY <1>1 DEF Used, Unused

\* What the searches answer leads into the table, when it is not -1.
LEMMA SectionSearches ==
    ASSUME NEW d \in Seq(Key_Table), Len(d) > 0, NEW hash \in Nat
    PROVE  /\ GetSection(d, hash) = -1 \/ GetSection(d, hash) \in 0 .. Len(d) - 1
           /\ NewSection(d, hash) = -1 \/ NewSection(d, hash) \in 0 .. Len(d) - 1
<1>1. Len(d) \in Nat /\ DOMAIN d = 1 .. Len(d)
  OBVIOUS
<1>2. GetSection(d, hash) = -1 \/ GetSection(d, hash) \in 0 .. Len(d) - 1
  BY <1>1, ProbeFinds DEF GetSection
<1>3. NewSection(d, hash) = -1 \/ NewSection(d, hash) \in 0 .. Len(d) - 1
  BY <1>1, ProbeFinds DEF NewSection
<1> QED
  BY <1>2, <1>3

LEMMA KeySearches ==
    ASSUME NEW t \in Seq(Key_Value), NEW hash \in Nat
    PROVE  /\ GetKey(t, hash) = -1 \/ (GetKey(t, hash) \in 0 .. Len(t) - 1 /\ t # <<>>)
           /\ NewKey(t, hash) = -1 \/ (NewKey(t, hash) \in 0 .. Len(t) - 1 /\ t # <<>>)
           /\ t # <<>> <=> Len(t) > 0
           /\ Len(t) \in Nat
<1>1. Len(t) \in Nat /\ DOMAIN t = 1 .. Len(t)
  OBVIOUS
<1>2. t # <<>> <=> Len(t) > 0
  BY <1>1, EmptySeq
<1>3. GetKey(t, hash) = -1 \/ (GetKey(t, hash) \in 0 .. Len(t) - 1 /\ t # <<>>)
  BY <1>1, <1>2, ProbeFinds DEF GetKey
<1>4. NewKey(t, hash) = -1 \/ (NewKey(t, hash) \in 0 .. Len(t) - 1 /\ t # <<>>)
  BY <1>1, <1>2, ProbeFinds DEF NewKey
<1> QED
  BY <1>1, <1>2, <1>3, <1>4

AnswerOK(a) ==
    /\ a.ok \in BOOLEAN /\ a.value \in Values \cup {Unset} \cup Bools
    /\ \A id \in DOMAIN a.loaded : id \in Nat /\ a.loaded[id] \in Values

LEMMA AnswerTypes ==
    /\ AnswerOK(NoAnswer)
    /\ \A ok \in BOOLEAN, value \in Values \cup {Unset} \cup Bools : AnswerOK(Returned(ok, value))
<1>1. DOMAIN <<>> = {}
  OBVIOUS
<1> QED
  BY <1>1 DEF AnswerOK, Returned, NoAnswer

\* What the overloads for the types answer, of a value that was found.
LEMMA AnswersOfValue ==
    ASSUME NEW got, got.ok => got.value \in Values
    PROVE  \A type \in Types : \A a \in Answers(got, type) : AnswerOK(a)
<1> SUFFICES ASSUME NEW type \in Types, NEW a \in Answers(got, type) PROVE AnswerOK(a)
  OBVIOUS
<1>1. CASE ~got.ok
  BY <1>1, AnswerTypes DEF Answers
<1>2. CASE got.ok
  <2>1. PICK v \in Converted(got.value, type) : a = Returned(TRUE, v)
    BY <1>2 DEF Answers
  <2>2. v \in Values \cup {Unset} \cup Bools
    BY <1>2 DEF Converted, Bools
  <2> HIDE DEF AnswerOK
  <2> QED
    BY <2>1, <2>2, AnswerTypes
<1> QED
  BY <1>1, <1>2

LEMMA ReadAnswers ==
    ASSUME data \in Seq(Key_Table), NEW s \in 0 .. Len(data) - 1, NEW hash \in Nat
    PROVE  /\ ReadSlot(s, hash).ok => ReadSlot(s, hash).value \in Values
           /\ \A type \in Types : \A a \in Answers(ReadSlot(s, hash), type) : AnswerOK(a)
<1> DEFINE t == data[s + 1].table
           slot == GetKey(t, hash)
           value == t[slot + 1].value
<1>1. data[s + 1] \in Key_Table /\ Len(data) > 0
  OBVIOUS
<1>2. t \in Seq(Key_Value)
  BY <1>1 DEF Key_Table
<1>3. slot = -1 \/ slot \in 0 .. Len(t) - 1
  BY <1>2, KeySearches
<1>4. slot # -1 => value \in Values
  <2> HIDE DEF t, slot
  <2>1. slot # -1 => t[slot + 1] \in Key_Value
    BY <1>2, <1>3
  <2> QED
    BY <2>1 DEF Key_Value
<1>6. ReadSlot(s, hash) = IF slot = -1 THEN NoAnswer ELSE Returned(TRUE, value)
  BY DEF ReadSlot
<1> HIDE DEF slot, value, t
<1>8. ReadSlot(s, hash).ok => ReadSlot(s, hash).value \in Values
  <2>1. NoAnswer.ok = FALSE /\ Returned(TRUE, value).value = value
    BY DEF NoAnswer, Returned
  <2> QED
    BY <2>1, <1>4, <1>6
<1> QED
  BY <1>8, AnswersOfValue

\* The list of a table: each id with the value of the first slot that has it.
LEMMA ListedValues ==
    ASSUME NEW t \in Seq(Key_Value)
    PROVE  /\ \A id \in DOMAIN Listed(t) :
                \E c \in DOMAIN t : /\ t[c].key_val = id /\ Listed(t)[id] = t[c].value
                                    /\ \A b \in DOMAIN t : t[b].key_val = id => c <= b
           /\ \A c \in DOMAIN t : t[c].key_val \in DOMAIN Listed(t)
           /\ AnswerOK(Loaded(Listed(t)))
<1>1. DOMAIN t = 1 .. Len(t) /\ Len(t) \in Nat
  OBVIOUS
<1>2. \A c \in DOMAIN t : t[c].key_val \in Nat /\ t[c].value \in Values
  <2>1. \A c \in DOMAIN t : t[c] \in Key_Value
    OBVIOUS
  <2> QED
    BY <2>1 DEF Key_Value
<1>3. DOMAIN Listed(t) = {t[i].key_val : i \in DOMAIN t}
  BY DEF Listed
<1>4. ASSUME NEW id \in DOMAIN Listed(t)
      PROVE  \E c \in DOMAIN t : /\ t[c].key_val = id /\ Listed(t)[id] = t[c].value
                                 /\ \A b \in DOMAIN t : t[b].key_val = id => c <= b
  <2> DEFINE S == {i \in DOMAIN t : t[i].key_val = id}
  <2>1. S \in SUBSET Nat /\ S # {}
    BY <1>1, <1>3
  <2>2. Min(S) \in S /\ \A b \in S : Min(S) <= b
    BY <2>1, MinOfSet
  <2>3. Listed(t)[id] = t[Min(S)].value
    BY <1>3 DEF Listed
  <2> QED
    BY <2>2, <2>3
<1>5. \A id \in DOMAIN Listed(t) : id \in Nat /\ Listed(t)[id] \in Values
  BY <1>2, <1>4
<1>6. AnswerOK(Loaded(Listed(t)))
  BY <1>5 DEF AnswerOK, Loaded
<1> QED
  BY <1>3, <1>4, <1>6

\* The calls leave all but the current section and their answer as it was, and keep both
\* in their types.
LEMMA CallStep ==
    ASSUME TypeOK, Call
    PROVE  /\ TypeOK'
           /\ status \in {"ready", "missing"}
           /\ UNCHANGED <<file, newline, status, query, next, found, data>>
<1>1. /\ data \in Seq(Key_Table) /\ Len(data) \in Nat /\ current \in Nat
      /\ status = "ready" => current < Len(data)
  BY DEF TypeOK
<1>2. \A n \in Sections \cup Keys : Hash[n] \in Nat
  BY HashAssumption
<1>3. status = "ready" => \A s \in Sections :
         GetSection(data, Hash[s]) = -1 \/ GetSection(data, Hash[s]) \in 0 .. Len(data) - 1
  BY <1>1, <1>2, SectionSearches
<1>4. ASSUME /\ UNCHANGED <<file, newline, status, query, next, found, data>>
             /\ current' \in Nat /\ (status = "ready" => current' < Len(data))
             /\ status \in {"ready", "missing"}
             /\ AnswerOK(answer')
      PROVE  TypeOK'
  BY <1>4 DEF TypeOK, AnswerOK
<1>5. AnswerOK(answer)
  BY DEF TypeOK, AnswerOK
<1>6. ASSUME NEW s \in Sections, SetSection(s) PROVE TypeOK'
  <2> DEFINE slot == IF status = "ready" THEN GetSection(data, Hash[s]) ELSE -1
  <2>1. /\ status \in {"ready", "missing"} /\ Called
        /\ current' = (IF slot = -1 THEN current ELSE slot)
        /\ answer' = Returned(slot # -1, Unset)
    BY <1>6 DEF SetSection, Opened
  <2>2. AnswerOK(answer')
    <3>1. (slot # -1) \in BOOLEAN
      OBVIOUS
    <3> QED
      BY <2>1, <3>1, AnswerTypes
  <2>3. current' \in Nat /\ (status = "ready" => current' < Len(data))
    BY <2>1, <1>1, <1>3
  <2> QED
    BY <2>1, <2>2, <2>3, <1>4 DEF Called
<1>7. ASSUME NEW s \in Sections, LoadAll(s) PROVE TypeOK'
  <2> DEFINE slot == GetSection(data, Hash[s])
             used == IF slot = -1 THEN current ELSE slot
  <2>1. /\ status = "ready" /\ Called /\ current' = used
        /\ answer' = Loaded(Listed(data[used + 1].table))
    BY <1>7 DEF LoadAll
  <2>2. used \in 0 .. Len(data) - 1
    BY <2>1, <1>1, <1>3
  <2> HIDE DEF used
  <2>3. data[used + 1].table \in Seq(Key_Value)
    <3>1. data[used + 1] \in Key_Table
      BY <2>2, <1>1
    <3> QED
      BY <3>1 DEF Key_Table
  <2> QED
    BY <2>1, <2>2, <2>3, <1>4, ListedValues DEF Called
<1>8. ASSUME NEW s \in Sections, LoadImages(s) PROVE TypeOK'
  <2> DEFINE slot == GetSection(data, Hash[s])
             ids == {i \in 0 .. NumLines(s) - 1 : ReadSlot(slot, i).ok}
  <2>1. /\ status = "ready" /\ Called
        /\ slot = -1 => UNCHANGED <<current, answer>>
        /\ slot # -1 => current' = slot /\ answer' = Loaded([i \in ids |-> ReadSlot(slot, i).value])
    BY <1>8 DEF LoadImages
  <2>2. slot # -1 => slot \in 0 .. Len(data) - 1
    BY <2>1, <1>3
  <2>3. current' \in Nat /\ current' < Len(data)
    BY <2>1, <2>2, <1>1
  <2>4. CASE slot = -1
    BY <2>1, <2>3, <2>4, <1>4, <1>5 DEF Called
  <2>5. CASE slot # -1
    <3>1. \A i \in ids : i \in Nat /\ ReadSlot(slot, i).ok
      <4>1. 0 .. NumLines(s) - 1 \subseteq Nat
        <5> DEFINE t == data[slot + 1].table
        <5>1. data[slot + 1] \in Key_Table
          BY <2>2, <2>5, <1>1
        <5>2. t \in Seq(Key_Value)
          BY <5>1 DEF Key_Table
        <5>3. NumLines(s) = Len(t)
          BY <2>5 DEF NumLines
        <5> QED
          BY <5>2, <5>3
      <4> QED
        BY <4>1
    <3>2. \A i \in ids : ReadSlot(slot, i).value \in Values
      BY <3>1, <2>2, <2>5, <1>1, ReadAnswers
    <3> HIDE DEF ids
    <3>3. AnswerOK(answer')
      <4> DEFINE f == [i \in ids |-> ReadSlot(slot, i).value]
      <4>1. DOMAIN f = ids /\ \A i \in ids : f[i] \in Values
        BY <3>2
      <4>2. answer' = Loaded(f)
        BY <2>1, <2>5
      <4> HIDE DEF f
      <4> QED
        BY <4>1, <4>2, <3>1 DEF AnswerOK, Loaded
    <3> QED
      BY <2>1, <2>3, <3>3, <1>4 DEF Called
  <2> QED
    BY <2>4, <2>5
<1>9. ASSUME NEW hash \in Nat, NEW type \in Types, status = "ready"
      PROVE  \A a \in Answers(ReadSlot(current, hash), type) : AnswerOK(a)
  <2>1. current \in 0 .. Len(data) - 1
    BY <1>1, <1>9
  <2> QED
    BY <2>1, <1>1, ReadAnswers
<1>13. ASSUME NEW type \in Types PROVE \A a \in Answers(NoAnswer, type) : AnswerOK(a)
  <2>1. NoAnswer.ok = FALSE
    BY DEF NoAnswer, Returned
  <2> QED
    BY <2>1, AnswersOfValue
<1>10. ASSUME NEW k \in Keys, NEW type \in Types, Read(k, type) \/ ReadInt(Hash[k], type)
       PROVE  TypeOK'
  <2>1. /\ status \in {"ready", "missing"} /\ Called /\ UNCHANGED current
        /\ \/ answer' \in Answers(NoAnswer, type)
           \/ status = "ready" /\ answer' \in Answers(ReadSlot(current, Hash[k]), type)
    BY <1>10 DEF Read, ReadInt, Opened
  <2>2. AnswerOK(answer')
    BY <2>1, <1>2, <1>9, <1>13
  <2> QED
    BY <2>1, <2>2, <1>1, <1>4 DEF Called
<1>11. ASSUME NEW k \in Keys, NEW type \in Types, NEW s \in Sections, SRead(k, s, type)
       PROVE  TypeOK'
  <2> DEFINE slot == GetSection(data, Hash[s])
  <2>1. /\ status \in {"ready", "missing"} /\ Called /\ UNCHANGED current
        /\ answer' \in Answers(IF status = "missing" \/ slot = -1 THEN NoAnswer
                               ELSE ReadSlot(slot, Hash[k]), type)
    BY <1>11 DEF SRead, Opened, Lookup
  <2>2. CASE status = "missing" \/ slot = -1
    BY <2>1, <2>2, <1>1, <1>4, <1>13 DEF Called
  <2>3. CASE ~(status = "missing" \/ slot = -1)
    <3>1. slot \in 0 .. Len(data) - 1
      BY <2>1, <2>3, <1>3
    <3>2. AnswerOK(answer')
      BY <2>1, <2>3, <3>1, <1>1, <1>2, ReadAnswers
    <3> QED
      BY <2>1, <3>2, <1>1, <1>4 DEF Called
  <2> QED
    BY <2>2, <2>3
<1>12. TypeOK'
  BY <1>6, <1>7, <1>8, <1>10, <1>11 DEF Call
<1>14. /\ status \in {"ready", "missing"}
       /\ UNCHANGED <<file, newline, status, query, next, found, data>>
  BY DEF Call, SetSection, LoadAll, LoadImages, Read, ReadInt, SRead, Opened, Called
<1> QED
  BY <1>12, <1>14

-----------------------------------------------------------------------------
(* The constructor: what the parser stores was counted. *)

LEMMA LineTypes ==
    ASSUME NEW line \in Line
    PROVE  /\ ~line.tight /\ line.kind = "section" =>
                line \in SectionLine /\ Hash[line.name] \in Nat /\ Hash[line.name] > 0
           /\ ~line.tight /\ line.kind = "key" =>
                line \in KeyLine /\ Hash[line.name] \in Nat /\ line.value \in Values
           /\ line \in SectionLine \cup KeyLine => ~line.tight /\ Hash[line.name] \in Nat
           /\ line \in KeyLine => line.value \in Values
<1>1. CASE line \in SectionLine
  <2>1. line.name \in Sections /\ line.kind = "section" /\ line.tight = FALSE
    BY <1>1 DEF SectionLine
  <2>2. Hash[line.name] \in Nat /\ Hash[line.name] > 0
    BY <2>1, HashAssumption
  <2>3. line \notin KeyLine
    BY <2>1 DEF KeyLine
  <2> QED
    BY <1>1, <2>1, <2>2, <2>3
<1>2. CASE line \in KeyLine
  <2>1. line.name \in Keys /\ line.kind = "key" /\ line.tight = FALSE /\ line.value \in Values
    BY <1>2 DEF KeyLine
  <2>2. Hash[line.name] \in Nat
    BY <2>1, HashAssumption
  <2> QED
    BY <1>2, <2>1, <2>2
<1>3. CASE line \in OtherLine
  BY <1>3 DEF OtherLine, SectionLine, KeyLine
<1>4. CASE line \in TightLine
  BY <1>4 DEF TightLine, SectionLine, KeyLine
<1> QED
  BY <1>1, <1>2, <1>3, <1>4 DEF Line

\* The sets that are counted are finite.
LEMMA UsedSlots ==
    ASSUME NEW t \in Seq(Key_Value)
    PROVE  /\ IsFiniteSet(Used(t)) /\ Cardinality(Used(t)) \in Nat
           /\ Used(t) = DOMAIN t => Cardinality(Used(t)) = Len(t)
<1>1. DOMAIN t = 1 .. Len(t) /\ Len(t) \in Nat
  OBVIOUS
<1>2. IsFiniteSet(1 .. Len(t)) /\ Cardinality(1 .. Len(t)) = Len(t)
  BY <1>1, FS_Interval
<1>3. Used(t) \in SUBSET (1 .. Len(t))
  BY <1>1 DEF Used
<1> QED
  BY <1>1, <1>2, <1>3, FS_Subset, FS_CardinalityType

LEMMA TakenSlots ==
    ASSUME NEW d \in Seq(Key_Table)
    PROVE  /\ IsFiniteSet(Taken(d)) /\ Cardinality(Taken(d)) \in Nat
           /\ Taken(d) = DOMAIN d => Cardinality(Taken(d)) = Len(d)
<1>1. DOMAIN d = 1 .. Len(d) /\ Len(d) \in Nat
  OBVIOUS
<1>2. IsFiniteSet(1 .. Len(d)) /\ Cardinality(1 .. Len(d)) = Len(d)
  BY <1>1, FS_Interval
<1>3. Taken(d) \in SUBSET (1 .. Len(d))
  BY <1>1 DEF Taken
<1> QED
  BY <1>1, <1>2, <1>3, FS_Subset, FS_CardinalityType

LEMMA CountedKeys ==
    ASSUME file \in Seq(Line), NEW s \in Nat, NEW m \in Int
    PROVE  /\ IsFiniteSet(KeysAt(file, s)) /\ Cardinality(KeysAt(file, s)) \in Nat
           /\ IsFiniteSet({j \in KeysAt(file, s) : j < m})
           /\ Cardinality({j \in KeysAt(file, s) : j < m}) \in Nat
<1>1. IsFiniteSet(1 .. Len(file))
  BY FS_Interval
<1>2. /\ KeysAt(file, s) \in SUBSET (1 .. Len(file))
      /\ {j \in KeysAt(file, s) : j < m} \in SUBSET (1 .. Len(file))
  BY DEF KeysAt
<1>3. IsFiniteSet(KeysAt(file, s)) /\ IsFiniteSet({j \in KeysAt(file, s) : j < m})
  BY <1>1, <1>2, FS_Subset
<1> QED
  BY <1>3, FS_CardinalityType

\* The keys before a line and up to it.
LEMMA OneMoreKey ==
    ASSUME file \in Seq(Line), NEW s \in Nat, NEW m \in DOMAIN file
    PROVE  Cardinality({j \in KeysAt(file, s) : j < m + 1}) =
             IF m \in KeysAt(file, s) THEN Cardinality({j \in KeysAt(file, s) : j < m}) + 1
             ELSE Cardinality({j \in KeysAt(file, s) : j < m})
<1> DEFINE K == KeysAt(file, s)
           before == {j \in K : j < m}
<1>1. K \subseteq Nat /\ m \in Nat
  BY DEF KeysAt
<1>2. IsFiniteSet(before) /\ m \notin before
  BY <1>1, CountedKeys
<1>3. {j \in K : j < m + 1} = IF m \in K THEN before \cup {m} ELSE before
  <2> HIDE DEF K
  <2>1. \A j \in K : j < m + 1 <=> j < m \/ j = m
    BY <1>1
  <2> QED
    BY <2>1
<1> HIDE DEF K, before
<1>4. Cardinality({j \in K : j < m + 1}) =
        IF m \in K THEN Cardinality(before) + 1 ELSE Cardinality(before)
  BY <1>2, <1>3, FS_AddElement
<1> QED
  BY <1>4 DEF K, before

\* The line after the last one read.
LEMMA OneBeyond ==
    ASSUME NEW n \in Nat, NEW i \in 1 .. n, NEW j \in i .. n
    PROVE  j + 1 \in i + 1 .. n + 1
OBVIOUS

\* What Open makes.
LEMMA OpenMakes ==
    ASSUME TypeOK, Open, status = "closed" => next = 1 /\ found = 0
    PROVE  /\ status' = "parsing" /\ current' = 0 /\ next = 1 /\ found = 0
           /\ UNCHANGED <<file, newline, next, found, answer>>
           /\ query' \in Seq(Nat) /\ Len(query') >= 1
           /\ data' \in Seq(Key_Table) /\ Len(data') = Len(query')
           /\ DOMAIN data' = 1 .. Len(data') /\ Len(data') \in Nat
           /\ data'[1] = [key_val |-> 0, table |-> EmptyTable(query'[1])]
           /\ \A i \in DOMAIN data' : i # 1 => data'[i] = NoTable
           /\ CountOK'
<1> DEFINE lines == IF newline THEN Append(file, file[Len(file)]) ELSE file
           counted == Query(lines)
           made == [i \in DOMAIN counted |-> NoTable]
<1>1. /\ file \in Seq(Line) /\ file # <<>> /\ newline \in BOOLEAN
      /\ Len(file) \in Nat /\ DOMAIN file = 1 .. Len(file)
  BY DEF TypeOK
<1>2. file[Len(file)] \in Line
  <2>1. Len(file) \in DOMAIN file
    BY <1>1, EmptySeq
  <2> QED
    BY <2>1, <1>1
<1>3. lines \in Seq(Line) /\ Len(lines) \in Nat
  BY <1>1, <1>2
<1>4. /\ query' = counted /\ status' = "parsing" /\ current' = 0 /\ next = 1 /\ found = 0
      /\ UNCHANGED <<file, newline, next, found, answer>>
      /\ data' = [made EXCEPT ![1].table = EmptyTable(counted[1])]
  BY DEF Open
<1> HIDE DEF lines
<1>5. /\ counted \in Seq(Nat) /\ Len(counted) = SectionAt(lines, Len(lines)) + 1
      /\ \A s \in 0 .. SectionAt(lines, Len(lines)) :
           counted[s + 1] = Cardinality(CountedAt(lines, s)) /\ IsFiniteSet(CountedAt(lines, s))
      /\ SectionAt(lines, Len(lines)) \in Nat
  BY <1>3, QueryCounts, SectionAtNat
<1> HIDE DEF counted
<1>6. Len(counted) \in Nat /\ Len(counted) >= 1 /\ DOMAIN counted = 1 .. Len(counted) /\ counted[1] \in Nat
  BY <1>5
<1>7. /\ EmptyTable(counted[1]) \in Seq(Key_Value)
      /\ NoTable = [key_val |-> 0, table |-> <<>>] /\ <<>> \in Seq(Key_Value)
  BY <1>6, NewTable DEF NoTable
<1>8. /\ made \in Seq(Key_Table) /\ Len(made) = Len(counted) /\ made[1] = NoTable
      /\ DOMAIN made = 1 .. Len(counted)
  <2>1. NoTable \in Key_Table
    BY <1>7 DEF Key_Table
  <2> QED
    BY <2>1, <1>6
<1>9. /\ data' \in Seq(Key_Table) /\ Len(data') = Len(counted)
      /\ DOMAIN data' = 1 .. Len(counted)
      /\ data'[1] = [key_val |-> 0, table |-> EmptyTable(counted[1])]
      /\ \A i \in 1 .. Len(counted) : i # 1 => data'[i] = NoTable
  <2> DEFINE first == [key_val |-> 0, table |-> EmptyTable(counted[1])]
  <2>1. first \in Key_Table
    BY <1>7 DEF Key_Table
  <2>2. data' = [made EXCEPT ![1] = first]
    <3>1. [made[1] EXCEPT !.table = EmptyTable(counted[1])] = first
      BY <1>7, <1>8
    <3>2. data' = [made EXCEPT ![1] = [made[1] EXCEPT !.table = EmptyTable(counted[1])]]
      BY <1>4
    <3> HIDE DEF made, first
    <3> QED
      BY <3>1, <3>2
  <2>3. \A i \in 1 .. Len(counted) : i # 1 => data'[i] = NoTable
    BY <2>2, <1>8
  <2> HIDE DEF made, first
  <2>4. data' \in Seq(Key_Table) /\ Len(data') = Len(counted) /\ DOMAIN data' = 1 .. Len(counted)
    BY <2>1, <2>2, <1>6, <1>8
  <2>5. data'[1] = first
    BY <2>2, <1>6, <1>8
  <2> QED
    BY <2>3, <2>4, <2>5 DEF first
<1>10. /\ SectionAt(file, Len(file)) \in Nat
       /\ SectionAt(file, Len(file)) <= SectionAt(lines, Len(lines))
       /\ \A s \in Nat : CountedAt(file, s) \subseteq CountedAt(lines, s)
       /\ ~newline => lines = file
  <2>1. SectionAt(file, Len(file)) \in Nat
    BY <1>1, SectionAtNat
  <2>2. CASE newline
    BY <2>1, <2>2, <1>1, <1>2, CountedAgain DEF lines
  <2>3. CASE ~newline
    BY <2>1, <2>3, <1>5 DEF lines
  <2> QED
    BY <2>2, <2>3
<1>11. ASSUME NEW s \in 0 .. SectionAt(file, Len(file))
       PROVE  /\ Cardinality(KeysAt(file, s)) <= counted[s + 1]
              /\ (~newline /\ NoIndentedLine) => counted[s + 1] = Cardinality(KeysAt(file, s))
  <2>1. s \in 0 .. SectionAt(lines, Len(lines)) /\ s \in Nat
    BY <1>5, <1>10
  <2>2. /\ KeysAt(file, s) \in SUBSET CountedAt(file, s)
        /\ NoIndentedLine => KeysAt(file, s) = CountedAt(file, s)
    BY DEF KeysAt, CountedAt, Counted, NoIndentedLine
  <2>3. IsFiniteSet(CountedAt(lines, s)) /\ KeysAt(file, s) \in SUBSET CountedAt(lines, s)
    BY <2>1, <2>2, <1>5, <1>10
  <2> QED
    BY <2>1, <2>2, <2>3, <1>5, <1>10, FS_Subset
<1>12. CountOK'
  <2>1. NoIndentedLine' <=> NoIndentedLine
    BY <1>4 DEF NoIndentedLine
  <2> QED
    BY <2>1, <1>4, <1>5, <1>9, <1>10, <1>11 DEF CountOK
<1> QED
  BY <1>4, <1>5, <1>6, <1>9, <1>12

\* Where the parser is.
LEMMA Parsing ==
    ASSUME FullInv, status = "parsing"
    PROVE  /\ file \in Seq(Line) /\ Len(file) \in Nat /\ DOMAIN file = 1 .. Len(file)
           /\ next \in 1 .. Len(file) + 1 /\ found \in Nat
           /\ query \in Seq(Nat) /\ Len(query) \in Nat /\ DOMAIN query = 1 .. Len(query)
           /\ data \in Seq(Key_Table) /\ Len(data) = Len(query) /\ DOMAIN data = 1 .. Len(data)
           /\ current \in 0 .. Len(data) - 1
           /\ data[current + 1] \in Key_Table /\ data[current + 1].table \in Seq(Key_Value)
           /\ CountOK /\ ParseOK
           /\ SectionAt(file, next - 1) \in Nat /\ SectionAt(file, Len(file)) \in Nat
           /\ next <= Len(file) =>
                /\ next \in DOMAIN file /\ file[next] \in Line
                /\ SectionAt(file, next) \in Nat
                /\ SectionAt(file, next) <= SectionAt(file, Len(file))
                /\ SectionAt(file, next) = IF file[next].kind = "section"
                                           THEN SectionAt(file, next - 1) + 1
                                           ELSE SectionAt(file, next - 1)
           /\ found <= SectionAt(file, Len(file))
<1>1. /\ file \in Seq(Line) /\ Len(file) \in Nat /\ DOMAIN file = 1 .. Len(file)
      /\ next \in 1 .. Len(file) + 1 /\ found \in Nat
      /\ query \in Seq(Nat) /\ Len(query) \in Nat /\ DOMAIN query = 1 .. Len(query)
      /\ data \in Seq(Key_Table) /\ DOMAIN data = 1 .. Len(data) /\ Len(data) \in Nat
      /\ current \in 0 .. Len(data) - 1
  BY DEF FullInv, TypeOK
<1>2. CountOK /\ ParseOK /\ Len(data) = Len(query)
  BY DEF FullInv, Made, CountOK
<1>3. data[current + 1] \in Key_Table
  BY <1>1
<1>4. data[current + 1].table \in Seq(Key_Value)
  BY <1>3 DEF Key_Table
<1>5. next - 1 \in Nat /\ next \in Nat
  BY <1>1
<1>6. SectionAt(file, next - 1) \in Nat /\ SectionAt(file, Len(file)) \in Nat /\ SectionAt(file, next) \in Nat
  BY <1>1, <1>5, SectionAtNat
<1>7. next <= Len(file) =>
        /\ SectionAt(file, next) <= SectionAt(file, Len(file))
        /\ SectionAt(file, next) = IF file[next].kind = "section" THEN SectionAt(file, next - 1) + 1
                                   ELSE SectionAt(file, next - 1)
  BY <1>1, <1>5, SectionAtNext, SectionAtGrows
<1>8. SectionAt(file, next - 1) <= SectionAt(file, Len(file))
  BY <1>1, <1>5, SectionAtGrows
<1>9. found <= SectionAt(file, Len(file))
  BY <1>1, <1>2, <1>6, <1>8 DEF ParseOK
<1> QED
  BY <1>1, <1>2, <1>3, <1>4, <1>6, <1>7, <1>9

\* The lines that one turn of the parser takes, and what it makes of them: in a file
\* whose lines all have a space the next line alone, as it is written.
LEMMA LinesTaken ==
    ASSUME FullInv, status = "parsing", next <= Len(file)
    PROVE  /\ LastRead \in next .. Len(file)
           /\ NoTightLine => LastRead = next
           /\ SectionHashes \subseteq Nat /\ KeyHashes \subseteq Nat /\ Rests(ValLine) \subseteq Values
           /\ NoTightLine /\ file[next].kind = "section" => SectionHashes = {HashOf(next)}
           /\ NoTightLine /\ file[next].kind = "key" =>
                KeyHashes = {HashOf(next)} /\ Rests(ValLine) = {file[next].value}
<1> DEFINE S == {j \in next .. Len(file) : ~file[j].tight} \cup {Len(file)}
<1>1. /\ next \in 1 .. Len(file) /\ Len(file) \in Nat /\ DOMAIN file = 1 .. Len(file)
      /\ \A j \in 1 .. Len(file) : file[j] \in Line
  BY Parsing
<1>2. S \in SUBSET Nat /\ S # {} /\ S \subseteq next .. Len(file)
  BY <1>1
<1>3. LastRead = Min(S)
  BY DEF LastRead
<1>4. NoTightLine => next \in S /\ ~file[next].tight
  <2>1. NoTightLine => ~file[next].tight
    BY <1>1 DEF NoTightLine
  <2>2. next \in next .. Len(file)
    BY <1>1
  <2> QED
    BY <2>1, <2>2
<1> HIDE DEF S
<1>5. LastRead \in S /\ \A y \in S : LastRead <= y
  BY <1>2, <1>3, MinOfSet
<1>6. LastRead \in next .. Len(file)
  BY <1>2, <1>5
<1>7. NoTightLine => LastRead = next
  BY <1>1, <1>4, <1>5, <1>6
<1>8. ValLine \in 0 .. Len(file) /\ (NoTightLine => ValLine = next)
  BY <1>1, <1>4, <1>6, <1>7 DEF ValLine
<1>9. StrayHashes \subseteq Nat
  BY HashAssumption
<1>10. \A j \in 1 .. Len(file) :
         /\ file[j] \in SectionLine \cup KeyLine => Hash[file[j].name] \in Nat
         /\ file[j] \in KeyLine => file[j].value \in Values
         /\ ~file[j].tight /\ file[j].kind = "section" => file[j] \in SectionLine
         /\ ~file[j].tight /\ file[j].kind = "key" => file[j] \in KeyLine
  BY <1>1, LineTypes
<1>11. SectionHashes \subseteq Nat
  <2>1. CASE ValLine # 0 /\ file[ValLine] \in SectionLine
    <3>1. ValLine \in 1 .. Len(file)
      BY <2>1, <1>1, <1>8
    <3> QED
      BY <2>1, <3>1, <1>10 DEF SectionHashes
  <2> QED
    BY <2>1, <1>9 DEF SectionHashes
<1>12. KeyHashes \subseteq Nat
  BY <1>1, <1>9, <1>10 DEF KeyHashes
<1>13. Rests(ValLine) \subseteq Values
  <2>1. CASE ValLine = 0
    BY <2>1 DEF Rests, Values
  <2>2. CASE ValLine # 0
    <3>1. ValLine \in 1 .. Len(file)
      BY <2>2, <1>1, <1>8
    <3> QED
      BY <2>2, <3>1, <1>10 DEF Rests
  <2> QED
    BY <2>1, <2>2
<1>14. ASSUME NoTightLine, file[next].kind = "section" PROVE SectionHashes = {HashOf(next)}
  <2>1. ValLine = next /\ next # 0 /\ file[next] \in SectionLine
    BY <1>1, <1>4, <1>8, <1>10, <1>14
  <2> QED
    BY <2>1 DEF SectionHashes, HashOf
<1>15. ASSUME NoTightLine, file[next].kind = "key"
       PROVE  KeyHashes = {HashOf(next)} /\ Rests(ValLine) = {file[next].value}
  <2>1. ValLine = next /\ next # 0 /\ file[next] \in KeyLine
    BY <1>1, <1>4, <1>8, <1>10, <1>15
  <2> QED
    BY <2>1 DEF KeyHashes, Rests, HashOf
<1> QED
  BY <1>6, <1>7, <1>11, <1>12, <1>13, <1>14, <1>15

\* What a header makes: there is a slot for its table.
LEMMA SectionMakes ==
    ASSUME FullInv, ParseSection
    PROVE  \E hash \in Nat :
           LET slot == NewSection(data, hash) IN
           /\ status = "parsing" /\ next \in DOMAIN file /\ file[next].kind = "section"
           /\ next' \in next + 1 .. Len(file) + 1
           /\ NoTightLine => hash = HashOf(next) /\ next' = next + 1
           /\ SectionAt(file, next) = SectionAt(file, next - 1) + 1
           /\ slot \in 0 .. Len(data) - 1 /\ data[slot + 1].table = <<>>
           /\ query[found + 2] \in Nat
           /\ data' = [data EXCEPT ![slot + 1] =
                          [key_val |-> hash, table |-> EmptyTable(query[found + 2])]]
           /\ data' \in Seq(Key_Table) /\ Len(data') = Len(data) /\ DOMAIN data' = DOMAIN data
           /\ current' = slot /\ found' = found + 1
           /\ UNCHANGED <<file, newline, status, query, answer>>
           /\ \E d \in 0 .. Len(data) - 1 :
                /\ slot + 1 = Place(Len(data), hash, d)
                /\ \A e \in 0 .. d - 1 : Place(Len(data), hash, e) \in Taken(data)
<1>0. PICK hash \in SectionHashes :
        LET slot == NewSection(data, hash) IN
        IF slot = -1
        THEN status' = "full" /\ UNCHANGED <<found, data, current>>
        ELSE /\ found' = found + 1
             /\ data' = [data EXCEPT ![slot + 1] =
                             [key_val |-> hash, table |-> EmptyTable(query[found + 2])]]
             /\ current' = slot
             /\ UNCHANGED status
  BY DEF ParseSection
<1> DEFINE slot == NewSection(data, hash)
           free == {i \in DOMAIN data : data[i].table = <<>>}
           n == Len(data)
<1>1. /\ status = "parsing" /\ next <= Len(file) /\ file[next].kind = "section"
      /\ next' = LastRead + 1 /\ UNCHANGED <<file, newline, query, answer>>
      /\ slot = -1 => status' = "full" /\ UNCHANGED <<found, data, current>>
      /\ slot # -1 => /\ found' = found + 1
                      /\ data' = [data EXCEPT ![slot + 1] =
                                    [key_val |-> hash, table |-> EmptyTable(query[found + 2])]]
                      /\ current' = slot
                      /\ UNCHANGED status
  BY <1>0 DEF ParseSection
<1>2. /\ next \in DOMAIN file /\ file[next] \in Line
      /\ SectionAt(file, next) = SectionAt(file, next - 1) + 1
      /\ SectionAt(file, next) <= SectionAt(file, Len(file))
      /\ SectionAt(file, next - 1) \in Nat /\ SectionAt(file, Len(file)) \in Nat
      /\ data \in Seq(Key_Table) /\ n = Len(query) /\ DOMAIN data = 1 .. n /\ n \in Nat
      /\ query \in Seq(Nat) /\ found \in Nat
      /\ current \in 0 .. n - 1
  BY <1>1, Parsing
<1>3. /\ hash \in Nat /\ LastRead \in next .. Len(file)
      /\ NoTightLine => hash = HashOf(next) /\ LastRead = next
  <2>1. /\ LastRead \in next .. Len(file) /\ (NoTightLine => LastRead = next)
        /\ SectionHashes \subseteq Nat
        /\ NoTightLine => SectionHashes = {HashOf(next)}
    BY <1>1, LinesTaken
  <2> QED
    BY <2>1, <1>0
<1>4. /\ SectionAt(file, Len(file)) + 1 <= n
      /\ found <= SectionAt(file, next - 1)
      /\ Cardinality(Taken(data)) <= found + 1
  BY <1>1, <1>2, Parsing DEF CountOK, ParseOK
<1>5. n > 0 /\ free \in SUBSET (1 .. n) /\ slot = Probe(n, hash, free)
  BY <1>2 DEF NewSection
<1>6. slot # -1
  <2>1. SUFFICES ASSUME slot = -1 PROVE FALSE
    OBVIOUS
  <2>2. free = {}
    <3> HIDE DEF free, n
    <3> QED
      BY <2>1, <1>2, <1>3, <1>5, ProbeFails
  <2>3. Taken(data) = DOMAIN data
    BY <2>2 DEF Taken
  <2>4. Cardinality(Taken(data)) = n
    BY <2>3, <1>2, TakenSlots
  <2> QED
    BY <2>4, <1>2, <1>4
<1>7. /\ slot \in 0 .. n - 1 /\ slot + 1 \in free
      /\ \E d \in 0 .. n - 1 :
           /\ slot + 1 = Place(n, hash, d)
           /\ \A e \in 0 .. d - 1 : Place(n, hash, e) \notin free
  <2> HIDE DEF free, n, slot
  <2>1. Probe(n, hash, free) # -1
    BY <1>5, <1>6
  <2>2. /\ Probe(n, hash, free) \in 0 .. n - 1
        /\ Probe(n, hash, free) + 1 \in free
        /\ \E d \in 0 .. n - 1 :
             /\ Probe(n, hash, free) + 1 = Place(n, hash, d)
             /\ \A e \in 0 .. d - 1 : Place(n, hash, e) \notin free
    BY <2>1, <1>2, <1>3, <1>5, ProbeFinds
  <2> QED
    BY <2>2, <1>5
<1>8. ASSUME NEW d \in 0 .. n - 1, NEW e \in 0 .. d - 1, Place(n, hash, e) \notin free
      PROVE  Place(n, hash, e) \in Taken(data)
  <2>1. Place(n, hash, e) \in 1 .. n
    <3> HIDE DEF n
    <3>1. e \in 0 .. n - 1
      BY <1>2
    <3> QED
      BY <3>1, <1>2, <1>3, <1>5, PlaceInTable
  <2> QED
    BY <2>1, <1>2, <1>8 DEF Taken
<1>9. query[found + 2] \in Nat
  <2>1. found + 2 \in 1 .. Len(query)
    BY <1>2, <1>4
  <2> QED
    BY <2>1, <1>2
<1>10. [key_val |-> hash, table |-> EmptyTable(query[found + 2])] \in Key_Table
  BY <1>3, <1>9, NewTable DEF Key_Table
<1>11. data' \in Seq(Key_Table) /\ Len(data') = Len(data) /\ DOMAIN data' = DOMAIN data
  <2> DEFINE made == [key_val |-> hash, table |-> EmptyTable(query[found + 2])]
  <2>1. data' = [data EXCEPT ![slot + 1] = made] /\ made \in Key_Table
    BY <1>1, <1>6, <1>10
  <2>2. slot + 1 \in DOMAIN data
    BY <1>2, <1>7
  <2> HIDE DEF made, slot
  <2> QED
    BY <2>1, <2>2, <1>2
<1>12. \E d \in 0 .. n - 1 :
         /\ slot + 1 = Place(n, hash, d)
         /\ \A e \in 0 .. d - 1 : Place(n, hash, e) \in Taken(data)
  <2>1. PICK d \in 0 .. n - 1 : /\ slot + 1 = Place(n, hash, d)
                                /\ \A e \in 0 .. d - 1 : Place(n, hash, e) \notin free
    BY <1>7
  <2> HIDE DEF slot, free
  <2> QED
    BY <2>1, <1>8
<1>13. data[slot + 1].table = <<>>
  BY <1>7
<1>14. next' \in next + 1 .. Len(file) + 1 /\ (NoTightLine => next' = next + 1)
  BY <1>1, <1>2, <1>3, OneBeyond
<1> QED
  BY <1>1, <1>2, <1>3, <1>6, <1>7, <1>9, <1>11, <1>12, <1>13, <1>14

\* In a file whose lines all have a space the hash is the name's and one line is taken.
LEMMA SectionAsWritten ==
    ASSUME FullInv, ParseSection, NoTightLine
    PROVE  LET slot == NewSection(data, HashOf(next)) IN
           /\ status = "parsing" /\ next \in DOMAIN file /\ file[next].kind = "section"
           /\ SectionAt(file, next) = SectionAt(file, next - 1) + 1
           /\ slot \in 0 .. Len(data) - 1 /\ data[slot + 1].table = <<>>
           /\ query[found + 2] \in Nat
           /\ data' = [data EXCEPT ![slot + 1] =
                          [key_val |-> HashOf(next), table |-> EmptyTable(query[found + 2])]]
           /\ data' \in Seq(Key_Table) /\ Len(data') = Len(data) /\ DOMAIN data' = DOMAIN data
           /\ current' = slot /\ found' = found + 1 /\ next' = next + 1
           /\ UNCHANGED <<file, newline, status, query, answer>>
           /\ \E d \in 0 .. Len(data) - 1 :
                /\ slot + 1 = Place(Len(data), HashOf(next), d)
                /\ \A e \in 0 .. d - 1 : Place(Len(data), HashOf(next), e) \in Taken(data)
BY SectionMakes, Zenon

\* What a key makes: in a file whose lines all have a space there is a slot for it.
LEMMA KeyMakes ==
    ASSUME FullInv, ParseKey
    PROVE  \E entry \in Key_Value :
           LET t == data[current + 1].table
               slot == NewKey(t, entry.key_val)
               filled == [t EXCEPT ![slot + 1] = entry] IN
           /\ status = "parsing" /\ next \in DOMAIN file /\ file[next].kind = "key"
           /\ next' \in next + 1 .. Len(file) + 1
           /\ NoTightLine => entry = Entry(next) /\ next' = next + 1
           /\ SectionAt(file, next) = SectionAt(file, next - 1)
           /\ UNCHANGED <<file, newline, query, found, current, answer>>
           /\ t \in Seq(Key_Value)
           /\ NoTightLine => slot # -1
           /\ slot = -1 => status' = "full" /\ UNCHANGED data
           /\ slot # -1 =>
                /\ UNCHANGED status
                /\ slot \in 0 .. Len(t) - 1 /\ t[slot + 1].value = Empty
                /\ filled \in Seq(Key_Value) /\ Len(filled) = Len(t) /\ DOMAIN filled = DOMAIN t
                /\ data' = [data EXCEPT ![current + 1] =
                               [key_val |-> data[current + 1].key_val, table |-> filled]]
                /\ data' \in Seq(Key_Table) /\ Len(data') = Len(data) /\ DOMAIN data' = DOMAIN data
                /\ \E d \in 0 .. Len(t) - 1 :
                     /\ slot + 1 = Place(Len(t), entry.key_val, d)
                     /\ \A e \in 0 .. d - 1 : Place(Len(t), entry.key_val, e) \in Used(t)
<1>0. PICK hash \in KeyHashes, value \in Rests(ValLine) :
        LET slot == NewKey(data[current + 1].table, hash) IN
        IF slot = -1
        THEN status' = "full" /\ UNCHANGED data
        ELSE /\ data' = [data EXCEPT ![current + 1].table[slot + 1] =
                             [key_val |-> hash, value |-> value]]
             /\ UNCHANGED status
  BY DEF ParseKey
<1> DEFINE entry == [key_val |-> hash, value |-> value]
           t == data[current + 1].table
           slot == NewKey(t, hash)
           free == {c \in DOMAIN t : t[c].value = Empty}
           n == Len(t)
           filled == [t EXCEPT ![slot + 1] = entry]
<1>1. /\ status = "parsing" /\ next <= Len(file) /\ file[next].kind = "key"
      /\ next' = LastRead + 1 /\ UNCHANGED <<file, newline, query, found, current, answer>>
      /\ slot = -1 => status' = "full" /\ UNCHANGED data
      /\ slot # -1 => /\ data' = [data EXCEPT ![current + 1].table[slot + 1] = entry]
                      /\ UNCHANGED status
  BY <1>0 DEF ParseKey
<1>2. /\ next \in DOMAIN file /\ file[next] \in Line /\ file \in Seq(Line)
      /\ SectionAt(file, next) = SectionAt(file, next - 1)
      /\ SectionAt(file, next - 1) \in Nat /\ SectionAt(file, Len(file)) \in Nat
      /\ data \in Seq(Key_Table) /\ DOMAIN data = 1 .. Len(data)
      /\ found \in Nat /\ found <= SectionAt(file, Len(file))
      /\ current \in 0 .. Len(data) - 1
      /\ data[current + 1] \in Key_Table /\ t \in Seq(Key_Value)
      /\ next \in Nat
      /\ CountOK /\ ParseOK
  BY <1>1, Parsing
<1>3. /\ hash \in Nat /\ value \in Values /\ LastRead \in next .. Len(file)
      /\ NoTightLine => hash = HashOf(next) /\ value = file[next].value /\ LastRead = next
  <2>1. /\ LastRead \in next .. Len(file) /\ (NoTightLine => LastRead = next)
        /\ KeyHashes \subseteq Nat /\ Rests(ValLine) \subseteq Values
        /\ NoTightLine => KeyHashes = {HashOf(next)} /\ Rests(ValLine) = {file[next].value}
    BY <1>1, LinesTaken
  <2> QED
    BY <2>1, <1>0
<1>4. entry \in Key_Value /\ entry.key_val = hash /\ (NoTightLine => entry = Entry(next))
  BY <1>3 DEF Entry, Key_Value
<1>11. next' \in next + 1 .. Len(file) + 1 /\ (NoTightLine => next' = next + 1)
  BY <1>1, <1>2, <1>3, OneBeyond
<1>5. n \in Nat /\ DOMAIN t = 1 .. n /\ (t # <<>> <=> n > 0)
  BY <1>2, EmptySeq
<1>6. free \in SUBSET (1 .. n) /\ slot = IF t = <<>> THEN -1 ELSE Probe(n, hash, free)
  BY <1>5 DEF NewKey
<1>7. ASSUME NoTightLine PROVE slot # -1
  <2>1. SUFFICES ASSUME slot = -1 PROVE FALSE
    OBVIOUS
  <2> DEFINE K == KeysAt(file, found)
             before == {j \in K : j < next}
  <2>2. /\ found = SectionAt(file, next - 1) /\ Cardinality(Used(t)) <= Cardinality(before)
        /\ n = query[found + 1]
    BY <1>2, <1>7 DEF ParseOK
  <2>3. Cardinality(K) <= n
    <3>1. found \in 0 .. SectionAt(file, Len(file))
      BY <1>2
    <3> QED
      BY <3>1, <2>2, <1>2 DEF CountOK
  <2>4. next \in K
    BY <2>2, <1>1, <1>2 DEF KeysAt
  <2>5. /\ IsFiniteSet(K) /\ Cardinality(K) \in Nat /\ Cardinality(before) \in Nat
        /\ IsFiniteSet(before)
    <3>1. next \in Int
      BY <1>2
    <3> QED
      BY <3>1, <1>2, CountedKeys, Zenon
  <2>6. Cardinality(before) < Cardinality(K)
    <3>1. before \in SUBSET K /\ before # K
      BY <2>4, <1>2
    <3> QED
      BY <3>1, <2>5, FS_Subset
  <2>7. n > 0
    BY <2>3, <2>5, <2>6, <1>5
  <2>8. free = {}
    <3>1. Probe(n, hash, free) = -1
      BY <2>1, <2>7, <1>5, <1>6
    <3> HIDE DEF free, n
    <3> QED
      BY <3>1, <2>7, <1>3, <1>5, <1>6, ProbeFails
  <2>9. Used(t) = DOMAIN t
    BY <2>8 DEF Used
  <2>10. Cardinality(Used(t)) = n
    BY <2>9, <1>2, UsedSlots
  <2> HIDE DEF K, before, n
  <2> QED
    BY <2>2, <2>3, <2>5, <2>6, <2>10, <1>5
<1>8. ASSUME slot # -1
      PROVE  /\ slot \in 0 .. n - 1 /\ slot + 1 \in free
             /\ \E d \in 0 .. n - 1 :
                  /\ slot + 1 = Place(n, hash, d)
                  /\ \A e \in 0 .. d - 1 : Place(n, hash, e) \in Used(t)
  <2>1. n > 0 /\ slot = Probe(n, hash, free) /\ Probe(n, hash, free) # -1
    BY <1>5, <1>6, <1>8
  <2>2. \A c \in 1 .. n : c \notin free => c \in Used(t)
    BY <1>5 DEF Used
  <2> HIDE DEF free, n, slot, t
  <2>3. /\ Probe(n, hash, free) \in 0 .. n - 1
        /\ Probe(n, hash, free) + 1 \in free
        /\ \E d \in 0 .. n - 1 :
             /\ Probe(n, hash, free) + 1 = Place(n, hash, d)
             /\ \A e \in 0 .. d - 1 : Place(n, hash, e) \notin free
    BY <2>1, <1>3, <1>5, <1>6, ProbeFinds
  <2>4. PICK d \in 0 .. n - 1 : /\ slot + 1 = Place(n, hash, d)
                                /\ \A e \in 0 .. d - 1 : Place(n, hash, e) \notin free
    BY <2>1, <2>3
  <2>5. ASSUME NEW e \in 0 .. d - 1 PROVE Place(n, hash, e) \in Used(t)
    <3>1. e \in 0 .. n - 1
      BY <1>5
    <3>2. Place(n, hash, e) \in 1 .. n
      BY <3>1, <2>1, <1>3, <1>5, PlaceInTable
    <3> QED
      BY <3>2, <2>2, <2>4
  <2> QED
    BY <2>1, <2>3, <2>4, <2>5
<1>9. ASSUME slot # -1
      PROVE  /\ filled \in Seq(Key_Value) /\ Len(filled) = n /\ DOMAIN filled = DOMAIN t
             /\ data' = [data EXCEPT ![current + 1] =
                            [key_val |-> data[current + 1].key_val, table |-> filled]]
             /\ data' \in Seq(Key_Table) /\ Len(data') = Len(data) /\ DOMAIN data' = DOMAIN data
  <2>1. filled \in Seq(Key_Value) /\ Len(filled) = n /\ DOMAIN filled = DOMAIN t
    <3>1. slot + 1 \in 1 .. n
      BY <1>5, <1>8, <1>9
    <3> HIDE DEF t, slot
    <3> QED
      BY <3>1, <1>2, <1>4
  <2> DEFINE old == data[current + 1]
             made == [key_val |-> old.key_val, table |-> filled]
  <2>2. made \in Key_Table
    BY <2>1, <1>2 DEF Key_Table
  <2>3. data' = [data EXCEPT ![current + 1] = made]
    <3>1. data' = [data EXCEPT ![current + 1] = [old EXCEPT !.table = filled]]
      BY <1>1, <1>9
    <3>2. [old EXCEPT !.table = filled] = made
      <4>1. old \in [key_val : Nat, table : Seq(Key_Value)]
        BY <1>2 DEF Key_Table
      <4> HIDE DEF old, filled
      <4> QED
        BY <4>1
    <3> QED
      BY <3>1, <3>2
  <2>4. data' \in Seq(Key_Table) /\ Len(data') = Len(data) /\ DOMAIN data' = DOMAIN data
    <3>1. current + 1 \in DOMAIN data
      BY <1>2
    <3> HIDE DEF made
    <3> QED
      BY <3>1, <2>2, <2>3, <1>2
  <2> QED
    BY <2>1, <2>3, <2>4
<1>10. slot # -1 => t[slot + 1].value = Empty
  BY <1>8
<1> HIDE DEF entry
<1> QED
  BY <1>1, <1>2, <1>4, <1>7, <1>8, <1>9, <1>10, <1>11

LEMMA KeyAsWritten ==
    ASSUME FullInv, ParseKey, NoTightLine
    PROVE  LET t == data[current + 1].table
               slot == NewKey(t, HashOf(next))
               filled == [t EXCEPT ![slot + 1] = Entry(next)] IN
           /\ status = "parsing" /\ next \in DOMAIN file /\ file[next].kind = "key"
           /\ next' = next + 1 /\ UNCHANGED <<file, newline, query, found, current, answer>>
           /\ t \in Seq(Key_Value)
           /\ slot # -1 /\ UNCHANGED status
           /\ slot \in 0 .. Len(t) - 1 /\ t[slot + 1].value = Empty
           /\ filled \in Seq(Key_Value) /\ Len(filled) = Len(t) /\ DOMAIN filled = DOMAIN t
           /\ data' = [data EXCEPT ![current + 1] =
                          [key_val |-> data[current + 1].key_val, table |-> filled]]
           /\ Len(data') = Len(data) /\ DOMAIN data' = DOMAIN data
           /\ \E d \in 0 .. Len(t) - 1 :
                /\ slot + 1 = Place(Len(t), HashOf(next), d)
                /\ \A e \in 0 .. d - 1 : Place(Len(t), HashOf(next), e) \in Used(t)
<1>1. Entry(next).key_val = HashOf(next)
  BY DEF Entry
<1> QED
  BY <1>1, KeyMakes, Zenon

\* FullInv holds when the file is opened, and every step keeps it.
LEMMA FullInit == Init => FullInv
<1> SUFFICES ASSUME Init PROVE FullInv
  OBVIOUS
<1>2. PICK n \in 1 .. MaxLines : file \in [1 .. n -> Line]
  <2>1. file \in UNION {[1 .. n -> Line] : n \in 1 .. MaxLines}
    BY DEF Init
  <2>2. PICK S \in {[1 .. n -> Line] : n \in 1 .. MaxLines} : file \in S
    BY <2>1
  <2> QED
    BY <2>2
<1>3. n \in Nat /\ n > 0
  BY BoundsAssumption
<1>4. file \in Seq(Line) /\ Len(file) = n
  BY <1>2, <1>3
<1>5. file # <<>>
  <2>1. Len(<<>>) = 0
    OBVIOUS
  <2>2. Len(file) # 0
    BY <1>3, <1>4
  <2> QED
    BY <2>1, <2>2
<1>6. AnswerOK(answer)
  BY AnswerTypes DEF Init
<1>7. <<>> \in Seq(Nat) /\ <<>> \in Seq(Key_Table)
  OBVIOUS
<1>8. /\ newline \in BOOLEAN /\ status = "closed" /\ query = <<>> /\ next = 1 /\ found = 0
      /\ data = <<>> /\ current = 0
  BY DEF Init
<1>9. next \in 1 .. Len(file) + 1 /\ found \in Nat /\ current \in Nat
  BY <1>3, <1>4, <1>8
<1> HIDE DEF AnswerOK
<1>10. TypeOK
  <2>1. /\ answer.ok \in BOOLEAN /\ answer.value \in Values \cup {Unset} \cup Bools
        /\ \A id \in DOMAIN answer.loaded : id \in Nat /\ answer.loaded[id] \in Values
    BY <1>6 DEF AnswerOK
  <2> QED
    BY <1>4, <1>5, <1>7, <1>8, <1>9, <2>1 DEF TypeOK
<1>11. ~Made /\ status # "full" /\ status # "parsing"
  BY <1>8 DEF Made
<1> QED
  BY <1>8, <1>10, <1>11 DEF FullInv, NeverFull

LEMMA FullOpen ==
    ASSUME FullInv, Open
    PROVE  FullInv'
<1>1. /\ status' = "parsing" /\ current' = 0 /\ next = 1 /\ found = 0
      /\ UNCHANGED <<file, newline, next, found, answer>>
      /\ query' \in Seq(Nat) /\ Len(query') >= 1
      /\ data' \in Seq(Key_Table) /\ Len(data') = Len(query')
      /\ DOMAIN data' = 1 .. Len(data') /\ Len(data') \in Nat
      /\ data'[1] = [key_val |-> 0, table |-> EmptyTable(query'[1])]
      /\ \A i \in DOMAIN data' : i # 1 => data'[i] = NoTable
      /\ CountOK'
  BY OpenMakes DEF FullInv
<1>2. TypeOK'
  BY <1>1 DEF FullInv, TypeOK
<1>3. query'[1] \in Nat
  BY <1>1
<1> DEFINE t == EmptyTable(query'[1])
<1>4. t \in Seq(Key_Value) /\ Len(t) = query'[1] /\ DOMAIN t = 1 .. query'[1]
      /\ \A c \in DOMAIN t : t[c] = Unused
  BY <1>3, NewTable
<1>5. Used(t) = {}
  BY <1>4 DEF Used, Unused
<1>6. Cardinality(Taken(data')) <= 1
  <2>1. Taken(data') \in SUBSET {1}
    <3>1. NoTable.table = <<>>
      BY DEF NoTable
    <3> QED
      BY <3>1, <1>1 DEF Taken
  <2>2. IsFiniteSet({1}) /\ Cardinality({1}) = 1
    BY FS_Singleton
  <2>3. Cardinality(Taken(data')) <= Cardinality({1})
    BY <2>1, <2>2, FS_Subset
  <2> QED
    BY <2>2, <2>3
<1>7. data'[current' + 1].table = t
  <2>1. current' + 1 = 1
    BY <1>1
  <2> QED
    BY <2>1, <1>1
<1>8. SectionAt(file', next' - 1) = 0
  <2>1. next' - 1 = 0 /\ SectionAt(file, 0) = 0
    BY <1>1, SectionAtNat
  <2> QED
    BY <2>1, <1>1
<1>9. Cardinality(Used(t)) = 0 /\ Cardinality({j \in KeysAt(file', found') : j < next'}) \in Nat
  <2>1. file \in Seq(Line) /\ 0 \in Nat /\ 1 \in Int
    BY DEF FullInv, TypeOK
  <2>2. Cardinality({j \in KeysAt(file, 0) : j < 1}) \in Nat
    BY <2>1, CountedKeys
  <2> QED
    BY <2>2, <1>1, <1>5, FS_EmptySet
<1> HIDE DEF t
<1>10. ParseOK'
  <2>1. /\ found' <= SectionAt(file', next' - 1)
        /\ Cardinality(Taken(data')) <= found' + 1
        /\ Len(data'[current' + 1].table) = query'[found' + 1]
        /\ found' = SectionAt(file', next' - 1)
        /\ Cardinality(Used(data'[current' + 1].table)) <=
             Cardinality({j \in KeysAt(file', found') : j < next'})
    BY <1>1, <1>4, <1>6, <1>7, <1>8, <1>9
  <2> QED
    BY <2>1 DEF ParseOK
<1> QED
  BY <1>1, <1>2, <1>10 DEF FullInv, NeverFull

\* The last line that was read, once "next" is beyond it.
LEMMA UpTo ==
    ASSUME NEW n \in Nat, NEW i \in 1 .. n, NEW j \in i + 1 .. n + 1
    PROVE  i \in Nat /\ j - 1 \in Nat /\ i <= j - 1 /\ i - 1 \in Nat /\ i - 1 <= j - 1
OBVIOUS

LEMMA FullSection ==
    ASSUME FullInv, ParseSection
    PROVE  FullInv'
<1>0. PICK hash \in Nat :
        LET slot == NewSection(data, hash) IN
        /\ status = "parsing" /\ next \in DOMAIN file /\ file[next].kind = "section"
        /\ next' \in next + 1 .. Len(file) + 1
        /\ NoTightLine => next' = next + 1
        /\ SectionAt(file, next) = SectionAt(file, next - 1) + 1
        /\ slot \in 0 .. Len(data) - 1 /\ data[slot + 1].table = <<>>
        /\ query[found + 2] \in Nat
        /\ data' = [data EXCEPT ![slot + 1] =
                       [key_val |-> hash, table |-> EmptyTable(query[found + 2])]]
        /\ data' \in Seq(Key_Table) /\ Len(data') = Len(data) /\ DOMAIN data' = DOMAIN data
        /\ current' = slot /\ found' = found + 1
        /\ UNCHANGED <<file, newline, status, query, answer>>
  BY SectionMakes
<1> DEFINE slot == NewSection(data, hash)
           made == [key_val |-> hash, table |-> EmptyTable(query[found + 2])]
           t == EmptyTable(query[found + 2])
<1>1. /\ status = "parsing" /\ next \in DOMAIN file /\ file[next].kind = "section"
      /\ next' \in next + 1 .. Len(file) + 1
      /\ NoTightLine => next' = next + 1
      /\ SectionAt(file, next) = SectionAt(file, next - 1) + 1
      /\ slot \in 0 .. Len(data) - 1 /\ data[slot + 1].table = <<>>
      /\ query[found + 2] \in Nat
      /\ data' = [data EXCEPT ![slot + 1] = made]
      /\ data' \in Seq(Key_Table) /\ Len(data') = Len(data) /\ DOMAIN data' = DOMAIN data
      /\ current' = slot /\ found' = found + 1
      /\ UNCHANGED <<file, newline, status, query, answer>>
  BY <1>0
<1>2. /\ next \in 1 .. Len(file) /\ Len(file) \in Nat /\ file \in Seq(Line) /\ found \in Nat
      /\ data \in Seq(Key_Table) /\ DOMAIN data = 1 .. Len(data) /\ Len(data) \in Nat
      /\ CountOK /\ ParseOK
      /\ SectionAt(file, next) <= SectionAt(file, Len(file))
      /\ SectionAt(file, next - 1) \in Nat
  BY <1>1, Parsing
<1> HIDE DEF slot
<1>3. TypeOK'
  <2>1. next' \in 1 .. Len(file') + 1 /\ found' \in Nat /\ current' \in Nat /\ current' < Len(data')
    BY <1>1, <1>2
  <2>2. TypeOK
    BY DEF FullInv
  <2> HIDE DEF made
  <2> QED
    BY <1>1, <2>1, <2>2 DEF TypeOK
<1>4. CountOK'
  BY <1>1, <1>2 DEF CountOK, NoIndentedLine
<1>5. t \in Seq(Key_Value) /\ Len(t) = query[found + 2] /\ DOMAIN t = 1 .. query[found + 2]
      /\ \A c \in DOMAIN t : t[c] = Unused
  BY <1>1, NewTable
<1>6. data'[current' + 1].table = t
  <2>1. slot + 1 \in DOMAIN data
    BY <1>1, <1>2
  <2> QED
    BY <2>1, <1>1
<1> HIDE DEF made
<1>7. Used(t) = {}
  BY <1>5 DEF Used, Unused
<1>8. Cardinality(Taken(data')) <= found' + 1
  <2>1. Taken(data') \in SUBSET (Taken(data) \cup {slot + 1})
    BY <1>1 DEF Taken
  <2>2. IsFiniteSet(Taken(data)) /\ Cardinality(Taken(data)) \in Nat
    BY <1>2, TakenSlots
  <2>3. /\ IsFiniteSet(Taken(data) \cup {slot + 1})
        /\ Cardinality(Taken(data) \cup {slot + 1}) <= Cardinality(Taken(data)) + 1
    BY <2>2, FS_AddElement
  <2>4. /\ Cardinality(Taken(data')) <= Cardinality(Taken(data) \cup {slot + 1})
        /\ Cardinality(Taken(data')) \in Nat /\ Cardinality(Taken(data) \cup {slot + 1}) \in Nat
    BY <2>1, <2>3, FS_Subset, FS_CardinalityType
  <2>5. Cardinality(Taken(data)) <= found + 1
    BY <1>2 DEF ParseOK
  <2> QED
    BY <2>2, <2>3, <2>4, <2>5, <1>1, <1>2
<1>9. Cardinality(Used(t)) = 0 /\ Cardinality({j \in KeysAt(file', found') : j < next'}) \in Nat
  <2>1. found + 1 \in Nat /\ next' \in Int
    BY <1>1, <1>2
  <2>2. Cardinality({j \in KeysAt(file, found + 1) : j < next'}) \in Nat
    BY <2>1, <1>2, CountedKeys
  <2> QED
    BY <2>2, <1>1, <1>7, FS_EmptySet
<1>10. /\ (NoTightLine => next' - 1 = next) /\ found' + 1 = found + 2
       /\ SectionAt(file, next) <= SectionAt(file, next' - 1)
       /\ SectionAt(file, next' - 1) \in Nat
  <2>1. next \in Nat /\ next' - 1 \in Nat /\ next <= next' - 1
    BY <1>1, <1>2, UpTo
  <2>2. SectionAt(file, next) <= SectionAt(file, next' - 1) /\ SectionAt(file, next' - 1) \in Nat
    BY <2>1, SectionAtGrows, SectionAtNat
  <2> QED
    BY <2>2, <1>1, <1>2
<1>11. found <= SectionAt(file, next - 1) /\ (NoTightLine => found = SectionAt(file, next - 1))
  BY <1>2 DEF ParseOK
<1>12. NoTightLine' <=> NoTightLine
  BY <1>1 DEF NoTightLine
<1> HIDE DEF t
<1>13. ParseOK'
  <2>1. /\ found' <= SectionAt(file', next' - 1)
        /\ Len(data'[current' + 1].table) = query'[found' + 1]
        /\ NoTightLine' =>
             /\ found' = SectionAt(file', next' - 1)
             /\ Cardinality(Used(data'[current' + 1].table)) <=
                  Cardinality({j \in KeysAt(file', found') : j < next'})
    <3>1. found' <= SectionAt(file', next' - 1)
      BY <1>1, <1>2, <1>10, <1>11
    <3>2. Len(data'[current' + 1].table) = query'[found' + 1]
      BY <1>1, <1>5, <1>6, <1>10
    <3>3. Cardinality(Used(data'[current' + 1].table)) <=
            Cardinality({j \in KeysAt(file', found') : j < next'})
      BY <1>6, <1>9
    <3>4. NoTightLine => found' = SectionAt(file', next' - 1)
      BY <1>1, <1>2, <1>10, <1>11
    <3> QED
      BY <3>1, <3>2, <3>3, <3>4, <1>12
  <2> QED
    BY <2>1, <1>8 DEF ParseOK
<1> QED
  BY <1>1, <1>3, <1>4, <1>13 DEF FullInv, NeverFull

LEMMA FullKey ==
    ASSUME FullInv, ParseKey
    PROVE  FullInv'
<1> DEFINE t == data[current + 1].table
<1>0. PICK entry \in Key_Value :
        LET slot == NewKey(t, entry.key_val)
            filled == [t EXCEPT ![slot + 1] = entry] IN
        /\ status = "parsing" /\ next \in DOMAIN file /\ file[next].kind = "key"
        /\ next' \in next + 1 .. Len(file) + 1
        /\ NoTightLine => next' = next + 1
        /\ SectionAt(file, next) = SectionAt(file, next - 1)
        /\ UNCHANGED <<file, newline, query, found, current, answer>>
        /\ t \in Seq(Key_Value)
        /\ NoTightLine => slot # -1
        /\ slot = -1 => status' = "full" /\ UNCHANGED data
        /\ slot # -1 =>
             /\ UNCHANGED status
             /\ slot \in 0 .. Len(t) - 1
             /\ filled \in Seq(Key_Value) /\ Len(filled) = Len(t) /\ DOMAIN filled = DOMAIN t
             /\ data' = [data EXCEPT ![current + 1] =
                            [key_val |-> data[current + 1].key_val, table |-> filled]]
             /\ data' \in Seq(Key_Table) /\ Len(data') = Len(data) /\ DOMAIN data' = DOMAIN data
  BY KeyMakes
<1> DEFINE slot == NewKey(t, entry.key_val)
           filled == [t EXCEPT ![slot + 1] = entry]
<1>1. /\ status = "parsing" /\ next \in DOMAIN file /\ file[next].kind = "key"
      /\ SectionAt(file, next) = SectionAt(file, next - 1)
      /\ next' \in next + 1 .. Len(file) + 1
      /\ NoTightLine => next' = next + 1
      /\ UNCHANGED <<file, newline, query, found, current, answer>>
      /\ t \in Seq(Key_Value)
      /\ NoTightLine => slot # -1
      /\ slot = -1 => status' = "full" /\ UNCHANGED data
      /\ slot # -1 =>
           /\ UNCHANGED status
           /\ slot \in 0 .. Len(t) - 1
           /\ filled \in Seq(Key_Value) /\ Len(filled) = Len(t) /\ DOMAIN filled = DOMAIN t
           /\ data' = [data EXCEPT ![current + 1] =
                          [key_val |-> data[current + 1].key_val, table |-> filled]]
           /\ data' \in Seq(Key_Table) /\ Len(data') = Len(data) /\ DOMAIN data' = DOMAIN data
  BY <1>0
<1>2. /\ next \in 1 .. Len(file) /\ Len(file) \in Nat /\ file \in Seq(Line) /\ found \in Nat
      /\ data \in Seq(Key_Table) /\ DOMAIN data = 1 .. Len(data) /\ Len(data) \in Nat
      /\ current \in 0 .. Len(data) - 1
      /\ CountOK /\ ParseOK
      /\ SectionAt(file, next - 1) \in Nat
  BY <1>1, Parsing
<1> HIDE DEF t, slot, filled
<1>3. TypeOK'
  <2>1. next' \in 1 .. Len(file') + 1 /\ status' \in {"parsing", "full"} /\ data' \in Seq(Key_Table)
        /\ Len(data') = Len(data)
    BY <1>1, <1>2
  <2>2. TypeOK
    BY DEF FullInv
  <2> QED
    BY <1>1, <1>2, <2>1, <2>2 DEF TypeOK
<1>4. CountOK'
  <2>1. Len(data') = Len(data)
    BY <1>1
  <2> QED
    BY <1>1, <1>2, <2>1 DEF CountOK, NoIndentedLine
<1>5. NoTightLine' <=> NoTightLine
  BY <1>1 DEF NoTightLine
<1>6. NeverFull'
  <2>1. NoTightLine => status' = "parsing"
    BY <1>1
  <2> QED
    BY <2>1, <1>5 DEF NeverFull
<1>7. ASSUME status' = "parsing" PROVE ParseOK'
  <2>1. slot # -1
    BY <1>1, <1>7
  <2>2. data'[current + 1].table = filled /\ \A i \in DOMAIN data : i # current + 1 => data'[i] = data[i]
    <3> DEFINE made == [key_val |-> data[current + 1].key_val, table |-> filled]
    <3>1. data' = [data EXCEPT ![current + 1] = made] /\ made.table = filled
      BY <2>1, <1>1
    <3>2. current + 1 \in DOMAIN data
      BY <1>2
    <3> HIDE DEF made
    <3> QED
      BY <3>1, <3>2
  <2>3. Taken(data') = Taken(data)
    <3>1. filled # <<>> /\ t # <<>>
      <4>1. Len(filled) > 0 /\ Len(t) > 0
        BY <2>1, <1>1
      <4>2. Len(<<>>) = 0
        OBVIOUS
      <4> QED
        BY <4>1, <4>2
    <3> QED
      BY <3>1, <2>1, <2>2, <1>1, <1>2 DEF Taken, t
  <2>4. Used(filled) \in SUBSET (Used(t) \cup {slot + 1})
    BY <2>1, <1>1 DEF Used, filled
  <2>5. IsFiniteSet(Used(t)) /\ Cardinality(Used(t)) \in Nat
    BY <1>1, UsedSlots
  <2>6. /\ IsFiniteSet(Used(t) \cup {slot + 1})
        /\ Cardinality(Used(t) \cup {slot + 1}) <= Cardinality(Used(t)) + 1
        /\ Cardinality(Used(t) \cup {slot + 1}) \in Nat
    BY <2>5, FS_AddElement, FS_CardinalityType
  <2>7. Cardinality(Used(filled)) <= Cardinality(Used(t) \cup {slot + 1}) /\ Cardinality(Used(filled)) \in Nat
    BY <2>4, <2>6, FS_Subset, FS_CardinalityType
  <2>8. NoTightLine =>
          /\ next \in KeysAt(file, found)
          /\ Cardinality(Used(t)) <= Cardinality({j \in KeysAt(file, found) : j < next})
    BY <1>1, <1>2 DEF ParseOK, KeysAt, t
  <2>9. NoTightLine =>
          Cardinality({j \in KeysAt(file, found) : j < next + 1}) =
            Cardinality({j \in KeysAt(file, found) : j < next}) + 1
    BY <2>8, <1>1, <1>2, OneMoreKey
  <2>10. Cardinality({j \in KeysAt(file, found) : j < next}) \in Nat
    <3>1. next \in Int
      BY <1>2
    <3> QED
      BY <3>1, <1>2, CountedKeys
  <2>11. /\ NoTightLine => next' - 1 = next
         /\ SectionAt(file, next - 1) <= SectionAt(file, next' - 1)
         /\ SectionAt(file, next' - 1) \in Nat
    <3>1. next - 1 \in Nat /\ next' - 1 \in Nat /\ next - 1 <= next' - 1
      BY <1>1, <1>2, UpTo
    <3>2. SectionAt(file, next - 1) <= SectionAt(file, next' - 1) /\ SectionAt(file, next' - 1) \in Nat
      BY <3>1, SectionAtGrows, SectionAtNat
    <3> QED
      BY <3>2, <1>1, <1>2
  <2>12. data'[current' + 1].table = filled
    BY <1>1, <2>2
  <2>13. /\ found <= SectionAt(file, next - 1) /\ Cardinality(Taken(data)) <= found + 1
         /\ Len(t) = query[found + 1] /\ (NoTightLine => found = SectionAt(file, next - 1))
    BY <1>2 DEF ParseOK, t
  <2>14. NoTightLine => Cardinality(Used(filled)) <= Cardinality({j \in KeysAt(file, found) : j < next + 1})
    BY <2>5, <2>6, <2>7, <2>8, <2>9, <2>10
  <2>15. Len(filled) = Len(t)
    BY <2>1, <1>1
  <2>16. found <= SectionAt(file, next' - 1)
    BY <2>11, <2>13, <1>2
  <2> QED
    BY <1>1, <1>5, <2>3, <2>11, <2>12, <2>13, <2>14, <2>15, <2>16 DEF ParseOK
<1>8. Made' => CountOK'
  BY <1>4
<1>9. status' # "closed" /\ status' # "ready"
  BY <1>1
<1> QED
  BY <1>3, <1>6, <1>7, <1>8, <1>9 DEF FullInv

\* A comment or an indented line takes, when all lines have a space, one line and no section
\* or key with it.
LEMMA OtherMakes ==
    ASSUME FullInv, ParseOther
    PROVE  /\ status = "parsing" /\ next \in DOMAIN file
           /\ file[next].kind \notin {"section", "key"}
           /\ SectionAt(file, next) = SectionAt(file, next - 1)
           /\ next' \in next + 1 .. Len(file) + 1
           /\ NoTightLine => next' = next + 1
           /\ UNCHANGED <<file, newline, status, query, found, data, current, answer>>
<1>1. /\ status = "parsing" /\ next <= Len(file) /\ file[next].kind \in {"comment", "indented"}
      /\ next' = LastRead + 1
      /\ UNCHANGED <<file, newline, status, query, found, data, current, answer>>
  BY DEF ParseOther
<1>2. /\ next \in DOMAIN file /\ next \in 1 .. Len(file) /\ Len(file) \in Nat
      /\ SectionAt(file, next) = IF file[next].kind = "section" THEN SectionAt(file, next - 1) + 1
                                 ELSE SectionAt(file, next - 1)
  BY <1>1, Parsing
<1>3. LastRead \in next .. Len(file) /\ (NoTightLine => LastRead = next)
  BY <1>1, LinesTaken
<1>4. next' \in next + 1 .. Len(file) + 1
  BY <1>1, <1>2, <1>3, OneBeyond
<1> QED
  BY <1>1, <1>2, <1>3, <1>4

LEMMA FullOther ==
    ASSUME FullInv, ParseOther
    PROVE  FullInv'
<1>1. /\ status = "parsing" /\ next \in DOMAIN file
      /\ file[next].kind \notin {"section", "key"}
      /\ SectionAt(file, next) = SectionAt(file, next - 1)
      /\ next' \in next + 1 .. Len(file) + 1
      /\ NoTightLine => next' = next + 1
      /\ UNCHANGED <<file, newline, status, query, found, data, current, answer>>
  BY OtherMakes
<1>2. /\ next \in 1 .. Len(file) /\ Len(file) \in Nat /\ file \in Seq(Line) /\ found \in Nat
      /\ CountOK /\ ParseOK /\ SectionAt(file, next - 1) \in Nat
  BY <1>1, Parsing
<1>3. TypeOK'
  <2>1. next' \in 1 .. Len(file') + 1
    BY <1>1, <1>2
  <2>2. TypeOK
    BY DEF FullInv
  <2> QED
    BY <1>1, <2>1, <2>2 DEF TypeOK
<1>4. CountOK'
  BY <1>1, <1>2 DEF CountOK, NoIndentedLine
<1>5. NoTightLine' <=> NoTightLine
  BY <1>1 DEF NoTightLine
<1>6. SectionAt(file, next - 1) <= SectionAt(file, next' - 1) /\ SectionAt(file, next' - 1) \in Nat
  <2> DEFINE m == next' - 1
  <2>1. m \in Nat /\ next - 1 <= m
    BY <1>1, <1>2, UpTo
  <2> HIDE DEF m
  <2>2. next - 1 \in Nat
    BY <1>2
  <2>3. SectionAt(file, next - 1) <= SectionAt(file, m) /\ SectionAt(file, m) \in Nat
    BY <2>1, <2>2, SectionAtGrows, SectionAtNat
  <2> QED
    BY <2>1, <2>3 DEF m
<1>7. NoTightLine => SectionAt(file, next' - 1) = SectionAt(file, next - 1)
  <2>1. NoTightLine => next' - 1 = next
    BY <1>1, <1>2
  <2> QED
    BY <2>1, <1>1
<1>8. NoTightLine =>
        Cardinality({j \in KeysAt(file, found) : j < next'}) =
          Cardinality({j \in KeysAt(file, found) : j < next})
  <2>1. next \notin KeysAt(file, found)
    BY <1>1 DEF KeysAt
  <2> QED
    BY <2>1, <1>1, <1>2, OneMoreKey
<1>9. ParseOK'
  BY <1>1, <1>2, <1>5, <1>6, <1>7, <1>8 DEF ParseOK
<1> QED
  BY <1>1, <1>3, <1>4, <1>9 DEF FullInv, NeverFull

\* The end of the file, a file that is not there and the calls leave what was counted.
LEMMA FullStep ==
    ASSUME FullInv, [Next]_vars
    PROVE  FullInv'
<1>1. ASSUME Open PROVE FullInv'
  BY <1>1, FullOpen
<1>2. ASSUME OpenFails PROVE FullInv'
  <2>1. /\ status' = "missing"
        /\ UNCHANGED <<file, newline, query, next, found, data, current, answer>>
    BY <1>2 DEF OpenFails
  <2> QED
    BY <2>1 DEF FullInv, TypeOK, Made, NeverFull
<1>3. ASSUME ParseSection PROVE FullInv'
  BY <1>3, FullSection
<1>4. ASSUME ParseKey PROVE FullInv'
  BY <1>4, FullKey
<1>5. ASSUME ParseOther PROVE FullInv'
  BY <1>5, FullOther
<1>6. ASSUME EndOfFile PROVE FullInv'
  <2>1. /\ status = "parsing" /\ status' = "ready"
        /\ UNCHANGED <<file, newline, query, next, found, data, current, answer>>
    BY <1>6 DEF EndOfFile
  <2>2. TypeOK'
    BY <2>1 DEF FullInv, TypeOK
  <2>3. CountOK'
    BY <2>1 DEF FullInv, Made, CountOK, NoIndentedLine
  <2>4. next' = Len(file') + 1
    <3>1. next > Len(file) /\ next \in 1 .. Len(file) + 1 /\ Len(file) \in Nat
      BY <1>6, <2>1, Parsing DEF EndOfFile
    <3>2. next = Len(file) + 1
      BY <3>1
    <3> QED
      BY <3>2, <2>1
  <2> QED
    BY <2>1, <2>2, <2>3, <2>4 DEF FullInv, NeverFull
<1>7. ASSUME Call PROVE FullInv'
  <2>1. /\ TypeOK' /\ status \in {"ready", "missing"}
        /\ UNCHANGED <<file, newline, status, query, next, found, data>>
    BY <1>7, CallStep DEF FullInv
  <2>2. Made' => CountOK'
    BY <2>1 DEF FullInv, Made, CountOK, NoIndentedLine
  <2> QED
    BY <2>1, <2>2 DEF FullInv, NeverFull
<1>8. ASSUME UNCHANGED vars PROVE FullInv'
  <2>1. /\ UNCHANGED <<file, newline, status, query, next, found, data, current, answer>>
    BY <1>8 DEF vars
  <2>2. TypeOK'
    BY <2>1 DEF FullInv, TypeOK
  <2>3. Made' => CountOK'
    BY <2>1 DEF FullInv, Made, CountOK, NoIndentedLine
  <2>4. NoTightLine' <=> NoTightLine
    BY <2>1 DEF NoTightLine
  <2>5. status' = "parsing" => ParseOK'
    BY <2>1, <2>4 DEF FullInv, ParseOK
  <2> QED
    BY <2>1, <2>2, <2>3, <2>4, <2>5 DEF FullInv, NeverFull
<1> QED
  BY <1>1, <1>2, <1>3, <1>4, <1>5, <1>6, <1>7, <1>8 DEF Next, Construct

\* For every set of names, every hash and every file: all variables keep their types,
\* and _section_hash_val leads into _data whenever there is any.
THEOREM TypesStay == Spec => []TypeOK
<1>1. FullInv /\ [Next]_vars => FullInv'
  BY FullStep
<1>2. FullInv => TypeOK
  BY DEF FullInv
<1> QED
  BY <1>1, <1>2, FullInit, PTL DEF Spec

\* For every set of names, every hash and every file whose lines all have a space, the
\* constructor finds a slot for every section and every key: the first pass has counted
\* at least what the second one stores.
THEOREM TablesSuffice == Spec => []NeverFull
<1>1. FullInv /\ [Next]_vars => FullInv'
  BY FullStep
<1>2. FullInv => NeverFull
  BY DEF FullInv
<1> QED
  BY <1>1, <1>2, FullInit, PTL DEF Spec

-----------------------------------------------------------------------------
(* What the tables hold was written in the file. *)

\* The header of a line is the last one up to it.
LEMMA HeaderTypes ==
    ASSUME file \in Seq(Line), NEW j \in 0 .. Len(file)
    PROVE  /\ HeaderOf(j) \in 0 .. j /\ HeaderOf(j) \in Headers \cup {0}
           /\ \A h \in Headers : h <= j => h <= HeaderOf(j)
<1> DEFINE S == {0} \cup {i \in 1 .. j : file[i].kind = "section"}
<1>1. j \in Nat /\ S \in SUBSET (0 .. j) /\ S # {}
  OBVIOUS
<1>2. HeaderOf(j) = Max(S)
  BY DEF HeaderOf
<1>3. S \subseteq Headers \cup {0} /\ \A h \in Headers : h <= j => h \in S
  BY DEF Headers
<1> HIDE DEF S
<1>4. Max(S) \in S /\ \A y \in S : Max(S) >= y
  BY <1>1, MaxOfSet
<1>5. \A h \in Headers : h <= j => h <= Max(S)
  <2> SUFFICES ASSUME NEW h \in Headers, h <= j PROVE h <= Max(S)
    OBVIOUS
  <2>1. h \in S /\ h \in 0 .. j /\ Max(S) \in 0 .. j
    BY <1>1, <1>3, <1>4
  <2> QED
    BY <2>1, <1>1, <1>4
<1> QED
  BY <1>1, <1>2, <1>3, <1>4, <1>5

LEMMA HeaderNext ==
    ASSUME file \in Seq(Line), NEW j \in DOMAIN file
    PROVE  HeaderOf(j) = IF file[j].kind = "section" THEN j ELSE HeaderOf(j - 1)
<1>1. j \in 1 .. Len(file) /\ j \in 0 .. Len(file) /\ Len(file) \in Nat
  OBVIOUS
<1>2. CASE file[j].kind = "section"
  <2>1. j \in Headers
    BY <1>2 DEF Headers
  <2>2. HeaderOf(j) \in 0 .. j /\ j <= HeaderOf(j)
    BY <2>1, <1>1, HeaderTypes
  <2> QED
    BY <2>2, <1>1, <1>2
<1>3. CASE file[j].kind # "section"
  <2>1. 1 .. j = (1 .. j - 1) \cup {j}
    BY <1>1
  <2>2. {i \in 1 .. j : file[i].kind = "section"} = {i \in 1 .. j - 1 : file[i].kind = "section"}
    BY <2>1, <1>3
  <2> QED
    BY <2>2, <1>3 DEF HeaderOf
<1> QED
  BY <1>2, <1>3

\* While the file stays, so does what it says.
LEMMA SameFile ==
    ASSUME UNCHANGED file
    PROVE  /\ Headers' = Headers /\ (NoTightLine' <=> NoTightLine)
           /\ \A j : HashOf(j)' = HashOf(j) /\ HashOfSection(j)' = HashOfSection(j)
           /\ \A j : HeaderOf(j)' = HeaderOf(j)
           /\ \A h : KeysOf(h)' = KeysOf(h)
           /\ WellFormed' <=> WellFormed
<1>1. \A j : HeaderOf(j)' = HeaderOf(j)
  BY DEF HeaderOf
<1>2. \A h : KeysOf(h)' = KeysOf(h)
  BY <1>1 DEF KeysOf
<1>3. Headers' = Headers /\ (NoTightLine' <=> NoTightLine)
  BY DEF Headers, NoTightLine
<1>4. \A j : HashOf(j)' = HashOf(j) /\ HashOfSection(j)' = HashOfSection(j)
  BY DEF HashOf, HashOfSection
<1>5. WellFormed' <=> WellFormed
  BY <1>2, <1>3 DEF WellFormed
<1> QED
  BY <1>1, <1>2, <1>3, <1>4, <1>5

\* What was written before stays so.
LEMMA PlaceKept ==
    ASSUME UNCHANGED file, file \in Seq(Line), next \in Nat, next' \in Nat, next <= next',
           NEW i, NEW h, data'[i] = data[i], PlaceOf(data[i], h)
    PROVE  PlaceOf(data[i], h)'
<1>1. KeysOf(h)' = KeysOf(h) /\ HashOfSection(h)' = HashOfSection(h) /\ \A j : HashOf(j)' = HashOf(j)
  BY SameFile
<1>2. KeysOf(h) \subseteq Nat
  BY DEF KeysOf
<1>3. \A j \in KeysOf(h) : j < next => j < next'
  BY <1>2
<1> QED
  BY <1>1, <1>3 DEF PlaceOf, WrittenIn

LEMMA PlaceInit == Init => PlaceInv
BY DEF Init, PlaceInv

LEMMA PlaceOpen ==
    ASSUME FullInv, Open
    PROVE  PlaceInv'
<1>1. /\ status' = "parsing" /\ current' = 0 /\ next = 1
      /\ UNCHANGED <<file, newline, next, found, answer>>
      /\ query' \in Seq(Nat) /\ Len(query') >= 1
      /\ DOMAIN data' = 1 .. Len(data') /\ Len(data') \in Nat
      /\ data'[1] = [key_val |-> 0, table |-> EmptyTable(query'[1])]
      /\ \A i \in DOMAIN data' : i # 1 => data'[i] = NoTable
  BY OpenMakes DEF FullInv
<1>2. query'[1] \in Nat /\ file \in Seq(Line)
  BY <1>1 DEF FullInv, TypeOK
<1>3. Used(data'[1].table) = {}
  <2>1. data'[1].table = EmptyTable(query'[1])
    BY <1>1
  <2> QED
    BY <2>1, <1>2, NothingUsed
<1>4. PlaceOf(data[1], 0)'
  BY <1>1, <1>3 DEF PlaceOf, WrittenIn, HashOfSection
<1>5. \A i \in Taken(data') : i = 1
  <2>1. NoTable.table = <<>>
    BY DEF NoTable
  <2> QED
    BY <2>1, <1>1 DEF Taken
<1>6. HeaderOf(0)' = 0
  <2>1. 0 \in 0 .. Len(file)
    BY <1>2
  <2>2. HeaderOf(0) = 0
    BY <2>1, <1>2, HeaderTypes
  <2> QED
    BY <2>2, <1>1, SameFile
<1>7. next' - 1 = 0 /\ current' + 1 = 1
  BY <1>1
<1>8. PlaceOf(data[current + 1], HeaderOf(next - 1))'
  BY <1>4, <1>6, <1>7
<1>9. \A i \in Taken(data') : \E h \in Headers' \cup {0} : PlaceOf(data[i], h)'
  BY <1>4, <1>5
<1> QED
  BY <1>8, <1>9 DEF PlaceInv

LEMMA PlaceSection ==
    ASSUME FullInv, PlaceInv, ParseSection, NoTightLine
    PROVE  PlaceInv'
<1> DEFINE slot == NewSection(data, HashOf(next))
           made == [key_val |-> HashOf(next), table |-> EmptyTable(query[found + 2])]
<1>1. /\ status = "parsing" /\ next \in DOMAIN file /\ file[next].kind = "section"
      /\ slot \in 0 .. Len(data) - 1
      /\ query[found + 2] \in Nat
      /\ data' = [data EXCEPT ![slot + 1] = made]
      /\ DOMAIN data' = DOMAIN data
      /\ current' = slot /\ next' = next + 1
      /\ UNCHANGED <<file, newline, status, query, answer>>
  BY SectionAsWritten
<1>2. /\ next \in 1 .. Len(file) /\ Len(file) \in Nat /\ file \in Seq(Line)
      /\ DOMAIN data = 1 .. Len(data) /\ Len(data) \in Nat
  BY <1>1, Parsing
<1> HIDE DEF slot
<1>8. next \in Nat /\ next' \in Nat /\ next <= next' /\ next' - 1 = next /\ next > 0
  BY <1>1, <1>2
<1>9. PICK m \in DOMAIN file : m = next
  BY <1>1
<1>3. data'[slot + 1] = made /\ slot + 1 \in DOMAIN data
      /\ \A i \in DOMAIN data : i # slot + 1 => data'[i] = data[i]
  BY <1>1, <1>2
<1>4. made.key_val = HashOf(m) /\ Used(made.table) = {}
  BY <1>1, <1>9, NothingUsed
<1> HIDE DEF made
<1>5. \A i \in DOMAIN data : i = slot + 1 => PlaceOf(data[i], m)'
  <2>1. HashOfSection(m)' = HashOf(m)
    <3>1. HashOfSection(m)' = HashOfSection(m) /\ m # 0
      BY <1>1, <1>8, <1>9, SameFile
    <3> QED
      BY <3>1 DEF HashOfSection
  <2> QED
    BY <2>1, <1>3, <1>4 DEF PlaceOf, WrittenIn
<1>6. HeaderOf(m)' = m /\ m \in Headers' \cup {0}
  <2>1. HeaderOf(m) = m /\ m \in Headers
    BY <1>1, <1>2, <1>9, HeaderNext DEF Headers
  <2> QED
    BY <2>1, <1>1, SameFile
<1>7. ASSUME NEW i \in Taken(data') PROVE \E h \in Headers' \cup {0} : PlaceOf(data[i], h)'
  <2>1. CASE i = slot + 1
    BY <2>1, <1>3, <1>5, <1>6
  <2>2. CASE i # slot + 1
    <3>1. i \in Taken(data) /\ data'[i] = data[i]
      BY <2>2, <1>1, <1>3 DEF Taken
    <3>2. PICK h \in Headers \cup {0} : PlaceOf(data[i], h)
      BY <3>1, <1>1 DEF PlaceInv
    <3> QED
      BY <3>1, <3>2, <1>1, <1>2, <1>8, PlaceKept, SameFile
  <2> QED
    BY <2>1, <2>2
<1>10. PlaceOf(data[current + 1], HeaderOf(next - 1))'
  <2>1. PICK i \in DOMAIN data : i = slot + 1
    BY <1>3
  <2>2. PlaceOf(data[i], m)'
    BY <2>1, <1>5
  <2>3. current' + 1 = i /\ next' - 1 = m
    BY <2>1, <1>1, <1>8, <1>9
  <2> QED
    BY <2>2, <2>3, <1>6
<1> QED
  BY <1>1, <1>7, <1>10 DEF PlaceInv

LEMMA PlaceKey ==
    ASSUME FullInv, PlaceInv, ParseKey, NoTightLine
    PROVE  PlaceInv'
<1> DEFINE t == data[current + 1].table
           slot == NewKey(t, HashOf(next))
           filled == [t EXCEPT ![slot + 1] = Entry(next)]
           made == [key_val |-> data[current + 1].key_val, table |-> filled]
<1>1. /\ status = "parsing" /\ next \in DOMAIN file /\ file[next].kind = "key"
      /\ next' = next + 1 /\ UNCHANGED <<file, newline, query, found, current, answer>>
      /\ t \in Seq(Key_Value)
      /\ slot # -1 /\ UNCHANGED status
      /\ slot \in 0 .. Len(t) - 1
      /\ filled \in Seq(Key_Value) /\ Len(filled) = Len(t) /\ DOMAIN filled = DOMAIN t
      /\ data' = [data EXCEPT ![current + 1] = made]
      /\ DOMAIN data' = DOMAIN data
  BY KeyAsWritten
<1>2. /\ next \in 1 .. Len(file) /\ Len(file) \in Nat /\ file \in Seq(Line)
      /\ DOMAIN data = 1 .. Len(data) /\ Len(data) \in Nat /\ current \in 0 .. Len(data) - 1
  BY <1>1, Parsing
<1>3. PICK i \in DOMAIN data : i = current + 1
  BY <1>2
<1>4. data'[i] = made /\ \A k \in DOMAIN data : k # i => data'[k] = data[k]
  BY <1>1, <1>3
<1>5. next \in Nat /\ next' \in Nat /\ next <= next' /\ next' - 1 = next /\ next > 0
  BY <1>1, <1>2
<1>6. PICK m \in DOMAIN file : m = next
  BY <1>1
<1>7. PICK h \in Headers \cup {0} : h = HeaderOf(m - 1) /\ h = HeaderOf(m)
  <2>1. m - 1 \in 0 .. Len(file)
    BY <1>2, <1>6
  <2> QED
    BY <2>1, <1>1, <1>2, <1>6, HeaderTypes, HeaderNext
<1>8. PlaceOf(data[i], h)
  <2>1. PlaceOf(data[current + 1], HeaderOf(next - 1))
    BY <1>1 DEF PlaceInv
  <2> QED
    BY <2>1, <1>3, <1>6, <1>7
<1>9. Used(filled) \subseteq Used(t) \cup {slot + 1} /\ filled[slot + 1] = Entry(m)
      /\ \A c \in Used(t) : c # slot + 1 => filled[c] = t[c]
  <2> HIDE DEF t, slot
  <2>1. slot + 1 \in DOMAIN t
    BY <1>1
  <2> QED
    BY <2>1, <1>1, <1>6 DEF Used
<1>10. m \in KeysOf(h)
  BY <1>1, <1>6, <1>7 DEF KeysOf
<1>11. /\ made.key_val = data[i].key_val /\ made.table = filled
       /\ t = data[i].table
  BY <1>3
<1> HIDE DEF made, filled, slot, t
<1>12. PlaceOf(data[i], h)'
  <2>1. KeysOf(h)' = KeysOf(h) /\ HashOfSection(h)' = HashOfSection(h) /\ \A j : HashOf(j)' = HashOf(j)
    BY <1>1, SameFile
  <2>2. ASSUME NEW c \in Used(filled)
        PROVE  \E j \in KeysOf(h) :
                 j < next' /\ HashOf(j) = filled[c].key_val /\ file[j].value = filled[c].value
    <3>1. CASE c = slot + 1
      <4>1. m < next'
        <5>1. next' = next + 1
          BY <1>1
        <5> QED
          BY <5>1, <1>5, <1>6
      <4>2. HashOf(m) = filled[c].key_val /\ file[m].value = filled[c].value
        BY <3>1, <1>9 DEF Entry
      <4> QED
        BY <4>1, <4>2, <1>10
    <3>2. CASE c # slot + 1
      <4>1. c \in Used(t) /\ filled[c] = t[c]
        BY <3>2, <2>2, <1>9
      <4>2. PICK j \in KeysOf(h) : j < next /\ HashOf(j) = t[c].key_val /\ file[j].value = t[c].value
        BY <4>1, <1>8, <1>11 DEF PlaceOf, WrittenIn
      <4>3. j < next'
        <5>1. j \in Nat
          BY <1>2 DEF KeysOf
        <5> QED
          BY <5>1, <4>2, <1>5
      <4> QED
        BY <4>1, <4>2, <4>3
    <3> QED
      BY <3>1, <3>2
  <2>3. data'[i].key_val = HashOfSection(h)
    BY <1>4, <1>8, <1>11 DEF PlaceOf
  <2> QED
    BY <2>1, <2>2, <2>3, <1>1, <1>4, <1>11 DEF PlaceOf, WrittenIn
<1>13. ASSUME NEW k \in Taken(data') PROVE \E g \in Headers' \cup {0} : PlaceOf(data[k], g)'
  <2>1. CASE k = i
    BY <2>1, <1>1, <1>12, SameFile
  <2>2. CASE k # i
    <3>1. k \in Taken(data) /\ data'[k] = data[k]
      BY <2>2, <1>1, <1>4 DEF Taken
    <3>2. PICK g \in Headers \cup {0} : PlaceOf(data[k], g)
      BY <3>1, <1>1 DEF PlaceInv
    <3> QED
      BY <3>1, <3>2, <1>1, <1>2, <1>5, PlaceKept, SameFile
  <2> QED
    BY <2>1, <2>2
<1>14. PlaceOf(data[current + 1], HeaderOf(next - 1))'
  <2>1. current' + 1 = i /\ next' - 1 = m
    BY <1>1, <1>3, <1>5, <1>6
  <2>2. HeaderOf(m)' = h
    BY <1>1, <1>7, SameFile
  <2> QED
    BY <2>1, <2>2, <1>12
<1> QED
  BY <1>1, <1>13, <1>14 DEF PlaceInv

LEMMA PlaceOther ==
    ASSUME FullInv, PlaceInv, ParseOther, NoTightLine
    PROVE  PlaceInv'
<1>1. /\ status = "parsing" /\ next \in DOMAIN file
      /\ file[next].kind \notin {"section", "key"}
      /\ next' = next + 1
      /\ UNCHANGED <<file, newline, status, query, found, data, current, answer>>
  BY OtherMakes
<1>2. /\ next \in 1 .. Len(file) /\ Len(file) \in Nat /\ file \in Seq(Line)
      /\ DOMAIN data = 1 .. Len(data) /\ Len(data) \in Nat /\ current \in 0 .. Len(data) - 1
  BY <1>1, Parsing
<1>3. next \in Nat /\ next' \in Nat /\ next <= next' /\ next' - 1 = next
  BY <1>1, <1>2
<1>4. PICK i \in DOMAIN data : i = current + 1
  BY <1>2
<1>5. PICK m \in DOMAIN file : m = next
  BY <1>1
<1>6. PICK h : h = HeaderOf(m - 1) /\ h = HeaderOf(m)
  BY <1>1, <1>2, <1>5, HeaderNext
<1>7. PlaceOf(data[i], h)
  <2>1. PlaceOf(data[current + 1], HeaderOf(next - 1))
    BY <1>1 DEF PlaceInv
  <2> QED
    BY <2>1, <1>4, <1>5, <1>6
<1>8. PlaceOf(data[i], h)'
  BY <1>1, <1>2, <1>3, <1>7, PlaceKept
<1>9. PlaceOf(data[current + 1], HeaderOf(next - 1))'
  <2>1. current' + 1 = i /\ next' - 1 = m
    BY <1>1, <1>3, <1>4, <1>5
  <2>2. HeaderOf(m)' = h
    BY <1>1, <1>6, SameFile
  <2> QED
    BY <2>1, <2>2, <1>8
<1>10. ASSUME NEW k \in Taken(data') PROVE \E g \in Headers' \cup {0} : PlaceOf(data[k], g)'
  <2>1. k \in Taken(data) /\ data'[k] = data[k]
    BY <1>1
  <2>2. PICK g \in Headers \cup {0} : PlaceOf(data[k], g)
    BY <2>1, <1>1 DEF PlaceInv
  <2> QED
    BY <2>1, <2>2, <1>1, <1>2, <1>3, PlaceKept, SameFile
<1> QED
  BY <1>1, <1>9, <1>10 DEF PlaceInv

LEMMA PlaceStep ==
    ASSUME FullInv, PlaceInv, [Next]_vars
    PROVE  PlaceInv'
<1>1. SUFFICES ASSUME NoTightLine' PROVE PlaceInv'
  BY DEF PlaceInv
<1>2. UNCHANGED file
  BY CallStep DEF Next, Construct, Open, OpenFails, ParseSection, ParseKey, ParseOther, EndOfFile,
     vars, FullInv
<1>3. NoTightLine
  BY <1>1, <1>2, SameFile
<1>4. ASSUME UNCHANGED <<file, next, data>>,
             UNCHANGED <<status, current>> \/ (status' # "parsing" /\ status \in {"parsing", "ready"})
      PROVE  PlaceInv'
  <2>1. file \in Seq(Line) /\ next \in Nat /\ next' \in Nat /\ next <= next'
    BY <1>4 DEF FullInv, TypeOK
  <2>2. ASSUME status' \in {"parsing", "ready"}, NEW k \in Taken(data')
        PROVE  \E g \in Headers' \cup {0} : PlaceOf(data[k], g)'
    <3>1. k \in Taken(data) /\ data'[k] = data[k] /\ status \in {"parsing", "ready"}
      BY <1>4, <2>2
    <3>2. PICK g \in Headers \cup {0} : PlaceOf(data[k], g)
      BY <3>1, <1>3 DEF PlaceInv
    <3> QED
      BY <3>1, <3>2, <1>4, <2>1, PlaceKept, SameFile
  <2>3. ASSUME status' = "parsing" PROVE PlaceOf(data[current + 1], HeaderOf(next - 1))'
    <3>1. UNCHANGED <<file, next, data, current, status>>
      BY <1>4, <2>3
    <3>2. PICK i, h : i = current + 1 /\ h = HeaderOf(next - 1)
      OBVIOUS
    <3>3. PlaceOf(data[i], h)
      BY <3>1, <3>2, <1>3, <2>3 DEF PlaceInv
    <3>4. PlaceOf(data[i], h)'
      BY <3>1, <3>3, <2>1, PlaceKept
    <3>5. current' + 1 = i /\ HeaderOf(next - 1)' = h
      BY <3>1, <3>2 DEF HeaderOf
    <3> QED
      BY <3>4, <3>5
  <2> QED
    BY <2>2, <2>3 DEF PlaceInv
<1>5. ASSUME Open PROVE PlaceInv'
  BY <1>5, PlaceOpen
<1>6. ASSUME OpenFails PROVE PlaceInv'
  BY <1>6 DEF OpenFails, PlaceInv
<1>7. ASSUME ParseSection PROVE PlaceInv'
  BY <1>3, <1>7, PlaceSection
<1>8. ASSUME ParseKey PROVE PlaceInv'
  BY <1>3, <1>8, PlaceKey
<1>9. ASSUME ParseOther PROVE PlaceInv'
  BY <1>3, <1>9, PlaceOther
<1>10. ASSUME EndOfFile PROVE PlaceInv'
  BY <1>10, <1>4 DEF EndOfFile
<1>11. ASSUME Call PROVE PlaceInv'
  <2>1. status \in {"ready", "missing"} /\ UNCHANGED <<file, status, next, data>>
    BY <1>11, CallStep DEF FullInv
  <2>2. CASE status = "missing"
    BY <2>1, <2>2 DEF PlaceInv
  <2>3. CASE status = "ready"
    BY <2>1, <2>3, <1>4
  <2> QED
    BY <2>1, <2>2, <2>3
<1>12. ASSUME UNCHANGED vars PROVE PlaceInv'
  BY <1>12, <1>4 DEF vars
<1> QED
  BY <1>5, <1>6, <1>7, <1>8, <1>9, <1>10, <1>11, <1>12 DEF Next, Construct

\* What a lookup that succeeds has found.
LEMMA LookupFinds ==
    ASSUME data \in Seq(Key_Table), Len(data) > 0, NEW s \in Sections, NEW k \in Keys,
           Lookup(s, k).ok
    PROVE  \E i \in Taken(data) : \E c \in DOMAIN data[i].table :
             /\ data[i].key_val = Hash[s] /\ data[i].table[c].key_val = Hash[k]
             /\ Lookup(s, k).value = data[i].table[c].value
<1> DEFINE slot == GetSection(data, Hash[s])
           t == data[slot + 1].table
           cell == GetKey(t, Hash[k])
           inData == {i \in DOMAIN data : data[i].key_val = Hash[s]}
           inTable == {c \in DOMAIN t : t[c].key_val = Hash[k]}
<1>1. Hash[s] \in Nat /\ Hash[k] \in Nat
  BY HashAssumption
<1>2. Lookup(s, k) = IF slot = -1 \/ cell = -1 THEN NoAnswer ELSE Returned(TRUE, t[cell + 1].value)
  BY DEF Lookup, ReadSlot
<1>3. slot # -1 /\ cell # -1 /\ Lookup(s, k).value = t[cell + 1].value
  <2>1. NoAnswer.ok = FALSE /\ \A v : Returned(TRUE, v).value = v
    BY DEF NoAnswer, Returned
  <2> HIDE DEF slot, cell, t
  <2> QED
    BY <2>1, <1>2
<1>4. slot \in 0 .. Len(data) - 1 /\ slot + 1 \in inData
  <2>1. /\ slot = Probe(Len(data), Hash[s], inData) /\ inData \in SUBSET (1 .. Len(data))
        /\ Len(data) \in Nat
    BY DEF GetSection
  <2> HIDE DEF inData, slot
  <2> QED
    BY <2>1, <1>1, <1>3, ProbeFinds
<1>5. t \in Seq(Key_Value)
  <2>1. data[slot + 1] \in Key_Table
    BY <1>4
  <2> QED
    BY <2>1 DEF Key_Table
<1>6. t # <<>> /\ Len(t) \in Nat /\ Len(t) > 0 /\ cell = Probe(Len(t), Hash[k], inTable)
      /\ inTable \in SUBSET (1 .. Len(t))
  <2> HIDE DEF slot
  <2>1. t # <<>> /\ cell = Probe(Len(t), Hash[k], inTable)
    BY <1>3 DEF GetKey
  <2>2. Len(t) \in Nat /\ Len(t) > 0
    BY <2>1, <1>1, <1>5, KeySearches
  <2>3. inTable \in SUBSET (1 .. Len(t))
    BY <1>5
  <2> QED
    BY <2>1, <2>2, <2>3
<1>7. cell + 1 \in inTable
  <2> HIDE DEF inTable, cell, t
  <2> QED
    BY <1>1, <1>3, <1>6, ProbeFinds
<1>8. slot + 1 \in Taken(data)
  BY <1>4, <1>6 DEF Taken
<1> HIDE DEF slot, cell
<1> QED
  BY <1>3, <1>4, <1>7, <1>8

LEMMA PlaceNothingForeign == FullInv /\ PlaceInv => NothingForeign
<1> SUFFICES ASSUME FullInv, PlaceInv, status = "ready", NoTightLine,
                    NEW s \in Sections, NEW k \in Keys,
                    Lookup(s, k).ok, Lookup(s, k).value # Empty
             PROVE  \E h \in Headers : \E j \in KeysOf(h) :
                      /\ Hash[file[h].name] = Hash[s]
                      /\ Hash[file[j].name] = Hash[k]
                      /\ file[j].value = Lookup(s, k).value
  BY DEF NothingForeign
<1>1. data \in Seq(Key_Table) /\ Len(data) > 0
  <2>1. data \in Seq(Key_Table) /\ current \in Nat /\ current < Len(data)
    BY DEF FullInv, TypeOK
  <2>2. Len(data) \in Nat
    BY <2>1
  <2> QED
    BY <2>1, <2>2
<1>2. PICK i \in Taken(data) : \E c \in DOMAIN data[i].table :
        /\ data[i].key_val = Hash[s] /\ data[i].table[c].key_val = Hash[k]
        /\ Lookup(s, k).value = data[i].table[c].value
  BY <1>1, LookupFinds
<1>3. PICK c \in DOMAIN data[i].table :
        /\ data[i].key_val = Hash[s] /\ data[i].table[c].key_val = Hash[k]
        /\ Lookup(s, k).value = data[i].table[c].value
  BY <1>2
<1>4. PICK h \in Headers \cup {0} : PlaceOf(data[i], h)
  BY <1>2 DEF PlaceInv
<1>5. HashOfSection(h) = Hash[s] /\ Hash[s] > 0
  BY <1>3, <1>4, HashAssumption DEF PlaceOf
<1>6. h \in Headers /\ Hash[file[h].name] = Hash[s]
  BY <1>5 DEF HashOfSection, HashOf
<1>7. c \in Used(data[i].table)
  BY <1>3 DEF Used
<1>8. PICK j \in KeysOf(h) : /\ HashOf(j) = data[i].table[c].key_val
                             /\ file[j].value = data[i].table[c].value
  BY <1>4, <1>7 DEF PlaceOf, WrittenIn
<1> QED
  BY <1>3, <1>6, <1>8 DEF HashOf

\* For every set of names, every hash and every file whose lines all have a space: what a
\* lookup returns is the empty value or was written in the file, in a section and under a
\* key that have the hashes of the names asked for.  The names may be others: with two
\* anagrams a key that is not in the file is answered for.
THEOREM LookupsAreWritten == Spec => []NothingForeign
<1>1. FullInv /\ PlaceInv /\ [Next]_vars => (FullInv /\ PlaceInv)'
  BY FullStep, PlaceStep
<1>2. Init => FullInv /\ PlaceInv
  BY FullInit, PlaceInit
<1> QED
  BY <1>1, <1>2, PlaceNothingForeign, PTL DEF Spec

-----------------------------------------------------------------------------
(* In a well-formed file every key is where a search for it ends. *)

\* The counting pass numbers the sections by their headers.
LEMMA KeysOfSection ==
    ASSUME file \in Seq(Line), NEW h \in Headers \cup {0}
    PROVE  /\ KeysOf(h) = KeysAt(file, SectionAt(file, h))
           /\ SectionAt(file, h) \in 0 .. SectionAt(file, Len(file))
<1>1. h \in 0 .. Len(file) /\ h \in Nat /\ Len(file) \in Nat /\ DOMAIN file = 1 .. Len(file)
      /\ h <= Len(file)
  BY DEF Headers
<1>2. SectionAt(file, h) \in 0 .. SectionAt(file, Len(file))
  <2>1. SectionAt(file, h) \in Nat /\ SectionAt(file, Len(file)) \in Nat
    BY <1>1, SectionAtNat
  <2>2. SectionAt(file, h) <= SectionAt(file, Len(file))
    BY <1>1, SectionAtGrows
  <2> QED
    BY <2>1, <2>2
<1>3. ASSUME NEW j \in DOMAIN file PROVE HeaderOf(j) = h <=> SectionAt(file, j) = SectionAt(file, h)
  <2>1. j \in 0 .. Len(file) /\ j \in Nat /\ j > 0
    BY <1>1
  <2>2. /\ HeaderOf(j) \in 0 .. j /\ HeaderOf(j) \in Headers \cup {0}
        /\ \A g \in Headers : g <= j => g <= HeaderOf(j)
    BY <2>1, HeaderTypes
  <2>3. \A i \in 0 .. Len(file) : HeadersTo(file, i) = {g \in Headers : g <= i}
    BY <1>1 DEF HeadersTo, Headers
  <2>4. CASE h <= j
    <3>1. /\ SectionAt(file, h) = SectionAt(file, j) => \A g \in HeadersTo(file, j) : g <= h
          /\ (\A g \in HeadersTo(file, j) : g <= h) => SectionAt(file, h) = SectionAt(file, j)
      BY <1>1, <2>1, <2>4, SectionAtGrows
    <3>2. HeaderOf(j) = h <=> \A g \in HeadersTo(file, j) : g <= h
      <4>1. ASSUME HeaderOf(j) = h PROVE \A g \in HeadersTo(file, j) : g <= h
        BY <4>1, <2>1, <2>2, <2>3
      <4>2. ASSUME \A g \in HeadersTo(file, j) : g <= h PROVE HeaderOf(j) = h
        <5>1. HeaderOf(j) <= h
          BY <4>2, <1>1, <2>1, <2>2, <2>3
        <5>2. h <= HeaderOf(j)
          BY <1>1, <2>1, <2>2, <2>4
        <5> QED
          BY <5>1, <5>2, <1>1, <2>1, <2>2
      <4> QED
        BY <4>1, <4>2
    <3> QED
      BY <3>1, <3>2
  <2>5. CASE j < h
    <3>1. HeaderOf(j) # h
      BY <1>1, <2>1, <2>2, <2>5
    <3>2. h \in HeadersTo(file, h) /\ ~(h <= j)
      BY <1>1, <2>1, <2>3, <2>5
    <3>3. SectionAt(file, j) # SectionAt(file, h)
      <4>1. j <= h
        BY <1>1, <2>1, <2>5
      <4> QED
        BY <4>1, <3>2, <1>1, <2>1, SectionAtGrows
    <3> QED
      BY <3>1, <3>3
  <2> QED
    BY <2>1, <2>4, <2>5, <1>1
<1> QED
  BY <1>2, <1>3 DEF KeysOf, KeysAt

\* A new table stores nothing yet.
LEMMA StoresNothing ==
    ASSUME NEW n \in Nat
    PROVE  Stores(EmptyTable(n), {})
BY NewTable, NothingUsed DEF Stores

\* A key goes to the slot where a search for it will end.
LEMMA StoresOneMore ==
    ASSUME NEW t \in Seq(Key_Value), NEW K \in SUBSET Key_Value, Stores(t, K),
           \A k \in K : k.value # Empty,
           NEW new \in Key_Value, new.value # Empty,
           \A k \in K : k.key_val # new.key_val,
           NEW slot \in 0 .. Len(t) - 1, t[slot + 1].value = Empty,
           \E d \in 0 .. Len(t) - 1 :
             /\ slot + 1 = Place(Len(t), new.key_val, d)
             /\ \A e \in 0 .. d - 1 : Place(Len(t), new.key_val, e) \in Used(t)
    PROVE  Stores([t EXCEPT ![slot + 1] = new], K \cup {new})
<1> DEFINE f == [t EXCEPT ![slot + 1] = new]
           n == Len(t)
<1>1. DOMAIN t = 1 .. n /\ n \in Nat /\ DOMAIN f = 1 .. n /\ Len(f) = n
  OBVIOUS
<1>2. slot + 1 \in 1 .. n /\ f[slot + 1] = new /\ \A c \in 1 .. n : c # slot + 1 => f[c] = t[c]
  BY <1>1
<1> HIDE DEF f, n
<1>3. Used(f) = Used(t) \cup {slot + 1} /\ slot + 1 \notin Used(t) /\ Used(t) \subseteq 1 .. n
  BY <1>1, <1>2 DEF Used
<1>4. /\ \A c \in Used(t) : t[c] \in K
      /\ \A c \in DOMAIN t \ Used(t) : t[c] = Unused
      /\ \A k \in K : \E d \in 0 .. n - 1 :
           /\ t[Place(n, k.key_val, d)] = k
           /\ \A e \in 0 .. d - 1 :
                /\ Place(n, k.key_val, e) \in Used(t)
                /\ t[Place(n, k.key_val, e)].key_val # k.key_val
  BY DEF Stores, n
<1>5. \A c \in Used(f) : f[c] \in K \cup {new}
  BY <1>2, <1>3, <1>4
<1>6. \A c \in DOMAIN f \ Used(f) : f[c] = Unused
  BY <1>1, <1>2, <1>3, <1>4
<1>7. ASSUME NEW k \in K
      PROVE  \E d \in 0 .. n - 1 :
               /\ f[Place(n, k.key_val, d)] = k
               /\ \A e \in 0 .. d - 1 :
                    /\ Place(n, k.key_val, e) \in Used(f)
                    /\ f[Place(n, k.key_val, e)].key_val # k.key_val
  <2>1. PICK d \in 0 .. n - 1 :
           /\ t[Place(n, k.key_val, d)] = k
           /\ \A e \in 0 .. d - 1 :
                /\ Place(n, k.key_val, e) \in Used(t)
                /\ t[Place(n, k.key_val, e)].key_val # k.key_val
    BY <1>4
  <2>2. Place(n, k.key_val, d) \in 1 .. n
    <3>1. k.key_val \in Nat /\ n > 0
      BY <1>1, <1>2 DEF Key_Value
    <3> QED
      BY <3>1, <1>1, PlaceInTable
  <2>3. Place(n, k.key_val, d) # slot + 1
    BY <2>1
  <2>4. \A e \in 0 .. d - 1 :
           /\ Place(n, k.key_val, e) \in Used(f)
           /\ f[Place(n, k.key_val, e)].key_val # k.key_val
    BY <1>2, <1>3, <2>1
  <2>5. f[Place(n, k.key_val, d)] = k
    BY <1>2, <2>1, <2>2, <2>3
  <2> QED
    BY <2>4, <2>5
<1>8. \E d \in 0 .. n - 1 :
        /\ f[Place(n, new.key_val, d)] = new
        /\ \A e \in 0 .. d - 1 :
             /\ Place(n, new.key_val, e) \in Used(f)
             /\ f[Place(n, new.key_val, e)].key_val # new.key_val
  <2>1. PICK d \in 0 .. n - 1 : /\ slot + 1 = Place(n, new.key_val, d)
                                /\ \A e \in 0 .. d - 1 : Place(n, new.key_val, e) \in Used(t)
    BY DEF n
  <2>2. ASSUME NEW c \in Used(t) PROVE c \in Used(f) /\ f[c].key_val # new.key_val
    BY <1>2, <1>3, <1>4
  <2> QED
    BY <2>1, <2>2, <1>2
<1>9. \A k \in K \cup {new} : \E d \in 0 .. n - 1 :
        /\ f[Place(n, k.key_val, d)] = k
        /\ \A e \in 0 .. d - 1 :
             /\ Place(n, k.key_val, e) \in Used(f)
             /\ f[Place(n, k.key_val, e)].key_val # k.key_val
  BY <1>7, <1>8
<1>10. Stores(f, K \cup {new})
  BY <1>1, <1>5, <1>6, <1>9 DEF Stores
<1> QED
  BY <1>10 DEF f

\* A header whose table a step leaves alone stands as it did.
LEMMA StandsKept ==
    ASSUME UNCHANGED <<file, query>>, NEW h, Stands(h),
           Entries(h, next)' = Entries(h, next),
           Len(data) \in Nat, Len(data') = Len(data), HashOf(h) \in Nat,
           DOMAIN data = 1 .. Len(data), DOMAIN data' = DOMAIN data,
           \A i \in Taken(data) : i \in Taken(data') /\ data'[i].key_val = data[i].key_val,
           \A i \in Taken(data) : data[i].key_val = HashOf(h) => data'[i] = data[i]
    PROVE  Stands(h)'
<1> DEFINE n == Len(data)
           hash == HashOf(h)
<1>1. PICK d \in 0 .. n - 1 :
        LET slot == data[Place(n, hash, d)] IN
        /\ slot.key_val = hash
        /\ Stores(slot.table, Entries(h, next))
        /\ Len(slot.table) = query[SectionAt(file, h) + 1] /\ slot.table # <<>>
        /\ \A e \in 0 .. d - 1 :
             /\ Place(n, hash, e) \in Taken(data)
             /\ data[Place(n, hash, e)].key_val # hash
  BY DEF Stands
<1>2. n > 0 /\ n \in Nat /\ Place(n, hash, d) \in DOMAIN data
  <2>1. n > 0 /\ n \in Nat
    OBVIOUS
  <2> QED
    BY <2>1, PlaceInTable
<1>3. Place(n, hash, d) \in Taken(data)
  BY <1>1, <1>2 DEF Taken
<1>4. data'[Place(n, hash, d)] = data[Place(n, hash, d)]
  BY <1>1, <1>3
<1>5. \A e \in 0 .. d - 1 :
        /\ Place(n, hash, e) \in Taken(data')
        /\ data'[Place(n, hash, e)].key_val # hash
  BY <1>1
<1>6. HashOf(h)' = hash
  BY DEF HashOf
<1>7. SectionAt(file', h) = SectionAt(file, h) /\ query' = query
  OBVIOUS
<1> QED
  BY <1>1, <1>4, <1>5, <1>6, <1>7 DEF Stands

\* The lines of the file as numbers, and as entries.
LEMMA LineNumbers ==
    ASSUME file \in Seq(Line)
    PROVE  /\ \A h \in Headers : h \in Nat /\ h > 0
           /\ \A h : \A j \in KeysOf(h) : j \in Nat
BY DEF Headers, KeysOf

LEMMA EntryTypes ==
    ASSUME file \in Seq(Line), WellFormed
    PROVE  /\ \A h \in Headers : h \in DOMAIN file /\ h \in Nat /\ h > 0
                                 /\ HashOf(h) \in Nat /\ HashOf(h) > 0
                                 /\ HashOfSection(h) = HashOf(h)
           /\ \A h : \A j \in KeysOf(h) : /\ j \in DOMAIN file /\ j \in Nat
                                          /\ HashOf(j) \in Nat /\ Entry(j) \in Key_Value
<1>1. /\ DOMAIN file = 1 .. Len(file) /\ Len(file) \in Nat
      /\ \A j \in DOMAIN file : file[j] \in Line /\ ~file[j].tight
  BY DEF WellFormed, NoTightLine
<1>2. ASSUME NEW h \in Headers
      PROVE  h \in DOMAIN file /\ h \in Nat /\ h > 0 /\ HashOf(h) \in Nat /\ HashOf(h) > 0
             /\ HashOfSection(h) = HashOf(h)
  <2>1. h \in DOMAIN file /\ file[h].kind = "section" /\ h \in Nat /\ h > 0
    BY <1>1 DEF Headers
  <2> QED
    BY <2>1, <1>1, LineTypes DEF HashOf, HashOfSection
<1>3. ASSUME NEW h, NEW j \in KeysOf(h)
      PROVE  j \in DOMAIN file /\ j \in Nat /\ HashOf(j) \in Nat /\ Entry(j) \in Key_Value
  <2>1. j \in DOMAIN file /\ file[j].kind = "key" /\ j \in Nat
    BY <1>1 DEF KeysOf
  <2> QED
    BY <2>1, <1>1, LineTypes DEF HashOf, Entry, Key_Value
<1> QED
  BY <1>2, <1>3

\* A line read adds its entry, when it has one.
LEMMA EntriesNext ==
    ASSUME UNCHANGED file, file \in Seq(Line), next \in Nat, next' = next + 1
    PROVE  /\ \A h : next \notin KeysOf(h) => Entries(h, next)' = Entries(h, next)
           /\ \A h : next \in KeysOf(h) => Entries(h, next)' = Entries(h, next) \cup {Entry(next)}
<1>1. /\ \A h : KeysOf(h)' = KeysOf(h)
      /\ \A j : Entry(j)' = Entry(j)
  <2>1. \A j : HashOf(j)' = HashOf(j)
    BY SameFile
  <2> QED
    BY <2>1, SameFile DEF Entry
<1>2. ASSUME NEW h, NEW j \in KeysOf(h) PROVE j < next' <=> j < next \/ j = next
  <2>1. j \in Nat
    BY LineNumbers
  <2> QED
    BY <2>1
<1>3. ASSUME NEW h
      PROVE  Entries(h, next)' = {Entry(j) : j \in {i \in KeysOf(h) : i < next \/ i = next}}
  <2>1. Entries(h, next)' = {Entry(j)' : j \in {i \in KeysOf(h)' : i < next'}}
    BY DEF Entries
  <2>2. {i \in KeysOf(h)' : i < next'} = {i \in KeysOf(h) : i < next \/ i = next}
    BY <1>1, <1>2
  <2> QED
    BY <2>1, <2>2, <1>1
<1> QED
  BY <1>3 DEF Entries

LEMMA StandInit == Init => StandInv
BY DEF Init, StandInv

LEMMA StandOpen ==
    ASSUME FullInv, Open
    PROVE  StandInv'
<1>1. /\ status' = "parsing" /\ current' = 0 /\ next = 1
      /\ UNCHANGED <<file, newline, next, found, answer>>
      /\ query' \in Seq(Nat) /\ Len(query') >= 1
      /\ DOMAIN data' = 1 .. Len(data') /\ Len(data') \in Nat /\ Len(data') = Len(query')
      /\ data'[1] = [key_val |-> 0, table |-> EmptyTable(query'[1])]
      /\ \A i \in DOMAIN data' : i # 1 => data'[i] = NoTable
  BY OpenMakes DEF FullInv
<1>2. file \in Seq(Line)
  BY <1>1 DEF FullInv, TypeOK
<1>3. \A h \in Headers : ~(h < next)
  <2>1. \A h \in Headers : h \in Nat /\ h > 0
    BY <1>2, LineNumbers
  <2> QED
    BY <2>1, <1>1
<1>4. \A i \in DOMAIN data' : data'[i].key_val = 0
  BY <1>1 DEF NoTable
<1>5. \A i \in Taken(data') : i = 1
  <2>1. NoTable.table = <<>>
    BY DEF NoTable
  <2> QED
    BY <2>1, <1>1 DEF Taken
<1>6. current' + 1 = 1 /\ next' - 1 = 0 /\ 1 \in DOMAIN data'
  BY <1>1
<1>7. HashOfSection(HeaderOf(next - 1))' = 0
  <2>1. HeaderOf(0) = 0
    <3>1. 0 \in 0 .. Len(file)
      BY <1>2
    <3> QED
      BY <3>1, <1>2, HeaderTypes
  <2>2. HeaderOf(0)' = 0
    BY <2>1, <1>1, SameFile
  <2> QED
    BY <2>2, <1>6 DEF HashOfSection
<1>8. \A h \in Headers' : h < next' => Stands(h)'
  BY <1>1, <1>3, SameFile
<1> QED
  BY <1>4, <1>5, <1>6, <1>7, <1>8 DEF StandInv

\* A header of a well-formed file has a table with room, and a hash of its own.
LEMMA RoomForKeys ==
    ASSUME FullInv, status = "parsing", WellFormed, NEW h \in Headers
    PROVE  query[SectionAt(file, h) + 1] \in Nat /\ query[SectionAt(file, h) + 1] > 0
<1>1. file \in Seq(Line) /\ query \in Seq(Nat) /\ Len(data) = Len(query) /\ CountOK
      /\ SectionAt(file, Len(file)) \in Nat
  BY Parsing
<1>2. KeysOf(h) = KeysAt(file, SectionAt(file, h)) /\ SectionAt(file, h) \in 0 .. SectionAt(file, Len(file))
  BY <1>1, KeysOfSection
<1>3. KeysAt(file, SectionAt(file, h)) # {}
  BY <1>2 DEF WellFormed
<1> DEFINE s == SectionAt(file, h)
<1> HIDE DEF s
<1>4. s \in 0 .. SectionAt(file, Len(file)) /\ s \in Nat /\ KeysAt(file, s) # {}
  BY <1>1, <1>2, <1>3 DEF s
<1>5. Cardinality(KeysAt(file, s)) \in Nat /\ Cardinality(KeysAt(file, s)) # 0
  <2>1. 0 \in Int
    OBVIOUS
  <2>2. IsFiniteSet(KeysAt(file, s)) /\ Cardinality(KeysAt(file, s)) \in Nat
    BY <2>1, <1>1, <1>4, CountedKeys
  <2> QED
    BY <2>2, <1>4, FS_EmptySet
<1>6. Cardinality(KeysAt(file, s)) <= query[s + 1] /\ SectionAt(file, Len(file)) + 1 <= Len(query)
  BY <1>1, <1>4 DEF CountOK
<1>7. query[s + 1] \in Nat
  <2>1. s + 1 \in 1 .. Len(query)
    BY <1>1, <1>4, <1>6
  <2> QED
    BY <2>1, <1>1
<1>8. query[s + 1] > 0
  BY <1>5, <1>6, <1>7
<1> QED
  BY <1>7, <1>8 DEF s

LEMMA StandSection ==
    ASSUME FullInv, StandInv, ParseSection, WellFormed
    PROVE  StandInv'
<1> DEFINE slot == NewSection(data, HashOf(next))
           made == [key_val |-> HashOf(next), table |-> EmptyTable(query[found + 2])]
           n == Len(data)
<1>1. /\ status = "parsing" /\ next \in DOMAIN file /\ file[next].kind = "section"
      /\ SectionAt(file, next) = SectionAt(file, next - 1) + 1
      /\ slot \in 0 .. n - 1 /\ data[slot + 1].table = <<>>
      /\ query[found + 2] \in Nat
      /\ data' = [data EXCEPT ![slot + 1] = made]
      /\ Len(data') = Len(data) /\ DOMAIN data' = DOMAIN data
      /\ current' = slot /\ next' = next + 1
      /\ UNCHANGED <<file, newline, status, query, answer>>
      /\ \E d \in 0 .. n - 1 :
           /\ slot + 1 = Place(n, HashOf(next), d)
           /\ \A e \in 0 .. d - 1 : Place(n, HashOf(next), e) \in Taken(data)
  BY SectionAsWritten DEF WellFormed
<1>2. /\ next \in 1 .. Len(file) /\ Len(file) \in Nat /\ file \in Seq(Line)
      /\ DOMAIN data = 1 .. n /\ n \in Nat /\ found \in Nat
      /\ ParseOK /\ SectionAt(file, next - 1) \in Nat
  BY <1>1, Parsing
<1>3. next \in Nat /\ next' \in Nat /\ next' - 1 = next
  BY <1>1, <1>2
<1>4. PICK m \in Headers : m = next
  BY <1>1 DEF Headers
<1>5. PICK p \in DOMAIN data : p = slot + 1
  BY <1>1, <1>2
<1>6. /\ p = current' + 1 /\ p \notin Taken(data) /\ data'[p] = made
      /\ \A i \in DOMAIN data : i # p => data'[i] = data[i]
      /\ \E d \in 0 .. n - 1 :
           /\ p = Place(n, HashOf(m), d)
           /\ \A e \in 0 .. d - 1 : Place(n, HashOf(m), e) \in Taken(data)
  BY <1>1, <1>4, <1>5 DEF Taken
<1>7. made.key_val = HashOf(m) /\ made.table = EmptyTable(query[SectionAt(file, m) + 1])
      /\ made.table # <<>> /\ Len(made.table) = query[SectionAt(file, m) + 1]
      /\ query[SectionAt(file, m) + 1] \in Nat
  <2>1. found = SectionAt(file, next - 1)
    BY <1>2 DEF ParseOK, WellFormed
  <2>2. found + 2 = SectionAt(file, m) + 1
    BY <2>1, <1>1, <1>2, <1>4
  <2>3. query[SectionAt(file, m) + 1] \in Nat /\ query[SectionAt(file, m) + 1] > 0
    BY <1>1, RoomForKeys
  <2> QED
    BY <2>2, <2>3, <1>4, NewTable
<1> HIDE DEF slot, made, n
<1>8. /\ HashOf(m) \in Nat /\ HashOf(m) > 0 /\ HashOfSection(m) = HashOf(m) /\ m > 0
      /\ \A h \in Headers : HashOf(h) \in Nat /\ h \in Nat
  BY <1>2, EntryTypes
<1>9. \A i \in DOMAIN data : data[i].key_val # HashOf(m)
  <2>1. \A g, h \in Headers : HashOf(g) = HashOf(h) => g = h
    BY DEF WellFormed, HashOf
  <2>3. \A h \in Headers : h < next => HashOf(h) # HashOf(m)
    BY <2>1, <1>3, <1>4, <1>8
  <2> QED
    BY <2>3, <1>1, <1>8 DEF StandInv
<1>10. \A i \in Taken(data) : i \in Taken(data') /\ data'[i] = data[i]
  BY <1>1, <1>6 DEF Taken
<1>11. \A h : next \notin KeysOf(h)
  BY <1>1 DEF KeysOf
<1>12. ASSUME NEW h \in Headers, h < next PROVE Stands(h)'
  <2>1. Stands(h)
    BY <1>1, <1>12 DEF StandInv
  <2>2. Entries(h, next)' = Entries(h, next)
    BY <1>1, <1>2, <1>3, <1>11, EntriesNext
  <2> QED
    BY <2>1, <2>2, <1>1, <1>2, <1>8, <1>10, StandsKept DEF n
<1>13. Stands(m)'
  <2>1. Entries(m, next)' = {}
    <3>1. Entries(m, next) = {}
      <4>1. ASSUME NEW j \in KeysOf(m) PROVE ~(j < next)
        <5>1. j \in DOMAIN file /\ HeaderOf(j) = m
          BY DEF KeysOf
        <5>2. j \in 0 .. Len(file) /\ j \in Nat
          BY <5>1, <1>2
        <5>3. HeaderOf(j) \in 0 .. j
          BY <5>2, <1>2, HeaderTypes
        <5> QED
          BY <5>1, <5>2, <5>3, <1>3, <1>4
      <4> QED
        BY <4>1 DEF Entries
    <3> QED
      BY <3>1, <1>1, <1>2, <1>3, <1>11, EntriesNext
  <2>2. Stores(made.table, {})
    BY <1>7, StoresNothing
  <2>3. PICK d \in 0 .. n - 1 : /\ p = Place(n, HashOf(m), d)
                                /\ \A e \in 0 .. d - 1 : Place(n, HashOf(m), e) \in Taken(data)
    BY <1>6
  <2>4. \A e \in 0 .. d - 1 : /\ Place(n, HashOf(m), e) \in Taken(data')
                              /\ data'[Place(n, HashOf(m), e)].key_val # HashOf(m)
    BY <2>3, <1>9, <1>10 DEF Taken
  <2>5. HashOf(m)' = HashOf(m) /\ Len(data') = n /\ SectionAt(file', m) = SectionAt(file, m) /\ query' = query
    BY <1>1 DEF HashOf, n
  <2> QED
    BY <2>1, <2>2, <2>3, <2>4, <2>5, <1>6, <1>7 DEF Stands
<1>14. \A h \in Headers' : h < next' => Stands(h)'
  <2>1. \A h \in Headers : h < next' => h < next \/ h = m
    BY <1>1, <1>3, <1>4, <1>8
  <2> QED
    BY <2>1, <1>1, <1>12, <1>13, SameFile
<1>15. \A i \in DOMAIN data' :
         data'[i].key_val = 0 \/ \E h \in Headers' : h < next' /\ data'[i].key_val = HashOf(h)'
  <2>1. Headers' = Headers /\ \A h : HashOf(h)' = HashOf(h)
    BY <1>1, SameFile
  <2>2. m < next' /\ \A h \in Headers : h < next => h < next'
    BY <1>1, <1>3, <1>4, <1>8
  <2>3. ASSUME NEW i \in DOMAIN data
        PROVE  data'[i].key_val = 0 \/ \E h \in Headers : h < next' /\ data'[i].key_val = HashOf(h)
    <3>1. CASE i = p
      BY <3>1, <2>2, <1>6, <1>7
    <3>2. CASE i # p
      <4>1. data'[i] = data[i]
        BY <3>2, <1>6
      <4>2. data[i].key_val = 0 \/ \E h \in Headers : h < next /\ data[i].key_val = HashOf(h)
        BY <1>1 DEF StandInv
      <4> QED
        BY <4>1, <4>2, <2>2
    <3> QED
      BY <3>1, <3>2
  <2> QED
    BY <2>1, <2>3, <1>1
<1>16. data'[current' + 1].key_val = HashOfSection(HeaderOf(next - 1))'
  <2>1. HeaderOf(m) = m
    BY <1>1, <1>2, <1>4, HeaderNext
  <2>2. HeaderOf(m)' = m /\ HashOfSection(m)' = HashOf(m)
    BY <2>1, <1>1, <1>8, SameFile
  <2>3. HashOfSection(HeaderOf(next - 1))' = HashOf(m)
    BY <2>2, <1>3, <1>4 DEF HashOfSection
  <2> QED
    BY <2>3, <1>6, <1>7
<1>17. \A i \in Taken(data') : data'[i].key_val = data'[current' + 1].key_val => i = current' + 1
  <2>1. \A i \in DOMAIN data : i # p => data'[i].key_val # HashOf(m)
    BY <1>6, <1>9
  <2> QED
    BY <2>1, <1>1, <1>6, <1>7 DEF Taken
<1> QED
  BY <1>14, <1>15, <1>16, <1>17 DEF StandInv

\* A header stands in one slot with keys only: the current one, when it is its section's.
LEMMA StandsIn ==
    ASSUME NEW h, Stands(h), Len(data) \in Nat, DOMAIN data = 1 .. Len(data), HashOf(h) \in Nat
    PROVE  \E i \in Taken(data) :
             /\ data[i].key_val = HashOf(h)
             /\ Stores(data[i].table, Entries(h, next))
             /\ Len(data[i].table) = query[SectionAt(file, h) + 1]
             /\ \E d \in 0 .. Len(data) - 1 :
                  /\ i = Place(Len(data), HashOf(h), d)
                  /\ \A e \in 0 .. d - 1 :
                       /\ Place(Len(data), HashOf(h), e) \in Taken(data)
                       /\ data[Place(Len(data), HashOf(h), e)].key_val # HashOf(h)
<1> DEFINE n == Len(data)
           hash == HashOf(h)
<1>1. PICK d \in 0 .. n - 1 :
        LET slot == data[Place(n, hash, d)] IN
        /\ slot.key_val = hash
        /\ Stores(slot.table, Entries(h, next))
        /\ Len(slot.table) = query[SectionAt(file, h) + 1] /\ slot.table # <<>>
        /\ \A e \in 0 .. d - 1 :
             /\ Place(n, hash, e) \in Taken(data)
             /\ data[Place(n, hash, e)].key_val # hash
  BY DEF Stands
<1>2. n > 0 /\ n \in Nat
  OBVIOUS
<1>3. Place(n, hash, d) \in DOMAIN data
  BY <1>2, PlaceInTable
<1>4. Place(n, hash, d) \in Taken(data)
  BY <1>1, <1>3 DEF Taken
<1> QED
  BY <1>1, <1>4

LEMMA StandKey ==
    ASSUME FullInv, StandInv, ParseKey, WellFormed
    PROVE  StandInv'
<1> DEFINE t == data[current + 1].table
           slot == NewKey(t, HashOf(next))
           filled == [t EXCEPT ![slot + 1] = Entry(next)]
           made == [key_val |-> data[current + 1].key_val, table |-> filled]
           n == Len(data)
<1>1. /\ status = "parsing" /\ next \in DOMAIN file /\ file[next].kind = "key"
      /\ next' = next + 1 /\ UNCHANGED <<file, newline, query, found, current, answer>>
      /\ t \in Seq(Key_Value)
      /\ slot # -1 /\ UNCHANGED status
      /\ slot \in 0 .. Len(t) - 1 /\ t[slot + 1].value = Empty
      /\ filled \in Seq(Key_Value) /\ Len(filled) = Len(t) /\ DOMAIN filled = DOMAIN t
      /\ data' = [data EXCEPT ![current + 1] = made]
      /\ Len(data') = Len(data) /\ DOMAIN data' = DOMAIN data
      /\ \E d \in 0 .. Len(t) - 1 :
           /\ slot + 1 = Place(Len(t), HashOf(next), d)
           /\ \A e \in 0 .. d - 1 : Place(Len(t), HashOf(next), e) \in Used(t)
  BY KeyAsWritten DEF WellFormed
<1>2. /\ next \in 1 .. Len(file) /\ Len(file) \in Nat /\ file \in Seq(Line)
      /\ DOMAIN data = 1 .. n /\ n \in Nat /\ current \in 0 .. n - 1
  BY <1>1, Parsing
<1>3. next \in Nat /\ next' \in Nat /\ next' - 1 = next
  BY <1>1, <1>2
<1>4. PICK p \in DOMAIN data : p = current + 1
  BY <1>2
<1>5. PICK m \in DOMAIN file : m = next
  BY <1>1
<1>6. PICK h0 \in Headers \cup {0} : h0 = HeaderOf(m - 1) /\ h0 = HeaderOf(m) /\ h0 <= m - 1
  <2>1. m - 1 \in 0 .. Len(file)
    BY <1>2, <1>5
  <2> QED
    BY <2>1, <1>1, <1>2, <1>5, HeaderTypes, HeaderNext
<1>7. t # <<>> /\ filled # <<>>
  <2> HIDE DEF t, slot, filled
  <2>1. Len(t) \in Nat /\ Len(t) > 0 /\ Len(filled) > 0
    BY <1>1
  <2>2. Len(<<>>) = 0
    OBVIOUS
  <2> QED
    BY <2>1, <2>2
<1>8. /\ t = data[p].table /\ made.key_val = data[p].key_val /\ made.table = filled
      /\ data'[p] = made /\ \A i \in DOMAIN data : i # p => data'[i] = data[i]
  BY <1>1, <1>4
<1> HIDE DEF t, slot, made, filled, n
<1>9. Taken(data') = Taken(data) /\ p \in Taken(data)
      /\ \A i \in DOMAIN data : data'[i].key_val = data[i].key_val
  BY <1>1, <1>7, <1>8 DEF Taken
<1>10. /\ data[p].key_val = HashOfSection(h0)
       /\ \A i \in Taken(data) : data[i].key_val = data[p].key_val => i = p
       /\ \A h \in Headers : h < next => Stands(h)
       /\ \A i \in DOMAIN data :
             data[i].key_val = 0 \/ \E h \in Headers : h < next /\ data[i].key_val = HashOf(h)
  <2>1. /\ data[current + 1].key_val = HashOfSection(HeaderOf(next - 1))
        /\ \A i \in Taken(data) : data[i].key_val = data[current + 1].key_val => i = current + 1
        /\ \A h \in Headers : h < next => Stands(h)
        /\ \A i \in DOMAIN data :
             data[i].key_val = 0 \/ \E h \in Headers : h < next /\ data[i].key_val = HashOf(h)
    BY <1>1 DEF StandInv
  <2> QED
    BY <2>1, <1>4, <1>5, <1>6
<1>11. \A h \in Headers : /\ HashOf(h) \in Nat /\ HashOf(h) > 0 /\ h \in Nat /\ h > 0
                          /\ HashOfSection(h) = HashOf(h)
  BY <1>2, EntryTypes
<1>12. next \notin Headers /\ m \in KeysOf(h0) /\ \A h : h # h0 => next \notin KeysOf(h)
  BY <1>1, <1>5, <1>6 DEF Headers, KeysOf
<1>13. ASSUME NEW h \in Headers, h < next, h # h0 PROVE Stands(h)'
  <2>1. Stands(h)
    BY <1>10, <1>13
  <2>2. Entries(h, next)' = Entries(h, next)
    BY <1>1, <1>2, <1>3, <1>12, <1>13, EntriesNext
  <2>3. HashOf(h) # data[p].key_val
    <3>1. CASE h0 = 0
      BY <3>1, <1>10, <1>11 DEF HashOfSection
    <3>2. CASE h0 # 0
      BY <3>2, <1>6, <1>10, <1>11, <1>13 DEF WellFormed, HashOf
    <3> QED
      BY <3>1, <3>2
  <2>4. \A i \in Taken(data) : data[i].key_val = HashOf(h) => data'[i] = data[i]
    BY <2>3, <1>8 DEF Taken
  <2>5. \A i \in Taken(data) : i \in Taken(data') /\ data'[i].key_val = data[i].key_val
    BY <1>9 DEF Taken
  <2>6. n \in Nat /\ Len(data') = n /\ HashOf(h) \in Nat /\ DOMAIN data = 1 .. n
    BY <1>1, <1>2, <1>11 DEF n
  <2> QED
    BY <2>1, <2>2, <2>4, <2>5, <2>6, <1>1, StandsKept DEF n
<1>14. ASSUME h0 # 0 PROVE Stands(h0)'
  <2>1. h0 \in Headers /\ Stands(h0) /\ HashOf(h0) \in Nat /\ HashOf(h0) = data[p].key_val
    <3>1. h0 \in Headers /\ h0 < next
      BY <1>3, <1>5, <1>6, <1>11, <1>14
    <3> QED
      BY <3>1, <1>10, <1>11
  <2>2. /\ Stores(t, Entries(h0, next))
        /\ Len(t) = query[SectionAt(file, h0) + 1]
        /\ \E d \in 0 .. n - 1 :
             /\ p = Place(n, HashOf(h0), d)
             /\ \A e \in 0 .. d - 1 :
                  /\ Place(n, HashOf(h0), e) \in Taken(data)
                  /\ data[Place(n, HashOf(h0), e)].key_val # HashOf(h0)
    <3>1. PICK i \in Taken(data) :
             /\ data[i].key_val = HashOf(h0)
             /\ Stores(data[i].table, Entries(h0, next))
             /\ Len(data[i].table) = query[SectionAt(file, h0) + 1]
             /\ \E d \in 0 .. n - 1 :
                  /\ i = Place(n, HashOf(h0), d)
                  /\ \A e \in 0 .. d - 1 :
                       /\ Place(n, HashOf(h0), e) \in Taken(data)
                       /\ data[Place(n, HashOf(h0), e)].key_val # HashOf(h0)
      BY <2>1, <1>2, StandsIn DEF n
    <3>2. i = p
      BY <3>1, <2>1, <1>10
    <3> QED
      BY <3>1, <3>2, <1>8
  <2>3. Entries(h0, next)' = Entries(h0, next) \cup {Entry(m)}
    BY <1>1, <1>2, <1>3, <1>5, <1>12, EntriesNext
  <2>4. Stores(filled, Entries(h0, next) \cup {Entry(m)})
    <3>1. \A j \in KeysOf(h0) : j \in Nat /\ Entry(j) \in Key_Value /\ file[j].value # Empty
      <4>1. \A j \in KeysOf(h0) : j \in DOMAIN file /\ file[j].kind = "key"
        BY DEF KeysOf
      <4> QED
        BY <4>1, <1>2, EntryTypes DEF WellFormed
    <3>2. \A j \in KeysOf(h0) : j < next => HashOf(j) # HashOf(m)
      BY <3>1, <1>3, <1>5, <1>6, <1>12 DEF WellFormed, HashOf
    <3>3. \A j : Entry(j).key_val = HashOf(j) /\ Entry(j).value = file[j].value
      BY DEF Entry
    <3>4. Entries(h0, next) \in SUBSET Key_Value
      BY <3>1 DEF Entries
    <3>5. \A k \in Entries(h0, next) : k.value # Empty /\ k.key_val # Entry(m).key_val
      BY <3>1, <3>2, <3>3 DEF Entries
    <3>6. Entry(m) \in Key_Value /\ Entry(m).value # Empty /\ Entry(m).key_val = HashOf(next)
      BY <3>1, <3>3, <1>5, <1>12
    <3>7. PICK d \in 0 .. Len(t) - 1 :
            /\ slot + 1 = Place(Len(t), HashOf(next), d)
            /\ \A e \in 0 .. d - 1 : Place(Len(t), HashOf(next), e) \in Used(t)
      BY <1>1
    <3>8. Stores([t EXCEPT ![slot + 1] = Entry(m)], Entries(h0, next) \cup {Entry(m)})
      BY <3>4, <3>5, <3>6, <3>7, <2>2, <1>1, StoresOneMore
    <3> QED
      BY <3>8, <1>5 DEF filled
  <2>5. PICK d \in 0 .. n - 1 :
          /\ p = Place(n, HashOf(h0), d)
          /\ \A e \in 0 .. d - 1 :
               /\ Place(n, HashOf(h0), e) \in Taken(data)
               /\ data[Place(n, HashOf(h0), e)].key_val # HashOf(h0)
    BY <2>2
  <2>6. \A e \in 0 .. d - 1 :
          /\ Place(n, HashOf(h0), e) \in Taken(data')
          /\ data'[Place(n, HashOf(h0), e)].key_val # HashOf(h0)
    BY <2>5, <1>9 DEF Taken
  <2>7. /\ HashOf(h0)' = HashOf(h0) /\ Len(data') = n /\ SectionAt(file', h0) = SectionAt(file, h0)
        /\ query' = query
    BY <1>1 DEF HashOf, n
  <2>8. data'[p].table = filled /\ data'[p].key_val = HashOf(h0) /\ Len(filled) = Len(t)
    BY <2>1, <1>1, <1>8
  <2> QED
    BY <2>2, <2>3, <2>4, <2>5, <2>6, <2>7, <2>8, <1>7 DEF Stands
<1>15. \A h \in Headers' : h < next' => Stands(h)'
  <2>1. \A h \in Headers : h < next' => h < next /\ h # 0
    BY <1>1, <1>3, <1>11, <1>12
  <2> QED
    BY <2>1, <1>1, <1>13, <1>14, SameFile
<1>16. \A i \in DOMAIN data' :
         data'[i].key_val = 0 \/ \E h \in Headers' : h < next' /\ data'[i].key_val = HashOf(h)'
  <2>1. Headers' = Headers /\ \A h : HashOf(h)' = HashOf(h)
    BY <1>1, SameFile
  <2>2. \A h \in Headers : h < next => h < next'
    BY <1>1, <1>3, <1>11
  <2> QED
    BY <2>1, <2>2, <1>1, <1>9, <1>10
<1>17. data'[current' + 1].key_val = HashOfSection(HeaderOf(next - 1))'
  <2>1. HeaderOf(m)' = h0 /\ HashOfSection(h0)' = HashOfSection(h0)
    BY <1>1, <1>6, SameFile
  <2>2. HashOfSection(HeaderOf(next - 1))' = HashOfSection(h0)
    BY <2>1, <1>3, <1>5 DEF HashOfSection
  <2> QED
    BY <2>2, <1>1, <1>4, <1>9, <1>10
<1>18. \A i \in Taken(data') : data'[i].key_val = data'[current' + 1].key_val => i = current' + 1
  BY <1>1, <1>4, <1>9, <1>10 DEF Taken
<1> QED
  BY <1>15, <1>16, <1>17, <1>18 DEF StandInv

LEMMA StandOther ==
    ASSUME FullInv, StandInv, ParseOther, WellFormed
    PROVE  StandInv'
<1>1. /\ status = "parsing" /\ next \in DOMAIN file
      /\ file[next].kind \notin {"section", "key"}
      /\ next' = next + 1
      /\ UNCHANGED <<file, newline, status, query, found, data, current, answer>>
  BY OtherMakes DEF WellFormed
<1>2. /\ next \in 1 .. Len(file) /\ Len(file) \in Nat /\ file \in Seq(Line)
      /\ DOMAIN data = 1 .. Len(data) /\ Len(data) \in Nat /\ current \in 0 .. Len(data) - 1
  BY <1>1, Parsing
<1>3. next \in Nat /\ next' \in Nat /\ next' - 1 = next
  BY <1>1, <1>2
<1>4. /\ data[current + 1].key_val = HashOfSection(HeaderOf(next - 1))
      /\ \A i \in Taken(data) : data[i].key_val = data[current + 1].key_val => i = current + 1
      /\ \A h \in Headers : h < next => Stands(h)
      /\ \A i \in DOMAIN data :
           data[i].key_val = 0 \/ \E h \in Headers : h < next /\ data[i].key_val = HashOf(h)
  BY <1>1 DEF StandInv
<1>5. next \notin Headers /\ \A h : next \notin KeysOf(h)
  BY <1>1 DEF Headers, KeysOf
<1>6. \A h \in Headers : HashOf(h) \in Nat /\ h \in Nat
  BY <1>2, EntryTypes
<1>7. \A h \in Headers : h < next' <=> h < next
  BY <1>1, <1>3, <1>5, <1>6
<1>8. ASSUME NEW h \in Headers, h < next PROVE Stands(h)'
  <2>1. Entries(h, next)' = Entries(h, next)
    BY <1>1, <1>2, <1>3, <1>5, EntriesNext
  <2>2. Stands(h)
    BY <1>4, <1>8
  <2>3. data' = data
    BY <1>1
  <2> QED
    BY <2>1, <2>2, <2>3, <1>1, <1>2, <1>6, StandsKept
<1>9. data'[current' + 1].key_val = HashOfSection(HeaderOf(next - 1))'
  <2>1. PICK m \in DOMAIN file : m = next
    BY <1>1
  <2>2. PICK h0 : h0 = HeaderOf(m - 1) /\ h0 = HeaderOf(m)
    BY <2>1, <1>1, <1>2, HeaderNext
  <2>3. HeaderOf(m)' = h0 /\ HashOfSection(h0)' = HashOfSection(h0)
    BY <2>2, <1>1, SameFile
  <2>4. HashOfSection(HeaderOf(next - 1))' = HashOfSection(h0)
    BY <2>1, <2>3, <1>3 DEF HashOfSection
  <2> QED
    BY <2>1, <2>2, <2>4, <1>1, <1>4
<1>10. Headers' = Headers /\ \A h : HashOf(h)' = HashOf(h)
  BY <1>1, SameFile
<1>11. \A h \in Headers' : h < next' => Stands(h)'
  BY <1>7, <1>8, <1>10
<1>12. \A i \in DOMAIN data' :
         data'[i].key_val = 0 \/ \E h \in Headers' : h < next' /\ data'[i].key_val = HashOf(h)'
  BY <1>1, <1>4, <1>7, <1>10
<1>13. \A i \in Taken(data') : data'[i].key_val = data'[current' + 1].key_val => i = current' + 1
  BY <1>1, <1>4 DEF Taken
<1> QED
  BY <1>9, <1>11, <1>12, <1>13 DEF StandInv

LEMMA StandStep ==
    ASSUME FullInv, StandInv, [Next]_vars
    PROVE  StandInv'
<1>1. SUFFICES ASSUME WellFormed' PROVE StandInv'
  BY DEF StandInv
<1>2. UNCHANGED file
  BY CallStep DEF Next, Construct, Open, OpenFails, ParseSection, ParseKey, ParseOther, EndOfFile,
     vars, FullInv
<1>3. WellFormed
  BY <1>1, <1>2, SameFile
<1>4. ASSUME UNCHANGED <<file, query, next, data>>, status \in {"parsing", "ready"},
             UNCHANGED <<status, current>> \/ status' # "parsing"
      PROVE  StandInv'
  <2>1. /\ file \in Seq(Line) /\ Len(data) \in Nat /\ DOMAIN data = 1 .. Len(data)
    BY DEF FullInv, TypeOK
  <2>2. Headers' = Headers /\ \A h : HashOf(h)' = HashOf(h)
    BY <1>4, SameFile
  <2>3. ASSUME NEW h \in Headers, h < next PROVE Stands(h)'
    <3>1. Stands(h) /\ HashOf(h) \in Nat
      BY <1>3, <1>4, <2>1, <2>3, EntryTypes DEF StandInv
    <3>2. Entries(h, next)' = Entries(h, next)
      <4>1. \A j : Entry(j)' = Entry(j)
        BY <1>4, <2>2 DEF Entry
      <4>2. KeysOf(h)' = KeysOf(h) /\ next' = next
        BY <1>4, SameFile
      <4> QED
        BY <4>1, <4>2 DEF Entries
    <3> QED
      BY <3>1, <3>2, <2>1, <1>4, StandsKept
  <2>4. \A i \in DOMAIN data' :
          data'[i].key_val = 0 \/ \E h \in Headers' : h < next' /\ data'[i].key_val = HashOf(h)'
    BY <1>3, <1>4, <2>2 DEF StandInv
  <2>5. ASSUME status' = "parsing"
        PROVE  /\ data'[current' + 1].key_val = HashOfSection(HeaderOf(next - 1))'
               /\ \A i \in Taken(data') : data'[i].key_val = data'[current' + 1].key_val => i = current' + 1
    <3>1. UNCHANGED <<file, next, data, current, status>>
      BY <1>4, <2>5
    <3>2. /\ data[current + 1].key_val = HashOfSection(HeaderOf(next - 1))
          /\ \A i \in Taken(data) : data[i].key_val = data[current + 1].key_val => i = current + 1
      BY <3>1, <1>3, <2>5 DEF StandInv
    <3>3. HashOfSection(HeaderOf(next - 1))' = HashOfSection(HeaderOf(next - 1))
      BY <3>1 DEF HashOfSection, HeaderOf, HashOf
    <3> QED
      BY <3>1, <3>2, <3>3 DEF Taken
  <2>6. \A h \in Headers' : h < next' => Stands(h)'
    BY <1>4, <2>2, <2>3
  <2> QED
    BY <2>4, <2>5, <2>6 DEF StandInv
<1>5. ASSUME Open PROVE StandInv'
  BY <1>5, StandOpen
<1>6. ASSUME OpenFails PROVE StandInv'
  BY <1>6 DEF OpenFails, StandInv
<1>7. ASSUME ParseSection PROVE StandInv'
  BY <1>3, <1>7, StandSection
<1>8. ASSUME ParseKey PROVE StandInv'
  BY <1>3, <1>8, StandKey
<1>9. ASSUME ParseOther PROVE StandInv'
  BY <1>3, <1>9, StandOther
<1>10. ASSUME EndOfFile PROVE StandInv'
  BY <1>10, <1>4 DEF EndOfFile
<1>11. ASSUME Call PROVE StandInv'
  <2>1. status \in {"ready", "missing"} /\ UNCHANGED <<file, query, status, next, data>>
    BY <1>11, CallStep DEF FullInv
  <2>2. CASE status = "missing"
    BY <2>1, <2>2 DEF StandInv
  <2>3. CASE status = "ready"
    BY <2>1, <2>3, <1>4
  <2> QED
    BY <2>1, <2>2, <2>3
<1>12. ASSUME UNCHANGED vars PROVE StandInv'
  <2>1. UNCHANGED <<file, query, status, next, data, current>>
    BY <1>12 DEF vars
  <2>2. CASE status \in {"parsing", "ready"}
    BY <2>1, <2>2, <1>4
  <2>3. CASE status \notin {"parsing", "ready"}
    BY <2>1, <2>3 DEF StandInv
  <2> QED
    BY <2>2, <2>3
<1> QED
  BY <1>5, <1>6, <1>7, <1>8, <1>9, <1>10, <1>11, <1>12 DEF Next, Construct

\* When the constructor is done, a search for a header ends at its table, which stores
\* its keys and no others.
LEMMA SectionFound ==
    ASSUME FullInv, StandInv, status = "ready", WellFormed, NEW h \in Headers
    PROVE  LET slot == GetSection(data, HashOf(h)) IN
           /\ slot \in 0 .. Len(data) - 1
           /\ data[slot + 1].table \in Seq(Key_Value) /\ data[slot + 1].table # <<>>
           /\ Stores(data[slot + 1].table, {Entry(j) : j \in KeysOf(h)})
           /\ Len(data[slot + 1].table) = query[SectionAt(file, h) + 1]
<1> DEFINE n == Len(data)
           hash == HashOf(h)
           fits == {i \in DOMAIN data : data[i].key_val = hash}
           slot == GetSection(data, hash)
<1>1. /\ file \in Seq(Line) /\ data \in Seq(Key_Table) /\ n \in Nat /\ DOMAIN data = 1 .. n
      /\ next = Len(file) + 1 /\ Len(file) \in Nat /\ DOMAIN file = 1 .. Len(file)
  BY DEF FullInv, TypeOK
<1>2. h \in Nat /\ h < next /\ hash \in Nat
  <2>1. h \in DOMAIN file /\ hash \in Nat
    BY <1>1, EntryTypes
  <2> QED
    BY <2>1, <1>1
<1>3. Stands(h)
  BY <1>2 DEF StandInv
<1>4. PICK i \in Taken(data) :
        /\ data[i].key_val = hash
        /\ Stores(data[i].table, Entries(h, next))
        /\ Len(data[i].table) = query[SectionAt(file, h) + 1]
        /\ \E d \in 0 .. n - 1 :
             /\ i = Place(n, hash, d)
             /\ \A e \in 0 .. d - 1 :
                  /\ Place(n, hash, e) \in Taken(data)
                  /\ data[Place(n, hash, e)].key_val # hash
  BY <1>1, <1>2, <1>3, StandsIn
<1>5. PICK d \in 0 .. n - 1 :
        /\ i = Place(n, hash, d)
        /\ \A e \in 0 .. d - 1 : data[Place(n, hash, e)].key_val # hash
  BY <1>4
<1>6. i \in DOMAIN data /\ data[i].table # <<>>
  BY <1>4 DEF Taken
<1>7. slot = Probe(n, hash, fits) /\ fits \in SUBSET (1 .. n) /\ Place(n, hash, d) \in fits
      /\ \A e \in 0 .. d - 1 : Place(n, hash, e) \notin fits
  BY <1>1, <1>4, <1>5, <1>6 DEF GetSection
<1>8. n > 0
  BY <1>1, <1>6
<1> HIDE DEF n, hash, fits, slot
<1>9. slot + 1 = i /\ slot \in Int
  <2>1. Probe(n, hash, fits) + 1 = Place(n, hash, d)
    BY <1>1, <1>2, <1>7, <1>8, ProbeEnds
  <2>2. Probe(n, hash, fits) # -1
    BY <1>1, <1>2, <1>7, <1>8, ProbeFails
  <2>3. Probe(n, hash, fits) \in 0 .. n - 1
    BY <2>2, <1>1, <1>2, <1>7, <1>8, ProbeFinds
  <2> QED
    BY <2>1, <2>3, <1>1, <1>5, <1>7
<1>10. slot \in 0 .. n - 1
  BY <1>1, <1>6, <1>9
<1>11. Entries(h, next) = {Entry(j) : j \in KeysOf(h)}
  <2>1. \A j \in KeysOf(h) : j < next
    <3>1. KeysOf(h) \subseteq 1 .. Len(file)
      BY <1>1 DEF KeysOf
    <3> QED
      BY <3>1, <1>1
  <2> QED
    BY <2>1 DEF Entries
<1>12. data[i].table \in Seq(Key_Value)
  <2>1. data[i] \in Key_Table
    BY <1>1, <1>6
  <2> QED
    BY <2>1 DEF Key_Table
<1> QED
  BY <1>4, <1>6, <1>9, <1>10, <1>11, <1>12 DEF slot, hash, n

\* A search for a key that a table stores ends at it.
LEMMA KeyFound ==
    ASSUME NEW t \in Seq(Key_Value), NEW K \in SUBSET Key_Value, Stores(t, K), NEW k \in K
    PROVE  GetKey(t, k.key_val) # -1 /\ t[GetKey(t, k.key_val) + 1] = k
<1> DEFINE n == Len(t)
           hash == k.key_val
           fits == {c \in DOMAIN t : t[c].key_val = hash}
<1>1. PICK d \in 0 .. n - 1 :
        /\ t[Place(n, hash, d)] = k
        /\ \A e \in 0 .. d - 1 : t[Place(n, hash, e)].key_val # hash
  BY DEF Stores
<1>2. n \in Nat /\ n > 0 /\ DOMAIN t = 1 .. n /\ hash \in Nat
  BY DEF Key_Value
<1>3. t # <<>>
  BY <1>2, EmptySeq
<1>4. Place(n, hash, d) \in 1 .. n
  <2> HIDE DEF n, hash
  <2> QED
    BY <1>2, PlaceInTable
<1>5. /\ GetKey(t, hash) = Probe(n, hash, fits) /\ fits \in SUBSET (1 .. n)
      /\ Place(n, hash, d) \in fits /\ \A e \in 0 .. d - 1 : Place(n, hash, e) \notin fits
  BY <1>1, <1>2, <1>3, <1>4 DEF GetKey
<1> HIDE DEF n, hash, fits
<1>6. Probe(n, hash, fits) # -1
  BY <1>2, <1>5, ProbeFails
<1>7. Probe(n, hash, fits) + 1 = Place(n, hash, d)
  BY <1>2, <1>5, ProbeEnds
<1> QED
  BY <1>1, <1>5, <1>6, <1>7 DEF hash

LEMMA StandReadsBack == FullInv /\ StandInv => ReadsBack
<1> SUFFICES ASSUME FullInv, StandInv, status = "ready", WellFormed,
                    NEW h \in Headers, NEW j \in KeysOf(h)
             PROVE  Lookup(file[h].name, file[j].name) = Returned(TRUE, file[j].value)
  BY DEF ReadsBack
<1> DEFINE slot == GetSection(data, HashOf(h))
           t == data[slot + 1].table
           K == {Entry(i) : i \in KeysOf(h)}
<1>1. slot \in 0 .. Len(data) - 1 /\ t \in Seq(Key_Value) /\ Stores(t, K)
  BY SectionFound
<1>2. file \in Seq(Line) /\ Len(data) \in Nat
  BY DEF FullInv, TypeOK
<1>3. K \in SUBSET Key_Value /\ Entry(j) \in K
  BY <1>2, EntryTypes
<1>4. Entry(j).key_val = HashOf(j) /\ Entry(j).value = file[j].value
  BY DEF Entry
<1>5. slot # -1
  BY <1>1, <1>2
<1> HIDE DEF K, t, slot
<1>6. GetKey(t, HashOf(j)) # -1 /\ t[GetKey(t, HashOf(j)) + 1] = Entry(j)
  BY <1>1, <1>3, <1>4, KeyFound
<1>7. Lookup(file[h].name, file[j].name) =
        IF slot = -1 THEN NoAnswer
        ELSE IF GetKey(t, HashOf(j)) = -1 THEN NoAnswer
        ELSE Returned(TRUE, t[GetKey(t, HashOf(j)) + 1].value)
  BY DEF Lookup, ReadSlot, HashOf, slot, t
<1> QED
  BY <1>4, <1>5, <1>6, <1>7

\* For every set of names, every hash and every well-formed file: each key reads as it was
\* written, whatever the number of sections and keys whose hashes collide modulo the
\* sizes of the tables, and whatever was set or read before.
THEOREM KeysReadBack == Spec => []ReadsBack
<1>1. FullInv /\ StandInv /\ [Next]_vars => (FullInv /\ StandInv)'
  BY FullStep, StandStep
<1>2. Init => FullInv /\ StandInv
  BY FullInit, StandInit
<1> QED
  BY <1>1, <1>2, StandReadsBack, PTL DEF Spec

-----------------------------------------------------------------------------
(* What a manager loads. *)

\* The list of a table that stores keys of different hashes has each as it is stored; a
\* slot that stores none is listed as the empty value of the id 0.
LEMMA ListedAsStored ==
    ASSUME NEW t \in Seq(Key_Value), NEW K \in SUBSET Key_Value, Stores(t, K),
           \A k \in K : k.value # Empty,
           \A k, l \in K : k.key_val = l.key_val => k = l
    PROVE  /\ \A k \in K : Listed(t)[k.key_val] = k.value
           /\ \A id \in DOMAIN Listed(t) :
                \/ \E k \in K : k.key_val = id
                \/ Used(t) # DOMAIN t /\ id = 0 /\ Listed(t)[id] = Empty
<1> DEFINE n == Len(t)
<1>1. n \in Nat /\ DOMAIN t = 1 .. n
  OBVIOUS
<1>2. /\ \A c \in Used(t) : t[c] \in K
      /\ \A c \in DOMAIN t \ Used(t) : t[c].key_val = 0 /\ t[c].value = Empty
      /\ Used(t) \subseteq DOMAIN t
  BY DEF Stores, Unused, Used
<1>3. /\ \A id \in DOMAIN Listed(t) :
           \E c \in DOMAIN t : /\ t[c].key_val = id /\ Listed(t)[id] = t[c].value
                               /\ \A b \in DOMAIN t : t[b].key_val = id => c <= b
      /\ \A c \in DOMAIN t : t[c].key_val \in DOMAIN Listed(t)
  BY ListedValues
<1> HIDE DEF n
<1>4. ASSUME NEW k \in K PROVE Listed(t)[k.key_val] = k.value
  <2>1. PICK d \in 0 .. n - 1 :
          /\ t[Place(n, k.key_val, d)] = k
          /\ \A e \in 0 .. d - 1 :
               /\ Place(n, k.key_val, e) \in Used(t)
               /\ t[Place(n, k.key_val, e)].key_val # k.key_val
    BY DEF Stores, n
  <2>2. k.key_val \in Nat /\ n > 0
    BY <1>1 DEF Key_Value
  <2>3. Place(n, k.key_val, d) \in DOMAIN t
    BY <1>1, <2>2, PlaceInTable
  <2>4. k.key_val \in DOMAIN Listed(t)
    BY <1>3, <2>1, <2>3
  <2>5. PICK c \in DOMAIN t : /\ t[c].key_val = k.key_val /\ Listed(t)[k.key_val] = t[c].value
                              /\ \A b \in DOMAIN t : t[b].key_val = k.key_val => c <= b
    BY <1>3, <2>4
  <2>6. CASE c \in Used(t)
    BY <2>5, <2>6, <1>2
  <2>7. CASE c \notin Used(t)
    <3>1. k.key_val = 0
      BY <2>5, <2>7, <1>2
    <3>2. Place(n, k.key_val, d) = d + 1
      BY <3>1, <1>1, <2>2, PlaceInTable
    <3>3. c <= d + 1
      BY <3>2, <2>1, <2>3, <2>5
    <3>4. c # d + 1
      <4>1. t[d + 1].value # Empty
        BY <3>2, <2>1
      <4> QED
        BY <4>1, <2>5, <2>7, <1>2
    <3>5. c - 1 \in 0 .. d - 1 /\ c - 1 \in 0 .. n - 1
      BY <3>3, <3>4, <1>1
    <3>6. Place(n, k.key_val, c - 1) = c
      <4>1. Place(n, k.key_val, c - 1) = (c - 1) + 1
        BY <3>1, <3>5, <1>1, <2>2, PlaceInTable
      <4> QED
        BY <4>1, <1>1
    <3> QED
      BY <3>5, <3>6, <2>1, <2>5
  <2> QED
    BY <2>6, <2>7
<1>5. ASSUME NEW id \in DOMAIN Listed(t)
      PROVE  \/ \E k \in K : k.key_val = id
             \/ Used(t) # DOMAIN t /\ id = 0 /\ Listed(t)[id] = Empty
  BY <1>2, <1>3
<1> QED
  BY <1>4, <1>5

\* Without a newline at the end of the file the tables of a well-formed file are full.
LEMMA TableIsFull ==
    ASSUME FullInv, status = "ready", WellFormed, ~newline, NEW h \in Headers,
           NEW t \in Seq(Key_Value), Stores(t, {Entry(j) : j \in KeysOf(h)}),
           Len(t) = query[SectionAt(file, h) + 1]
    PROVE  Used(t) = DOMAIN t
<1> DEFINE J == KeysOf(h)
           s == SectionAt(file, h)
           f == [j \in J |-> CHOOSE c \in Used(t) : t[c] = Entry(j)]
<1>1. file \in Seq(Line) /\ CountOK
  BY DEF FullInv, TypeOK, Made
<1>2. J = KeysAt(file, s) /\ s \in 0 .. SectionAt(file, Len(file))
  BY <1>1, KeysOfSection
<1>3. Cardinality(J) = Len(t)
  BY <1>1, <1>2 DEF CountOK, WellFormed, NoIndentedLine
<1>4. \A j \in J : j \in DOMAIN file /\ file[j].kind = "key" /\ file[j].value # Empty
  BY DEF KeysOf, WellFormed
<1>5. ASSUME NEW j \in J PROVE \E c \in Used(t) : t[c] = Entry(j)
  <2>1. Entry(j) \in {Entry(i) : i \in J} /\ Entry(j).value = file[j].value /\ HashOf(j) \in Nat
        /\ Entry(j).key_val = HashOf(j)
    BY <1>1, EntryTypes DEF Entry
  <2>2. PICK d \in 0 .. Len(t) - 1 : t[Place(Len(t), HashOf(j), d)] = Entry(j)
    BY <2>1 DEF Stores
  <2>3. Len(t) \in Nat /\ Len(t) > 0 /\ DOMAIN t = 1 .. Len(t)
    OBVIOUS
  <2>4. Place(Len(t), HashOf(j), d) \in DOMAIN t
    BY <2>1, <2>3, PlaceInTable
  <2> QED
    BY <2>1, <2>2, <2>4, <1>4 DEF Used
<1>6. \A j \in J : f[j] \in Used(t) /\ t[f[j]] = Entry(j)
  BY <1>5
<1>7. \A i, j \in J : f[i] = f[j] => i = j
  <2> SUFFICES ASSUME NEW i \in J, NEW j \in J, f[i] = f[j] PROVE i = j
    OBVIOUS
  <2>1. Entry(i) = Entry(j)
    BY <1>6
  <2>2. HashOf(i) = HashOf(j)
    BY <2>1 DEF Entry
  <2> QED
    BY <2>2 DEF WellFormed, HashOf
<1>8. f \in Injection(J, Used(t))
  <2>1. f \in [J -> Used(t)] /\ DOMAIN f = J
    BY <1>6
  <2> HIDE DEF f
  <2> QED
    BY <2>1, <1>7 DEF Injection, IsInjective
<1>9. IsFiniteSet(Used(t)) /\ Cardinality(Used(t)) \in Nat
  BY UsedSlots
<1> HIDE DEF f, J
<1>10. Cardinality(J) <= Cardinality(Used(t))
  BY <1>8, <1>9, FS_Injection
<1>11. Len(t) \in Nat /\ DOMAIN t = 1 .. Len(t) /\ Used(t) \in SUBSET (1 .. Len(t))
  BY DEF Used
<1>12. IsFiniteSet(1 .. Len(t)) /\ Cardinality(1 .. Len(t)) = Len(t)
  BY <1>11, FS_Interval
<1>13. /\ Cardinality(Used(t)) <= Len(t)
       /\ Cardinality(Used(t)) = Len(t) => Used(t) = 1 .. Len(t)
  BY <1>11, <1>12, FS_Subset
<1> QED
  BY <1>3, <1>9, <1>10, <1>11, <1>13

LEMMA StandLoads ==
    ASSUME FullInv, StandInv, WellFormed, NEW h \in Headers
    PROVE  LoadedAsWritten(h)
<1> SUFFICES ASSUME LoadAll(file[h].name)
             PROVE  /\ \A j \in KeysOf(h) : answer'.loaded[Hash[file[j].name]] = file[j].value
                    /\ \A id \in DOMAIN answer'.loaded :
                         \/ \E j \in KeysOf(h) : Hash[file[j].name] = id
                         \/ newline /\ id = 0 /\ answer'.loaded[id] = Empty
  BY DEF LoadedAsWritten, NothingElseLoaded
<1> DEFINE slot == GetSection(data, HashOf(h))
           t == data[slot + 1].table
           K == {Entry(j) : j \in KeysOf(h)}
<1>1. status = "ready"
  BY DEF LoadAll
<1>2. /\ slot \in 0 .. Len(data) - 1 /\ t \in Seq(Key_Value) /\ Stores(t, K)
      /\ Len(t) = query[SectionAt(file, h) + 1]
  BY <1>1, SectionFound
<1>3. file \in Seq(Line) /\ newline \in BOOLEAN /\ Len(data) \in Nat
  BY DEF FullInv, TypeOK
<1>4. slot # -1
  BY <1>2, <1>3
<1>5. answer'.loaded = Listed(t)
  <2>1. answer' = Loaded(Listed(t))
    BY <1>4 DEF LoadAll, HashOf
  <2> HIDE DEF t
  <2> QED
    BY <2>1 DEF Loaded
<1>6. ~newline => Used(t) = DOMAIN t
  BY <1>1, <1>2, TableIsFull
<1>7. \A j \in KeysOf(h) : /\ Entry(j) \in K /\ Entry(j) \in Key_Value
                           /\ Entry(j).key_val = Hash[file[j].name]
                           /\ Entry(j).value = file[j].value /\ file[j].value # Empty
  <2>1. \A j \in KeysOf(h) : j \in DOMAIN file /\ file[j].kind = "key"
    BY DEF KeysOf
  <2>2. \A j : Entry(j).key_val = Hash[file[j].name] /\ Entry(j).value = file[j].value
    BY DEF Entry, HashOf
  <2> QED
    BY <2>1, <2>2, <1>3, EntryTypes DEF WellFormed
<1>8. /\ K \in SUBSET Key_Value /\ \A k \in K : k.value # Empty
      /\ \A k \in K : \E j \in KeysOf(h) : k = Entry(j)
  BY <1>7
<1>9. \A k, l \in K : k.key_val = l.key_val => k = l
  <2>1. \A i, j \in KeysOf(h) : Hash[file[i].name] = Hash[file[j].name] => i = j
    BY DEF WellFormed
  <2> QED
    BY <2>1, <1>7, <1>8
<1> HIDE DEF K, t, slot
<1>10. /\ \A k \in K : Listed(t)[k.key_val] = k.value
       /\ \A id \in DOMAIN Listed(t) :
            \/ \E k \in K : k.key_val = id
            \/ Used(t) # DOMAIN t /\ id = 0 /\ Listed(t)[id] = Empty
  BY <1>2, <1>8, <1>9, ListedAsStored
<1> QED
  BY <1>3, <1>5, <1>6, <1>7, <1>8, <1>10

\* What a read of a number answers, from a table that stores keys.
LEMMA ReadAsStored ==
    ASSUME NEW t \in Seq(Key_Value), NEW K \in SUBSET Key_Value, Stores(t, K),
           NEW id \in Nat, GetKey(t, id) # -1
    PROVE  \/ \E k \in K : k.key_val = id
           \/ Used(t) # DOMAIN t /\ id = 0 /\ t[GetKey(t, id) + 1].value = Empty
<1> DEFINE n == Len(t)
           fits == {c \in DOMAIN t : t[c].key_val = id}
           slot == GetKey(t, id)
<1>1. n \in Nat /\ DOMAIN t = 1 .. n /\ fits \in SUBSET (1 .. n)
  OBVIOUS
<1>2. slot = Probe(n, id, fits) /\ slot # -1 /\ t # <<>>
  BY DEF GetKey
<1>3. n > 0
  BY <1>2, KeySearches
<1> HIDE DEF n, slot, fits
<1>4. slot \in 0 .. n - 1 /\ slot + 1 \in fits
  BY <1>1, <1>2, <1>3, ProbeFinds
<1>5. slot + 1 \in DOMAIN t /\ t[slot + 1].key_val = id
  BY <1>4 DEF fits
<1>6. CASE slot + 1 \in Used(t)
  <2>1. t[slot + 1] \in K
    BY <1>6 DEF Stores
  <2> QED
    BY <2>1, <1>5
<1>7. CASE slot + 1 \notin Used(t)
  <2>1. t[slot + 1] = Unused
    BY <1>5, <1>7 DEF Stores
  <2> QED
    BY <2>1, <1>5, <1>7 DEF Unused, slot
<1> QED
  BY <1>6, <1>7

\* An image below the number of keys is below the number of lines, and its slot is found.
LEMMA StandLoadsImages ==
    ASSUME FullInv, StandInv, WellFormed, NEW h \in Headers
    PROVE  LoadedBelowCount(h)
<1> SUFFICES ASSUME LoadImages(file[h].name)
             PROVE  /\ \A j \in KeysOf(h) :
                         Hash[file[j].name] < Cardinality(KeysOf(h)) =>
                             /\ Hash[file[j].name] \in DOMAIN answer'.loaded
                             /\ answer'.loaded[Hash[file[j].name]] = file[j].value
                    /\ \A id \in DOMAIN answer'.loaded :
                         \/ \E j \in KeysOf(h) : Hash[file[j].name] = id
                         \/ newline /\ id = 0 /\ answer'.loaded[id] = Empty
  BY DEF LoadedBelowCount, NothingElseLoaded
<1> DEFINE slot == GetSection(data, HashOf(h))
           t == data[slot + 1].table
           K == {Entry(j) : j \in KeysOf(h)}
           ids == {i \in 0 .. Len(t) - 1 : GetKey(t, i) # -1}
<1>1. status = "ready"
  BY DEF LoadImages
<1>2. /\ slot \in 0 .. Len(data) - 1 /\ t \in Seq(Key_Value) /\ Stores(t, K)
      /\ Len(t) = query[SectionAt(file, h) + 1]
  BY <1>1, SectionFound
<1>3. file \in Seq(Line) /\ newline \in BOOLEAN /\ Len(data) \in Nat /\ CountOK
  BY <1>1 DEF FullInv, TypeOK, Made
<1>4. slot # -1
  BY <1>2, <1>3
<1>5. answer'.loaded = [i \in ids |-> t[GetKey(t, i) + 1].value]
  <2>1. \A i : ReadSlot(slot, i) =
                 IF GetKey(t, i) = -1 THEN NoAnswer
                 ELSE Returned(TRUE, t[GetKey(t, i) + 1].value)
    BY DEF ReadSlot
  <2>2. NumLines(file[h].name) = Len(t)
    BY <1>4 DEF NumLines, HashOf
  <2>3. answer' = Loaded([i \in {c \in 0 .. NumLines(file[h].name) - 1 : ReadSlot(slot, c).ok} |->
                            ReadSlot(slot, i).value])
    BY <1>4 DEF LoadImages, HashOf
  <2> HIDE DEF slot, t
  <2>4. \A i : /\ ReadSlot(slot, i).ok <=> GetKey(t, i) # -1
               /\ GetKey(t, i) # -1 => ReadSlot(slot, i).value = t[GetKey(t, i) + 1].value
    <3>1. NoAnswer.ok = FALSE
      BY DEF NoAnswer, Returned
    <3>2. \A v : Returned(TRUE, v).ok = TRUE /\ Returned(TRUE, v).value = v
      BY DEF Returned
    <3> QED
      BY <2>1, <3>1, <3>2, Zenon
  <2>5. {c \in 0 .. NumLines(file[h].name) - 1 : ReadSlot(slot, c).ok} = ids
    BY <2>2, <2>4
  <2>6. answer' = Loaded([i \in ids |-> ReadSlot(slot, i).value])
    BY <2>3, <2>5
  <2>7. [i \in ids |-> ReadSlot(slot, i).value] = [i \in ids |-> t[GetKey(t, i) + 1].value]
    BY <2>4
  <2> HIDE DEF ids
  <2> QED
    BY <2>6, <2>7 DEF Loaded
<1>6. ~newline => Used(t) = DOMAIN t
  BY <1>1, <1>2, TableIsFull
<1>7. Cardinality(KeysOf(h)) <= Len(t)
  <2>1. /\ KeysOf(h) = KeysAt(file, SectionAt(file, h))
        /\ SectionAt(file, h) \in 0 .. SectionAt(file, Len(file))
    BY <1>3, KeysOfSection
  <2> QED
    BY <2>1, <1>2, <1>3 DEF CountOK
<1>8. \A j \in KeysOf(h) : /\ Entry(j) \in K /\ Entry(j) \in Key_Value
                           /\ Entry(j).key_val = Hash[file[j].name] /\ Hash[file[j].name] \in Nat
                           /\ Entry(j).value = file[j].value
  <2>1. \A j \in KeysOf(h) : j \in DOMAIN file /\ file[j].kind = "key"
    BY DEF KeysOf
  <2>2. \A j : Entry(j).key_val = Hash[file[j].name] /\ Entry(j).value = file[j].value
    BY DEF Entry, HashOf
  <2> QED
    BY <2>1, <2>2, <1>3, EntryTypes DEF HashOf
<1>9. K \in SUBSET Key_Value /\ \A k \in K : \E j \in KeysOf(h) : k = Entry(j)
  BY <1>8
<1>10. IsFiniteSet(KeysOf(h)) /\ Cardinality(KeysOf(h)) \in Nat /\ Len(t) \in Nat
  <2>1. KeysOf(h) \in SUBSET (1 .. Len(file)) /\ Len(file) \in Nat /\ Len(t) \in Nat
    BY <1>2, <1>3 DEF KeysOf
  <2>2. IsFiniteSet(1 .. Len(file))
    BY <2>1, FS_Interval
  <2>3. IsFiniteSet(KeysOf(h))
    BY <2>1, <2>2, FS_Subset
  <2> QED
    BY <2>1, <2>3, FS_CardinalityType
<1> HIDE DEF K, t, slot
<1>11. ASSUME NEW j \in KeysOf(h), Hash[file[j].name] < Cardinality(KeysOf(h))
       PROVE  /\ Hash[file[j].name] \in DOMAIN answer'.loaded
              /\ answer'.loaded[Hash[file[j].name]] = file[j].value
  <2>1. GetKey(t, Hash[file[j].name]) # -1 /\ t[GetKey(t, Hash[file[j].name]) + 1] = Entry(j)
    BY <1>2, <1>8, <1>9, KeyFound
  <2>2. Hash[file[j].name] \in ids
    BY <2>1, <1>7, <1>8, <1>10, <1>11
  <2> QED
    BY <2>1, <2>2, <1>5, <1>8
<1>12. ASSUME NEW id \in DOMAIN answer'.loaded
       PROVE  \/ \E j \in KeysOf(h) : Hash[file[j].name] = id
              \/ newline /\ id = 0 /\ answer'.loaded[id] = Empty
  <2>1. id \in ids /\ id \in Nat /\ GetKey(t, id) # -1
        /\ answer'.loaded[id] = t[GetKey(t, id) + 1].value
    BY <1>5, <1>10
  <2>2. \/ \E k \in K : k.key_val = id
        \/ Used(t) # DOMAIN t /\ id = 0 /\ t[GetKey(t, id) + 1].value = Empty
    BY <2>1, <1>2, <1>9, ReadAsStored
  <2> QED
    BY <2>1, <2>2, <1>3, <1>6, <1>8, <1>9
<1> QED
  BY <1>11, <1>12

\* For every set of names, every hash and every file: a manager loads each id that a
\* section of a well-formed file lists as it was written (the image manager each id below
\* the number of its keys), and beyond those only the empty value of the id 0, when a
\* newline ends the file.
THEOREM ManagersLoadTheList == Spec => LoadsWhatIsListed
<1>1. FullInv /\ StandInv /\ [Next]_vars => (FullInv /\ StandInv)'
  BY FullStep, StandStep
<1>2. Init => FullInv /\ StandInv
  BY FullInit, StandInit
<1>3. FullInv /\ StandInv =>
        ((status = "ready" /\ WellFormed) =>
             \A h \in Headers : LoadedAsWritten(h) /\ LoadedBelowCount(h))
  BY StandLoads, StandLoadsImages
<1> QED
  BY <1>1, <1>2, <1>3, PTL DEF Spec, LoadsWhatIsListed

=============================================================================
