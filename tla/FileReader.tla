----------------------------- MODULE FileReader -----------------------------
(***************************************************************************)
(* The reader of the game's configuration files (FileReader.cpp) and the   *)
(* managers that load what the files list.  A file is a sequence of lines; *)
(* sections and keys are told apart by an additive hash only, and kept in  *)
(* open-addressing tables whose sizes a first pass over the file counts.   *)
(***************************************************************************)
EXTENDS Integers, Sequences, FiniteSetsExt

CONSTANTS Sections,     \* the names of sections
          Keys,         \* the names of keys
          Hash,         \* str_val of a section; _hash_func of a key
          StrayHashes,  \* what lines that are read as one may hash to
          Numbers,      \* the values from_chars can parse
          Zeros,        \* those that are 0
          Texts,        \* the other values, but the empty one
          Empty,        \* the empty value ""
          Unset,        \* what the caller's variable held
          MaxLines      \* the bound on the length of a file

\* The hash is the sum of the characters of a name, or the number that a key is.  A
\* section has a name, of characters that are positive.
ASSUME HashAssumption ==
    /\ Hash \in [Sections \cup Keys -> Nat]
    /\ \A s \in Sections : Hash[s] > 0
    /\ StrayHashes \subseteq Nat /\ StrayHashes # {}
ASSUME ValuesAssumption ==
    Empty \notin Numbers \cup Texts /\ Unset \notin Numbers \cup Texts \cup {Empty}
ASSUME BoundsAssumption == MaxLines \in Nat

Values == Numbers \cup Texts \cup {Empty}

\* A line that is not blank.  A tight line has no space in it; an indented one begins with
\* a space.
SectionLine == [kind : {"section"}, tight : {FALSE}, name : Sections]
KeyLine == [kind : {"key"}, tight : {FALSE}, name : Keys, value : Values]
OtherLine == [kind : {"comment", "indented"}, tight : {FALSE}]
TightLine == [kind : {"section", "key", "comment"}, tight : {TRUE}]
Line == SectionLine \cup KeyLine \cup OtherLine \cup TightLine

VARIABLES file,         \* the lines of the file
          newline,      \* the last line ends in a newline
          status,       \* "closed", "parsing", "ready", "missing" (_read is false), "full" (thrown)
          query,        \* _query: the number of keys counted for each section
          next,         \* the next line to parse
          found,        \* the constructor's "section": sections met so far
          data,         \* _data, slots 0 .. Len - 1
          current,      \* _section_hash_val
          answer        \* the outcome of the last call: what it returned and left in the
                        \* caller's variable, or what a manager loaded, id -> value

vars == <<file, newline, status, query, next, found, data, current, answer>>

Key_Value == [key_val : Nat, value : Values]
Key_Table == [key_val : Nat, table : Seq(Key_Value)]

Unused == [key_val |-> 0, value |-> Empty]
NoTable == [key_val |-> 0, table |-> <<>>]
EmptyTable(n) == [i \in 1 .. n |-> Unused]
Returned(ok, value) == [ok |-> ok, value |-> value, loaded |-> <<>>]
NoAnswer == Returned(FALSE, Unset)
Loaded(ids) == [ok |-> TRUE, value |-> Unset, loaded |-> ids]

Init ==
    /\ file \in UNION {[1 .. n -> Line] : n \in 1 .. MaxLines}
    /\ newline \in BOOLEAN
    /\ status = "closed"
    /\ query = <<>> /\ next = 1 /\ found = 0
    /\ data = <<>> /\ current = 0
    /\ answer = NoAnswer

-----------------------------------------------------------------------------
(* The tables. *)

\* Linear probing over n slots from the one the hash names to the first that fits; -1
\* after a full turn.
Probe(n, hash, fits) ==
    LET hits == {d \in 0 .. n - 1 : ((hash + d) % n) + 1 \in fits}
    IN  IF hits = {} THEN -1 ELSE (hash + Min(hits)) % n

\* Variant of GetSection: the slot the hash names, whatever it holds.
GetSectionAtHash(d, hash) == hash % Len(d)

\* _get_section_hash_val
GetSection(d, hash) == Probe(Len(d), hash, {i \in DOMAIN d : d[i].key_val = hash})

\* _new_section_hash_val: the first slot without keys, a section's without keys included.
NewSection(d, hash) == Probe(Len(d), hash, {i \in DOMAIN d : d[i].table = <<>>})

\* _get_key_hash_val
GetKey(t, hash) ==
    IF t = <<>> THEN -1 ELSE Probe(Len(t), hash, {i \in DOMAIN t : t[i].key_val = hash})

\* Variant of NewKey: a slot is free when its key is 0.
NewKeyByKey(t, hash) ==
    IF t = <<>> THEN -1 ELSE Probe(Len(t), hash, {i \in DOMAIN t : t[i].key_val = 0})

\* _new_key_hash_val: the first slot whose value is empty.
NewKey(t, hash) ==
    IF t = <<>> THEN -1 ELSE Probe(Len(t), hash, {i \in DOMAIN t : t[i].value = Empty})

-----------------------------------------------------------------------------
(* The constructor. *)

\* The number of the section that line j is in; 0 before the first header.
SectionAt(lines, j) == Quantify(1 .. j, LAMBDA i : lines[i].kind = "section")

\* What the counting pass, which sees the first character of a line, takes for a key.
Counted == {"key", "indented"}

\* Variant of Query: keys are counted for the section before.
QueryBehind(lines) ==
    [s \in 1 .. SectionAt(lines, Len(lines)) + 1 |->
        Quantify(DOMAIN lines, LAMBDA j : lines[j].kind \in Counted /\ SectionAt(lines, j) = s)]

\* _query_file: the keys before the first section, then those of each section.
Query(lines) ==
    [s \in 1 .. SectionAt(lines, Len(lines)) + 1 |->
        Quantify(DOMAIN lines, LAMBDA j : lines[j].kind \in Counted /\ SectionAt(lines, j) + 1 = s)]

\* The file is opened and counted: after a newline at its end the failed get() leaves the
\* first character of the last line, which counts again.  The default section's table
\* is the first, in the slot of the hash of "".
Open ==
    /\ status = "closed"
    /\ LET counted == Query(IF newline THEN Append(file, file[Len(file)]) ELSE file)
       IN  /\ query' = counted
           /\ data' = [[i \in DOMAIN counted |-> NoTable]
                         EXCEPT ![1].table = EmptyTable(counted[1])]
    /\ current' = 0
    /\ status' = "parsing"
    /\ UNCHANGED <<file, newline, next, found, answer>>

OpenFails ==
    /\ status = "closed"
    /\ status' = "missing"
    /\ UNCHANGED <<file, newline, query, next, found, data, current, answer>>

\* getline(file, key, ' ') reads up to the first space: a tight line takes the lines up to
\* and including the next line that has a space with it.
LastRead == Min({j \in next .. Len(file) : ~file[j].tight} \cup {Len(file)})

\* The line whose rest is then in val: without a space the second getline() fails and val
\* keeps the rest of the line before.
ValLine == IF file[LastRead].tight THEN next - 1 ELSE LastRead

\* The rest of a line that is read as a value.
Rests(j) ==
    IF j = 0 THEN {Empty} ELSE IF file[j] \in KeyLine THEN {file[j].value} ELSE Values

\* str_val(val) and _hash_func(key), the latter of all the lines that were taken.
SectionHashes ==
    IF ValLine # 0 /\ file[ValLine] \in SectionLine THEN {Hash[file[ValLine].name]}
    ELSE StrayHashes
KeyHashes == IF file[next] \in KeyLine THEN {Hash[file[next].name]} ELSE StrayHashes

ParseSection ==
    /\ status = "parsing" /\ next <= Len(file) /\ file[next].kind = "section"
    /\ \E hash \in SectionHashes :
         LET slot == NewSection(data, hash) IN
         IF slot = -1
         THEN status' = "full" /\ UNCHANGED <<found, data, current>>
         ELSE /\ found' = found + 1
              /\ data' = [data EXCEPT ![slot + 1] =
                              [key_val |-> hash, table |-> EmptyTable(query[found + 2])]]
              /\ current' = slot
              /\ UNCHANGED status
    /\ next' = LastRead + 1
    /\ UNCHANGED <<file, newline, query, answer>>

ParseKey ==
    /\ status = "parsing" /\ next <= Len(file) /\ file[next].kind = "key"
    /\ \E hash \in KeyHashes, value \in Rests(ValLine) :
         LET slot == NewKey(data[current + 1].table, hash) IN
         IF slot = -1
         THEN status' = "full" /\ UNCHANGED data
         ELSE /\ data' = [data EXCEPT ![current + 1].table[slot + 1] =
                              [key_val |-> hash, value |-> value]]
              /\ UNCHANGED status
    /\ next' = LastRead + 1
    /\ UNCHANGED <<file, newline, query, found, current, answer>>

\* A comment, and an indented line, whose key is empty.
ParseOther ==
    /\ status = "parsing" /\ next <= Len(file) /\ file[next].kind \in {"comment", "indented"}
    /\ next' = LastRead + 1
    /\ UNCHANGED <<file, newline, status, query, found, data, current, answer>>

EndOfFile ==
    /\ status = "parsing" /\ next > Len(file)
    /\ status' = "ready"
    /\ UNCHANGED <<file, newline, query, next, found, data, current, answer>>

-----------------------------------------------------------------------------
(* The calls. *)

Opened == status \in {"ready", "missing"}
Called == UNCHANGED <<file, newline, status, query, next, found, data>>

\* What a read of the key in slot s finds.
ReadSlot(s, hash) ==
    LET slot == GetKey(data[s + 1].table, hash)
    IN  IF slot = -1 THEN NoAnswer ELSE Returned(TRUE, data[s + 1].table[slot + 1].value)

\* What the overload for a type leaves in the caller's variable.  A number is parsed into
\* it, and a text leaves it as it was; the one for bool parses into an int of its own,
\* which it has not initialised.  The call succeeds all the same.
Bools == {"true", "false"}
Types == {"string", "number", "bool"}
Converted(value, type) ==
    IF type = "string" THEN {value}
    ELSE IF type = "number" THEN (IF value \in Numbers THEN {value} ELSE {Unset})
    ELSE IF value \in Numbers THEN (IF value \in Zeros THEN {"false"} ELSE {"true"})
    ELSE Bools

Answers(got, type) ==
    IF got.ok THEN {Returned(TRUE, v) : v \in Converted(got.value, type)} ELSE {NoAnswer}

\* Variant of SetSection: what is not found is set all the same.
SetSectionAlways(s) ==
    /\ Opened
    /\ LET slot == IF status = "ready" THEN GetSection(data, Hash[s]) ELSE -1
       IN  /\ current' = slot
           /\ answer' = Returned(slot # -1, Unset)
    /\ Called

SetSection(s) ==
    /\ Opened
    /\ LET slot == IF status = "ready" THEN GetSection(data, Hash[s]) ELSE -1
       IN  /\ current' = (IF slot = -1 THEN current ELSE slot)
           /\ answer' = Returned(slot # -1, Unset)
    /\ Called

\* What s_read finds of the key k in the section s.
Lookup(s, k) ==
    LET slot == GetSection(data, Hash[s]) IN
    IF slot = -1 THEN NoAnswer ELSE ReadSlot(slot, Hash[k])

\* s_read(&val, key, section)
SRead(k, s, type) ==
    /\ Opened
    /\ answer' \in Answers(IF status = "missing" THEN NoAnswer ELSE Lookup(s, k), type)
    /\ Called /\ UNCHANGED current

\* read(&val, key)
Read(k, type) ==
    /\ Opened
    /\ answer' \in Answers(IF status = "missing" THEN NoAnswer ELSE ReadSlot(current, Hash[k]), type)
    /\ Called /\ UNCHANGED current

\* read(&val, i): an int is its own hash.
ReadInt(i, type) ==
    /\ Opened
    /\ answer' \in Answers(IF status = "missing" THEN NoAnswer ELSE ReadSlot(current, i), type)
    /\ Called /\ UNCHANGED current

\* The managers' loop over s_begin() .. s_end(): every slot's id and value, in the order
\* of the slots; the map keeps the first value of an id.
Listed(table) ==
    [id \in {table[i].key_val : i \in DOMAIN table} |->
        table[Min({i \in DOMAIN table : table[i].key_val = id})].value]

\* get_num_lines
NumLines(s) ==
    LET slot == GetSection(data, Hash[s]) IN IF slot = -1 THEN -1 ELSE Len(data[slot + 1].table)

\* Variant of LoadAll: without set_section the last section of the file is loaded.
LoadLast(s) ==
    /\ status = "ready"
    /\ answer' = Loaded(Listed(data[current + 1].table))
    /\ Called /\ UNCHANGED current

\* SceneManager and ProgramManager load what the section lists, or, when it is not
\* found, what the current one does.
LoadAll(s) ==
    /\ status = "ready"
    /\ LET slot == GetSection(data, Hash[s])
           used == IF slot = -1 THEN current ELSE slot
       IN  /\ current' = used
           /\ answer' = Loaded(Listed(data[used + 1].table))
    /\ Called

\* ImageManager reads the ids below the number of lines of the section; without the
\* section resize() throws and nothing is loaded.
LoadImages(s) ==
    /\ status = "ready"
    /\ LET slot == GetSection(data, Hash[s])
           ids == {i \in 0 .. NumLines(s) - 1 : ReadSlot(slot, i).ok}
       IN  IF slot = -1 THEN UNCHANGED <<current, answer>>
           ELSE /\ current' = slot
                /\ answer' = Loaded([i \in ids |-> ReadSlot(slot, i).value])
    /\ Called

Construct == Open \/ OpenFails \/ ParseSection \/ ParseKey \/ ParseOther \/ EndOfFile

Call ==
    \/ \E s \in Sections : SetSection(s) \/ LoadAll(s) \/ LoadImages(s)
    \/ \E k \in Keys, type \in Types :
         Read(k, type) \/ ReadInt(Hash[k], type) \/ (\E s \in Sections : SRead(k, s, type))

Next == Construct \/ Call

Spec == Init /\ [][Next]_vars

-----------------------------------------------------------------------------
(* What the file says, and what the reader makes of it. *)

\* The section that line j belongs to: the number of its header, 0 for the default one.
HeaderOf(j) == Max({0} \cup {i \in 1 .. j : file[i].kind = "section"})

\* The lines with a key in the section whose header is line h.
KeysOf(h) == {j \in DOMAIN file : file[j].kind = "key" /\ HeaderOf(j) = h}

Headers == {i \in DOMAIN file : file[i].kind = "section"}

NoTightLine == \A j \in DOMAIN file : ~file[j].tight

\* The files the tables are made for: every section has keys, every key a value, and
\* no two sections, and no two keys of a section, have the same hash.
WellFormed ==
    /\ NoTightLine
    /\ \A j \in DOMAIN file : file[j].kind # "indented"
    /\ \A h \in Headers : KeysOf(h) # {}
    /\ \A j \in DOMAIN file : file[j].kind = "key" => file[j].value # Empty
    /\ \A g, h \in Headers : Hash[file[g].name] = Hash[file[h].name] => g = h
    /\ \A h \in Headers \cup {0} : \A i, j \in KeysOf(h) :
         Hash[file[i].name] = Hash[file[j].name] => i = j

\* Every variable has its type; _section_hash_val always leads into _data, so that the
\* calls, which do not check it, read a table that is there.
TypeOK ==
    /\ file \in Seq(Line) /\ file # <<>> /\ newline \in BOOLEAN
    /\ status \in {"closed", "parsing", "ready", "missing", "full"}
    /\ query \in Seq(Nat) /\ next \in 1 .. Len(file) + 1 /\ found \in Nat
    /\ data \in Seq(Key_Table)
    /\ current \in Nat
    /\ status \notin {"closed", "missing"} => current < Len(data)
    /\ answer.ok \in BOOLEAN /\ answer.value \in Values \cup {Unset} \cup Bools
    /\ \A id \in DOMAIN answer.loaded : id \in Nat /\ answer.loaded[id] \in Values

\* In a file whose lines all have a space the constructor throws neither "Tables are full"
\* nor "Table Sections are full": the first pass counts at least the lines the second one
\* stores, whatever the sections, their order and the hashes.  A line without a space, be
\* it a comment, a section or a key, may swallow a header that was counted.
NeverFull == NoTightLine => status # "full"

\* In a well-formed file every section is found and every key of it reads as it was
\* written, however the hashes collide modulo the sizes of the tables.
ReadsBack ==
    (status = "ready" /\ WellFormed) =>
        \A h \in Headers : \A j \in KeysOf(h) :
            Lookup(file[h].name, file[j].name) = Returned(TRUE, file[j].value)

\* In a file whose lines all have a space, sections without keys, repeated ones and
\* repeated keys included, a lookup that succeeds returns the empty value, or one that was
\* written under a key and in a section with the same two hashes in the same place.  It may
\* be another name's: only the hashes are compared.
NothingForeign ==
    (status = "ready" /\ NoTightLine) =>
        \A s \in Sections, k \in Keys :
            LET got == Lookup(s, k) IN
            (got.ok /\ got.value # Empty) =>
                \E h \in Headers : \E j \in KeysOf(h) :
                    /\ Hash[file[h].name] = Hash[s]
                    /\ Hash[file[j].name] = Hash[k]
                    /\ file[j].value = got.value

\* FileReader.h:41, "returns false if no key exists", of a well-formed file.
FalseWithoutKey ==
    (status = "ready" /\ WellFormed) =>
        \A s \in Sections, k \in Keys :
            Lookup(s, k).ok =>
                \E h \in Headers : \E j \in KeysOf(h) : file[h].name = s /\ file[j].name = k

\* Under an id that no key of the section of header h has, nothing was loaded but the
\* empty value of the id 0: from a slot that the newline at the end of the file added.
NothingElseLoaded(h) ==
    \A id \in DOMAIN answer'.loaded :
        \/ \E j \in KeysOf(h) : Hash[file[j].name] = id
        \/ newline /\ id = 0 /\ answer'.loaded[id] = Empty

\* What a manager loads of the section of header h of a well-formed file.
LoadedAsWritten(h) ==
    LoadAll(file[h].name) =>
        /\ \A j \in KeysOf(h) : answer'.loaded[Hash[file[j].name]] = file[j].value
        /\ NothingElseLoaded(h)

\* What ImageManager loads of it.
LoadedBelowCount(h) ==
    LoadImages(file[h].name) =>
        /\ \A j \in KeysOf(h) :
             LET id == Hash[file[j].name] IN
             id < Cardinality(KeysOf(h)) =>
                 id \in DOMAIN answer'.loaded /\ answer'.loaded[id] = file[j].value
        /\ NothingElseLoaded(h)

\* A manager that lists a section of a well-formed file loads every id of it as written,
\* and beyond those only the empty value of the id 0.  ImageManager, which reads the ids
\* below the number of lines one by one, does the same for the ids below the number of
\* the section's keys: all of them, when they are numbered from 0.
LoadsWhatIsListed ==
    [][(status = "ready" /\ WellFormed) =>
           \A h \in Headers : LoadedAsWritten(h) /\ LoadedBelowCount(h)]_vars
=============================================================================
