------------------------- MODULE MessagePoolProofs -------------------------
(***************************************************************************)
(* Proofs, for any number of workers, messages and clients, that the       *)
(* unlocked half of the double buffering is free of races, and that the    *)
(* pool is the broadcast of one log.                                       *)
(***************************************************************************)
EXTENDS MessagePool, TLAPS

\* The types the argument needs.
PointersOK ==
    /\ current \in Arrays /\ previous \in Arrays /\ tmp \in Arrays
    /\ mutex \in Workers \cup {TickThread, NoThread}
    /\ workerPc \in [Workers -> {"waiting", "lock", "get_current", "push_back", "unlock"}]
    /\ workerRef \in [Workers -> Arrays]
    /\ tickPc \in {"polling", "lock", "swap1", "swap2", "swap3", "unlock", "broadcast", "clear"}

\* A thread is in its critical section exactly when it holds the mutex.
MutexHeld ==
    /\ \A w \in Workers :
         workerPc[w] \in {"get_current", "push_back", "unlock"} <=> mutex = w
    /\ tickPc \in {"swap1", "swap2", "swap3", "unlock"} <=> mutex = TickThread

\* Outside swap() the two pointers name different arrays.
PointersApart ==
    /\ tickPc # "swap3" => previous = Other(current)
    /\ tickPc = "swap2" => tmp = previous
    /\ tickPc = "swap3" => previous = current /\ tmp = Other(current)

\* What a worker read from _current is still the current array when it stores there.
RefIsCurrent == \A w \in Workers : workerPc[w] = "push_back" => workerRef[w] = current

PInv == PointersOK /\ MutexHeld /\ PointersApart /\ RefIsCurrent

LEMMA InitPInv == Init => PInv
BY ThreadsAssumption
DEF Init, PInv, PointersOK, MutexHeld, PointersApart, RefIsCurrent, Arrays, Other

\* A step of a worker preserves the invariant: only the holder of the mutex is in its
\* critical section, and it moves no pointer.
LEMMA WorkerPInv ==
    ASSUME PInv, NEW w \in Workers, Worker(w)
    PROVE  PInv'
<1> USE ThreadsAssumption DEF PInv, PointersOK, MutexHeld, PointersApart, RefIsCurrent
<1>1. ASSUME NEW m \in Messages, Receive(w, m) PROVE PInv'
  BY <1>1 DEF Receive
<1>2. ASSUME Lock(w) PROVE PInv'
  BY <1>2 DEF Lock
<1>3. ASSUME GetCurrent(w) PROVE PInv'
  BY <1>3 DEF GetCurrent
<1>4. ASSUME PushBack(w) PROVE PInv'
  BY <1>4 DEF PushBack
<1>5. ASSUME Unlock(w) PROVE PInv'
  BY <1>5 DEF Unlock
<1> QED
  BY <1>1, <1>2, <1>3, <1>4, <1>5 DEF Worker

\* A step of the tick thread preserves the invariant: it moves the pointers only while
\* it holds the mutex.
LEMMA TickPInv ==
    ASSUME PInv, Tick
    PROVE  PInv'
<1> USE ThreadsAssumption DEF PInv, PointersOK, MutexHeld, PointersApart, RefIsCurrent,
        TickAt, workerVars, loopVars
<1>1. CASE TickAlert
  BY <1>1 DEF TickAlert
<1>2. CASE TickLock
  BY <1>2 DEF TickLock
<1>3. CASE Swap1
  BY <1>3 DEF Swap1
<1>4. CASE Swap2
  BY <1>4 DEF Swap2
<1>5. CASE Swap3
  BY <1>5 DEF Swap3, Arrays, Other
<1>6. CASE TickUnlock
  BY <1>6 DEF TickUnlock
<1>7. CASE TickSend
  BY <1>7 DEF TickSend
<1>8. CASE TickNextMessage
  BY <1>8 DEF TickNextMessage
<1>9. CASE TickEndLoop
  BY <1>9 DEF TickEndLoop
<1>10. CASE TickClear
  BY <1>10 DEF TickClear
<1> QED
  BY <1>1, <1>2, <1>3, <1>4, <1>5, <1>6, <1>7, <1>8, <1>9, <1>10 DEF Tick, Swap

LEMMA PInvInvariant == Spec => []PInv
<1>1. PInv /\ [Next]_vars => PInv'
  <2> SUFFICES ASSUME PInv, [Next]_vars PROVE PInv'
    OBVIOUS
  <2>1. CASE UNCHANGED vars
    BY <2>1 DEF vars, workerVars, PInv, PointersOK, MutexHeld, PointersApart, RefIsCurrent
  <2> QED
    BY <2>1, WorkerPInv, TickPInv DEF Next
<1> QED
  BY InitPInv, <1>1, PTL DEF Spec

\* No worker is inside push_back on the array the tick thread reads and clears without
\* the mutex, and no two workers are inside push_back at once.
THEOREM RaceFree == Spec => []NoRace
<1>1. PInv => NoRace
  BY ThreadsAssumption
  DEF PInv, PointersOK, MutexHeld, PointersApart, RefIsCurrent, NoRace, Arrays, Other
<1> QED
  BY <1>1, PInvInvariant, PTL

-----------------------------------------------------------------------------
(* The ledger: nothing is lost, repeated or reordered. *)

\* The types of the arrays and of what was stored and sent.
ArraysOK ==
    /\ array \in [Arrays -> Seq(Messages)]
    /\ workerMsg \in [Workers -> Messages]
    /\ count \in Nat /\ pos \in Nat \ {0} /\ client \in Nat \ {0}
    /\ stored \in Seq(Messages)
    /\ sent \in [Clients -> Seq(Messages)]

\* The array that is not being filled is empty until the swap; then it is the batch
\* the loop goes through, up to its end.
BatchOK ==
    /\ tickPc \in {"polling", "lock", "swap1", "swap2", "swap3"} =>
         array[Other(current)] = <<>>
    /\ tickPc \in {"broadcast", "clear"} => count = Len(array[Other(current)])
    /\ tickPc = "broadcast" =>
         /\ pos <= count + 1 /\ client <= NumClients + 1
         /\ pos = count + 1 => client = 1

\* The inductive invariant.
LInv == PInv /\ ArraysOK /\ BatchOK /\ Ledger

Batch == array[Other(current)]
Filling == array[current]

\* The two arrays are the current one and the other one.
LEMMA TwoArrays ==
    ASSUME PointersOK, ArraysOK
    PROVE  /\ Other(current) \in Arrays /\ Other(current) # current
           /\ \A a \in Arrays : a = current \/ a = Other(current)
           /\ Batch \in Seq(Messages) /\ Filling \in Seq(Messages)
           /\ Len(Filling) \in Nat /\ Len(Batch) \in Nat /\ Len(stored) \in Nat
           /\ Cleared = Len(stored) - Len(Filling) - Len(Batch)
<1>1. current = "first" \/ current = "second"
  BY DEF PointersOK, Arrays
<1>2. /\ array["first"] \in Seq(Messages) /\ array["second"] \in Seq(Messages)
      /\ Len(array["first"]) \in Nat /\ Len(array["second"]) \in Nat
      /\ Len(stored) \in Nat
  BY DEF ArraysOK, Arrays
<1>3. CASE current = "first"
  BY <1>2, <1>3 DEF Other, Arrays, Cleared, Batch, Filling
<1>4. CASE current = "second"
  BY <1>2, <1>4 DEF Other, Arrays, Cleared, Batch, Filling
<1> QED
  BY <1>1, <1>3, <1>4

\* The ledger as the proof uses it.
LedgerForm(n) ==
    /\ n \in Nat
    /\ Len(stored) = n + Len(Batch) + Len(Filling)
    /\ \A j \in 1 .. Len(Batch) : Batch[j] = stored[n + j]
    /\ \A j \in 1 .. Len(Filling) : Filling[j] = stored[n + Len(Batch) + j]
    /\ \A c \in Clients :
         /\ Len(sent[c]) = n + Progress(c)
         /\ \A j \in 1 .. Len(sent[c]) : sent[c][j] = stored[j]

FormsAgree == PointersOK /\ ArraysOK => (Ledger <=> \E n \in Nat : LedgerForm(n))

LEMMA LedgerIff == FormsAgree
<1> SUFFICES ASSUME PointersOK, ArraysOK
             PROVE  Ledger <=> \E n \in Nat : LedgerForm(n)
  BY DEF FormsAgree
<1>1. ASSUME Ledger PROVE LedgerForm(Cleared) /\ Cleared \in Nat
  <2>1. Cleared >= 0
    BY <1>1 DEF Ledger
  <2>2. Cleared \in Nat /\ Len(stored) = Cleared + Len(Batch) + Len(Filling)
    BY <2>1, TwoArrays
  <2>3. /\ \A j \in 1 .. Len(Batch) : Batch[j] = stored[Cleared + j]
        /\ \A j \in 1 .. Len(Filling) : Filling[j] = stored[Cleared + Len(Batch) + j]
        /\ \A c \in Clients :
             /\ Len(sent[c]) = Cleared + Progress(c)
             /\ \A j \in 1 .. Len(sent[c]) : sent[c][j] = stored[j]
    BY <1>1, Zenon DEF Ledger, Batch, Filling
  <2> QED
    BY <2>2, <2>3 DEF LedgerForm
<1>2. ASSUME NEW n \in Nat, LedgerForm(n) PROVE Ledger
  <2>1. Len(stored) = n + Len(Batch) + Len(Filling)
    BY <1>2 DEF LedgerForm
  <2>2. n = Cleared /\ Cleared >= 0
    BY <2>1, TwoArrays
  <2>3. LedgerForm(Cleared)
    BY <2>2, <1>2
  <2> QED
    BY <2>2, <2>3, Zenon DEF Ledger, LedgerForm, Batch, Filling
<1> QED
  BY <1>1, <1>2

LEMMA LedgerIffNext == FormsAgree'
BY LedgerIff, PTL

\* An element of a sequence grown by one.
LEMMA AppendLemma ==
    ASSUME NEW S, NEW s \in Seq(S), NEW e \in S
    PROVE  /\ Append(s, e) \in Seq(S)
           /\ Len(s) \in Nat
           /\ Len(Append(s, e)) = Len(s) + 1
           /\ \A j \in 1 .. Len(s) : Append(s, e)[j] = s[j]
           /\ Append(s, e)[Len(s) + 1] = e
OBVIOUS

\* No client is sent more than the cleared part and the batch.
LEMMA SentBound ==
    ASSUME PointersOK, ArraysOK, BatchOK, NEW n \in Nat, LedgerForm(n), NEW c \in Clients
    PROVE  /\ Progress(c) \in 0 .. Len(Batch)
           /\ Len(sent[c]) \in Nat /\ Len(sent[c]) <= n + Len(Batch)
           /\ Len(sent[c]) <= Len(stored)
<1>1. /\ Len(Batch) \in Nat /\ Len(Filling) \in Nat
      /\ Len(stored) = n + Len(Batch) + Len(Filling)
      /\ Len(sent[c]) = n + Progress(c)
  BY TwoArrays DEF LedgerForm
<1>2. /\ c \in Nat /\ c <= NumClients
      /\ count \in Nat /\ pos \in Nat \ {0} /\ client \in Nat \ {0}
  BY ClientsAssumption DEF ArraysOK, Clients
<1>3. Progress(c) \in 0 .. Len(Batch)
  <2>1. CASE tickPc = "broadcast"
    <3>1. /\ count = Len(Batch) /\ pos <= count + 1
          /\ pos = count + 1 => client = 1
          /\ c >= 1
      BY <2>1 DEF BatchOK, Batch, Clients
    <3>2. Progress(c) = pos - 1 + (IF c < client THEN 1 ELSE 0)
      BY <2>1 DEF Progress
    <3> QED
      BY <3>1, <3>2, <1>1, <1>2
  <2>2. CASE tickPc = "clear"
    BY <2>2, <1>1, <1>2 DEF BatchOK, Batch, Progress
  <2>3. CASE tickPc \notin {"broadcast", "clear"}
    BY <2>3, <1>1 DEF Progress
  <2> QED
    BY <2>1, <2>2, <2>3
<1> QED
  BY <1>1, <1>3

\* What a step of a worker that stores nothing leaves alone, and a tick step outside
\* the loop and the swap: the ledger is about nothing else.
LEMMA LedgerUnchanged ==
    ASSUME NEW n \in Nat, LedgerForm(n),
           UNCHANGED <<array, current, stored, sent>>,
           \A c \in Clients : Progress(c)' = Progress(c)
    PROVE  LedgerForm(n)'
BY DEF LedgerForm, Batch, Filling

LEMMA InitLInv == Init => LInv
<1> SUFFICES ASSUME Init PROVE LInv
  OBVIOUS
<1>1. /\ array = [a \in Arrays |-> <<>>] /\ current = "first"
      /\ stored = <<>> /\ sent = [c \in Clients |-> <<>>]
      /\ tickPc = "polling"
      /\ count = 0 /\ pos = 1 /\ client = 1
      /\ workerMsg \in [Workers -> Messages]
  BY DEF Init
<1>2. <<>> \in Seq(Messages) /\ Len(<<>>) = 0
  OBVIOUS
<1>3. PInv
  BY InitPInv
<1>4. ArraysOK
  BY <1>1, <1>2 DEF ArraysOK
<1>5. Batch = <<>> /\ Filling = <<>>
  BY <1>1 DEF Batch, Filling, Other, Arrays
<1>6. BatchOK
  BY <1>1, <1>5 DEF BatchOK, Batch
<1>7. \A c \in Clients : sent[c] = <<>> /\ Progress(c) = 0
  BY <1>1 DEF Progress
<1>8. LedgerForm(0)
  BY <1>1, <1>2, <1>5, <1>7 DEF LedgerForm
<1> QED
  BY <1>3, <1>4, <1>6, <1>8, LedgerIff DEF FormsAgree, LInv, PInv

\* Storing a message: the ledger grows at its end.
LEMMA PushBackLInv ==
    ASSUME LInv, NEW w \in Workers, PushBack(w)
    PROVE  LInv'
<1> DEFINE m == workerMsg[w]
<1>1. /\ PInv /\ PointersOK /\ ArraysOK /\ BatchOK /\ Ledger
      /\ workerRef[w] = current
  BY DEF LInv, PInv, RefIsCurrent, PushBack
<1>2. /\ array' = [array EXCEPT ![current] = Append(@, m)]
      /\ stored' = Append(stored, m)
      /\ UNCHANGED <<current, tickPc, loopVars, sent, workerMsg>>
  BY <1>1 DEF PushBack
<1>3. PInv'
  BY <1>1, WorkerPInv DEF Worker
<1>4. m \in Messages /\ stored \in Seq(Messages) /\ array \in [Arrays -> Seq(Messages)]
  BY <1>1 DEF ArraysOK
<1>5. /\ Filling' = Append(Filling, m)
      /\ Batch' = Batch
      /\ Batch \in Seq(Messages) /\ Filling \in Seq(Messages)
  BY <1>1, <1>2, <1>4, TwoArrays DEF Filling, Batch, PointersOK
<1>6. ArraysOK'
  BY <1>1, <1>2, <1>4 DEF ArraysOK, PointersOK, loopVars
<1>7. BatchOK'
  BY <1>1, <1>2, <1>5 DEF BatchOK, Batch, loopVars
<1>8. PICK n \in Nat : LedgerForm(n)
  BY <1>1, LedgerIff DEF FormsAgree
<1>9. /\ stored' \in Seq(Messages) /\ Len(stored) \in Nat
      /\ Len(stored') = Len(stored) + 1
      /\ \A j \in 1 .. Len(stored) : stored'[j] = stored[j]
      /\ stored'[Len(stored) + 1] = m
  BY <1>2, <1>4, AppendLemma
<1>10. /\ Len(Filling) \in Nat /\ Len(Batch) \in Nat
       /\ Len(Filling') = Len(Filling) + 1
       /\ \A j \in 1 .. Len(Filling) : Filling'[j] = Filling[j]
       /\ Filling'[Len(Filling) + 1] = m
  BY <1>4, <1>5, AppendLemma
<1> HIDE DEF m
<1>11. LedgerForm(n)'
  <2>1. /\ Len(stored) = n + Len(Batch) + Len(Filling)
        /\ \A j \in 1 .. Len(Batch) : Batch[j] = stored[n + j]
        /\ \A j \in 1 .. Len(Filling) : Filling[j] = stored[n + Len(Batch) + j]
    BY <1>8 DEF LedgerForm
  <2>2. Len(stored') = n + Len(Batch') + Len(Filling')
    BY <2>1, <1>5, <1>9, <1>10
  <2>3. \A j \in 1 .. Len(Batch') : Batch'[j] = stored'[n + j]
    <3> TAKE j \in 1 .. Len(Batch')
    <3>1. j \in 1 .. Len(Batch) /\ n + j \in 1 .. Len(stored)
      BY <2>1, <1>5, <1>9, <1>10
    <3> QED
      BY <3>1, <2>1, <1>5, <1>9
  <2>4. \A j \in 1 .. Len(Filling') : Filling'[j] = stored'[n + Len(Batch') + j]
    <3> TAKE j \in 1 .. Len(Filling')
    <3>1. CASE j \in 1 .. Len(Filling)
      BY <3>1, <2>1, <1>5, <1>9, <1>10
    <3>2. CASE j = Len(Filling) + 1
      BY <3>2, <2>1, <1>5, <1>9, <1>10
    <3> QED
      BY <3>1, <3>2, <1>10
  <2>5. ASSUME NEW c \in Clients
        PROVE  /\ Len(sent'[c]) = n + Progress(c)'
               /\ \A j \in 1 .. Len(sent'[c]) : sent'[c][j] = stored'[j]
    <3>1. /\ sent' = sent /\ Progress(c)' = Progress(c)
          /\ Len(sent[c]) = n + Progress(c)
          /\ \A j \in 1 .. Len(sent[c]) : sent[c][j] = stored[j]
          /\ Len(sent[c]) \in Nat
      BY <1>1, <1>2, <1>8 DEF LedgerForm, Progress, loopVars, ArraysOK
    <3>2. Len(sent[c]) <= Len(stored)
      BY <1>1, <1>8, SentBound
    <3> QED
      BY <3>1, <3>2, <1>9
  <2> QED
    BY <2>2, <2>3, <2>4, <2>5 DEF LedgerForm
<1> QED
  BY <1>3, <1>6, <1>7, <1>11, LedgerIffNext DEF FormsAgree, LInv, PInv

\* The steps of a worker that store nothing leave the ledger alone.
LEMMA WorkerLInv ==
    ASSUME LInv, NEW w \in Workers, Worker(w)
    PROVE  LInv'
<1>1. /\ PInv /\ PointersOK /\ ArraysOK /\ BatchOK /\ Ledger /\ PInv'
  BY WorkerPInv DEF LInv, PInv
<1>2. CASE PushBack(w)
  BY <1>2, PushBackLInv
<1>3. CASE ~PushBack(w)
  <2>1. /\ UNCHANGED <<array, current, stored, sent, tickPc, count, pos, client>>
        /\ workerMsg' \in [Workers -> Messages]
    BY <1>1, <1>3
    DEF Worker, Receive, Lock, GetCurrent, Unlock, loopVars, ArraysOK
  <2>2. PICK n \in Nat : LedgerForm(n)
    BY <1>1, LedgerIff DEF FormsAgree
  <2>3. \A c \in Clients : Progress(c)' = Progress(c)
    BY <2>1 DEF Progress
  <2>4. LedgerForm(n)'
    BY <2>1, <2>2, <2>3, LedgerUnchanged
  <2>5. ArraysOK' /\ BatchOK'
    BY <1>1, <2>1 DEF ArraysOK, BatchOK
  <2> QED
    BY <1>1, <2>4, <2>5, LedgerIffNext DEF FormsAgree, LInv, PInv
<1> QED
  BY <1>2, <1>3

\* The tick thread up to the last assignment of the swap.
LEMMA BeforeSwapLInv ==
    ASSUME LInv, TickAlert \/ TickLock \/ Swap1 \/ Swap2
    PROVE  LInv'
<1>1. PInv /\ PointersOK /\ ArraysOK /\ BatchOK /\ Ledger /\ PInv'
  BY TickPInv DEF LInv, PInv, Tick, Swap
<1>2. /\ UNCHANGED <<array, current, stored, sent, count, pos, client, workerMsg>>
      /\ tickPc \in {"polling", "lock", "swap1", "swap2"}
      /\ tickPc' \in {"lock", "swap1", "swap2", "swap3"}
  BY DEF TickAlert, TickLock, Swap1, Swap2, TickAt, loopVars, workerVars
<1>3. PICK n \in Nat : LedgerForm(n)
  BY <1>1, LedgerIff DEF FormsAgree
<1>4. \A c \in Clients : Progress(c)' = Progress(c)
  BY <1>2 DEF Progress
<1>5. LedgerForm(n)'
  BY <1>2, <1>3, <1>4, LedgerUnchanged
<1>6. ArraysOK' /\ BatchOK'
  BY <1>1, <1>2 DEF ArraysOK, BatchOK
<1> QED
  BY <1>1, <1>5, <1>6, LedgerIffNext DEF FormsAgree, LInv, PInv

\* The last assignment of the swap makes the filled array the batch and the empty one
\* the current array.
LEMMA Swap3LInv ==
    ASSUME LInv, Swap3
    PROVE  LInv'
<1>1. PInv /\ PointersOK /\ ArraysOK /\ BatchOK /\ Ledger /\ PInv'
  BY TickPInv DEF LInv, PInv, Tick, Swap
<1>2. /\ UNCHANGED <<array, stored, sent, count, pos, client, workerMsg>>
      /\ tickPc = "swap3" /\ tickPc' = "unlock"
      /\ current' = Other(current)
  BY <1>1 DEF Swap3, TickAt, loopVars, workerVars, PInv, PointersApart
<1>3. PICK n \in Nat : LedgerForm(n)
  BY <1>1, LedgerIff DEF FormsAgree
<1>4. Other(current') = current
  BY <1>1, <1>2 DEF Other, PointersOK, Arrays
<1>5. /\ Batch' = Filling /\ Filling' = Batch
      /\ Len(Batch) = 0 /\ Len(Filling) \in Nat
  BY <1>1, <1>2, <1>4, TwoArrays DEF Batch, Filling, BatchOK
<1>6. \A c \in Clients : Progress(c)' = 0 /\ Progress(c) = 0
  BY <1>2 DEF Progress
<1>7. LedgerForm(n)'
  <2>1. /\ Len(stored) = n + Len(Batch) + Len(Filling)
        /\ \A j \in 1 .. Len(Filling) : Filling[j] = stored[n + Len(Batch) + j]
        /\ \A c \in Clients :
             /\ Len(sent[c]) = n + Progress(c)
             /\ \A j \in 1 .. Len(sent[c]) : sent[c][j] = stored[j]
    BY <1>3 DEF LedgerForm
  <2>2. n + Len(Batch) = n
    BY <1>5
  <2>3. Len(stored') = n + Len(Batch') + Len(Filling')
    BY <2>1, <1>2, <1>5
  <2>4. \A j \in 1 .. Len(Batch') : Batch'[j] = stored'[n + j]
    BY <2>1, <2>2, <1>2, <1>5
  <2>5. \A j \in 1 .. Len(Filling') : Filling'[j] = stored'[n + Len(Batch') + j]
    BY <1>5
  <2> QED
    BY <2>1, <2>3, <2>4, <2>5, <1>2, <1>6 DEF LedgerForm
<1>8. ArraysOK' /\ BatchOK'
  BY <1>1, <1>2 DEF ArraysOK, BatchOK
<1> QED
  BY <1>1, <1>7, <1>8, LedgerIffNext DEF FormsAgree, LInv, PInv

\* The start of the loop, its end, and its move to the next message.
LEMMA LoopLInv ==
    ASSUME LInv, TickUnlock \/ TickNextMessage \/ TickEndLoop
    PROVE  LInv'
<1>1. PInv /\ PointersOK /\ ArraysOK /\ BatchOK /\ Ledger /\ PInv'
  BY TickPInv DEF LInv, PInv, Tick
<1>2. /\ UNCHANGED <<array, current, stored, sent, workerMsg>>
      /\ tickPc \in {"unlock", "broadcast"}
  BY DEF TickUnlock, TickNextMessage, TickEndLoop, TickAt, loopVars, workerVars
<1>3. PICK n \in Nat : LedgerForm(n)
  BY <1>1, LedgerIff DEF FormsAgree
<1>4. previous = Other(current) /\ array[previous] = Batch /\ Batch' = Batch
      /\ Len(Batch) \in Nat
  BY <1>1, <1>2, TwoArrays DEF PInv, PointersApart, Batch
<1>5. CASE TickUnlock
  <2>1. /\ tickPc = "unlock" /\ tickPc' = "broadcast"
        /\ count' = Len(Batch) /\ pos' = 1 /\ client' = 1
    BY <1>4, <1>5 DEF TickUnlock, TickAt
  <2>2. \A c \in Clients : Progress(c)' = Progress(c)
    BY <2>1 DEF Progress, Clients
  <2>3. ArraysOK' /\ BatchOK'
    BY <1>1, <1>2, <1>4, <2>1, ClientsAssumption DEF ArraysOK, BatchOK, Batch
  <2>4. LedgerForm(n)'
    BY <1>2, <1>3, <2>2, LedgerUnchanged
  <2> QED
    BY <1>1, <2>3, <2>4, LedgerIffNext DEF FormsAgree, LInv, PInv
<1>6. CASE TickNextMessage
  <2>1. /\ tickPc = "broadcast" /\ tickPc' = "broadcast"
        /\ count' = count /\ pos' = pos + 1 /\ client' = 1
        /\ pos <= count /\ client > NumClients
    BY <1>6 DEF TickNextMessage, TickAt
  <2>2. ASSUME NEW c \in Clients PROVE Progress(c)' = Progress(c)
    <3>1. c \in Nat /\ 1 <= c /\ c <= NumClients /\ pos \in Nat /\ client \in Nat
      BY <1>1, ClientsAssumption DEF Clients, ArraysOK
    <3>2. /\ Progress(c) = pos - 1 + (IF c < client THEN 1 ELSE 0)
          /\ Progress(c)' = (pos + 1) - 1 + (IF c < 1 THEN 1 ELSE 0)
      BY <2>1 DEF Progress
    <3> QED
      BY <3>1, <3>2, <2>1, ClientsAssumption
  <2>3. ArraysOK' /\ BatchOK'
    BY <1>1, <1>2, <1>4, <2>1, ClientsAssumption DEF ArraysOK, BatchOK, Batch
  <2>4. LedgerForm(n)'
    BY <1>2, <1>3, <2>2, LedgerUnchanged
  <2> QED
    BY <1>1, <2>3, <2>4, LedgerIffNext DEF FormsAgree, LInv, PInv
<1>7. CASE TickEndLoop
  <2>1. /\ tickPc = "broadcast" /\ tickPc' = "clear"
        /\ UNCHANGED <<count, pos, client>>
        /\ pos > count
    BY <1>7 DEF TickEndLoop, TickAt, loopVars
  <2>2. pos = count + 1 /\ client = 1
    BY <1>1, <2>1 DEF ArraysOK, BatchOK
  <2>3. \A c \in Clients : Progress(c)' = Progress(c)
    BY <1>1, <2>1, <2>2 DEF Progress, Clients, ArraysOK
  <2>4. ArraysOK' /\ BatchOK'
    BY <1>1, <1>2, <1>4, <2>1 DEF ArraysOK, BatchOK, Batch
  <2>5. LedgerForm(n)'
    BY <1>2, <1>3, <2>3, LedgerUnchanged
  <2> QED
    BY <1>1, <2>4, <2>5, LedgerIffNext DEF FormsAgree, LInv, PInv
<1> QED
  BY <1>5, <1>6, <1>7

\* What the tick thread sends next is the message of the log a client lacks.
LEMMA NextToSend ==
    ASSUME LInv, TickSend
    PROVE  /\ client \in Clients
           /\ Len(sent[client]) < Len(stored)
           /\ array[previous][pos] = stored[Len(sent[client]) + 1]
           /\ stored[Len(sent[client]) + 1] \in Messages
<1>1. PInv /\ PointersOK /\ ArraysOK /\ BatchOK /\ Ledger
  BY DEF LInv, PInv
<1>2. /\ tickPc = "broadcast" /\ pos <= count /\ client <= NumClients
      /\ pos \in Nat /\ pos >= 1 /\ client \in Nat /\ client >= 1 /\ count \in Nat
  BY <1>1 DEF TickSend, TickAt, ArraysOK
<1>3. client \in Clients
  BY <1>2, ClientsAssumption DEF Clients
<1>4. PICK n \in Nat : LedgerForm(n)
  BY <1>1, LedgerIff DEF FormsAgree
<1>5. array[previous] = Batch /\ count = Len(Batch)
  BY <1>1, <1>2 DEF PInv, PointersApart, Batch, BatchOK
<1>6. Len(sent[client]) = n + (pos - 1)
  <2>1. Progress(client) = pos - 1
    BY <1>2 DEF Progress
  <2> QED
    BY <2>1, <1>3, <1>4 DEF LedgerForm
<1>7. /\ Len(Batch) \in Nat /\ Len(Filling) \in Nat
      /\ Len(stored) = n + Len(Batch) + Len(Filling)
  BY <1>1, <1>4, TwoArrays DEF LedgerForm
<1>8. Batch[pos] = stored[n + pos]
  BY <1>2, <1>4, <1>5 DEF LedgerForm
<1>9. Len(sent[client]) + 1 = n + pos /\ n + pos \in 1 .. Len(stored)
  BY <1>2, <1>5, <1>6, <1>7
<1>10. stored[n + pos] \in Messages
  BY <1>1, <1>9 DEF ArraysOK
<1> QED
  BY <1>3, <1>5, <1>7, <1>8, <1>9, <1>10, <1>6, <1>2

\* Sending it to one client moves that client's share on.
LEMMA TickSendLInv ==
    ASSUME LInv, TickSend
    PROVE  LInv'
<1>1. PInv /\ PointersOK /\ ArraysOK /\ BatchOK /\ Ledger /\ PInv'
  BY TickPInv DEF LInv, PInv, Tick
<1> DEFINE m == array[previous][pos]
<1>2. /\ UNCHANGED <<array, current, stored, workerMsg, count, pos>>
      /\ tickPc = "broadcast" /\ tickPc' = "broadcast"
      /\ sent' = [sent EXCEPT ![client] = Append(@, m)]
      /\ client' = client + 1 /\ client <= NumClients /\ pos <= count
  BY DEF TickSend, TickAt, workerVars
<1>3. /\ client \in Clients /\ m \in Messages
      /\ m = stored[Len(sent[client]) + 1]
  BY NextToSend
<1> HIDE DEF m
<1>4. PICK n \in Nat : LedgerForm(n)
  BY <1>1, LedgerIff DEF FormsAgree
<1>5. sent \in [Clients -> Seq(Messages)] /\ client \in Nat /\ pos \in Nat /\ count \in Nat
  BY <1>1 DEF ArraysOK
<1>6. /\ sent' \in [Clients -> Seq(Messages)]
      /\ sent'[client] = Append(sent[client], m)
      /\ \A c \in Clients : c # client => sent'[c] = sent[c]
  BY <1>2, <1>3, <1>5
<1>7. ArraysOK' /\ BatchOK'
  BY <1>1, <1>2, <1>5, <1>6, ClientsAssumption DEF ArraysOK, BatchOK
<1>8. ASSUME NEW c \in Clients
      PROVE  /\ Len(sent'[c]) = n + Progress(c)'
             /\ \A j \in 1 .. Len(sent'[c]) : sent'[c][j] = stored'[j]
  <2>1. /\ Len(sent[c]) = n + Progress(c)
        /\ \A j \in 1 .. Len(sent[c]) : sent[c][j] = stored[j]
    BY <1>4 DEF LedgerForm
  <2>2. /\ Progress(c) = pos - 1 + (IF c < client THEN 1 ELSE 0)
        /\ Progress(c)' = pos - 1 + (IF c < client + 1 THEN 1 ELSE 0)
        /\ c \in Nat
    BY <1>2 DEF Progress, Clients
  <2>3. CASE c = client
    <3>1. /\ Len(sent'[c]) = Len(sent[c]) + 1 /\ Len(sent[c]) \in Nat
          /\ \A j \in 1 .. Len(sent[c]) : sent'[c][j] = sent[c][j]
          /\ sent'[c][Len(sent[c]) + 1] = m
      BY <2>3, <1>3, <1>5, <1>6, AppendLemma
    <3>2. Len(sent'[c]) = n + Progress(c)'
      BY <2>1, <2>2, <2>3, <3>1, <1>5
    <3>3. \A j \in 1 .. Len(sent[c]) + 1 : sent'[c][j] = stored[j]
      <4> TAKE j \in 1 .. Len(sent[c]) + 1
      <4>1. j \in 1 .. Len(sent[c]) \/ j = Len(sent[c]) + 1
        BY <3>1
      <4> QED
        BY <4>1, <3>1, <2>1, <2>3, <1>3
    <3> QED
      BY <3>1, <3>2, <3>3, <1>2
  <2>4. CASE c # client
    <3>1. Progress(c)' = Progress(c)
      BY <2>2, <2>4, <1>5
    <3> QED
      BY <3>1, <2>1, <2>4, <1>2, <1>6
  <2> QED
    BY <2>3, <2>4
<1>9. Batch' = Batch /\ Filling' = Filling
  BY <1>2 DEF Batch, Filling
<1>10. LedgerForm(n)'
  BY <1>2, <1>4, <1>8, <1>9 DEF LedgerForm
<1> QED
  BY <1>1, <1>7, <1>10, LedgerIffNext DEF FormsAgree, LInv, PInv

\* Clearing the batch: what it held is in every client's share.
LEMMA TickClearLInv ==
    ASSUME LInv, TickClear
    PROVE  LInv'
<1>1. PInv /\ PointersOK /\ ArraysOK /\ BatchOK /\ Ledger /\ PInv'
  BY TickPInv DEF LInv, PInv, Tick
<1>2. /\ UNCHANGED <<current, stored, sent, workerMsg, count, pos, client>>
      /\ tickPc = "clear" /\ tickPc' = "polling"
      /\ array' = [array EXCEPT ![previous] = <<>>]
  BY DEF TickClear, TickAt, workerVars, loopVars
<1>3. previous = Other(current) /\ previous \in Arrays /\ previous # current
  BY <1>1, <1>2, TwoArrays DEF PInv, PointersApart
<1>4. PICK n \in Nat : LedgerForm(n)
  BY <1>1, LedgerIff DEF FormsAgree
<1>5. array \in [Arrays -> Seq(Messages)] /\ current \in Arrays
  BY <1>1 DEF ArraysOK, PointersOK
<1>6. /\ Batch' = <<>> /\ Filling' = Filling
      /\ Len(Batch) \in Nat /\ Len(Filling) \in Nat /\ Len(Batch') = 0
      /\ array' \in [Arrays -> Seq(Messages)]
  BY <1>1, <1>2, <1>3, <1>5, TwoArrays DEF Batch, Filling
<1>7. ArraysOK' /\ BatchOK'
  BY <1>1, <1>2, <1>6 DEF ArraysOK, BatchOK, Batch
<1>8. PICK k \in Nat : k = n + Len(Batch)
  BY <1>6
<1>9. LedgerForm(k)'
  <2>1. /\ Len(stored) = k + Len(Filling)
        /\ \A j \in 1 .. Len(Filling) : Filling[j] = stored[k + j]
        /\ \A c \in Clients :
             /\ Len(sent[c]) = n + Progress(c)
             /\ \A j \in 1 .. Len(sent[c]) : sent[c][j] = stored[j]
    BY <1>4, <1>8 DEF LedgerForm
  <2>2. \A c \in Clients : Progress(c) = Len(Batch) /\ Progress(c)' = 0
    BY <1>1, <1>2 DEF Progress, BatchOK, Batch
  <2>3. \A c \in Clients : Len(sent[c]) = k + 0
    BY <2>1, <2>2, <1>8
  <2>4. Len(stored') = k + Len(Batch') + Len(Filling')
    BY <2>1, <1>2, <1>6
  <2>5. \A j \in 1 .. Len(Filling') : Filling'[j] = stored'[k + Len(Batch') + j]
    BY <2>1, <1>2, <1>6
  <2> QED
    BY <2>1, <2>2, <2>3, <2>4, <2>5, <1>2, <1>6 DEF LedgerForm
<1> QED
  BY <1>1, <1>7, <1>9, LedgerIffNext DEF FormsAgree, LInv, PInv

LEMMA LInvInvariant == Spec => []LInv
<1>1. LInv /\ [Next]_vars => LInv'
  <2> SUFFICES ASSUME LInv, [Next]_vars PROVE LInv'
    OBVIOUS
  <2>1. CASE UNCHANGED vars
    BY <2>1 DEF vars, workerVars, loopVars, LInv, PInv, PointersOK, MutexHeld, PointersApart,
       RefIsCurrent, ArraysOK, BatchOK, Ledger, Cleared, Progress
  <2>2. CASE Tick
    BY <2>2, BeforeSwapLInv, Swap3LInv, LoopLInv, TickSendLInv, TickClearLInv
    DEF Tick, Swap
  <2> QED
    BY <2>1, <2>2, WorkerLInv DEF Next
<1> QED
  BY InitLInv, <1>1, PTL DEF Spec

\* The variables keep their types, with any number of workers, messages and clients: the
\* pointers name an array and the loop's counters are never below their start.
THEOREM TypesKept == Spec => []TypeOK
<1>1. Init => arriving \in SUBSET Messages
  BY DEF Init
<1>2. arriving \in SUBSET Messages /\ [Next]_vars => (arriving \in SUBSET Messages)'
  BY DEF Next, Worker, Receive, Lock, GetCurrent, PushBack, Unlock, Tick, Swap, TickAlert,
     TickLock, Swap1, Swap2, Swap3, TickUnlock, TickSend, TickNextMessage, TickEndLoop,
     TickClear, vars, workerVars
<1>3. LInv /\ arriving \in SUBSET Messages => TypeOK
  BY DEF LInv, PInv, PointersOK, ArraysOK, TypeOK
<1> QED
  BY <1>1, <1>2, <1>3, LInvInvariant, PTL DEF Spec

\* No message is lost, repeated or reordered, whatever the number of workers, clients
\* and messages: the cleared messages, the batch and the current array are the log.
THEOREM LedgerKept == Spec => []Ledger
<1>1. LInv => Ledger
  BY DEF LInv
<1> QED
  BY <1>1, LInvInvariant, PTL

\* A step of the pool is a step of the broadcast of the log, or does not show.
LEMMA StepImplementsLog ==
    ASSUME LInv, [Next]_vars
    PROVE  [Log!Next]_<<stored, sent>>
<1>1. /\ workerMsg \in [Workers -> Messages]
      /\ sent \in [Clients -> Seq(Messages)]
  BY DEF LInv, ArraysOK
<1>2. ASSUME NEW w \in Workers, PushBack(w) PROVE Log!Store
  BY <1>1, <1>2 DEF PushBack, Log!Store
<1>3. ASSUME NEW w \in Workers, Worker(w), ~PushBack(w) PROVE UNCHANGED <<stored, sent>>
  BY <1>3 DEF Worker, Receive, Lock, GetCurrent, Unlock
<1>4. CASE TickSend
  <2>1. /\ client \in Log!Clients
        /\ Len(sent[client]) < Len(stored)
        /\ sent' = [sent EXCEPT ![client] = Append(@, stored[Len(sent[client]) + 1])]
        /\ UNCHANGED stored
    BY <1>4, NextToSend DEF TickSend, Log!Clients, Clients
  <2>2. Log!Deliver(client)
    BY <2>1, <1>1 DEF Log!Deliver, Log!Clients, Clients
  <2> QED
    BY <2>1, <2>2 DEF Log!Next
<1>5. CASE Tick /\ ~TickSend
  BY <1>5 DEF Tick, Swap, TickAlert, TickLock, Swap1, Swap2, Swap3, TickUnlock,
     TickNextMessage, TickEndLoop, TickClear
<1>6. CASE UNCHANGED vars
  BY <1>6 DEF vars
<1> QED
  BY <1>2, <1>3, <1>4, <1>5, <1>6 DEF Next, Log!Next

\* The pool implements the broadcast of one log: every client is sent the messages
\* stored, each once and in their order.
THEOREM PoolImplementsLog == Spec => LogSpec
<1>1. Init => Log!Init
  BY DEF Init, Log!Init, Log!Clients, Clients
<1>2. LInv /\ [Next]_vars => [Log!Next]_<<stored, sent>>
  BY StepImplementsLog
<1> QED
  BY <1>1, <1>2, LInvInvariant, PTL DEF Spec, LogSpec, Log!Spec
=============================================================================
