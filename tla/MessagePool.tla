---------------------------- MODULE MessagePool ----------------------------
(***************************************************************************)
(* The server's double-buffered MessagePool and the threads that share it: *)
(* worker threads store the messages they receive in the current array     *)
(* under message_pool_mutex; the tick thread swaps the two arrays under    *)
(* the same mutex and then reads and clears the previous one without it.   *)
(* A thread blocks, and may be preempted, between any two accesses.        *)
(***************************************************************************)
EXTENDS Naturals, Sequences

CONSTANTS Messages,         \* the messages clients send, each at most once
          Workers,          \* the worker threads of the server
          NumClients,       \* the clients registered in Server::_clients
          TickThread,       \* the thread of Server::tick_update
          NoThread          \* the mutex is free

ASSUME ThreadsAssumption ==
    /\ TickThread \notin Workers
    /\ NoThread \notin Workers
    /\ NoThread # TickThread
ASSUME ClientsAssumption == NumClients \in Nat

Clients == 1 .. NumClients
Arrays == {"first", "second"}
Other(a) == IF a = "first" THEN "second" ELSE "first"

VARIABLES array,            \* _first_array and _second_array
          current,          \* _current, the array messages are stored in
          previous,         \* _previous, the array being broadcast
          mutex,            \* the holder of message_pool_mutex
          arriving,         \* the messages no worker has been handed yet
          workerPc,         \* where each worker is
          workerMsg,        \* the message it handles
          workerRef,        \* its local "messages", read from _current
          tickPc,           \* where the tick thread is
          tmp,              \* local of swap()
          count,            \* the end of the broadcast loop, read when it starts
          pos,              \* the loop's next message
          client,           \* the inner loop's next client
          stored,           \* history: every message stored, in order
          sent              \* history: what each client was sent, in order

workerVars == <<arriving, workerPc, workerMsg, workerRef>>
loopVars == <<count, pos, client>>
vars == <<array, current, previous, mutex, workerVars, tickPc, tmp, loopVars, stored, sent>>

Init ==
    /\ array = [a \in Arrays |-> <<>>]
    /\ current = "first" /\ previous = "second"
    /\ mutex = NoThread
    /\ arriving = Messages
    /\ workerPc = [w \in Workers |-> "waiting"]
    /\ workerMsg \in [Workers -> Messages]
    /\ workerRef = [w \in Workers |-> "first"]
    /\ tickPc = "polling"
    /\ tmp = "first"
    /\ count = 0 /\ pos = 1 /\ client = 1
    /\ stored = <<>>
    /\ sent = [c \in Clients |-> <<>>]

-----------------------------------------------------------------------------
(* The worker threads. *)

\* A completed read hands message m to worker w.
Receive(w, m) ==
    /\ workerPc[w] = "waiting"
    /\ m \in arriving
    /\ arriving' = arriving \ {m}
    /\ workerMsg' = [workerMsg EXCEPT ![w] = m]
    /\ workerPc' = [workerPc EXCEPT ![w] = "lock"]
    /\ UNCHANGED <<array, current, previous, mutex, workerRef, tickPc, tmp, loopVars, stored, sent>>

\* receive_message takes the mutex for the time of the handler.
Lock(w) ==
    /\ workerPc[w] = "lock"
    /\ mutex = NoThread
    /\ mutex' = w
    /\ workerPc' = [workerPc EXCEPT ![w] = "get_current"]
    /\ UNCHANGED <<array, current, previous, arriving, workerMsg, workerRef, tickPc, tmp,
                   loopVars, stored, sent>>

\* The handler: auto messages = server->get_current_messages();
GetCurrent(w) ==
    /\ workerPc[w] = "get_current"
    /\ workerRef' = [workerRef EXCEPT ![w] = current]
    /\ workerPc' = [workerPc EXCEPT ![w] = "push_back"]
    /\ UNCHANGED <<array, current, previous, mutex, arriving, workerMsg, tickPc, tmp,
                   loopVars, stored, sent>>

\* The handler: messages->push_back(message);
PushBack(w) ==
    /\ workerPc[w] = "push_back"
    /\ array' = [array EXCEPT ![workerRef[w]] = Append(@, workerMsg[w])]
    /\ stored' = Append(stored, workerMsg[w])
    /\ workerPc' = [workerPc EXCEPT ![w] = "unlock"]
    /\ UNCHANGED <<current, previous, mutex, arriving, workerMsg, workerRef, tickPc, tmp,
                   loopVars, sent>>

Unlock(w) ==
    /\ workerPc[w] = "unlock"
    /\ mutex' = NoThread
    /\ workerPc' = [workerPc EXCEPT ![w] = "waiting"]
    /\ UNCHANGED <<array, current, previous, arriving, workerMsg, workerRef, tickPc, tmp,
                   loopVars, stored, sent>>

-----------------------------------------------------------------------------
(* The tick thread. *)

TickAt(from, to) == tickPc = from /\ tickPc' = to

\* The tick timer's period has passed.
TickAlert ==
    /\ TickAt("polling", "lock")
    /\ UNCHANGED <<array, current, previous, mutex, workerVars, tmp, loopVars, stored, sent>>

\* Variant of TickLock: the swap does not wait for the mutex.
TickLockAnyway ==
    /\ TickAt("lock", "swap1")
    /\ mutex' = TickThread
    /\ UNCHANGED <<array, current, previous, workerVars, tmp, loopVars, stored, sent>>

\* swap() takes the mutex ...
TickLock ==
    /\ TickAt("lock", "swap1")
    /\ mutex = NoThread
    /\ mutex' = TickThread
    /\ UNCHANGED <<array, current, previous, workerVars, tmp, loopVars, stored, sent>>

\* ... exchanges the pointers in three assignments ...
Swap1 ==
    /\ TickAt("swap1", "swap2")
    /\ tmp' = previous
    /\ UNCHANGED <<array, current, previous, mutex, workerVars, loopVars, stored, sent>>

Swap2 ==
    /\ TickAt("swap2", "swap3")
    /\ previous' = current
    /\ UNCHANGED <<array, current, mutex, workerVars, tmp, loopVars, stored, sent>>

Swap3 ==
    /\ TickAt("swap3", "unlock")
    /\ current' = tmp
    /\ UNCHANGED <<array, previous, mutex, workerVars, tmp, loopVars, stored, sent>>

\* ... and releases the mutex.  The range-for over *get_previous() then fixes its end.
TickUnlock ==
    /\ TickAt("unlock", "broadcast")
    /\ mutex' = NoThread
    /\ count' = Len(array[previous])
    /\ pos' = 1
    /\ client' = 1
    /\ UNCHANGED <<array, current, previous, workerVars, tmp, stored, sent>>

\* client->send(message)
TickSend ==
    /\ TickAt("broadcast", "broadcast")
    /\ pos <= count /\ client <= NumClients
    /\ sent' = [sent EXCEPT ![client] = Append(@, array[previous][pos])]
    /\ client' = client + 1
    /\ UNCHANGED <<array, current, previous, mutex, workerVars, tmp, count, pos, stored>>

\* The outer loop goes on to the next message.
TickNextMessage ==
    /\ TickAt("broadcast", "broadcast")
    /\ pos <= count /\ client > NumClients
    /\ pos' = pos + 1
    /\ client' = 1
    /\ UNCHANGED <<array, current, previous, mutex, workerVars, tmp, count, stored, sent>>

\* Variant of TickEndLoop: the loop may stop before the last message.
TickEndLoopEarly ==
    /\ TickAt("broadcast", "clear")
    /\ pos >= count
    /\ UNCHANGED <<array, current, previous, mutex, workerVars, tmp, loopVars, stored, sent>>

\* The loop is over.
TickEndLoop ==
    /\ TickAt("broadcast", "clear")
    /\ pos > count
    /\ UNCHANGED <<array, current, previous, mutex, workerVars, tmp, loopVars, stored, sent>>

\* Variant of TickClear: clear_current() in its place.
TickClearCurrent ==
    /\ TickAt("clear", "polling")
    /\ array' = [array EXCEPT ![current] = <<>>]
    /\ UNCHANGED <<current, previous, mutex, workerVars, tmp, loopVars, stored, sent>>

\* Variant of TickClear: nothing is cleared.
TickClearNothing ==
    /\ TickAt("clear", "polling")
    /\ UNCHANGED <<array, current, previous, mutex, workerVars, tmp, loopVars, stored, sent>>

\* clear_previous()
TickClear ==
    /\ TickAt("clear", "polling")
    /\ array' = [array EXCEPT ![previous] = <<>>]
    /\ UNCHANGED <<current, previous, mutex, workerVars, tmp, loopVars, stored, sent>>

-----------------------------------------------------------------------------
Worker(w) ==
    \/ \E m \in Messages : Receive(w, m)
    \/ Lock(w) \/ GetCurrent(w) \/ PushBack(w) \/ Unlock(w)

Swap == Swap1 \/ Swap2 \/ Swap3

Tick ==
    \/ TickAlert \/ TickLock \/ Swap \/ TickUnlock
    \/ TickSend \/ TickNextMessage \/ TickEndLoop \/ TickClear

Next == (\E w \in Workers : Worker(w)) \/ Tick

Spec == Init /\ [][Next]_vars

\* The threads are scheduled, and time passes for the tick timer.  A worker blocked on
\* the mutex gets it in the end: the tick thread releases it after three assignments
\* and asks for it again a period later, so it cannot overtake the worker for ever.
Fairness ==
    /\ WF_vars(Tick)
    /\ \A w \in Workers :
         /\ SF_vars(Lock(w))
         /\ WF_vars(GetCurrent(w) \/ PushBack(w) \/ Unlock(w))

FairSpec == Spec /\ Fairness

-----------------------------------------------------------------------------
TypeOK ==
    /\ array \in [Arrays -> Seq(Messages)]
    /\ current \in Arrays /\ previous \in Arrays /\ tmp \in Arrays
    /\ mutex \in Workers \cup {TickThread, NoThread}
    /\ arriving \in SUBSET Messages
    /\ workerPc \in [Workers -> {"waiting", "lock", "get_current", "push_back", "unlock"}]
    /\ workerMsg \in [Workers -> Messages]
    /\ workerRef \in [Workers -> Arrays]
    /\ tickPc \in {"polling", "lock", "swap1", "swap2", "swap3", "unlock", "broadcast", "clear"}
    /\ count \in Nat /\ pos \in Nat \ {0} /\ client \in Nat \ {0}
    /\ stored \in Seq(Messages)
    /\ sent \in [Clients -> Seq(Messages)]

\* Although the tick thread reads and clears the previous array without the mutex, no
\* worker is ever inside push_back on that array, nor two workers on the same one.
NoRace ==
    \A w \in Workers : workerPc[w] = "push_back" =>
        /\ tickPc \in {"broadcast", "clear"} => workerRef[w] # previous
        /\ \A v \in Workers \ {w} : workerPc[v] # "push_back"

\* The share of the batch being broadcast that client c was sent.
Progress(c) ==
    CASE tickPc = "broadcast" -> pos - 1 + (IF c < client THEN 1 ELSE 0)
      [] tickPc = "clear"     -> count
      [] OTHER                -> 0

\* The number of messages of the batches already cleared.
Cleared == Len(stored) - Len(array["first"]) - Len(array["second"])

\* No message is lost, repeated or reordered by the double buffering: what was cleared,
\* then the batch of the array not being filled, then the current array is exactly
\* what was stored, and a client was sent exactly the cleared part and its share.
Ledger ==
    LET old == array[Other(current)]
        new == array[current]
    IN  /\ Cleared >= 0
        /\ \A j \in 1 .. Len(old) : old[j] = stored[Cleared + j]
        /\ \A j \in 1 .. Len(new) : new[j] = stored[Cleared + Len(old) + j]
        /\ \A c \in Clients :
             /\ Len(sent[c]) = Cleared + Progress(c)
             /\ \A j \in 1 .. Len(sent[c]) : sent[c][j] = stored[j]

\* The pool implements the broadcast of one log to every client.
Log == INSTANCE Broadcast WITH log <- stored
LogSpec == Log!Spec

\* A message handed to a worker reaches every client.
EveryMessageIsSent ==
    \A m \in Messages, c \in Clients :
        (\E w \in Workers : workerPc[w] = "lock" /\ workerMsg[w] = m)
            ~> (\E j \in 1 .. Len(sent[c]) : sent[c][j] = m)
=============================================================================
