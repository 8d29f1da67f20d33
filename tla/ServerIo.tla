------------------------------ MODULE ServerIo ------------------------------
(***************************************************************************)
(* The server from its start to the overlapped I/O of a connected client:  *)
(* the client's single receive context and single send context             *)
(* (ServerClient.cpp), the completion port, the worker threads that take   *)
(* completions from it and post the next read (Server::worker_thread), and *)
(* the accept, tick and worker threads that call send().  The kernel fills *)
(* and empties the contexts' buffers while the threads use them.  A        *)
(* message is a number and fills a buffer as a whole.                      *)
(***************************************************************************)
EXTENDS Integers, Sequences, FiniteSets

CONSTANTS Workers,
          AcceptThread, TickThread,
          NumIncoming,      \* messages 1 .. NumIncoming come from the client, in order
          Answered,         \* those a worker answers: sync messages of step 1
          NumBroadcasts,    \* messages the tick thread sends
          MaxIds,           \* 10000: the ids create_unique_id hands out
          MaxFailures       \* bound on the calls of WSARecv and WSASend that fail

ASSUME ThreadsAssumption ==
    /\ AcceptThread \notin Workers /\ TickThread \notin Workers
    /\ AcceptThread # TickThread
    /\ IsFiniteSet(Workers)

Threads == Workers \cup {AcceptThread, TickThread}
SendSteps == {"zero_send", "copy_send", "post_send"}

Blank == 0              \* a zeroed buffer; also the id of a sync message
Shared == -1            \* the kernel reads the buffer when it transmits
Lost == -2              \* a posted write that failed
SyncMessage == 100
Answer(m) == 200 + m
Broadcast(n) == 300 + n

VARIABLES up,           \* the process: "starting", "up" (_started), "terminated"
          ids,          \* the ids handed out
          associated,   \* the client's socket is associated with the port
          received,     \* the _buffer of the receive context: a message or Blank
          reads,        \* reads posted on it
          arrived,      \* messages of the client the kernel has delivered
          closed,       \* the client has closed the connection
          taken,        \* the completion each worker handles
          id,           \* the message whose id it read from the buffer
          handled,      \* history: <<id, body>> of the messages handled
          writes,       \* history: completed writes that workers took
          dropped,      \* history: completions of 0 bytes that workers took
          refused,      \* history: the calls of WSARecv that failed
          port,         \* the completion port, a queue
          pc,           \* where each thread is
          sent,         \* the _buffer of the send context
          sending,      \* the message each thread sends
          pending,      \* the writes in flight, in order: a message, or Shared
          broadcasts,   \* messages the tick thread has begun to send
          posted,       \* history: the messages the kernel took, in the order of WSASend
          delivered,    \* history: what the client received of each, or Lost
          unsent,       \* history: the calls of WSASend that failed
          overlapped    \* history: the messages that used the send context together

lifeVars == <<up, ids, associated>>
readVars == <<received, reads, arrived, closed, taken, id, handled, writes, dropped, refused>>
sendVars == <<sent, sending, pending, broadcasts, posted, delivered, unsent, overlapped>>
vars == <<lifeVars, readVars, port, pc, sendVars>>

Init ==
    /\ up = "starting" /\ ids = 0 /\ associated = FALSE
    /\ received = Blank /\ reads = 0 /\ arrived = 0 /\ closed = FALSE
    /\ taken = [w \in Workers |-> "none"]
    /\ id = [w \in Workers |-> Blank]
    /\ handled = <<>> /\ writes = 0 /\ dropped = 0 /\ refused = 0
    /\ port = <<>>
    /\ pc = [t \in Threads |-> IF t = AcceptThread THEN "start" ELSE "idle"]
    /\ sent = Blank /\ sending = [t \in Threads |-> Blank]
    /\ pending = <<>> /\ broadcasts = 0
    /\ posted = <<>> /\ delivered = <<>> /\ unsent = 0 /\ overlapped = {}

Goto(t, from, to) == pc[t] = from /\ pc' = [pc EXCEPT ![t] = to]

-----------------------------------------------------------------------------
(* The server starts and accepts a client. *)

\* start(), then main(), which starts the tick thread.
Start ==
    /\ Goto(AcceptThread, "start", "accept")
    /\ up' = "up"
    /\ UNCHANGED <<ids, associated, readVars, port, sendVars>>

\* A socket error: stop() joins no thread, main() and the tick thread find _started false
\* and return, and the destructor of a thread that still runs terminates the program.
StartFails ==
    /\ Goto(AcceptThread, "start", "ended")
    /\ up' = "terminated"
    /\ UNCHANGED <<ids, associated, readVars, port, sendVars>>

\* new ServerClient takes an id, whether or not accept() then succeeds.  A failed
\* association is not noticed.
Accept ==
    /\ pc[AcceptThread] = "accept" /\ ids < MaxIds
    /\ ids' = ids + 1
    /\ \/ /\ Goto(AcceptThread, "accept", "zero_read")
          /\ associated' \in BOOLEAN
       \/ UNCHANGED <<pc, associated>>
    /\ UNCHANGED <<up, readVars, port, sendVars>>

\* assert(id < 10000)
AcceptOneTooMany ==
    /\ Goto(AcceptThread, "accept", "ended") /\ ids = MaxIds
    /\ up' = "terminated"
    /\ UNCHANGED <<ids, associated, readVars, port, sendVars>>

-----------------------------------------------------------------------------
(* ServerClient::receive and the kernel's side of a read. *)

\* The buffer is zeroed, whatever reads are posted on it.
ZeroRead(t) ==
    /\ Goto(t, "zero_read", "post_read")
    /\ received' = Blank
    /\ UNCHANGED <<lifeVars, reads, arrived, closed, taken, id, handled, writes, dropped,
                   refused, port, sendVars>>

\* After WSARecv the accept thread goes on to sync(), a worker to its next completion.
AfterReceive(t) == IF t = AcceptThread THEN "sync" ELSE "idle"

PostRead(t) ==
    /\ Goto(t, "post_read", AfterReceive(t))
    /\ reads' = reads + 1
    /\ UNCHANGED <<lifeVars, received, arrived, closed, taken, id, handled, writes, dropped,
                   refused, port, sendVars>>

\* WSARecv fails, which is only printed: no read is posted.
ReadRefused(t) ==
    /\ refused + unsent < MaxFailures
    /\ Goto(t, "post_read", AfterReceive(t))
    /\ refused' = refused + 1
    /\ UNCHANGED <<lifeVars, received, reads, arrived, closed, taken, id, handled, writes,
                   dropped, port, sendVars>>

\* Completions of a socket that is not associated go nowhere.
Queued(completion) == IF associated THEN Append(port, completion) ELSE port

\* A message of the client completes a read: its bytes go to the one buffer.
CompleteRead ==
    /\ reads > 0 /\ arrived < NumIncoming /\ ~closed
    /\ reads' = reads - 1
    /\ arrived' = arrived + 1
    /\ received' = arrived + 1
    /\ port' = Queued("read")
    /\ UNCHANGED <<lifeVars, closed, taken, id, handled, writes, dropped, refused, pc, sendVars>>

\* The connection is closed or lost; from then on a read completes with 0 bytes.
Close ==
    /\ ~closed /\ ids > 0 /\ pc[AcceptThread] # "accept"
    /\ closed' = TRUE
    /\ UNCHANGED <<lifeVars, received, reads, arrived, taken, id, handled, writes, dropped,
                   refused, port, pc, sendVars>>

CompleteClosed ==
    /\ reads > 0 /\ closed
    /\ reads' = reads - 1
    /\ port' = Queued("closed")
    /\ UNCHANGED <<lifeVars, received, arrived, closed, taken, id, handled, writes, dropped,
                   refused, pc, sendVars>>

-----------------------------------------------------------------------------
(* ServerClient::send and the kernel's side of a write. *)

\* The client is in _clients.
Registered == pc[AcceptThread] = "registered"

\* The messages that use the send context: of the threads in send(), and those under way.
InUse ==
    {sending[t] : t \in {u \in Threads : pc[u] \in SendSteps}}
        \cup {posted[i] : i \in Len(delivered) + 1 .. Len(posted)}

\* Thread t calls send(m).
BeginSend(t, m) ==
    /\ pc' = [pc EXCEPT ![t] = "zero_send"]
    /\ sending' = [sending EXCEPT ![t] = m]
    /\ overlapped' = (IF InUse = {} THEN overlapped ELSE overlapped \cup InUse \cup {m})
    /\ UNCHANGED <<sent, pending, posted, delivered, unsent>>

ZeroSend(t) ==
    /\ Goto(t, "zero_send", "copy_send")
    /\ sent' = Blank
    /\ UNCHANGED <<lifeVars, readVars, port, sending, pending, broadcasts, posted, delivered,
                   unsent, overlapped>>

CopySend(t) ==
    /\ Goto(t, "copy_send", "post_send")
    /\ sent' = sending[t]
    /\ UNCHANGED <<lifeVars, readVars, port, sending, pending, broadcasts, posted, delivered,
                   unsent, overlapped>>

\* The accept thread registers the client after send(), a worker posts the next read.
AfterSend(t) ==
    CASE t = AcceptThread -> "registered"
      [] t = TickThread   -> "idle"
      [] OTHER            -> "zero_read"

\* Variant of PostSend: the operation is posted before the message is copied.
PostSendBeforeCopy(t) ==
    /\ Goto(t, "copy_send", AfterSend(t))
    /\ sent' = sending[t]
    /\ \E bytes \in {sent, Shared} : pending' = Append(pending, bytes)
    /\ posted' = Append(posted, sending[t])
    /\ UNCHANGED <<lifeVars, readVars, port, sending, broadcasts, delivered, unsent, overlapped>>

\* WSASend: the kernel takes the bytes at once, or reads them when it transmits.
PostSend(t) ==
    /\ Goto(t, "post_send", AfterSend(t))
    /\ \E bytes \in {sent, Shared} : pending' = Append(pending, bytes)
    /\ posted' = Append(posted, sending[t])
    /\ UNCHANGED <<lifeVars, readVars, port, sent, sending, broadcasts, delivered, unsent,
                   overlapped>>

\* WSASend fails, which is only printed: the message is gone.
SendRefused(t) ==
    /\ refused + unsent < MaxFailures
    /\ Goto(t, "post_send", AfterSend(t))
    /\ unsent' = unsent + 1
    /\ UNCHANGED <<lifeVars, readVars, port, sent, sending, pending, broadcasts, posted,
                   delivered, overlapped>>

\* The kernel transmits the oldest write and completes it.
Transmit ==
    /\ pending # <<>>
    /\ pending' = Tail(pending)
    /\ delivered' = Append(delivered, IF Head(pending) = Shared THEN sent ELSE Head(pending))
    /\ port' = Queued("write")
    /\ UNCHANGED <<lifeVars, readVars, pc, sent, sending, broadcasts, posted, unsent, overlapped>>

\* The oldest write fails on a connection that is closed, and completes with 0 bytes.
TransmitFails ==
    /\ pending # <<>> /\ closed
    /\ pending' = Tail(pending)
    /\ delivered' = Append(delivered, Lost)
    /\ port' = Queued("closed")
    /\ UNCHANGED <<lifeVars, readVars, pc, sent, sending, broadcasts, posted, unsent, overlapped>>

\* The accept thread, after the first receive().
Sync ==
    /\ pc[AcceptThread] = "sync"
    /\ BeginSend(AcceptThread, SyncMessage)
    /\ UNCHANGED <<lifeVars, readVars, port, broadcasts>>

\* The tick thread sends a message of the pool to the registered client.
TickSend ==
    /\ pc[TickThread] = "idle" /\ Registered
    /\ broadcasts < NumBroadcasts
    /\ broadcasts' = broadcasts + 1
    /\ BeginSend(TickThread, Broadcast(broadcasts + 1))
    /\ UNCHANGED <<lifeVars, readVars, port>>

-----------------------------------------------------------------------------
(* Server::worker_thread. *)

\* Variant of Take: a completion of 0 bytes posts the next read like a completed write.
TakeClosedToo(w) ==
    /\ pc[w] = "idle" /\ port # <<>>
    /\ port' = Tail(port)
    /\ taken' = [taken EXCEPT ![w] = Head(port)]
    /\ pc' = [pc EXCEPT ![w] = IF Head(port) = "read" THEN "read_id" ELSE "zero_read"]
    /\ writes' = (IF Head(port) = "write" THEN writes + 1 ELSE writes)
    /\ dropped' = (IF Head(port) = "closed" THEN dropped + 1 ELSE dropped)
    /\ UNCHANGED <<lifeVars, received, reads, arrived, closed, id, handled, refused, sendVars>>

\* GetQueuedCompletionStatus.  A message is handled, a write only posts the next read,
\* and a completion of 0 bytes posts nothing.
Take(w) ==
    /\ pc[w] = "idle" /\ port # <<>>
    /\ port' = Tail(port)
    /\ taken' = [taken EXCEPT ![w] = Head(port)]
    /\ pc' = [pc EXCEPT ![w] = CASE Head(port) = "read"  -> "read_id"
                                 [] Head(port) = "write" -> "zero_read"
                                 [] OTHER                -> "idle"]
    /\ writes' = (IF Head(port) = "write" THEN writes + 1 ELSE writes)
    /\ dropped' = (IF Head(port) = "closed" THEN dropped + 1 ELSE dropped)
    /\ UNCHANGED <<lifeVars, received, reads, arrived, closed, id, handled, refused, sendVars>>

\* Variant of ReadId: the buffer is zeroed for the next read before the handler ran.
ReadIdThenZero(w) ==
    /\ Goto(w, "read_id", "read_body")
    /\ id' = [id EXCEPT ![w] = received]
    /\ received' = Blank
    /\ UNCHANGED <<lifeVars, reads, arrived, closed, taken, handled, writes, dropped, refused,
                   port, sendVars>>

\* receive_message reads the id and the size before it waits for the mutex ...
ReadId(w) ==
    /\ Goto(w, "read_id", "read_body")
    /\ id' = [id EXCEPT ![w] = received]
    /\ UNCHANGED <<lifeVars, received, reads, arrived, closed, taken, handled, writes, dropped,
                   refused, port, sendVars>>

\* A worker that answers a sync message holds the mutex.
Answering == \E w \in Workers : pc[w] \in SendSteps

\* ... and its handler the rest.  A sync message is answered if the client is registered.
ReadBody(w) ==
    /\ pc[w] = "read_body" /\ ~Answering
    /\ handled' = Append(handled, <<id[w], received>>)
    /\ IF id[w] \in Answered \cup {Blank} /\ received \in Answered /\ Registered
       THEN BeginSend(w, Answer(received))
       ELSE /\ pc' = [pc EXCEPT ![w] = "zero_read"]
            /\ UNCHANGED <<sent, sending, pending, posted, delivered, unsent, overlapped>>
    /\ UNCHANGED <<lifeVars, received, reads, arrived, closed, taken, id, writes, dropped,
                   refused, port, broadcasts>>

-----------------------------------------------------------------------------
receive(t) == ZeroRead(t) \/ PostRead(t) \/ ReadRefused(t)
send(t) == ZeroSend(t) \/ CopySend(t) \/ PostSend(t) \/ SendRefused(t)
worker_thread(w) == Take(w) \/ ReadId(w) \/ ReadBody(w)
Kernel == CompleteRead \/ Close \/ CompleteClosed \/ Transmit \/ TransmitFails

accept_clients == Start \/ StartFails \/ Accept \/ AcceptOneTooMany \/ Sync

Next ==
    \/ accept_clients
    \/ \E t \in Threads : receive(t) \/ send(t)
    \/ \E w \in Workers : worker_thread(w)
    \/ TickSend
    \/ Kernel

Spec == Init /\ [][Next]_vars

-----------------------------------------------------------------------------
(* Properties. *)

\* The worker still owes a read for the completion it took.
Owing(w) == taken[w] # "closed" /\ pc[w] # "idle"

\* The reads on the receive context that are posted or that some thread will still post:
\* for the completions in the port, by workers that took one, by the accept thread.
ReadsToCome ==
    reads + Len(port) + Cardinality({w \in Workers : Owing(w)})
        + (IF pc[AcceptThread] \in {"zero_read", "post_read"} THEN 1 ELSE 0)

\* A client is listened to until an operation on it fails: as long as no WSARecv failed
\* and no completion of 0 bytes was taken, a read is posted or about to be.  And the one
\* receive context, which no code keeps to one read, never has more reads than one and one
\* for each write that completed (Server.cpp:227): operations that failed are not retried.
ReadAccounting ==
    associated => ReadsToCome + dropped + refused \in 1 .. 1 + Len(delivered)

\* Until a worker has taken the first completed write there is a single read, and the
\* client's messages are handled one by one, whole and in order (Server.cpp:225, 264).
ReadsIntactWhileSingle ==
    writes = 0 => \A i \in DOMAIN handled : handled[i] = <<i, i>>

\* A message that used the send context alone, from its call of send() until it was
\* transmitted, is received as it was sent and in its turn, or lost with the connection,
\* whatever happened to messages before it: the overlap of two calls (ServerClient.cpp:50)
\* harms the messages that overlap and no other.
SendsIntactUnlessOverlapped ==
    /\ Len(delivered) <= Len(posted)
    /\ \A i \in DOMAIN delivered :
           posted[i] \in overlapped \/ delivered[i] \in {posted[i], Lost}
=============================================================================
