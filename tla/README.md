# Verification of 1.10

1.10 is a small networked real-time strategy game: a Windows server built on I/O completion
ports and any number of clients that render a shared world of units.  This directory holds
TLA+ models of the parts of it that carry its logic, the TLC configurations that check them
on small instances, and proofs of the main results for every instance.

    tlc -workers 2 -config MCCompactArray.cfg MCCompactArray
    tlapm StreamFramingProofs.tla

## The system

| Part | State | Operations | Talks to |
|---|---|---|---|
| Slot allocator `CompactArray<T>` (`CompactArray.h`) | `_size`, `_back`, the free stack `_indicies`, the slots | `get`, `remove`, `valid`/`at`, iteration | used by the server's entities, the client's entities, and each component kind |
| Server message pool (`MessagePool`, `Server::tick_update`) | two arrays, `_current`, `_previous`, `message_pool_mutex` | store under the mutex, swap under the mutex, read and clear without it | worker threads in, tick thread out |
| Server (`Server`, `ServerClient`, `ServerEntity`) | `_clients`, ids, `_entities`, one receive and one send context per client | accept, sync, handlers of three messages, broadcast, stop | clients over TCP, workers over the completion port |
| Client network (`Client`) | socket, receive buffer, `_id`, pool, tick timer | connect, send, receive, tick | server; the main loop through the `_message_receiver` vector |
| Unit replication (`EntityManager`, `MessageHandler`) | `_entities`, `_server_client_index`, prototype cache, components | create, burn, CREATE/DELETE and TRANSFORM messages | client network, components |
| Main program (`main.cpp`, `UnitSelection`) | the player's id, the selection | startup, main loop, selection, right click | all of the above |
| Timers (`PeriodicTimer`, sync messages) | start time and period, 32 bits | `alert`, `time`, `remaining`, `offset` | both tick threads |
| Components and movement (`ComponentManager`, `TransformComponent`) | four arrays of 20 components, position and destination | attach, burn, `move`, `update` | entities |
| Files (`FileReader`), height map (`Grid`), region test (`Collision`) | tables | read, load/save, point in region | entities, editor, selection |
| Rendering, camera, UI | OpenGL objects | draw | — |

**How they interact.**  The server runs one accept thread (the process's main thread), two
worker threads per processor and a tick thread.  Accepting a client gives it an id, posts its
first read, sends it the id (sync step 0) and only then appends it to `_clients`.  A worker
that gets a completed read handles the first message in the buffer under
`message_pool_mutex`: CREATE takes a slot of the server's `_entities` and stores the message
with the slot's number, TRANSFORM stores the message as it is, sync step 1 is answered to
the client.  Every 50 ms the tick thread swaps the arrays and sends what was stored to all of
`_clients`.  A client's receive thread answers sync messages itself and puts game messages
into the client's own pool, whose tick thread hands them to the main loop.  The main loop
maps the server's number of a unit to its local slot and applies orders.  Before the loop,
`main` creates one unit, while the receive thread is already running.

**What is hard.**  The vectors and pointers shared without a lock; the orders in which a
client's registration, its id, its first announcement and other clients' broadcasts can
happen; messages lost in one read; indices that mean a local slot, a server slot or "none"
depending on when they are read; arrays that check neither their capacity nor what is given
back to them; unsigned clock arithmetic.  `PROJECT.json` lists these hazards at their lines,
with the properties that cover them or the reason why none does.

**What makes each part correct.**  The allocator hands out no slot twice and stays compact.
The pool broadcasts one log, completely, in order, without a race.  Replication keeps the
copies of a unit in agreement, lets no order reach a unit it was not meant for, and lets all
clients end with the same orders.  The receive
loop hands a message on as it was sent at most once and in order.  The tick threads tick for
ever.  A client is listened to as long as its operations succeed, and a message that does not
share a context with another keeps intact.  Units, components, prototypes and indices that are reused stay paired.  A file reads
back as it was written.

## Modules

| Module | Models | Composed of |
|---|---|---|
| `CompactArrayOps` | the allocator as operators on a record of its fields | — |
| `CompactArray` | an array and its users, who give back only slots they hold | `CompactArrayOps`; implements `SlotPool` |
| `SlotPool` | abstract: exclusive slots, as compact as their use | — |
| `CompactArrayProofs` | proofs about `CompactArray` | |
| `MessagePool` | workers, mutex, double buffer, tick thread of the server | implements `Broadcast` |
| `Broadcast` | abstract: one log, sent to each client in order | — |
| `MessagePoolProofs` | proofs about `MessagePool` | |
| `Replication` | server and clients together | `CompactArrayOps`, once for the server's units and once per client; the log `MessagePool` implements |
| `ReplicationProofs` | proofs about `Replication` | |
| `StreamFraming` | `n_connect`, `n_receieve` and `n_send` on a TCP stream cut anywhere | — |
| `StreamFramingProofs` | proofs about `StreamFraming` | |
| `ServerIo` | start of the server, accept, reads and writes of a client on its shared contexts | — |
| `ServerIoProofs` | proofs about `ServerIo` | |
| `TickClock` | two tick timers, the sync exchange, both tick threads | — |
| `TickClockProofs` | proofs about `TickClock` | |
| `EntityLifecycle` | `create`, `burn`, components, prototypes, movement, deletion on both sides | `CompactArrayOps`, for units and components and for those of the cached prototypes |
| `EntityLifecycleProofs` | proofs about `EntityLifecycle` | |
| `FileReader` | configuration files and the managers that load them | — |
| `FileReaderProofs` | proofs about `FileReader` | |
| `Selection` | selecting units and giving orders with the mouse | — |

### CompactArray

The fields of the C++ class are the fields of a record (`size`, `back`, `indicies`); the
stack's top is the end of the sequence.  `IndexRange` is 2^16 in the code, where the
assertion compares `_back` with 65535; every conversion to `uint16_t` is `Wrap`.  `stamp` is
the index each slot stores, which `remove()` trusts and does not reset.  `slot` and `peak`
are history variables: who holds what, and the most slots ever held.  `Remove` pushes any
index, as the code does; that users give back only what they hold is a rule of *this* module
(`RemoveSlot`), and it is exactly what the deletion path of the program does not keep (see
the plan).  `valid(-1)` is true in the code as soon as the array is not empty; `ValidIsHeld`
speaks of non-negative indices.  The array never looks at `_capacity`; `BackIsPeak` says that
it grows no further than its use, so that it overflows only if more elements are in use at
once than it was made for.

### MessagePool

One action per access to shared state.  A worker takes the mutex (`Lock`), reads `_current`
into a local (`GetCurrent`), pushes through that local (`PushBack`), releases (`Unlock`).
The tick thread takes the mutex, exchanges the pointers in three assignments (`Swap1..3`),
releases, and then walks over `*_previous` and clears it without the mutex.  The range-for
fixes its end when it starts (`count`).  `NoRace` says that this is safe.  `Ledger` relates
both arrays, the loop's position and what each client was sent to the history of what was
stored.  `LogSpec` is the refinement: `stored` is the log of `Broadcast`, a push is `Store`, a
send is `Deliver`, every other step stutters.  The set of clients is fixed here; registration
is in `Replication`.

### Replication

A client goes through `backlog`, `accepted` (it has an id and a read is posted), `synced`
(it was sent the id), `registered`.  Streams are FIFO queues of messages.  `HandleCreate`,
`HandleTransform` and `HandleSync` are the whole handlers, under the mutex.  Because of
the result on `MessagePool` the pool appears as `log`, and `broadcast` counts how much of it the
tick thread has sent.  A registration while the tick thread walks over `_clients` either
includes the client in the message being sent or does not: `TickSend` sends one message to
all registered clients at once, with `Register` before or after it.

`index` is `_server_client_index`; `order` is the argument of the last `move()` a unit was
given (`move()` ignores an order to where the unit already stands, which leaves the same
destination).  `Selectable` is what `UnitSelection::finalize` can pick; the region is any
subset.  A selected unit that has no server index is sent as `(uint16_t)-1`, which is
`IndexRange - 1` and no slot.  The player ids -1 (none yet) and 0, 1, ... are integers as in
the code, since `create_unique_id` counts.

`own`, `creator`, `joined`, `handled`, `orders` and `lost` are history variables.  The safety
properties about agreement and about orders hold whether or not messages are lost;
`KnownIsProcessed`, `Convergence` and `EveryUnitBecomesKnown` are about runs without a loss
in the hand-over, and say so.

What `Replication` takes from the layers below, and what they do differently in the code:

- *A client's `recv()` returns one whole message.*  `StreamFraming` shows what happens
  otherwise; all results on `Replication` are about runs without two messages in one `recv()`.
- *A server read takes in up to `MaxRead` messages, handles the first and loses the rest.*
  This is what the code does, and it is modelled; a read that ends inside a message is not.
- *One read per client is in flight, and a send copies its message.*  `ServerIo` shows until
  when this is so.
- *The hand-over from the receive thread to the main loop is one FIFO queue that may lose its
  newest message.*  The client's own pool has the shape of the server's.  The vector behind it
  is not locked: a message pushed while `process()` ends its loop is cleared unprocessed
  (`Lose`, at most `MaxLost` times).  The other outcomes of that race, a reallocation under
  the loop, are undefined behaviour and not modelled.
- Only CREATE, TRANSFORM and sync messages; DELETE is in `EntityLifecycle`.

### StreamFraming

A byte of the stream is its place, so that a buffer shows which part of which message it
holds.  `stream` has the place where each message the server has sent begins, and behind it the
place of the next; every message has a body, and a header is longer than a byte (it has five: an
id of one byte and a size of four).  `Connect` is `n_connect`: the receive thread starts in any case, also on a socket that
was closed.  `Recv(n)` is a `recv()` that returns `n` bytes behind what is left over, `Handle` one
turn of the loop and `Move` its end, where the rest goes to the front of the buffer.  The
pointer arithmetic is that of the code: after the first message `ptr` moves by one byte where
the header has several, and the rest is moved from one byte past its start (or past the whole
header when nothing was complete).  What a header decodes to that is not at the start of a
message, or lies beyond the received bytes or the buffer, is any of `StraySizes`; `Total` is
`Message::PREAMBLE + size` in 32 bits, and a size for which it wraps to 0 leaves the loop at the same
header for ever (`Endless`; `MaxHandled` bounds the turns).  What `memcpy` takes from beyond the
buffer is `Junk`.  The handler of a message whose body is misplaced may or may not send an answer,
and its constructor may throw, which ends the thread.  A read of at most `PREAMBLE` bytes is
dropped, as in the code.  `n_send` adds what `send()` returns to `total_sent`, an error as -1, and
stops when that reaches what is *left*: unsigned arithmetic modulo `SizeRange`.

The loop does read beyond its buffer, when that is full: the header after the last message
(`Client.cpp:162-165`) and the bytes moved from past their start (`:168`).  `TypeOK` says by how much at
most, a header, and that the counters never leave the buffer, so that `recv()` writes inside it.
What is handed on as it was sent is handed on once and in order, whatever the stray headers say
(`IntactInOrder`); when every `recv()` ends between two messages, each is handed on by its own header,
the first one of a `recv()` with its own body (`AlignedWhileUncut`; that the others are not, and that a
message that was cut is lost, is the code's behaviour and no property); and an answer is cut off
only in its second half (`AnswerIsPrefix`).

### ServerIo

The start of the server and one client's I/O.  A thread is at a step of `receive()` (zero the
buffer, post), of `send()` (zero the context, copy the message, post) or of `worker_thread`
(take a completion, read the id, read the body under the mutex).  A buffer holds one message or
`Blank`; the kernel puts a message into it when it completes a read, and takes the bytes of a
write when it is posted or only when it transmits (`Shared`): both are allowed to it.  A blank
buffer reads as a sync message, whose number is 0.  `WSARecv` and `WSASend` may fail, which the code
only prints: no read is posted (`ReadRefused`), or the message is gone (`SendRefused`).  The connection may
be closed at any time, then reads complete with 0 bytes and writes in flight may fail
(`TransmitFails`).  `StartFails` ends the process: `stop()`
finds `_started` false and joins nothing, and the destructor of a thread that still runs
terminates the program.  `Accept` takes an id whether or not `accept()` succeeds.  A completion
of a socket whose association failed goes nowhere.

`ReadAccounting` has two bounds.  A read of the client is posted or still to be posted, by a thread or for
a completion in the port, as long as no operation on it failed; failed ones are not retried, so that
the client is not listened to after one.  And there are never more reads than one and one for
each write that completed: since completed writes post a read as well (`Server.cpp:227`), there may
be as many.  Once there are two, a message can be overwritten before it is handled; until a
worker has taken the first completed write there is one, and messages are handled whole and in
order (`ReadsIntactWhileSingle`).

The send context is used by the accept, tick and worker threads, which do nothing to keep out of
each other's way.  `overlapped` collects the messages that were between their call of `send()` and
their transmission at the same time as another: these may be delivered as the other's bytes.
`SendsIntactUnlessOverlapped`: every other message is delivered as it was sent and in its turn, or
lost with the connection, before, between and after such overlaps and failures.

### TickClock

A timer only ever enters through `GetTickCount() - _start_time_ms`, so the state is this difference,
modulo `Range` (2^32).  `time()` of a period that has passed restarts it and returns `(DWORD)-1`,
which the message carries on in 64 bits as 2^32 - 1 (`Expired`); the fields of the message are
integers without a width.  `offset()` reads the start and writes it back (`OffsetLoad`,
`OffsetStore`) in the receive thread while the tick thread may restart the timer in between.
`remaining()` is a step of its own after `alert()`: the period may pass between them.

`DifferenceDoubles`: the exchange computes by how much the client is ahead, and `offset()`
subtracts that from the *start*, which puts the client further ahead; the difference of the
timers doubles, up to half the difference of the delays.  `ClientKeepsTicking`: the client's tick
thread ticks for ever or ends in `Sleep(INFINITE)` (`Hung`).  `remaining()` is a difference of unsigned
numbers: when the period passes after `alert()`, it wraps, and one millisecond after the period it is
`(DWORD)-1`, which `Sleep` takes as `INFINITE`.  Every other value it wraps to is a long but finite sleep.

### EntityLifecycle

One client, with the server and the other players as its environment.  `m` is the
`EntityManager` with everything it owns: entities and their slots, an array of each kind of
component with the unit each points back to, the prototype cache with an array of entities and
arrays of components of its own, and the index map.  `Create` is `create()` with
`load_cached_entity`: a slot that is reused still has the component pointers of the unit before,
so components are attached, kept or burnt by comparison with the prototype.  `Burn` is `burn()`;
deleting another player's unit goes through an `Entity` on the stack that has its slot and
no components, so its components stay attached to the slot for the next unit there.  `moving`
holds, for each transform component, whom the order that set it in motion was meant for (the code
has a flag; the unit is a history).  Units are told apart by the order of their creation, not by
the server's index, which is given again; `units` is the history of which unit an index was last given
to.  `update()` visits the components of burnt units as well, and so does the selection
(`Select`): it keeps a pointer to the slot, whatever becomes of it.  `GiveOrder` reads the server's
index from that slot at the time of the order; if the selected unit is not there any more, the
order is meant for nobody (`Stray`).  `PeerStrayOrder` is the same of another player, whose order may then
name any index.  A creation is made only while `get()` of the entities, of each kind of component and
of the prototypes' arrays passes its assertion (`MayCreate`; the server's in `MayPlace`): where one
fails the program ends.

The properties hold for deletions by other players, in any order with creations and orders.
`OrdersMoveTheirUnit` says that an order meant for one unit moves no other, and leaves out the stray
orders, which may move any.  An own `burn()` breaks most of them, and they say so (`burnt = 0`): it returns the components but
leaves the pointers in the slot, and it leaves the unit's server index in the map.  `burn()` sends the
deletion before `at()` may throw for a prototype that is not cached, which ends the program.  In the
program as it is only the handler of DELETE calls `burn()`; it is public, and announced to the
server when called for an own unit, so it is modelled as an operation of the class.

### FileReader

A file is a sequence of lines that are not blank: a section, a key with a value, a comment, an
indented line.  Names count only through their hash, a sum of characters (positive for a section,
which has a name; 0 is the hash of the default section and of an unused slot), and tables of sections
and keys are probed linearly (`Probe`).  The first pass (`Query`) counts by the first character of each
line, the second reads up to the next space and from there to the end of the line: a line without
a space (`tight`), be it a section, a key or a comment, takes the following ones with it, up to and
including one that has a space (`LastRead`, `ValLine`).  What such a piece of text hashes to is any of
`StrayHashes`.  An indented line counts as a key and has none.

`ParseSection` takes the first slot without keys, `ParseKey` the first whose value is empty, so a
section without keys, or a key without a value, loses its slot to the next one.  Further
peculiarities that are in the model: a newline at the end of the file counts its last line twice; a
read of a number that does not parse reports success and leaves the variable as it was, and the
reads of a `bool` then store an integer that was never set (`Converted`); `set_section` of a section that
is missing keeps the current one, and the scene and program managers then load that; the image
manager reads the ids below the number of slots one by one and loses those above.

`TypeOK` has the one condition that the calls do not check: `_section_hash_val` leads into `_data`, in
every file.  `NeverFull` relates the two passes, in files whose lines all have a space; in others
the constructor may throw.  `ReadsBack` and `LoadsWhatIsListed` are about `WellFormed` files (in addition every
section has keys, every key a value, and hashes within a table differ); `NothingForeign` is about all
files whose lines have a space: what is found was written under the same two hashes.  It may
be another name's, which is what the violated `FalseWithoutKey` shows.

### Selection

The left button (press, drag, release), the right button and the editor's space bar in one
frame, with units moving between frames.  `WithinRegion` is the code's formula.

## Runs

| Run | Bounds | Shows |
|---|---|---|
| `compact_array` | 5 users, `IndexRange` 5: four slots and the assertion | six invariants of the allocator, and that it implements `SlotPool`.  939 states |
| `message_pool` | 3 messages, 2 workers, 2 clients | no race, the ledger, the broadcast of one log, and that every message received is sent to every client.  49,665 states |
| `replication` | 2 clients, 2 orders, reads of up to 2 messages, 1 lost in a hand-over | agreement of the copies, the id before any broadcast, exactly the broadcast units known, orders only for units announced and only for one's own; two clients at the same point of the log have the same last orders.  about 1.8 million states |
| `replication_live` | 2 clients, no orders, fairness | every unit broadcast after a client registered becomes known to it.  about 104,000 states |
| `replication_copies` | 1 client | **violated**: "someone else made it, make it here" |
| `stream` | messages of 2, 3, 2 bytes after a header of 3, buffer of 12, answer of 3, 32 for 2^32; stray sizes 0, 20, and 29 and 31, which wrap; 4 turns, 1 error | the counters stay within the buffer and the loop reads beyond it by a header at most; which messages survive which cuts; what part of an answer is sent.  about 13.4 million states |
| `server_io` | 2 workers, 2 messages from the client, 1 of them answered, 1 broadcast, 2 ids, 1 failed call | how many reads are posted and until when the client is listened to; messages intact while there is one read; sends intact unless they overlap.  about 3.9 million states |
| `tick_clock` | `Range` 20, `Period` 4, `MaxLate` 2; delays unbounded | the difference of the timers doubles; the client ticks for ever or sleeps `INFINITE`, under fairness.  about 862,000 states |
| `entities` | 3 units, 1 own burn, 1 order, 2 prototypes, `IndexRange` 8 | components and units stay paired; counts of prototypes; components of the right prototype; no more components than units; indices lead to their units; an order moves no other unit than the one meant.  about 4.2 million states |
| `config_files` | all files of up to 4 lines over 2 sections and 3 keys with colliding hashes, with tight and indented lines, values of 3 kinds | the current section leads to a table; where tables are never too small; what was written reads back, and nothing of other hashes; managers load what is listed.  about 1.8 million states |
| `config_promise` | the same files | **violated**: "returns false if no key exists" |
| `selection` | 1 own unit and 1 other on 3 by 2 points | **violated**: `within_region` of a point and a rectangle |

**Bounds.**  In `compact_array` the free stack can be empty, hold every slot in any order, and the
last index is reached.  In `message_pool` both arrays can hold messages at once, one of them two,
and a worker can wait for the mutex while another holds it; the pool is used over several rounds.
In `replication` a client can join before, between and after all steps of the other, and each client
has units of its own and of the other in its slots; `IndexRange` 5 leaves a slot free beyond the
three units a client can have (its own, a second copy of it and the other client's).  `MaxOrders`
bounds the orders given, `MaxRead` the messages one server read takes in, `MaxLost` the messages
lost in the hand-over.  Once two orders are given, or one is
given and a message lost, `SecondBound` cuts off the states with more than two messages in transit,
and those in which a message is lost with two orders; before that nothing is cut off.
Clients and positions are symmetric in the safety runs: ids are given by the order of acceptance,
not by the client's name.

In `stream` the buffer is scaled so that it holds two messages and a part of the third and every cut of
the stream occurs: inside a header, inside a body, between messages, several at once, and a
buffer that is full or without room; `MaxHandled`, one more than there are messages, bounds the turns of
the loop that a stray size keeps in motion, `MaxErrors` bounds the errors of `send()` for one answer.  In `server_io` two
workers, the accept thread and the tick thread make two overlapping sends and three reads on one
context possible; `NumBroadcasts` bounds what the tick thread sends, `NumIncoming` what the client
sends, `MaxIds` the accepts, `MaxFailures` the calls of `WSARecv` and `WSASend` that fail.  In `tick_clock` `Range` is five periods, so that a difference that
wraps is told apart from any time that occurs; `MaxLate` bounds how long a thread that may run
waits, and is less than a period.  Messages may take any time.  In `entities` three units make a
slot be reused while another is live, on both sides; `MaxCreates`, `MaxBurns` and `MaxOrders` bound
the creations, the own burns and the orders.  One order is enough to be under way while its unit is
deleted and the index, the slot and the component are given to the next; the prototypes are those of the game's data, of
which one has an action component.  In `config_files` four lines give two sections with a key
each, one section with three keys, and keys before the first section; hashes are
equal, or equal modulo a table's size.

**Deadlock.**  It is checked in `message_pool`, whose tick thread never stops, in `tick_clock`
and in `selection`.  `compact_array` may stop at the assertion of `get()`, which ends the program; the
`replication` runs stop when all messages are processed and no order is left; `stream` when the
receive thread has ended; `server_io` when the server has ended or all is sent; `entities` when
the program has crashed or the units are used up; `config_files` when the constructor has thrown.

**Fairness.**  `MessagePool`: the tick thread is scheduled and its period passes (weak
fairness); a worker that holds the mutex goes on (weak), and one that waits for it gets it in
the end (strong fairness of `Lock`): the tick thread holds it for three assignments and asks
for it again a whole period later, and other workers stop when no message is left.  That
clients send is not assumed.  `Replication`: accept, worker, receive, tick and main threads
are scheduled (weak fairness of each); users need not act.  `replication_live` has single
reads, because a message lost in a read is never announced; the property speaks of units the
server announced.  `TickClock`: time passes and the two tick threads run (weak fairness of
`Pass`, `ServerTick`, `ClientTick`): the scheduler runs a thread that may run within `MaxLate`, which
`Pass` enforces.  Nothing is assumed of the network: the exchange may stop anywhere.

**The findings.**  `replication_copies` shows that a client can take its own unit for someone
else's.  `main` creates the startup unit with the id the client has then (`main.cpp:113`); the
id is set by the receive thread when the sync message arrives (`Client.cpp:245`).  If the
creation comes first, the unit is announced for player -1.  Its broadcast arrives when the id
is known, so `entity_message` goes into the branch commented "someone else made it, make it
here" (`EntityManager.cpp:227`) and makes a second copy, and the original never gets a server
index.  All other properties hold in this case too: the copy is consistent among clients, as
a unit of player -1.

`config_promise` shows that a lookup may succeed for a key that does not exist, which `FileReader.h:41`
and `:51` exclude.  Keys and sections are compared by the sum of their characters alone
(`FileReader.cpp:16`), so that "ba" is found in a file that has "ab"; and a slot left over by the newline at
the end of the file has the key 0 of the id 0.

`selection` shows that `within_region` does not test the right edge.  `Collision.h:8` and `:9` name
its parameters point and rectangle; `Collision.cpp:4` compares the point with `a.x + a.z`,
which is the point's own, where the rectangle's `b.x + b.z` is meant.  A unit right of the dragged
rectangle is selected.

**What else the models made visible.**  These are the code's behaviour, and in the models as such:

- The offset of the clocks is applied with the wrong sign (`PeriodicTimer.cpp:24`): the exchange
  doubles a difference between the timers instead of removing it.
- The second message of one `recv()` has its body taken four bytes early (`Client.cpp:160`); a message
  that was cut is never put together; `n_send` may end when half of a message is sent (`Client.cpp:114`).
  After a full buffer the loop decodes a header, and moves bytes, from beyond it.  A stray size close to
  2^32 keeps it at one header for ever.
- When the client's tick thread reads the clock for `remaining()` one millisecond after the end of
  the period, it sleeps `INFINITE` and never ticks again (`PeriodicTimer.cpp:28`, `Client.cpp:195`).
- Each message the server sends adds a read on the one receive context (`Server.cpp:227`), and a
  blank buffer reads as a sync message, since `SYS_SYNC_MESSAGE` is 0.  A failed `WSARecv` or `WSASend` is
  not retried: the client is then not heard any more, or a message is lost.
- A failed `accept()` uses up one of the 10000 ids.  A failed start terminates the process through the
  destructor of a thread that still runs, not through `stop()`.
- An own `burn()` leaves the server's index of the unit in the map and the pointers to returned
  components in the slot.  A deletion of an index not in the map dereferences an empty node; a
  deletion sent again by another client carries index -1, and the server then pushes 65535 on its
  free stack.
- The selection keeps pointers to slots: after the selected unit is gone, a right click orders whatever
  unit the slot holds then, another player's included.
- In a configuration file, a section without keys loses its slot, and a line without a space takes
  following lines with it; if that swallows a header, the constructor may throw "Tables are full".
- A `bool` read of a text succeeds with whatever an uninitialised `int` holds (`FileReader.cpp:191`).

## Proofs

For every `IndexRange > 1` and every finite set of holders (`CompactArrayProofs`), from the
inductive invariant `IInv`: the type invariant, that every held slot lies below `_back`, is not on
the stack and stores its own index (`HeldShape`), and the shape of the stack (`WellStacked`): at its
bottom `_back` itself, above it free slots below `_back`, each once, so that slots in use and slots
on the stack make up `0 .. _back`.  `NoAliasing` alone is not inductive: it is kept only because the
stack never names a held slot.  Theorems: `TypeCorrect`, `Exclusive`, `ValidExact`, `NothingLost`,
`Compact`, `IterationComplete`, and `Refinement` (`Spec => PoolSpec`).  `Compact` needs counting:
`get()` grows the array exactly when the stack is down to `_back`, that is when all slots below are
held.

For every number of workers, clients and messages (`MessagePoolProofs`):

- `RaceFree` from `PInv`: a thread is in its critical section exactly when it holds the mutex;
  outside `swap()` the two pointers name different arrays; the pointer a worker has read is
  still the current one when it pushes.
- `LedgerKept` from `LInv`, which adds that the array not being filled is empty up to the swap
  and is the loop's batch after it.  `Ledger` is not inductive without it: clearing would
  otherwise drop messages not yet sent.
- `PoolImplementsLog` (`Spec => LogSpec`): what the tick thread sends next is the message of
  the log the client lacks (`NextToSend`).
- `TypesKept`: the type invariant, which is left to the proof and not checked in the run.

For every finite set of workers and any number of messages in both directions
(`ServerIoProofs`):

- `SendsIntact` from `SInv`: a message that is alone in the send context owns it (`ContextOwned`).  While
  its thread is in `send()` nothing else is in flight and, before it posts, the buffer holds the
  message; once it is posted it is the one write in flight, which is or will be read intact.
  The property speaks of what was delivered and is not inductive: a step of the kernel keeps it only
  because of what is in the context.
- `ReadsAccounted` from `RInv`: the count of the property (`Counted`), with what keeps it: a worker is
  busy only with a completion other than one of 0 bytes (`Taking`), and before the client is accepted
  nothing is under way (`Waiting`).  The count includes the number of workers that owe a read, a
  cardinality; hence the assumption that the workers are finitely many.
- `ReadsIntact` from `OInv`: as long as no worker has taken a completed write there is one read, which
  is not posted yet, posted, completed, owed by one worker, or gone (`OneRead`), and in each of these
  places it is known which messages were handled and whether the buffer holds the next one.

For every finite set of clients and every bound on orders, reads and losses (`ReplicationProofs`).
The invariant is built in layers, each inductive relative to those below it:

- `TInv`: types, and the shape of the arrays (`Shapes`): nothing is removed here, so that `get()` hands
  out `_back`, and a client's startup unit is in slot 0.  Theorem `Typing`.
- `IdInv`: ids differ; the sync message with a client's id is the first thing on its stream, or
  has been handled (`Told`, `Untold`); nothing else is sent to a client that is not registered.  Theorem
  `IdFirst`: `IdBeforeBroadcast` speaks of what was handled and is kept only because of what is
  still on the stream.
- `StreamInv`: what is pending at a client and then the game messages on its stream are the log,
  from what it has handled on, each once.  `LogInv`: the log announces every server slot and every
  client's unit at most once.
- `CopyInv`, from these: a unit's server index and the index's unit name each other, and the unit a
  client knows under an index is that of the server's owner.  Theorems `CopiesAgree`
  (`Agreement`), `OwnUnitAcknowledged` (`AckIsOwn`): the echoed slot of an announcement is the one the
  client wrote into it, whatever units it has created in between.
- `OrderInv`: an order in the log or under way names announced units of its author.  Theorems
  `OrdersFollow`, `OrdersOfOwnUnits`.
- `LastInv`: without a loss each announcement handled is known, and the order a unit was given last is
  the last one of the log handled so far.  Theorems `ProcessedIsKnown`, `CopiesConverge`.

`SettledStays` is an action property: the log and the server's slots only grow; a client's id, its
registration, its player and the owner of its first unit, once set, stay.

For every number of creations, burns and orders and every set of prototypes
(`EntityLifecycleProofs`), again in layers:

- `BaseInv`: the shape of the manager, of the server and of all messages under way, whatever happens:
  arrays are well stacked, pointers and slots below `_back`, and creations are counted against their
  bound together with the announcements still to come (`RoomOK`).  Theorem `PeakOfComponents`: an
  array of components grows only together with, or after, the array of units.
- `FollowInv` (as long as no prototype left the cache): a live unit has the components of its
  prototype.  Theorem `UnitsFollow`.
- `SoundInv`: as long as no deletion was misled the stacks hold no slot twice and no slot in use
  (`Solid`); as long as nothing of one's own was burnt the index map and the units name each other
  (`Linked`), and each announcement of an own unit under way is the only one and its unit waits for
  it (`Pending`).  Theorem `IndicesLeadToUnits`.
- `CountInv`: the reference count of a cached prototype is the number of live units made from it.
  Theorem `CountsAreUses`.
- `TrackInv` (as long as no own unit was burnt) follows what a server index stands for.  It was given to one
  unit and stands for nobody after its deletion (`Stands`); the messages on the way to the client change
  what it stands for there, one by one (`Touches`, `Says`).  What the client will know of an index when
  it has taken the first messages of its queue (`Known`) is what the announcement or the order that comes
  next needs (`Tracked`), and in the end what the server has (`Learnt`).  Without it an order could overtake
  a deletion and find the next unit with the same index.
- `PairedInv`: units and components of each kind point to each other one to one, each
  component's slot being held, and a component that moves belongs to the unit the order was for.
  Theorems `PointersPair`, `UnitsObeyOrders`; for the latter each order finds, by `TrackInv`, the unit it
  was meant for or none.

For every `Range` of the tick counter above four periods (`TickClockProofs`): `LeadDoubles` from
`ClockInv`, which says for each phase of the exchange what the message under way has of the two
timers and of the delays so far (`Stamped`, `Answered`, `Computed`, `Loaded`), as long as neither
timer was restarted since.  `DifferenceDoubles` itself speaks of the end of the exchange only.
That the server's timer overruns its period by at most two latenesses (`ServerWithin`) keeps the
arithmetic from wrapping.

For all sizes of the messages, the header, the buffer and the answer, and any set of sizes a
misplaced header may have (`StreamFramingProofs`):

- `BufInv`: messages follow one another in the stream without a gap (`StreamOK`), the counters stay
  within the buffer (`Counters`), the bytes in the buffer ascend, and what is left over after a turn ends with a
  byte that was not received (`AtRecv`): `memcpy` takes `bytes_remaining` bytes from past their start.
- `HandedOnWhole` from `FrameInv`: since that byte is missing between what two `recv()` returned, no
  message lies across it (`WindowOK`), and what lies in the buffer was sent after every message that was
  handed on as it was sent (`PastOK`), also while a size that wraps keeps the loop where it is.
- `HandedOnInOrder` from `UncutInv`: while every `recv()` ends between messages, nothing is left over
  at its end, and in the loop what is left in the buffer is the stream from the next message on
  (`Fed`), unless a size that wraps was decoded after the last one (`Spinning`).
- `SendsPrefix` from `SendInv`: `total_sent` and `bytes_left` add up to the size of the answer, unless
  the first `send()` failed and `total_sent` is the last value of `size_t`, which ends the loop.
- `CountersStay` (`TypeOK`) from `BufInv` and `SendInv`.

For every set of names, every hash and every file (`FileReaderProofs`).  The search for a slot is a
minimum over the turns of a table of any size; the lemmas `ProbeFinds`, `ProbeEnds` and `FullTurn` say
where it ends and that it fails only when no slot fits.

- `TypesStay` and `TablesSuffice` from `FullInv`: `CountOK` has what the counting pass found, at least
  one slot per section and per key, and `ParseOK` what the parser has used of it: the slots taken are no
  more than the headers met, and the values in the current table no more than the lines with a key
  read.  A free slot is left by counting, wherever the hashes lead.  `NeverFull` itself says nothing
  of how much is left.  Without a tight line the parser meets the sections in step with the
  counting pass; with one it may throw, and `TypeOK` still holds.
- `LookupsAreWritten` from `PlaceInv`: every value in a table was written in a line of one section,
  which has the hash stored with the table, under a key with the hash stored with the value.  The slot
  that is overwritten, of a section without keys or a key without a value, holds none.
- `KeysReadBack` from `StandInv`: in a well-formed file each header read so far stands where a search
  for it ends, every slot before it on the way being taken by another (`Stands`), and its table holds
  its keys so far in the same way and no others (`Stores`).  That way must stay closed as slots are
  taken, which is why the invariant speaks of all headers and not of the current one only.
- `ManagersLoadTheList`, an action property, from the same invariant and a count: without the extra slot that a newline adds, the table of a section is full of its keys
  (`TableIsFull`).

The assumptions are those of the modules: `IndexRangeAssumption`, `HoldersAssumption`,
`ThreadsAssumption` (of `MessagePool` and of `ServerIo`), `ClientsAssumption`, `BoundsAssumption` (of
`Replication`, `EntityLifecycle` and `FileReader`), `PositionsAssumption`, `HasAssumption`,
`RangeAssumption`, `SizesAssumption`, `HashAssumption` and `ValuesAssumption`.  The run of each module evaluates them.  `SizesAssumption` has `SizeRange` above twice
the size of an answer, `RangeAssumption` a lateness below the period and a range above four periods:
the code has 2^64 against a few dozen bytes, and 2^32 ms against 50 ms.

**Only model-checked.**  Liveness (`EveryMessageIsSent`, `EveryUnitBecomesKnown`,
`ClientKeepsTicking`), which is out of the prover's reach, and the three runs that show a violation
(`SelectsRectangle`, `CopiesAreOthers` and `FalseWithoutKey`).  Every other property of the runs is a theorem.

## Not modelled

- Rendering, camera, scenes, shaders, images, UI, frame timing and the OpenGL loader: calls of
  libraries, without a protocol.  Actions: their bodies are empty or print.
- The height map of `Grid`: saving, loading and the lookup of a tile are three computations on one
  array that nothing interacts with.
- Positions on the way of a moving unit: floating-point geometry.  Only whether a unit moves, and on
  which order, is modelled.
- `Server::stop()` after a successful start: `main` never reaches it.
- The data race on the vector `_clients` between registration and iteration, and the one on
  `_message_receiver` beyond a lost message: undefined behaviour of the containers themselves.
- The client's own message pool, which has the shape of the server's; its three parts are one queue
  in `Replication`.
- Two threads of a client inside `n_send` at once: each `send()` is atomic in practice, and only a
  partial send could interleave the two.
- The loss of a TCP connection beyond the end of the threads' loops: neither side handles it
  (the code prints and goes on).

## Plan

`ClientPipeline`: receive thread, client pool, `_message_receiver` and main loop, as the refinement
of the hand-over queue of `Replication`; then the refinement of `Replication`'s log by `MessagePool`
as one composed specification.
