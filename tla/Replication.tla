---------------------------- MODULE Replication ----------------------------
(***************************************************************************)
(* The server and its clients keep their copies of the world's units in    *)
(* step: a client announces the unit it creates, the server numbers it and *)
(* broadcasts it, every client maps the server's number to a local slot,   *)
(* and orders name units by that number.                                   *)
(*                                                                         *)
(* Composed of: the main and receive threads of each client (main.cpp,     *)
(* EntityManager.cpp, Client.cpp), the accept, worker and tick threads of  *)
(* the server (Server.cpp), a FIFO stream per direction and client (TCP),  *)
(* and two kinds of CompactArray.  The server's message pool appears as    *)
(* the log it implements (module MessagePool); the queue between a         *)
(* client's receive thread and its main loop likewise, except that it may  *)
(* lose a message at its end.                                              *)
(*                                                                         *)
(* Assumed of the layers below: a recv() of a client returns one whole     *)
(* message, a send takes its message, whole, and the server has one read   *)
(* per client in flight.                                                   *)
(***************************************************************************)
EXTENDS CompactArrayOps

CONSTANTS Clients,      \* the client processes
          Positions,    \* where a unit can be ordered to
          NoOrder,      \* a unit that was never ordered anywhere
          MaxOrders,    \* bound: the orders the clients give
          MaxRead,      \* bound: the messages one read of the server takes in
          MaxLost       \* bound: the messages lost between a client's two threads

ASSUME BoundsAssumption == MaxOrders \in Nat /\ MaxRead \in Nat \ {0} /\ MaxLost \in Nat
ASSUME PositionsAssumption == NoOrder \notin Positions

None == -1              \* no id, no server index, no slot

\* A local unit; Entity() starts with player 0 and no server index.
NewUnit == [player |-> 0, server |-> None]

VARIABLES
    \* server
    stage,          \* where accept_clients is with each client
    id,             \* ServerClient::_id
    nextId,         \* the static id of create_unique_id
    serverArr,      \* Server::_entities
    owner,          \* the player stored in each server slot
    log,            \* the messages stored in the pool, in order
    broadcast,      \* how many of them the tick thread has sent on
    \* network
    up,             \* the bytes from each client, as messages
    down,           \* the bytes to each client, as messages
    \* client
    phase,          \* where main() is
    clientId,       \* Client::_id
    synced,         \* the tick timer was adjusted
    player,         \* UnitSelection::_player
    arr,            \* EntityManager::_entities
    unit,           \* the units in its slots
    index,          \* _server_client_index
    order,          \* where each unit was last told to move()
    pending,        \* messages received and not processed yet
    \* history
    own,            \* the slot of the unit created at startup
    creator,        \* the client that created the unit in a server slot
    joined,         \* how much of the log was broadcast when a client registered
    handled,        \* how much of the log a client has processed or missed
    orders,         \* how many orders the clients gave
    lost            \* how many messages clients lost

serverVars == <<stage, id, nextId, serverArr, owner, log, broadcast, creator, joined>>
worldVars == <<arr, unit, index, order>>
clientVars == <<phase, clientId, synced, player, pending, own, handled, orders, lost>>
vars == <<serverVars, up, down, worldVars, clientVars>>

Init ==
    /\ stage = [c \in Clients |-> "backlog"]
    /\ id = [c \in Clients |-> None]
    /\ nextId = 0
    /\ serverArr = New
    /\ owner = [s \in Slots |-> None]
    /\ log = <<>>
    /\ broadcast = 0
    /\ up = [c \in Clients |-> <<>>]
    /\ down = [c \in Clients |-> <<>>]
    /\ phase = [c \in Clients |-> "connected"]
    /\ clientId = [c \in Clients |-> None]
    /\ synced = [c \in Clients |-> FALSE]
    /\ player = [c \in Clients |-> None]
    /\ arr = [c \in Clients |-> New]
    /\ unit = [c \in Clients |-> [s \in Slots |-> NewUnit]]
    /\ index = [c \in Clients |-> [s \in Slots |-> None]]
    /\ order = [c \in Clients |-> [s \in Slots |-> NoOrder]]
    /\ pending = [c \in Clients |-> <<>>]
    /\ own = [c \in Clients |-> None]
    /\ creator = [s \in Slots |-> None]
    /\ joined = [c \in Clients |-> 0]
    /\ handled = [c \in Clients |-> 0]
    /\ orders = 0
    /\ lost = 0

Send(queue, c, m) == [queue EXCEPT ![c] = Append(@, m)]

Sync(step, c) == [kind |-> "sync", step |-> step, client |-> c]

-----------------------------------------------------------------------------
(* The accept thread: one client after the other. *)

\* Variant of Accept: create_unique_id does not count.
AcceptSameId(c) ==
    /\ stage[c] = "backlog"
    /\ \A d \in Clients : stage[d] \in {"backlog", "registered"}
    /\ stage' = [stage EXCEPT ![c] = "accepted"]
    /\ id' = [id EXCEPT ![c] = nextId]
    /\ UNCHANGED <<nextId, serverArr, owner, log, broadcast, creator, joined, up, down,
                   worldVars, clientVars>>

\* accept(), associate() and the first receive(): from here workers read its messages.
Accept(c) ==
    /\ stage[c] = "backlog"
    /\ \A d \in Clients : stage[d] \in {"backlog", "registered"}
    /\ stage' = [stage EXCEPT ![c] = "accepted"]
    /\ id' = [id EXCEPT ![c] = nextId]
    /\ nextId' = nextId + 1
    /\ UNCHANGED <<serverArr, owner, log, broadcast, creator, joined, up, down,
                   worldVars, clientVars>>

\* sync(client)
SendSync(c) ==
    /\ stage[c] = "accepted"
    /\ stage' = [stage EXCEPT ![c] = "synced"]
    /\ down' = Send(down, c, Sync(0, id[c]))
    /\ UNCHANGED <<id, nextId, serverArr, owner, log, broadcast, creator, joined, up,
                   worldVars, clientVars>>

\* Variant of Register: the client is registered before it is sent its id.
RegisterBeforeSync(c) ==
    /\ stage[c] = "accepted"
    /\ stage' = [stage EXCEPT ![c] = "registered"]
    /\ joined' = [joined EXCEPT ![c] = broadcast]
    /\ handled' = [handled EXCEPT ![c] = broadcast]
    /\ UNCHANGED <<id, nextId, serverArr, owner, log, broadcast, creator, up, down,
                   worldVars, phase, clientId, synced, player, pending, own, orders, lost>>

\* _clients.push_back(client): from here the tick thread sends to it.
Register(c) ==
    /\ stage[c] = "synced"
    /\ stage' = [stage EXCEPT ![c] = "registered"]
    /\ joined' = [joined EXCEPT ![c] = broadcast]
    /\ handled' = [handled EXCEPT ![c] = broadcast]
    /\ UNCHANGED <<id, nextId, serverArr, owner, log, broadcast, creator, up, down,
                   worldVars, phase, clientId, synced, player, pending, own, orders, lost>>

-----------------------------------------------------------------------------
(* The worker threads, under the mutex of the message pool.  A read takes in *)
(* the first k messages of the stream; receive_message handles the first and *)
(* the rest is lost with the buffer.                                         *)

Read(c, k) ==
    /\ stage[c] # "backlog"
    /\ k <= Len(up[c])
    /\ up' = [up EXCEPT ![c] = SubSeq(@, k + 1, Len(@))]

\* receive_entity_message, OP_CREATE
HandleCreate(c, k) ==
    /\ Read(c, k)
    /\ LET m == Head(up[c])
           s == Top(serverArr)
       IN  /\ m.kind = "create"
           /\ MayGet(serverArr)
           /\ serverArr' = Get(serverArr)
           /\ owner' = [owner EXCEPT ![s] = m.player]
           /\ creator' = [creator EXCEPT ![s] = c]
           /\ log' = Append(log, [m EXCEPT !.server = s])
    /\ UNCHANGED <<stage, id, nextId, broadcast, joined, down, worldVars, clientVars>>

\* receive_transform_message
HandleTransform(c, k) ==
    /\ Read(c, k)
    /\ Head(up[c]).kind = "transform"
    /\ log' = Append(log, Head(up[c]))
    /\ UNCHANGED <<stage, id, nextId, serverArr, owner, broadcast, creator, joined, down,
                   worldVars, clientVars>>

\* receive_sync_message, step 1; send_to_client finds only a registered client.
HandleSync(c, k) ==
    /\ Read(c, k)
    /\ LET m == Head(up[c])
           to == {d \in Clients : stage[d] = "registered" /\ id[d] = m.client}
       IN  /\ m.kind = "sync" /\ m.step = 1
           /\ down' = [d \in Clients |-> IF d \in to THEN Append(down[d], Sync(2, m.client))
                                                     ELSE down[d]]
    /\ UNCHANGED <<serverVars, worldVars, clientVars>>

-----------------------------------------------------------------------------
(* The tick thread: the next message of the log goes to every registered client. *)

\* Variant of TickSend: a client that was sent its id is sent to, registered or not.
TickSendToSynced ==
    /\ broadcast < Len(log)
    /\ broadcast' = broadcast + 1
    /\ down' = [c \in Clients |-> IF stage[c] \in {"synced", "registered"}
                                  THEN Append(down[c], log[broadcast + 1])
                                  ELSE down[c]]
    /\ UNCHANGED <<stage, id, nextId, serverArr, owner, log, creator, joined, up,
                   worldVars, clientVars>>

\* Variant of TickSend: only the first message of a batch is sent.
TickSendFirst ==
    /\ broadcast < Len(log)
    /\ broadcast' = Len(log)
    /\ down' = [c \in Clients |-> IF stage[c] = "registered"
                                  THEN Append(down[c], log[broadcast + 1])
                                  ELSE down[c]]
    /\ UNCHANGED <<stage, id, nextId, serverArr, owner, log, creator, joined, up,
                   worldVars, clientVars>>

TickSend ==
    /\ broadcast < Len(log)
    /\ broadcast' = broadcast + 1
    /\ down' = [c \in Clients |-> IF stage[c] = "registered"
                                  THEN Append(down[c], log[broadcast + 1])
                                  ELSE down[c]]
    /\ UNCHANGED <<stage, id, nextId, serverArr, owner, log, creator, joined, up,
                   worldVars, clientVars>>

-----------------------------------------------------------------------------
(* The receive thread of a client. *)

\* The next message of the stream is of one of these kinds.
Receive(c, kinds) ==
    /\ down[c] # <<>>
    /\ Head(down[c]).kind \in kinds
    /\ down' = [down EXCEPT ![c] = Tail(@)]

\* receive_sync_message: step 0 tells the client its id, and is answered at once ...
ReceiveSync0(c) ==
    /\ Receive(c, {"sync"})
    /\ Head(down[c]).step = 0
    /\ clientId' = [clientId EXCEPT ![c] = Head(down[c]).client]
    /\ up' = Send(up, c, Sync(1, Head(down[c]).client))
    /\ UNCHANGED <<serverVars, worldVars, phase, synced, player, pending, own, handled, orders,
                   lost>>

\* ... and step 2 adjusts the tick timer.
ReceiveSync2(c) ==
    /\ Receive(c, {"sync"})
    /\ Head(down[c]).step = 2
    /\ synced' = [synced EXCEPT ![c] = TRUE]
    /\ UNCHANGED <<serverVars, up, worldVars, phase, clientId, player, pending, own, handled,
                   orders, lost>>

\* receive_entity_message, receive_transform_message: on to the main loop.
ReceiveGame(c) ==
    /\ Receive(c, {"create", "transform"})
    /\ pending' = Send(pending, c, Head(down[c]))
    /\ UNCHANGED <<serverVars, up, worldVars, phase, clientId, synced, player, own, handled,
                   orders, lost>>

-----------------------------------------------------------------------------
(* The main thread of a client. *)

\* EntityManager::create: a unit of player p, with server index s, in the next slot.
Create(c, p, s) ==
    /\ MayGet(arr[c])
    /\ arr' = [arr EXCEPT ![c] = Get(@)]
    /\ unit' = [unit EXCEPT ![c][Top(arr[c])] = [player |-> p, server |-> s]]

\* std::map::insert keeps what is there.
Insert(c, s, slot) == [index EXCEPT ![c][s] = IF @ = None THEN slot ELSE @]

\* entity_manager.create(0, client.get_id()): whether or not the id has arrived.
CreateOwn(c) ==
    /\ phase[c] = "connected"
    /\ phase' = [phase EXCEPT ![c] = "created"]
    /\ Create(c, clientId[c], None)
    /\ own' = [own EXCEPT ![c] = Top(arr[c])]
    /\ up' = Send(up, c, [kind |-> "create", index |-> Top(arr[c]),
                          player |-> clientId[c], server |-> None])
    /\ UNCHANGED <<serverVars, down, index, order, clientId, synced, player, pending,
                   handled, orders, lost>>

\* UnitSelection(client.get_id(), ...), and into the main loop.
StartLoop(c) ==
    /\ phase[c] = "created"
    /\ phase' = [phase EXCEPT ![c] = "running"]
    /\ player' = [player EXCEPT ![c] = clientId[c]]
    /\ UNCHANGED <<serverVars, up, down, worldVars, clientId, synced, pending, own, handled,
                   orders, lost>>

\* The next of the messages goes.
Take(c) ==
    /\ phase[c] = "running"
    /\ pending[c] # <<>>
    /\ pending' = [pending EXCEPT ![c] = Tail(@)]
    /\ handled' = [handled EXCEPT ![c] = @ + 1]
    /\ UNCHANGED <<serverVars, up, down, phase, clientId, synced, player, own, orders>>

\* MessageHandler::process goes on to its next message.
Process(c, kind) ==
    /\ Take(c)
    /\ Head(pending[c]).kind = kind
    /\ UNCHANGED lost

\* A message that the tick thread adds when process() is at the end of its loop is
\* cleared with the others and never processed: nothing locks the vector.
Lose(c) ==
    /\ Take(c)
    /\ lost < MaxLost
    /\ lost' = lost + 1
    /\ UNCHANGED worldVars

\* Variant of ProcessOwn: the unit is not told its server index.
ProcessOwnUntold(c) ==
    /\ Process(c, "create")
    /\ LET m == Head(pending[c])
       IN  /\ m.player = clientId[c]
           /\ index' = IF Valid(arr[c], m.index) THEN Insert(c, m.server, m.index) ELSE index
    /\ UNCHANGED <<arr, unit, order>>

\* entity_message, a unit of this client's id: the unit at the index it sent.
ProcessOwn(c) ==
    /\ Process(c, "create")
    /\ LET m == Head(pending[c])
       IN  /\ m.player = clientId[c]
           /\ IF Valid(arr[c], m.index)
              THEN /\ unit' = [unit EXCEPT ![c][m.index].server = m.server]
                   /\ index' = Insert(c, m.server, m.index)
              ELSE UNCHANGED <<unit, index>>
    /\ UNCHANGED <<arr, order>>

\* entity_message, any other unit: made here.
ProcessOther(c) ==
    /\ Process(c, "create")
    /\ LET m == Head(pending[c])
       IN  /\ m.player # clientId[c]
           /\ Create(c, m.player, m.server)
           /\ index' = Insert(c, m.server, Top(arr[c]))
    /\ UNCHANGED order

\* transform_message: the units with these indices, as far as they are known, move.
ProcessTransform(c) ==
    /\ Process(c, "transform")
    /\ LET m == Head(pending[c])
           moved == {index[c][s] : s \in m.units \cap Slots} \ {None}
       IN  order' = [order EXCEPT ![c] =
                       [s \in Slots |-> IF s \in moved THEN m.position ELSE @[s]]]
    /\ UNCHANGED <<arr, unit, index>>

\* Variant of Selectable: every local unit.
SelectableAny(c) == {s \in Slots : Valid(arr[c], s)}

\* What UnitSelection::finalize can select: the local units of its player.
Selectable(c) ==
    {s \in Slots : Valid(arr[c], s) /\ unit[c][s].player = player[c]}

\* Variant of GiveOrder: the slots are sent instead of the server indices.
GiveOrderBySlot(c, selection, p) ==
    /\ phase[c] = "running"
    /\ orders < MaxOrders
    /\ orders' = orders + 1
    /\ selection \subseteq Selectable(c) /\ selection # {}
    /\ up' = Send(up, c, [kind |-> "transform", position |-> p, by |-> c, units |-> selection])
    /\ UNCHANGED <<serverVars, down, worldVars, phase, clientId, synced, player, pending,
                   own, handled, lost>>

\* Variant of GiveOrder: the units move at once, without waiting for the server.
GiveOrderAtOnce(c, selection, p) ==
    /\ phase[c] = "running"
    /\ orders < MaxOrders
    /\ orders' = orders + 1
    /\ selection \subseteq Selectable(c) /\ selection # {}
    /\ order' = [order EXCEPT ![c] = [s \in Slots |-> IF s \in selection THEN p ELSE @[s]]]
    /\ up' = Send(up, c, [kind |-> "transform", position |-> p, by |-> c,
                          units |-> {Wrap(unit[c][s].server) : s \in selection}])
    /\ UNCHANGED <<serverVars, down, arr, unit, index, phase, clientId, synced, player, pending,
                   own, handled, lost>>

\* A right click: get_indices() of a selection, as uint16_t; an empty one is not sent.
GiveOrder(c, selection, p) ==
    /\ phase[c] = "running"
    /\ orders < MaxOrders
    /\ orders' = orders + 1
    /\ selection \subseteq Selectable(c) /\ selection # {}
    /\ up' = Send(up, c, [kind |-> "transform", position |-> p, by |-> c,
                          units |-> {Wrap(unit[c][s].server) : s \in selection}])
    /\ UNCHANGED <<serverVars, down, worldVars, phase, clientId, synced, player, pending,
                   own, handled, lost>>

-----------------------------------------------------------------------------
AcceptThread(c) == Accept(c) \/ SendSync(c) \/ Register(c)

WorkerThread(c) ==
    \E k \in 1 .. MaxRead : HandleCreate(c, k) \/ HandleTransform(c, k) \/ HandleSync(c, k)

ReceiveThread(c) == ReceiveSync0(c) \/ ReceiveSync2(c) \/ ReceiveGame(c)

MainLoop(c) ==
    CreateOwn(c) \/ StartLoop(c) \/ ProcessOwn(c) \/ ProcessOther(c) \/ ProcessTransform(c)

User(c) == \E p \in Positions : \E selection \in SUBSET Selectable(c) : GiveOrder(c, selection, p)

Next ==
    \/ TickSend
    \/ \E c \in Clients : \/ AcceptThread(c) \/ WorkerThread(c)
                          \/ ReceiveThread(c) \/ MainLoop(c) \/ Lose(c) \/ User(c)

Spec == Init /\ [][Next]_vars

\* Every thread is scheduled, and a read in flight completes.  Users need not act.
Fairness ==
    /\ WF_vars(TickSend)
    /\ \A c \in Clients :
         /\ WF_vars(AcceptThread(c))
         /\ WF_vars(WorkerThread(c))
         /\ WF_vars(ReceiveThread(c))
         /\ WF_vars(MainLoop(c))

FairSpec == Spec /\ Fairness

-----------------------------------------------------------------------------
Number == Slots \cup {None}

Message ==
    [kind : {"create"}, index : Slots, player : Int, server : Number]
        \cup [kind : {"transform"}, position : Positions, by : Clients,
              units : SUBSET (0 .. IndexRange - 1)]
        \cup [kind : {"sync"}, step : 0 .. 2, client : Int]

TypeOK ==
    /\ stage \in [Clients -> {"backlog", "accepted", "synced", "registered"}]
    /\ id \in [Clients -> Int] /\ nextId \in Nat
    /\ serverArr \in Array /\ arr \in [Clients -> Array]
    /\ owner \in [Slots -> Int] /\ creator \in [Slots -> Clients \cup {None}]
    /\ log \in Seq(Message) /\ broadcast \in 0 .. Len(log)
    /\ up \in [Clients -> Seq(Message)] /\ down \in [Clients -> Seq(Message)]
    /\ pending \in [Clients -> Seq(Message)]
    /\ phase \in [Clients -> {"connected", "created", "running"}]
    /\ clientId \in [Clients -> Int] /\ player \in [Clients -> Int]
    /\ synced \in [Clients -> BOOLEAN]
    /\ unit \in [Clients -> [Slots -> [player : Int, server : Number]]]
    /\ index \in [Clients -> [Slots -> Number]]
    /\ order \in [Clients -> [Slots -> Positions \cup {NoOrder}]]
    /\ own \in [Clients -> Number]
    /\ joined \in [Clients -> Nat] /\ handled \in [Clients -> Nat]
    /\ orders \in 0 .. MaxOrders /\ lost \in 0 .. MaxLost

Known(c) == {s \in Slots : index[c][s] # None}

\* A client's copy of a unit and the server's agree: the slot a server index is mapped
\* to holds a unit with that index and with the player the server has for it, and no
\* two indices share a slot.
Agreement ==
    \A c \in Clients : \A s \in Known(c) :
        /\ unit[c][index[c][s]] = [player |-> owner[s], server |-> s]
        /\ \A t \in Known(c) \ {s} : index[c][t] # index[c][s]

\* The unit a client created at startup is only ever mapped to the server's number of
\* that very unit.
AckIsOwn ==
    \A c \in Clients : \A s \in Known(c) : index[c][s] = own[c] => creator[s] = c

\* The server sends a client its id before it registers the client, on the same stream:
\* no broadcast is ever pending, let alone processed, at a client without its id.
IdBeforeBroadcast ==
    \A c \in Clients : pending[c] # <<>> \/ Known(c) # {} =>
        stage[c] = "registered" /\ clientId[c] = id[c]

\* Where a unit's number was announced in the log.
Announced(s) == {i \in 1 .. Len(log) : log[i].kind = "create" /\ log[i].server = s}

\* As long as no message is lost, a client knows exactly the units announced in the part
\* of the log it has processed: none broadcast since it registered is missing, none it
\* was not sent is there.
KnownIsProcessed ==
    \A c \in Clients : lost = 0 /\ stage[c] = "registered" =>
        Known(c) = {s \in Slots : Announced(s) \cap (joined[c] + 1 .. handled[c]) # {}}

\* No order precedes, in the log, the announcement of a unit it names.
OrderAfterAnnouncement ==
    \A i \in 1 .. Len(log) : log[i].kind = "transform" =>
        \A s \in log[i].units \cap Slots : \E j \in Announced(s) : j < i

\* As long as no message is lost, two clients that have processed the log up to the same
\* point have the same last order for every unit both know, whenever each registered.
Convergence ==
    \A c, d \in Clients :
        lost = 0 /\ handled[c] = handled[d] =>
            \A s \in Known(c) \cap Known(d) : order[c][index[c][s]] = order[d][index[d][s]]

\* A client that had its id when it started gives orders to units of its own id only:
\* no order for another client's unit reaches the log.
OrdersAreOwn ==
    \A i \in 1 .. Len(log) : log[i].kind = "transform" /\ player[log[i].by] # None =>
        \A s \in log[i].units \cap Slots : owner[s] = id[log[i].by]

\* Every unit announced after a client registered comes to be known by the client, if no
\* message is lost.
EveryUnitBecomesKnown ==
    \A c \in Clients, s \in Slots :
        (stage[c] = "registered" /\ \E i \in Announced(s) : i > joined[c])
            ~> s \in Known(c) \/ lost > 0

\* "someone else made it, make it here": a client makes a copy only of units that
\* someone else created.
CopiesAreOthers ==
    \A c \in Clients : \A s \in Known(c) : creator[s] = c => index[c][s] = own[c]
=============================================================================
