------------------------- MODULE ReplicationProofs -------------------------
(***************************************************************************)
(* Proofs about Replication, for every set of clients, every number of     *)
(* orders and of lost messages, and every width of the indices.  The       *)
(* invariant is built in layers, each proved with the ones before it: the  *)
(* types, who has which id, where in the log each stream is, what the      *)
(* server has numbered, the clients' copies, and their orders.             *)
(***************************************************************************)
EXTENDS Replication, TLAPS

-----------------------------------------------------------------------------
(* The parts of the invariant. *)

\* Nothing is removed from these arrays: the stack holds _back only.
Grown(a) == a.indicies = <<a.back>> /\ a.size = a.back

\* A client creates its own unit first, and so in slot 0.
OwnFirst(c) ==
    IF phase[c] = "connected" THEN own[c] = None /\ arr[c].back = 0
                              ELSE own[c] = 0 /\ arr[c].back > 0

Shapes == Grown(serverArr) /\ \A c \in Clients : Grown(arr[c]) /\ OwnFirst(c)

TInv == TypeOK /\ Shapes

\* The sync message with the client's id has been received, or is the first to be.
Told(c) ==
    /\ clientId[c] = id[c]
    /\ \A i \in 1 .. Len(down[c]) : down[c][i].kind = "sync" => down[c][i].step # 0

Untold(c) ==
    /\ clientId[c] = None /\ pending[c] = <<>>
    /\ down[c] # <<>> /\ down[c][1] = Sync(0, id[c])
    /\ \A i \in 2 .. Len(down[c]) : down[c][i].kind = "sync" => down[c][i].step # 0

Identity(c) ==
    /\ id[c] < nextId
    /\ stage[c] = "backlog" <=> id[c] = None
    /\ stage[c] \in {"backlog", "accepted"} => down[c] = <<>> /\ clientId[c] = None
    /\ stage[c] \in {"synced", "registered"} => Told(c) \/ Untold(c)
    /\ stage[c] # "registered" =>
         pending[c] = <<>> /\ \A i \in 1 .. Len(down[c]) : down[c][i].kind = "sync"
    /\ Known(c) # {} => stage[c] = "registered" /\ Told(c)
    /\ player[c] # None => player[c] = clientId[c]

IdsDiffer == \A c, d \in Clients : c # d /\ id[c] = id[d] => id[c] = None

\* No sync message is stored in the pool.
GameLog == \A i \in 1 .. Len(log) : log[i].kind \in {"create", "transform"}

IdInv == GameLog /\ IdsDiffer /\ \A c \in Clients : Identity(c)

\* What is pending at client c, and then the game messages on their way to it, are the log
\* from handled[c] on: g tells how much of the log has passed at each place of the stream.
InPlace(c) ==
    /\ handled[c] + Len(pending[c]) <= broadcast
    /\ \A i \in 1 .. Len(pending[c]) : pending[c][i] = log[handled[c] + i]

Places(c, g) ==
    /\ g \in [0 .. Len(down[c]) -> 0 .. broadcast]
    /\ g[0] = handled[c] + Len(pending[c]) /\ g[Len(down[c])] = broadcast
    /\ \A i \in 1 .. Len(down[c]) :
         IF down[c][i].kind = "sync" THEN g[i] = g[i - 1]
                                     ELSE g[i] = g[i - 1] + 1 /\ down[c][i] = log[g[i]]

StreamOK(c) == stage[c] = "registered" =>
    /\ joined[c] <= handled[c]
    /\ InPlace(c)
    /\ \E g \in [0 .. Len(down[c]) -> 0 .. broadcast] : Places(c, g)

StreamInv == \A c \in Clients : StreamOK(c)

\* What m announces is the startup unit of client c.
Announces(m, c) ==
    /\ phase[c] # "connected"
    /\ m.index = 0 /\ m.player = unit[c][0].player

\* The log announces server slots below _back, each once, and one unit of each client.
Numbered == \A i \in 1 .. Len(log) : log[i].kind = "create" =>
    /\ log[i].server \in Slots /\ log[i].server < serverArr.back
    /\ owner[log[i].server] = log[i].player
    /\ creator[log[i].server] \in Clients
    /\ Announces(log[i], creator[log[i].server])

Distinct == \A i, j \in 1 .. Len(log) :
    log[i].kind = "create" /\ log[j].kind = "create" /\ i # j =>
        /\ log[i].server # log[j].server
        /\ creator[log[i].server] # creator[log[j].server]

\* An announcement still on its way is the only one of its client.
Announcing(c) == \A i \in 1 .. Len(up[c]) : up[c][i].kind = "create" =>
    /\ Announces(up[c][i], c)
    /\ \A j \in 1 .. Len(up[c]) : j # i => up[c][j].kind # "create"
    /\ \A j \in 1 .. Len(log) : log[j].kind = "create" => creator[log[j].server] # c

OwnPlayer(c) == phase[c] # "connected" => unit[c][0].player \in {None, id[c]}

LogInv ==
    /\ Numbered /\ Distinct
    /\ \A c \in Clients : Announcing(c) /\ OwnPlayer(c)

\* The server index of a unit, and the unit of a server index.
UnitsOK(c) == \A t \in Slots : unit[c][t].server # None =>
    /\ t < arr[c].back
    /\ index[c][unit[c][t].server] = t
    /\ owner[unit[c][t].server] = unit[c][t].player

KnownOK(c) == \A s \in Known(c) :
    /\ index[c][s] \in Slots
    /\ unit[c][index[c][s]] = [player |-> owner[s], server |-> s]
    /\ \E i \in joined[c] + 1 .. handled[c] : log[i].kind = "create" /\ log[i].server = s
    /\ index[c][s] = own[c] => creator[s] = c

CopyInv == \A c \in Clients : UnitsOK(c) /\ KnownOK(c)

\* An order names announced units only, and those of the player who gave it.
OrderOK(m) ==
    /\ phase[m.by] = "running"
    /\ \A s \in m.units \cap Slots :
         /\ \E j \in 1 .. Len(log) : log[j].kind = "create" /\ log[j].server = s
         /\ player[m.by] # None => owner[s] = id[m.by]

OrderInv ==
    /\ OrderAfterAnnouncement
    /\ \A i \in 1 .. Len(log) : log[i].kind = "transform" => OrderOK(log[i])
    /\ \A c \in Clients : \A i \in 1 .. Len(up[c]) : up[c][i].kind = "transform" => OrderOK(up[c][i])

\* As long as no message is lost, every announcement handled is known, and the unit's order
\* is the last one in the log.
Names(i, s) == log[i].kind = "transform" /\ s \in log[i].units

IsLast(s, n, p) ==
    \/ p = NoOrder /\ \A i \in 1 .. n : ~Names(i, s)
    \/ \E i \in 1 .. n : /\ Names(i, s) /\ log[i].position = p
                         /\ \A j \in i + 1 .. n : ~Names(j, s)

Ordered(c) == \A t \in Slots : order[c][t] # NoOrder => \E s \in Known(c) : index[c][s] = t

Complete(c) ==
    /\ stage[c] = "registered" =>
         \A i \in joined[c] + 1 .. handled[c] : log[i].kind = "create" => log[i].server \in Known(c)
    /\ \A s \in Known(c) : IsLast(s, handled[c], order[c][index[c][s]])

LastInv == \A c \in Clients : Ordered(c) /\ (lost = 0 => Complete(c))


-----------------------------------------------------------------------------
(* Arrays and messages. *)

\* Of an array nothing was removed from, get() hands out the slot _back.
LEMMA GrownArray ==
    ASSUME NEW a \in Array, Grown(a)
    PROVE  /\ Top(a) = a.back
           /\ \A i \in Int : Valid(a, i) <=> i < a.back
           /\ MayGet(a) => /\ a.back \in Slots
                           /\ Get(a) \in Array /\ Grown(Get(a))
                           /\ Get(a).back = a.back + 1
<1> USE IndexRangeAssumption
<1>1. a.back \in 0 .. IndexRange - 1 /\ a.size = a.back /\ a.indicies = <<a.back>>
  BY DEF Array, Grown
<1>2. Top(a) = a.back
  BY <1>1 DEF Top
<1>3. Free(a) = {a.back}
  BY <1>1 DEF Free
<1>4. \A i \in Int : Valid(a, i) <=> i < a.back
  BY <1>1, <1>3 DEF Valid
<1>5. ASSUME MayGet(a)
      PROVE  /\ a.back \in Slots
             /\ Get(a) \in Array /\ Grown(Get(a))
             /\ Get(a).back = a.back + 1
  <2>1. a.back \in Slots
    BY <1>1, <1>5 DEF MayGet, Slots
  <2>2. Wrap(a.back + 1) = a.back + 1
    BY <2>1 DEF Wrap, Slots
  <2>3. Popped(a) = <<>>
    BY <1>1 DEF Popped
  <2>4. Append(Popped(a), a.back + 1) = <<a.back + 1>>
    BY <2>3
  <2>5. Get(a) = [size |-> a.back + 1, back |-> a.back + 1, indicies |-> <<a.back + 1>>]
    BY <1>1, <1>2, <2>2, <2>4 DEF Get
  <2>6. a.back + 1 \in 0 .. IndexRange - 1
    BY <2>1 DEF Slots
  <2>7. <<a.back + 1>> \in Seq(0 .. IndexRange - 1)
    BY <2>6
  <2> QED
    BY <2>1, <2>5, <2>6, <2>7 DEF Array, Grown
<1> QED
  BY <1>2, <1>4, <1>5

\* Whatever is converted to an index is one.
LEMMA WrapIsIndex == \A i \in Int : Wrap(i) \in 0 .. IndexRange - 1
<1> SUFFICES ASSUME NEW i \in Int PROVE Wrap(i) \in 0 .. IndexRange - 1
  OBVIOUS
<1>1. IndexRange \in Int /\ IndexRange > 0
  BY IndexRangeAssumption
<1> QED
  BY <1>1 DEF Wrap

\* A message is of one of three kinds.
LEMMA MessageKinds ==
    ASSUME NEW m \in Message
    PROVE  /\ m.kind \in {"create", "transform", "sync"}
           /\ m.kind = "create" =>
                m \in [kind : {"create"}, index : Slots, player : Int, server : Number]
           /\ m.kind = "transform" =>
                m \in [kind : {"transform"}, position : Positions, by : Clients,
                       units : SUBSET (0 .. IndexRange - 1)]
           /\ m.kind = "sync" => m \in [kind : {"sync"}, step : 0 .. 2, client : Int]
BY DEF Message

\* The server's sync messages and their answers are messages.
LEMMA SyncMessage ==
    ASSUME NEW step \in 0 .. 2, NEW c \in Int
    PROVE  Sync(step, c) \in Message /\ Sync(step, c).kind = "sync" /\ Sync(step, c).step = step
BY DEF Sync, Message

\* What is left of a stream after the first of its messages.
LEMMA TailOf ==
    ASSUME NEW S, NEW q \in Seq(S), q # <<>>
    PROVE  /\ Len(q) > 0 /\ Head(q) = q[1] /\ q[1] \in S
           /\ Tail(q) \in Seq(S) /\ Len(Tail(q)) = Len(q) - 1
           /\ \A i \in 1 .. Len(Tail(q)) : Tail(q)[i] = q[i + 1]
OBVIOUS

\* A stream with one more message.
LEMMA AppendTo ==
    ASSUME NEW S, NEW q \in Seq(S), NEW m \in S
    PROVE  /\ Append(q, m) \in Seq(S) /\ Len(Append(q, m)) = Len(q) + 1
           /\ \A i \in 1 .. Len(q) : Append(q, m)[i] = q[i]
           /\ Append(q, m)[Len(q) + 1] = m
OBVIOUS

\* A stream after a read of k messages.
LEMMA ReadOf ==
    ASSUME NEW S, NEW q \in Seq(S), NEW k \in 1 .. Len(q)
    PROVE  /\ Head(q) = q[1] /\ q[1] \in S
           /\ SubSeq(q, k + 1, Len(q)) \in Seq(S)
           /\ Len(SubSeq(q, k + 1, Len(q))) = Len(q) - k
           /\ \A i \in 1 .. Len(q) - k : SubSeq(q, k + 1, Len(q))[i] = q[i + k]
OBVIOUS

-----------------------------------------------------------------------------
(* The types and the shapes of the arrays. *)

\* The initial state is typed, and all its arrays are empty.
LEMMA TInit == Init => TInv
<1> SUFFICES ASSUME Init PROVE TInv
  OBVIOUS
<1> USE IndexRangeAssumption, BoundsAssumption
<1>1. New \in Array /\ Grown(New)
  BY DEF New, Array, Grown
<1>2. NewUnit \in [player : Int, server : Number]
  BY DEF NewUnit, Number, None
<1>3. TypeOK
  BY <1>1, <1>2 DEF Init, TypeOK, None, Number
<1>4. Shapes
  BY <1>1 DEF Init, Shapes, OwnFirst, New
<1> QED
  BY <1>3, <1>4 DEF TInv

\* The threads that do not make units.
LEMMA TAccept ==
    ASSUME TInv, NEW c \in Clients, Accept(c) \/ SendSync(c) \/ Register(c)
    PROVE  TInv'
<1> USE DEF TInv
<1>1. CASE Accept(c)
  <2>1. TypeOK'
    BY <1>1 DEF Accept, TypeOK, worldVars, clientVars
  <2>2. Shapes'
    BY <1>1 DEF Accept, Shapes, OwnFirst, worldVars, clientVars
  <2> QED
    BY <2>1, <2>2
<1>2. CASE SendSync(c)
  <2>1. Sync(0, id[c]) \in Message
    BY SyncMessage DEF TypeOK
  <2>2. TypeOK'
    BY <1>2, <2>1 DEF SendSync, Send, TypeOK, worldVars, clientVars
  <2>3. Shapes'
    BY <1>2 DEF SendSync, Shapes, OwnFirst, worldVars, clientVars
  <2> QED
    BY <2>2, <2>3
<1>3. CASE Register(c)
  <2>1. TypeOK'
    BY <1>3 DEF Register, TypeOK, worldVars
  <2>2. Shapes'
    BY <1>3 DEF Register, Shapes, OwnFirst, worldVars
  <2> QED
    BY <2>1, <2>2
<1> QED
  BY <1>1, <1>2, <1>3

\* What a worker reads is a message, and the rest of the stream is typed.
LEMMA TRead ==
    ASSUME TypeOK, NEW c \in Clients, NEW k \in 1 .. MaxRead, Read(c, k)
    PROVE  /\ up' \in [Clients -> Seq(Message)]
           /\ Head(up[c]) \in Message /\ Head(up[c]) = up[c][1]
           /\ up' = [up EXCEPT ![c] = up'[c]] /\ Len(up'[c]) = Len(up[c]) - k
           /\ \A i \in 1 .. Len(up'[c]) : up'[c][i] = up[c][i + k]
<1>1. up[c] \in Seq(Message) /\ k \in 1 .. Len(up[c])
  BY BoundsAssumption DEF TypeOK, Read
<1> DEFINE rest == SubSeq(up[c], k + 1, Len(up[c]))
<1>2. /\ Head(up[c]) = up[c][1] /\ up[c][1] \in Message
      /\ rest \in Seq(Message) /\ Len(rest) = Len(up[c]) - k
      /\ \A i \in 1 .. Len(up[c]) - k : rest[i] = up[c][i + k]
  BY <1>1, ReadOf
<1>3. up' = [up EXCEPT ![c] = rest] /\ up'[c] = rest
  BY DEF Read, TypeOK
<1> HIDE DEF rest
<1> QED
  BY <1>2, <1>3 DEF TypeOK

\* The server numbers a unit: the slot is below the new _back.
LEMMA THandleCreate ==
    ASSUME TInv, NEW c \in Clients, NEW k \in 1 .. MaxRead, HandleCreate(c, k)
    PROVE  /\ TInv'
           /\ serverArr.back \in Slots /\ Top(serverArr) = serverArr.back
           /\ serverArr'.back = serverArr.back + 1
           /\ [Head(up[c]) EXCEPT !.server = serverArr.back] \in Message
<1> USE DEF TInv
<1>1. Read(c, k) /\ Head(up[c]).kind = "create" /\ MayGet(serverArr)
  BY DEF HandleCreate
<1>2. /\ Top(serverArr) = serverArr.back /\ serverArr.back \in Slots
      /\ Get(serverArr) \in Array /\ Grown(Get(serverArr))
      /\ Get(serverArr).back = serverArr.back + 1
  BY <1>1, GrownArray DEF TypeOK, Shapes
<1>3. up' \in [Clients -> Seq(Message)] /\ Head(up[c]) \in Message
  BY <1>1, TRead
<1> DEFINE m == [Head(up[c]) EXCEPT !.server = serverArr.back]
<1>4. m \in Message /\ m.player \in Int /\ Head(up[c]).player \in Int
  <2>1. Head(up[c]) \in [kind : {"create"}, index : Slots, player : Int, server : Number]
    BY <1>1, <1>3, MessageKinds
  <2>2. m \in [kind : {"create"}, index : Slots, player : Int, server : Number]
    BY <1>2, <2>1 DEF Number
  <2> QED
    BY <2>1, <2>2 DEF Message
<1>5. /\ serverArr' = Get(serverArr) /\ log' = Append(log, m)
      /\ owner' = [owner EXCEPT ![serverArr.back] = Head(up[c]).player]
      /\ creator' = [creator EXCEPT ![serverArr.back] = c]
      /\ UNCHANGED <<stage, id, nextId, broadcast, joined, down, worldVars, clientVars>>
  BY <1>2 DEF HandleCreate
<1>6. TypeOK'
  <2> HIDE DEF m
  <2>1. log' \in Seq(Message) /\ broadcast' \in 0 .. Len(log')
    BY <1>4, <1>5, AppendTo DEF TypeOK
  <2>2. owner' \in [Slots -> Int] /\ creator' \in [Slots -> Clients \cup {None}]
    BY <1>4, <1>5 DEF TypeOK
  <2> QED
    BY <1>2, <1>3, <1>5, <2>1, <2>2 DEF TypeOK, worldVars, clientVars
<1>7. Shapes'
  BY <1>2, <1>5 DEF Shapes, OwnFirst, worldVars, clientVars
<1> QED
  BY <1>2, <1>4, <1>5, <1>6, <1>7

\* The other messages a worker handles are stored, or answered.
LEMMA THandleOther ==
    ASSUME TInv, NEW c \in Clients, NEW k \in 1 .. MaxRead,
           HandleTransform(c, k) \/ HandleSync(c, k)
    PROVE  TInv'
<1> USE DEF TInv
<1>1. /\ up' \in [Clients -> Seq(Message)] /\ Head(up[c]) \in Message
  BY TRead DEF HandleTransform, HandleSync
<1>2. CASE HandleTransform(c, k)
  <2> DEFINE m == Head(up[c])
  <2>1. m \in Message /\ log' = Append(log, m)
    BY <1>1, <1>2 DEF HandleTransform
  <2>2. TypeOK'
    <3> HIDE DEF m
    <3> QED
      BY <1>1, <1>2, <2>1 DEF HandleTransform, TypeOK, worldVars, clientVars
  <2>3. Shapes'
    BY <1>2 DEF HandleTransform, Shapes, OwnFirst, worldVars, clientVars
  <2> QED
    BY <2>2, <2>3
<1>3. CASE HandleSync(c, k)
  <2>1. Head(up[c]).client \in Int
    BY <1>1, <1>3, MessageKinds DEF HandleSync
  <2>2. Sync(2, Head(up[c]).client) \in Message
    BY <2>1, SyncMessage
  <2>3. down' \in [Clients -> Seq(Message)]
    BY <1>3, <2>2 DEF HandleSync, TypeOK
  <2>4. TypeOK'
    BY <1>1, <1>3, <2>3 DEF HandleSync, TypeOK, worldVars, clientVars, serverVars
  <2>5. Shapes'
    BY <1>3 DEF HandleSync, Shapes, OwnFirst, worldVars, clientVars, serverVars
  <2> QED
    BY <2>4, <2>5
<1> QED
  BY <1>2, <1>3

\* A broadcast is a message of the log.
LEMMA TTickSend ==
    ASSUME TInv, TickSend
    PROVE  TInv'
<1> USE DEF TInv
<1>1. broadcast + 1 \in 1 .. Len(log) /\ log[broadcast + 1] \in Message
  BY DEF TickSend, TypeOK
<1>2. down' \in [Clients -> Seq(Message)]
  BY <1>1 DEF TickSend, TypeOK
<1>3. TypeOK'
  BY <1>1, <1>2 DEF TickSend, TypeOK, worldVars, clientVars
<1>4. Shapes'
  BY DEF TickSend, Shapes, OwnFirst, worldVars, clientVars
<1> QED
  BY <1>3, <1>4

\* What the receive thread receives is a message, and the rest of the stream is typed.
LEMMA TReceived ==
    ASSUME TypeOK, NEW c \in Clients, NEW kinds, Receive(c, kinds)
    PROVE  /\ down' \in [Clients -> Seq(Message)]
           /\ Head(down[c]) \in Message /\ Head(down[c]) = down[c][1]
           /\ down[c] # <<>> /\ Len(down[c]) > 0 /\ Head(down[c]).kind \in kinds
           /\ down' = [down EXCEPT ![c] = down'[c]] /\ Len(down'[c]) = Len(down[c]) - 1
           /\ \A i \in 1 .. Len(down'[c]) : down'[c][i] = down[c][i + 1]
<1>1. down[c] \in Seq(Message) /\ down[c] # <<>>
  BY DEF TypeOK, Receive
<1> DEFINE rest == Tail(down[c])
<1>2. /\ Len(down[c]) > 0 /\ Head(down[c]) = down[c][1] /\ down[c][1] \in Message
      /\ rest \in Seq(Message) /\ Len(rest) = Len(down[c]) - 1
      /\ \A i \in 1 .. Len(rest) : rest[i] = down[c][i + 1]
  BY <1>1, TailOf
<1>3. down' = [down EXCEPT ![c] = rest] /\ down'[c] = rest
  BY DEF Receive, TypeOK
<1> HIDE DEF rest
<1> QED
  BY <1>1, <1>2, <1>3 DEF TypeOK, Receive

\* The receive thread answers, notes, or passes on what it receives.
LEMMA TReceive ==
    ASSUME TInv, NEW c \in Clients, ReceiveThread(c)
    PROVE  TInv'
<1> USE DEF TInv
<1> DEFINE m == Head(down[c])
<1>1. m \in Message /\ down' \in [Clients -> Seq(Message)] /\ down[c] # <<>>
  BY TReceived DEF ReceiveThread, ReceiveSync0, ReceiveSync2, ReceiveGame
<1>2. CASE ReceiveSync0(c)
  <2>1. m.client \in Int
    BY <1>1, <1>2, MessageKinds DEF ReceiveSync0, Receive
  <2>2. Sync(1, m.client) \in Message
    BY <2>1, SyncMessage
  <2>3. /\ clientId' = [clientId EXCEPT ![c] = m.client]
        /\ up' = [up EXCEPT ![c] = Append(@, Sync(1, m.client))]
        /\ UNCHANGED <<serverVars, worldVars, phase, synced, player, pending, own, handled,
                       orders, lost>>
    BY <1>2 DEF ReceiveSync0, Send
  <2> HIDE DEF m
  <2>4. TypeOK'
    BY <1>1, <2>1, <2>2, <2>3 DEF TypeOK, serverVars, worldVars
  <2>5. Shapes'
    BY <2>3 DEF Shapes, OwnFirst, worldVars, serverVars
  <2> QED
    BY <2>4, <2>5
<1>3. CASE ReceiveSync2(c)
  <2>1. TypeOK'
    BY <1>1, <1>3 DEF ReceiveSync2, TypeOK, serverVars, worldVars
  <2>2. Shapes'
    BY <1>3 DEF ReceiveSync2, Shapes, OwnFirst, worldVars, serverVars
  <2> QED
    BY <2>1, <2>2
<1>4. CASE ReceiveGame(c)
  <2>1. pending' = [pending EXCEPT ![c] = Append(@, m)]
    BY <1>4 DEF ReceiveGame, Send
  <2> HIDE DEF m
  <2>2. pending' \in [Clients -> Seq(Message)]
    BY <1>1, <2>1 DEF TypeOK
  <2>3. TypeOK'
    BY <1>1, <1>4, <2>2 DEF ReceiveGame, TypeOK, serverVars, worldVars
  <2>4. Shapes'
    BY <1>4 DEF ReceiveGame, Shapes, OwnFirst, worldVars, serverVars
  <2> QED
    BY <2>3, <2>4
<1> QED
  BY <1>2, <1>3, <1>4 DEF ReceiveThread

\* What the main loop takes is a message, and the rest of the queue is typed.
LEMMA TTaken ==
    ASSUME TypeOK, NEW c \in Clients, Take(c)
    PROVE  /\ pending' \in [Clients -> Seq(Message)] /\ handled' \in [Clients -> Nat]
           /\ Head(pending[c]) \in Message /\ Head(pending[c]) = pending[c][1]
           /\ pending[c] # <<>> /\ Len(pending[c]) > 0 /\ phase[c] = "running"
           /\ pending' = [pending EXCEPT ![c] = pending'[c]]
           /\ Len(pending'[c]) = Len(pending[c]) - 1
           /\ \A i \in 1 .. Len(pending'[c]) : pending'[c][i] = pending[c][i + 1]
           /\ handled' = [handled EXCEPT ![c] = handled[c] + 1]
<1>1. pending[c] \in Seq(Message) /\ pending[c] # <<>>
  BY DEF TypeOK, Take
<1> DEFINE rest == Tail(pending[c])
<1>2. /\ Len(pending[c]) > 0 /\ Head(pending[c]) = pending[c][1] /\ pending[c][1] \in Message
      /\ rest \in Seq(Message) /\ Len(rest) = Len(pending[c]) - 1
      /\ \A i \in 1 .. Len(rest) : rest[i] = pending[c][i + 1]
  BY <1>1, TailOf
<1>3. pending' = [pending EXCEPT ![c] = rest] /\ pending'[c] = rest
  BY DEF Take, TypeOK
<1> HIDE DEF rest
<1> QED
  BY <1>1, <1>2, <1>3 DEF TypeOK, Take

\* The main loop's unit goes to slot _back, which is then below the new _back.
LEMMA TCreate ==
    ASSUME TInv, NEW c \in Clients, NEW p \in Int, NEW s \in Number, Create(c, p, s)
    PROVE  /\ Top(arr[c]) = arr[c].back /\ arr[c].back \in Slots
           /\ arr' \in [Clients -> Array]
           /\ arr' = [arr EXCEPT ![c] = arr'[c]] /\ arr'[c].back = arr[c].back + 1
           /\ Grown(arr'[c])
           /\ unit' \in [Clients -> [Slots -> [player : Int, server : Number]]]
           /\ unit' = [unit EXCEPT ![c][arr[c].back] = [player |-> p, server |-> s]]
<1>1. MayGet(arr[c]) /\ arr' = [arr EXCEPT ![c] = Get(arr[c])]
  BY DEF Create
<1>2. /\ Top(arr[c]) = arr[c].back /\ arr[c].back \in Slots
      /\ Get(arr[c]) \in Array /\ Grown(Get(arr[c])) /\ Get(arr[c]).back = arr[c].back + 1
  BY <1>1, GrownArray DEF TInv, TypeOK, Shapes
<1>3. unit' = [unit EXCEPT ![c][arr[c].back] = [player |-> p, server |-> s]]
  BY <1>2 DEF Create
<1>4. unit' \in [Clients -> [Slots -> [player : Int, server : Number]]]
  BY <1>2, <1>3 DEF TInv, TypeOK
<1>5. arr' \in [Clients -> Array] /\ arr'[c] = Get(arr[c])
  BY <1>1, <1>2 DEF TInv, TypeOK
<1> QED
  BY <1>1, <1>2, <1>3, <1>4, <1>5

\* The client's own unit goes to slot 0.
LEMMA TCreateOwn ==
    ASSUME TInv, NEW c \in Clients, CreateOwn(c)
    PROVE  /\ TInv'
           /\ arr[c].back = 0 /\ Top(arr[c]) = 0 /\ 0 \in Slots
           /\ arr' = [arr EXCEPT ![c] = arr'[c]] /\ arr'[c].back = 1
           /\ unit' = [unit EXCEPT ![c][0] = [player |-> clientId[c], server |-> None]]
<1> USE DEF TInv
<1>1. phase[c] = "connected" /\ Create(c, clientId[c], None)
  BY DEF CreateOwn
<1>2. clientId[c] \in Int /\ None \in Number
  BY DEF TypeOK, Number
<1>3. /\ Top(arr[c]) = arr[c].back /\ arr[c].back \in Slots
      /\ arr' \in [Clients -> Array]
      /\ arr' = [arr EXCEPT ![c] = arr'[c]] /\ arr'[c].back = arr[c].back + 1
      /\ Grown(arr'[c])
      /\ unit' \in [Clients -> [Slots -> [player : Int, server : Number]]]
      /\ unit' = [unit EXCEPT ![c][arr[c].back] = [player |-> clientId[c], server |-> None]]
  BY <1>1, <1>2, TCreate
<1>4. arr[c].back = 0
  BY <1>1 DEF Shapes, OwnFirst
<1> DEFINE m == [kind |-> "create", index |-> 0, player |-> clientId[c], server |-> None]
<1>5. m \in Message
  BY <1>2, <1>3, <1>4 DEF Message
<1>6. /\ phase' = [phase EXCEPT ![c] = "created"] /\ own' = [own EXCEPT ![c] = 0]
      /\ up' = [up EXCEPT ![c] = Append(@, m)]
      /\ UNCHANGED <<serverVars, down, index, order, clientId, synced, player, pending,
                     handled, orders, lost>>
  BY <1>3, <1>4 DEF CreateOwn, Send
<1>7. TypeOK'
  <2> HIDE DEF m
  <2>1. up' \in [Clients -> Seq(Message)]
    BY <1>5, <1>6 DEF TypeOK
  <2>2. own' \in [Clients -> Number] /\ phase' \in [Clients -> {"connected", "created", "running"}]
    BY <1>3, <1>4, <1>6 DEF TypeOK, Number
  <2> QED
    BY <1>3, <1>6, <2>1, <2>2 DEF TypeOK, serverVars
<1>8. Shapes'
  <2>1. Grown(serverArr)'
    BY <1>6 DEF Shapes, Grown, serverVars
  <2>2. ASSUME NEW d \in Clients, d # c PROVE Grown(arr[d])' /\ OwnFirst(d)'
    <3>1. arr'[d] = arr[d] /\ own'[d] = own[d] /\ phase'[d] = phase[d]
      BY <1>3, <1>6, <2>2 DEF TypeOK
    <3> QED
      BY <3>1 DEF Shapes, OwnFirst, Grown
  <2>3. arr'[c].back = 1 /\ own'[c] = 0 /\ phase'[c] = "created"
    BY <1>3, <1>4, <1>6 DEF TypeOK
  <2> QED
    BY <1>3, <2>1, <2>2, <2>3 DEF Shapes, OwnFirst
<1> QED
  BY <1>3, <1>4, <1>7, <1>8

\* An insertion maps the server's number to the slot, or leaves it where it was mapped.
LEMMA TInsert ==
    ASSUME TypeOK, NEW c \in Clients, NEW s \in Number, NEW slot \in Slots
    PROVE  /\ Insert(c, s, slot) \in [Clients -> [Slots -> Number]]
           /\ Insert(c, s, slot) = [index EXCEPT ![c] = Insert(c, s, slot)[c]]
           /\ \A t \in Slots : Insert(c, s, slot)[c][t] =
                                 IF t = s /\ index[c][t] = None THEN slot ELSE index[c][t]
<1> DEFINE row == [index[c] EXCEPT ![s] = IF @ = None THEN slot ELSE @]
<1>1. index[c] \in [Slots -> Number] /\ slot \in Number
  BY DEF TypeOK, Number
<1>2. \A t \in Slots : row[t] = IF t = s /\ index[c][t] = None THEN slot ELSE index[c][t]
  BY <1>1
<1>3. row \in [Slots -> Number]
  BY <1>1, <1>2
<1>4. Insert(c, s, slot) = [index EXCEPT ![c] = row]
  BY DEF Insert
<1> HIDE DEF row
<1>5. index \in [Clients -> [Slots -> Number]]
  BY DEF TypeOK
<1> QED
  BY <1>2, <1>3, <1>4, <1>5

\* An acknowledged unit is told its number, if the client has it.
LEMMA TProcessOwn ==
    ASSUME TInv, NEW c \in Clients, ProcessOwn(c)
    PROVE  TInv'
<1> USE DEF TInv
<1> DEFINE m == Head(pending[c])
<1>1. /\ pending' \in [Clients -> Seq(Message)] /\ handled' \in [Clients -> Nat]
      /\ m \in Message /\ m.kind = "create"
  BY TTaken DEF ProcessOwn, Process
<1>2. m.server \in Number /\ m.index \in Slots
  BY <1>1, MessageKinds
<1>3. /\ unit' \in {unit, [unit EXCEPT ![c][m.index].server = m.server]}
      /\ index' \in {index, Insert(c, m.server, m.index)}
      /\ UNCHANGED <<serverVars, up, down, phase, clientId, synced, player, own, orders, lost,
                     arr, order>>
  BY DEF ProcessOwn, Process, Take
<1> HIDE DEF m
<1>4. unit' \in [Clients -> [Slots -> [player : Int, server : Number]]]
  <2>1. unit[c] \in [Slots -> [player : Int, server : Number]]
    BY DEF TypeOK
  <2>2. [unit[c][m.index] EXCEPT !.server = m.server] \in [player : Int, server : Number]
    BY <1>2, <2>1
  <2>3. [unit[c] EXCEPT ![m.index].server = m.server] \in [Slots -> [player : Int, server : Number]]
    BY <1>2, <2>1, <2>2
  <2>4. [unit EXCEPT ![c][m.index].server = m.server] =
          [unit EXCEPT ![c] = [unit[c] EXCEPT ![m.index].server = m.server]]
    OBVIOUS
  <2> QED
    BY <1>3, <2>3, <2>4 DEF TypeOK
<1>5. index' \in [Clients -> [Slots -> Number]]
  <2>1. Insert(c, m.server, m.index) \in [Clients -> [Slots -> Number]]
    BY <1>2, TInsert
  <2> QED
    BY <1>3, <2>1 DEF TypeOK
<1>6. TypeOK'
  BY <1>1, <1>3, <1>4, <1>5 DEF TypeOK, serverVars
<1>7. Shapes'
  BY <1>3 DEF Shapes, OwnFirst, serverVars
<1> QED
  BY <1>6, <1>7

\* Another client's unit goes to the next slot.
LEMMA TProcessOther ==
    ASSUME TInv, NEW c \in Clients, ProcessOther(c)
    PROVE  /\ TInv'
           /\ Top(arr[c]) = arr[c].back /\ arr[c].back \in Slots
           /\ arr' = [arr EXCEPT ![c] = arr'[c]] /\ arr'[c].back = arr[c].back + 1
           /\ unit' = [unit EXCEPT ![c][arr[c].back] =
                         [player |-> Head(pending[c]).player, server |-> Head(pending[c]).server]]
<1> USE DEF TInv
<1> DEFINE m == Head(pending[c])
<1>1. /\ pending' \in [Clients -> Seq(Message)] /\ handled' \in [Clients -> Nat]
      /\ m \in Message /\ m.kind = "create"
  BY TTaken DEF ProcessOther, Process
<1>2. m.player \in Int /\ m.server \in Number
  BY <1>1, MessageKinds
<1>3. Create(c, m.player, m.server) /\ index' = Insert(c, m.server, Top(arr[c]))
  BY DEF ProcessOther
<1> HIDE DEF m
<1>4. /\ Top(arr[c]) = arr[c].back /\ arr[c].back \in Slots
      /\ arr' \in [Clients -> Array]
      /\ arr' = [arr EXCEPT ![c] = arr'[c]] /\ arr'[c].back = arr[c].back + 1
      /\ Grown(arr'[c])
      /\ unit' \in [Clients -> [Slots -> [player : Int, server : Number]]]
      /\ unit' = [unit EXCEPT ![c][arr[c].back] = [player |-> m.player, server |-> m.server]]
  BY <1>2, <1>3, TCreate
<1>5. index' \in [Clients -> [Slots -> Number]]
  BY <1>2, <1>3, <1>4, TInsert
<1>6. UNCHANGED <<serverVars, up, down, phase, clientId, synced, player, own, orders, lost, order>>
  BY DEF ProcessOther, Process, Take
<1>7. TypeOK'
  BY <1>1, <1>4, <1>5, <1>6 DEF TypeOK, serverVars
<1>8. Shapes'
  <2>1. Grown(serverArr)'
    BY <1>6 DEF Shapes, Grown, serverVars
  <2>2. ASSUME NEW d \in Clients, d # c PROVE Grown(arr[d])' /\ OwnFirst(d)'
    <3>1. arr'[d] = arr[d] /\ own'[d] = own[d] /\ phase'[d] = phase[d]
      BY <1>4, <1>6, <2>2 DEF TypeOK
    <3> QED
      BY <3>1 DEF Shapes, OwnFirst, Grown
  <2>3. phase[c] = "running"
    BY DEF ProcessOther, Process, Take
  <2>4. arr[c].back > 0 /\ own[c] = 0
    BY <2>3 DEF Shapes, OwnFirst
  <2>5. OwnFirst(c)'
    BY <1>4, <1>6, <2>3, <2>4 DEF OwnFirst, Slots
  <2> QED
    BY <1>4, <2>1, <2>2, <2>5 DEF Shapes
<1> QED
  BY <1>4, <1>7, <1>8 DEF m

\* The steps of a client's main thread that make no unit.
LEMMA TMain ==
    ASSUME TInv, NEW c \in Clients, StartLoop(c) \/ ProcessTransform(c) \/ Lose(c) \/ User(c)
    PROVE  TInv'
<1> USE DEF TInv
<1> DEFINE m == Head(pending[c])
<1>1. CASE StartLoop(c)
  <2>1. TypeOK'
    BY <1>1 DEF StartLoop, TypeOK, serverVars, worldVars
  <2>2. Shapes'
    BY <1>1 DEF StartLoop, TypeOK, Shapes, OwnFirst, serverVars, worldVars
  <2> QED
    BY <2>1, <2>2
<1>2. CASE ProcessTransform(c)
  <2>1. /\ pending' \in [Clients -> Seq(Message)] /\ handled' \in [Clients -> Nat]
        /\ m \in Message /\ m.kind = "transform"
    BY <1>2, TTaken DEF ProcessTransform, Process
  <2>2. m.position \in Positions
    BY <2>1, MessageKinds
  <2>3. order' \in [Clients -> [Slots -> Positions \cup {NoOrder}]]
    BY <1>2, <2>2 DEF ProcessTransform, TypeOK
  <2>4. UNCHANGED <<serverVars, up, down, phase, clientId, synced, player, own, orders, lost,
                    arr, unit, index>>
    BY <1>2 DEF ProcessTransform, Process, Take
  <2>5. TypeOK'
    BY <2>1, <2>3, <2>4 DEF TypeOK, serverVars
  <2>6. Shapes'
    BY <2>4 DEF Shapes, OwnFirst, serverVars
  <2> QED
    BY <2>5, <2>6
<1>3. CASE Lose(c)
  <2>1. pending' \in [Clients -> Seq(Message)] /\ handled' \in [Clients -> Nat]
    BY <1>3, TTaken DEF Lose
  <2>2. /\ UNCHANGED <<serverVars, up, down, worldVars, phase, clientId, synced, player, own, orders>>
        /\ lost' \in 0 .. MaxLost
    BY <1>3, BoundsAssumption DEF Lose, Take, TypeOK
  <2>3. TypeOK'
    BY <2>1, <2>2 DEF TypeOK, serverVars, worldVars
  <2>4. Shapes'
    BY <2>2 DEF Shapes, OwnFirst, serverVars, worldVars
  <2> QED
    BY <2>3, <2>4
<1>4. CASE User(c)
  <2>1. PICK p \in Positions, selection \in SUBSET Selectable(c) : GiveOrder(c, selection, p)
    BY <1>4 DEF User
  <2> DEFINE units == {Wrap(unit[c][s].server) : s \in selection}
             order1 == [kind |-> "transform", position |-> p, by |-> c, units |-> units]
  <2>2. units \in SUBSET (0 .. IndexRange - 1)
    <3> SUFFICES ASSUME NEW s \in selection
                 PROVE  Wrap(unit[c][s].server) \in 0 .. IndexRange - 1
      OBVIOUS
    <3>1. unit[c] \in [Slots -> [player : Int, server : Number]] /\ s \in Slots
      BY DEF TypeOK, Selectable
    <3>2. unit[c][s].server \in Number
      BY <3>1
    <3>3. unit[c][s].server \in Int
      BY <3>2, IndexRangeAssumption DEF Number, Slots, None
    <3> QED
      BY <3>3, WrapIsIndex
  <2>3. order1 \in Message
    BY <2>2 DEF Message
  <2>4. /\ up' = [up EXCEPT ![c] = Append(@, order1)] /\ orders' \in 0 .. MaxOrders
        /\ UNCHANGED <<serverVars, down, worldVars, phase, clientId, synced, player, pending,
                       own, handled, lost>>
    BY <2>1, BoundsAssumption DEF GiveOrder, Send, TypeOK
  <2> HIDE DEF order1
  <2>5. up' \in [Clients -> Seq(Message)]
    BY <2>3, <2>4 DEF TypeOK
  <2>6. TypeOK'
    BY <2>4, <2>5 DEF TypeOK, serverVars, worldVars
  <2>7. Shapes'
    BY <2>4 DEF Shapes, OwnFirst, serverVars, worldVars
  <2> QED
    BY <2>6, <2>7
<1> QED
  BY <1>1, <1>2, <1>3, <1>4

\* Every step keeps the types and the shapes of the arrays.
LEMMA TStep == TInv /\ [Next]_vars => TInv'
<1> SUFFICES ASSUME TInv, [Next]_vars PROVE TInv'
  OBVIOUS
<1>1. CASE TickSend
  BY <1>1, TTickSend
<1>2. ASSUME NEW c \in Clients, AcceptThread(c) PROVE TInv'
  BY <1>2, TAccept DEF AcceptThread
<1>3. ASSUME NEW c \in Clients, WorkerThread(c) PROVE TInv'
  BY <1>3, THandleCreate, THandleOther DEF WorkerThread
<1>4. ASSUME NEW c \in Clients, ReceiveThread(c) PROVE TInv'
  BY <1>4, TReceive
<1>5. ASSUME NEW c \in Clients, MainLoop(c) \/ Lose(c) \/ User(c) PROVE TInv'
  BY <1>5, TCreateOwn, TProcessOwn, TProcessOther, TMain DEF MainLoop
<1>6. CASE UNCHANGED vars
  <2>1. TypeOK'
    BY <1>6 DEF TInv, TypeOK, vars, serverVars, worldVars, clientVars
  <2>2. Shapes'
    BY <1>6 DEF TInv, Shapes, OwnFirst, vars, serverVars, worldVars, clientVars
  <2> QED
    BY <2>1, <2>2 DEF TInv
<1> QED
  BY <1>1, <1>2, <1>3, <1>4, <1>5, <1>6 DEF Next

\* Every variable of the server, of the clients and of the streams between them keeps its
\* type: in particular no index leaves its width, and get() never finds its stack empty.
THEOREM Typing == Spec => []TypeOK
<1>1. Spec => []TInv
  BY TInit, TStep, PTL DEF Spec
<1> QED
  BY <1>1, PTL DEF TInv

-----------------------------------------------------------------------------
(* Who has which id. *)

\* Nobody has an id at first.
LEMMA IdInit == Init => IdInv
<1> SUFFICES ASSUME Init PROVE IdInv
  OBVIOUS
<1> USE DEF Init
<1>1. GameLog /\ IdsDiffer
  BY DEF GameLog, IdsDiffer
<1>2. ASSUME NEW c \in Clients PROVE Identity(c)
  <2>1. Known(c) = {}
    BY DEF Known
  <2> QED
    BY <2>1 DEF Identity, None
<1> QED
  BY <1>1, <1>2 DEF IdInv

\* A step that leaves what is known of client d alone.
LEMMA IdQuiet ==
    ASSUME IdInv, NEW d \in Clients,
           stage'[d] = stage[d], id'[d] = id[d], nextId' = nextId, down'[d] = down[d],
           clientId'[d] = clientId[d], pending'[d] = pending[d], index'[d] = index[d],
           player'[d] = player[d]
    PROVE  Identity(d)'
<1>1. Identity(d) /\ Known(d)' = Known(d)
  BY DEF IdInv, Known
<1> QED
  BY <1>1 DEF Identity, Told, Untold

\* One more message, but not the one with the id, is sent to a registered client.
LEMMA IdSent ==
    ASSUME TInv, IdInv, NEW d \in Clients, NEW m \in Message,
           m.kind = "sync" => m.step # 0,
           stage[d] = "registered", down'[d] = Append(down[d], m),
           stage'[d] = stage[d], id'[d] = id[d], nextId' = nextId,
           clientId'[d] = clientId[d], pending'[d] = pending[d], index'[d] = index[d],
           player'[d] = player[d]
    PROVE  Identity(d)'
<1>1. Identity(d) /\ Known(d)' = Known(d)
  BY DEF IdInv, Known
<1>2. /\ down[d] \in Seq(Message) /\ Len(down'[d]) = Len(down[d]) + 1
      /\ \A i \in 1 .. Len(down[d]) : down'[d][i] = down[d][i]
      /\ down'[d][Len(down[d]) + 1] = m
  BY AppendTo DEF TInv, TypeOK
<1>3. Told(d) => Told(d)'
  BY <1>2 DEF Told
<1>4. Untold(d) => Untold(d)'
  BY <1>2 DEF Untold
<1> QED
  BY <1>1, <1>3, <1>4 DEF Identity

\* The accept thread gives a client an id of its own, tells it, and registers the client.
LEMMA IdAccept ==
    ASSUME TInv, IdInv, NEW c \in Clients, AcceptThread(c)
    PROVE  IdInv'
<1>1. ASSUME NEW d \in Clients, d # c PROVE Identity(d)' \/ Accept(c)
  <2>1. \/ Accept(c)
        \/ /\ stage'[d] = stage[d] /\ id' = id /\ nextId' = nextId /\ down'[d] = down[d]
           /\ UNCHANGED <<clientId, pending, index, player>>
    BY <1>1 DEF AcceptThread, SendSync, Send, Register, clientVars, worldVars, TInv, TypeOK
  <2> QED
    BY <2>1, IdQuiet
<1>2. Identity(c)
  BY DEF IdInv
<1>3. CASE Accept(c)
  <2>1. /\ stage[c] = "backlog" /\ stage' = [stage EXCEPT ![c] = "accepted"]
        /\ id' = [id EXCEPT ![c] = nextId] /\ nextId' = nextId + 1
        /\ UNCHANGED <<log, down, clientId, pending, index, player>>
    BY <1>3 DEF Accept, worldVars, clientVars
  <2>2. /\ stage'[c] = "accepted" /\ id'[c] = nextId /\ nextId \in Nat
        /\ \A d \in Clients : d # c => id'[d] = id[d] /\ stage'[d] = stage[d] /\ id[d] \in Int
    BY <2>1 DEF TInv, TypeOK
  <2>3. ASSUME NEW d \in Clients PROVE id[d] < nextId
    BY DEF IdInv, Identity
  <2>4. IdsDiffer'
    BY <2>2, <2>3 DEF IdInv, IdsDiffer
  <2>5. ASSUME NEW d \in Clients PROVE Identity(d)'
    <3>1. Known(d)' = Known(d)
      BY <2>1 DEF Known
    <3>2. CASE d = c
      BY <1>2, <2>1, <2>2, <3>1, <3>2 DEF Identity, None
    <3>3. CASE d # c
      <4>1. Identity(d)
        BY DEF IdInv
      <4>2. id[d] < nextId'
        BY <2>1, <2>2, <2>3, <3>3
      <4>3. (Told(d) => Told(d)') /\ (Untold(d) => Untold(d)')
        BY <2>1, <2>2, <3>3 DEF Told, Untold
      <4> QED
        BY <2>1, <2>2, <3>1, <3>3, <4>1, <4>2, <4>3 DEF Identity
    <3> QED
      BY <3>2, <3>3
  <2>6. GameLog'
    BY <2>1 DEF IdInv, GameLog
  <2> QED
    BY <2>4, <2>5, <2>6 DEF IdInv
<1>4. CASE SendSync(c)
  <2>1. /\ stage[c] = "accepted" /\ stage'[c] = "synced"
        /\ down'[c] = Append(down[c], Sync(0, id[c]))
        /\ UNCHANGED <<id, nextId, log, clientId, pending, index, player>>
    BY <1>4 DEF SendSync, Send, worldVars, clientVars, TInv, TypeOK
  <2>2. down'[c] = <<Sync(0, id[c])>>
    <3>1. down[c] = <<>>
      BY <1>2, <2>1 DEF Identity
    <3> QED
      BY <2>1, <3>1
  <2>3. Untold(c)' /\ \A i \in 1 .. Len(down'[c]) : down'[c][i].kind = "sync"
    BY <1>2, <2>1, <2>2 DEF Identity, Untold, Sync
  <2>4. Known(c)' = Known(c) /\ id[c] # None
    BY <1>2, <2>1 DEF Known, Identity
  <2>5. Identity(c)'
    BY <1>2, <2>1, <2>3, <2>4 DEF Identity
  <2>6. GameLog' /\ IdsDiffer'
    BY <2>1 DEF IdInv, GameLog, IdsDiffer
  <2> QED
    BY <1>1, <1>4, <2>1, <2>5, <2>6 DEF IdInv, Accept
<1>5. CASE Register(c)
  <2>1. /\ stage[c] = "synced" /\ stage'[c] = "registered"
        /\ UNCHANGED <<id, nextId, log, down, clientId, pending, index, player>>
    BY <1>5 DEF Register, worldVars, TInv, TypeOK
  <2>2. /\ Known(c)' = Known(c)
        /\ (Told(c) => Told(c)') /\ (Untold(c) => Untold(c)')
    BY <2>1 DEF Known, Told, Untold
  <2>3. Identity(c)'
    BY <1>2, <2>1, <2>2 DEF Identity
  <2>4. GameLog' /\ IdsDiffer'
    BY <2>1 DEF IdInv, GameLog, IdsDiffer
  <2> QED
    BY <1>1, <1>5, <2>1, <2>3, <2>4 DEF IdInv, Accept
<1> QED
  BY <1>3, <1>4, <1>5 DEF AcceptThread

\* The messages that workers store are not sync messages, and their answers do not tell
\* an id.
LEMMA IdWorker ==
    ASSUME TInv, TInv', IdInv, NEW c \in Clients, WorkerThread(c)
    PROVE  IdInv'
<1>1. PICK k \in 1 .. MaxRead : HandleCreate(c, k) \/ HandleTransform(c, k) \/ HandleSync(c, k)
  BY DEF WorkerThread
<1>2. UNCHANGED <<stage, id, nextId, clientId, pending, index, player>>
  BY <1>1 DEF HandleCreate, HandleTransform, HandleSync, serverVars, worldVars, clientVars
<1>3. IdsDiffer'
  BY <1>2 DEF IdInv, IdsDiffer
<1>4. Head(up[c]) \in Message /\ log \in Seq(Message)
  BY <1>1, TRead DEF HandleCreate, HandleTransform, HandleSync, TInv, TypeOK
<1>5. CASE HandleCreate(c, k) \/ HandleTransform(c, k)
  <2>1. down' = down
    BY <1>5 DEF HandleCreate, HandleTransform
  <2>2. \A d \in Clients : Identity(d)'
    BY <1>2, <2>1, IdQuiet
  <2>3. PICK m \in Message : m.kind \in {"create", "transform"} /\ log' = Append(log, m)
    <3>1. CASE HandleTransform(c, k)
      BY <1>4, <3>1 DEF HandleTransform
    <3>2. CASE HandleCreate(c, k)
      <4> DEFINE m == [Head(up[c]) EXCEPT !.server = serverArr.back]
      <4>1. m \in Message /\ log' = Append(log, m)
        BY <3>2, THandleCreate DEF HandleCreate
      <4>2. Head(up[c]).kind = "create"
        BY <3>2 DEF HandleCreate
      <4>3. m.kind = Head(up[c]).kind
        BY <1>4, <4>2, MessageKinds
      <4> QED
        BY <4>1, <4>2, <4>3
    <3> QED
      BY <1>5, <3>1, <3>2
  <2>4. GameLog'
    BY <1>4, <2>3, AppendTo DEF IdInv, GameLog
  <2> QED
    BY <1>3, <2>2, <2>4 DEF IdInv
<1>6. CASE HandleSync(c, k)
  <2> DEFINE m == Sync(2, Head(up[c]).client)
  <2>1. Head(up[c]).client \in Int
    BY <1>4, <1>6, MessageKinds DEF HandleSync
  <2>2. m \in Message /\ m.step # 0
    BY <2>1, SyncMessage
  <2>3. \A d \in Clients :
          down'[d] = down[d] \/ (stage[d] = "registered" /\ down'[d] = Append(down[d], m))
    BY <1>6 DEF HandleSync
  <2>4. \A d \in Clients : Identity(d)'
    <3> HIDE DEF m
    <3> QED
      BY <1>2, <2>2, <2>3, IdQuiet, IdSent
  <2>5. GameLog'
    BY <1>6 DEF HandleSync, serverVars, IdInv, GameLog
  <2> QED
    BY <1>3, <2>4, <2>5 DEF IdInv
<1> QED
  BY <1>1, <1>5, <1>6

\* A broadcast reaches registered clients only, and is no sync message.
LEMMA IdTick ==
    ASSUME TInv, IdInv, TickSend
    PROVE  IdInv'
<1> DEFINE m == log[broadcast + 1]
<1>1. m \in Message /\ m.kind # "sync"
  <2>1. broadcast + 1 \in 1 .. Len(log) /\ log \in Seq(Message)
    BY DEF TickSend, TInv, TypeOK
  <2> QED
    BY <2>1 DEF IdInv, GameLog
<1>2. /\ UNCHANGED <<stage, id, nextId, log, clientId, pending, index, player>>
      /\ \A d \in Clients :
          down'[d] = down[d] \/ (stage[d] = "registered" /\ down'[d] = Append(down[d], m))
  BY DEF TickSend, worldVars, clientVars
<1>3. GameLog' /\ IdsDiffer'
  BY <1>2 DEF IdInv, GameLog, IdsDiffer
<1>4. \A d \in Clients : Identity(d)'
  <2> HIDE DEF m
  <2> QED
    BY <1>1, <1>2, IdQuiet, IdSent
<1> QED
  BY <1>3, <1>4 DEF IdInv

\* A client receives the message with its id once, before every other.
LEMMA IdReceive ==
    ASSUME TInv, IdInv, NEW c \in Clients, ReceiveThread(c)
    PROVE  IdInv'
<1> DEFINE m == Head(down[c])
<1>1. /\ m \in Message /\ m = down[c][1] /\ down[c] # <<>> /\ Len(down[c]) > 0
      /\ down' = [down EXCEPT ![c] = down'[c]] /\ Len(down'[c]) = Len(down[c]) - 1
      /\ \A i \in 1 .. Len(down'[c]) : down'[c][i] = down[c][i + 1]
  BY TReceived DEF ReceiveThread, ReceiveSync0, ReceiveSync2, ReceiveGame, TInv
<1>2. UNCHANGED <<stage, id, nextId, log, index, player>>
  BY DEF ReceiveThread, ReceiveSync0, ReceiveSync2, ReceiveGame, serverVars, worldVars
<1>3. GameLog' /\ IdsDiffer'
  BY <1>2 DEF IdInv, GameLog, IdsDiffer
<1>4. ASSUME NEW d \in Clients, d # c PROVE Identity(d)'
  <2>1. /\ down'[d] = down[d] /\ clientId'[d] = clientId[d] /\ pending'[d] = pending[d]
    BY <1>1, <1>4 DEF ReceiveThread, ReceiveSync0, ReceiveSync2, ReceiveGame, Send, TInv, TypeOK
  <2> QED
    BY <1>2, <2>1, IdQuiet
<1>5. Identity(c) /\ Known(c)' = Known(c)
  BY <1>2 DEF IdInv, Known
<1>6. stage[c] \in {"synced", "registered"} /\ (Told(c) \/ Untold(c))
  <2>1. stage[c] \in {"backlog", "accepted", "synced", "registered"}
    BY DEF TInv, TypeOK
  <2> QED
    BY <1>1, <1>5, <2>1 DEF Identity
<1>7. Len(down[c]) \in Nat
  BY DEF TInv, TypeOK
<1> HIDE DEF m
<1>8. CASE ReceiveSync0(c)
  <2>1. m.kind = "sync" /\ m.step = 0 /\ clientId'[c] = m.client /\ pending' = pending
    BY <1>8 DEF m, ReceiveSync0, Receive, TInv, TypeOK
  <2>2. ~Told(c)
    BY <1>1, <1>7, <2>1 DEF Told
  <2>3. Untold(c) /\ m.client = id[c]
    BY <1>1, <1>6, <2>2 DEF Untold, Sync
  <2>4. Told(c)'
    BY <1>1, <1>2, <1>7, <2>1, <2>3 DEF Told, Untold
  <2>5. player[c] = None
    BY <1>5, <2>3 DEF Identity, Untold
  <2>6. stage[c] # "registered" => \A i \in 1 .. Len(down'[c]) : down'[c][i].kind = "sync"
    BY <1>1, <1>5, <1>7 DEF Identity
  <2>7. Identity(c)'
    BY <1>2, <1>5, <1>6, <2>1, <2>4, <2>5, <2>6 DEF Identity
  <2> QED
    BY <1>3, <1>4, <2>7 DEF IdInv
<1>9. CASE ReceiveSync2(c) \/ ReceiveGame(c)
  <2>1. /\ m.kind = "sync" => m.step = 2
        /\ UNCHANGED clientId
        /\ stage[c] # "registered" => pending' = pending
    BY <1>1, <1>5, <1>7, <1>9 DEF m, ReceiveSync2, ReceiveGame, Receive, Identity
  <2>2. ~Untold(c)
    BY <1>1, <2>1 DEF Untold, Sync
  <2>3. Told(c)'
    BY <1>1, <1>2, <1>6, <1>7, <2>1, <2>2 DEF Told
  <2>4. stage[c] # "registered" => \A i \in 1 .. Len(down'[c]) : down'[c][i].kind = "sync"
    BY <1>1, <1>5, <1>7 DEF Identity
  <2>5. Identity(c)'
    BY <1>2, <1>5, <1>6, <2>1, <2>3, <2>4 DEF Identity
  <2> QED
    BY <1>3, <1>4, <2>5 DEF IdInv
<1> QED
  BY <1>8, <1>9 DEF ReceiveThread

\* The main thread has something to process only when its client has its id.
LEMMA IdMain ==
    ASSUME TInv, IdInv, NEW c \in Clients, MainLoop(c) \/ Lose(c) \/ User(c)
    PROVE  IdInv'
<1> USE DEF MainLoop, CreateOwn, StartLoop, ProcessOwn, ProcessOther, ProcessTransform,
            Process, Lose, Take, User, GiveOrder
<1>1. UNCHANGED <<stage, id, nextId, log, down, clientId>>
  BY DEF serverVars
<1>2. GameLog' /\ IdsDiffer'
  BY <1>1 DEF IdInv, GameLog, IdsDiffer
<1>3. ASSUME NEW d \in Clients, d # c PROVE Identity(d)'
  <2>1. pending'[d] = pending[d] /\ player'[d] = player[d]
    BY <1>3 DEF TInv, TypeOK
  <2>2. index'[d] = index[d]
    BY <1>3 DEF worldVars, Insert, TInv, TypeOK
  <2> QED
    BY <1>1, <2>1, <2>2, IdQuiet
<1>4. Identity(c)
  BY DEF IdInv
<1>5. CASE StartLoop(c)
  <2>1. pending' = pending /\ index' = index /\ player'[c] = clientId[c]
    BY <1>5 DEF worldVars, TInv, TypeOK
  <2>2. Known(c)' = Known(c) /\ (Told(c) => Told(c)') /\ (Untold(c) => Untold(c)')
    BY <1>1, <2>1 DEF Known, Told, Untold
  <2>3. Identity(c)'
    BY <1>1, <1>4, <2>1, <2>2 DEF Identity
  <2> QED
    BY <1>2, <1>3, <2>3 DEF IdInv
<1>6. CASE CreateOwn(c) \/ User(c)
  <2>1. UNCHANGED <<pending, index, player>>
    BY <1>6 DEF worldVars
  <2>2. Identity(c)'
    BY <1>1, <2>1, IdQuiet
  <2> QED
    BY <1>2, <1>3, <2>2 DEF IdInv
<1>7. CASE ProcessOwn(c) \/ ProcessOther(c) \/ ProcessTransform(c) \/ Lose(c)
  <2>1. pending[c] # <<>> /\ player' = player
    BY <1>7
  <2>2. stage[c] = "registered" /\ Told(c)
    BY <1>4, <2>1 DEF Identity, Untold
  <2>3. Told(c)'
    BY <1>1, <2>2 DEF Told
  <2>4. Identity(c)'
    BY <1>1, <1>4, <2>1, <2>2, <2>3 DEF Identity
  <2> QED
    BY <1>2, <1>3, <2>4 DEF IdInv
<1> QED
  BY <1>5, <1>6, <1>7

\* Every step keeps the ids apart, and tells a client its own before anything else.
LEMMA IdStep == TInv /\ TInv' /\ IdInv /\ [Next]_vars => IdInv'
<1> SUFFICES ASSUME TInv, TInv', IdInv, [Next]_vars PROVE IdInv'
  OBVIOUS
<1>1. CASE UNCHANGED vars
  <2>1. UNCHANGED <<stage, id, nextId, log, down, clientId, pending, index, player>>
    BY <1>1 DEF vars, serverVars, worldVars, clientVars
  <2>2. \A c \in Clients : Identity(c)'
    BY <2>1, IdQuiet
  <2> QED
    BY <2>1, <2>2 DEF IdInv, GameLog, IdsDiffer
<1> QED
  BY <1>1, IdAccept, IdWorker, IdTick, IdReceive, IdMain DEF Next

\* No broadcast is pending, let alone processed, at a client without its id: accept_clients
\* sends a client its id before it registers the client, on the same stream.
THEOREM IdFirst == Spec => []IdBeforeBroadcast
<1>1. Spec => [](TInv /\ IdInv)
  BY TInit, TStep, IdInit, IdStep, PTL DEF Spec
<1>2. IdInv => IdBeforeBroadcast
  BY DEF IdInv, Identity, IdBeforeBroadcast, Told, Untold
<1> QED
  BY <1>1, <1>2, PTL

-----------------------------------------------------------------------------
(* Where in the log each stream is. *)

\* Nobody is registered at first.
LEMMA StreamInit == Init => StreamInv
BY DEF Init, StreamInv, StreamOK

\* A step that leaves client d's stream alone, and the part of the log that was broadcast.
LEMMA StreamQuiet ==
    ASSUME TInv, StreamInv, NEW d \in Clients,
           stage'[d] = stage[d], joined'[d] = joined[d], handled'[d] = handled[d],
           pending'[d] = pending[d], down'[d] = down[d], broadcast' = broadcast,
           \A i \in 1 .. broadcast : log'[i] = log[i]
    PROVE  StreamOK(d)'
<1> SUFFICES ASSUME stage[d] = "registered"
             PROVE  /\ joined[d] <= handled[d] /\ InPlace(d)'
                    /\ \E g \in [0 .. Len(down[d]) -> 0 .. broadcast] : Places(d, g)'
  BY DEF StreamOK
<1>1. joined[d] <= handled[d] /\ InPlace(d)
  BY DEF StreamInv, StreamOK
<1>2. PICK g \in [0 .. Len(down[d]) -> 0 .. broadcast] : Places(d, g)
  BY DEF StreamInv, StreamOK
<1>3. handled[d] \in Nat /\ broadcast \in Nat /\ Len(pending[d]) \in Nat /\ Len(down[d]) \in Nat
  BY DEF TInv, TypeOK
<1>4. InPlace(d)'
  BY <1>1, <1>3 DEF InPlace
<1>5. ASSUME NEW i \in 1 .. Len(down[d]), down[d][i].kind # "sync" PROVE g[i] \in 1 .. broadcast
  <2>1. g[i] = g[i - 1] + 1 /\ i - 1 \in 0 .. Len(down[d])
    BY <1>2, <1>3, <1>5 DEF Places
  <2> QED
    BY <1>3, <2>1
<1>6. Places(d, g)'
  BY <1>2, <1>5 DEF Places
<1> QED
  BY <1>1, <1>4, <1>6

\* One more message is sent to a registered client: an answer, or the next of the log.
LEMMA StreamSent ==
    ASSUME TInv, StreamInv, NEW d \in Clients, NEW m \in Message, stage[d] = "registered",
           stage'[d] = stage[d], joined'[d] = joined[d], handled'[d] = handled[d],
           pending'[d] = pending[d], down'[d] = Append(down[d], m), log' = log,
           IF m.kind = "sync" THEN broadcast' = broadcast
                              ELSE broadcast' = broadcast + 1 /\ m = log[broadcast + 1]
    PROVE  StreamOK(d)'
<1> DEFINE n == Len(down[d])
<1>1. joined[d] <= handled[d] /\ InPlace(d)
  BY DEF StreamInv, StreamOK
<1>2. PICK g \in [0 .. n -> 0 .. broadcast] : Places(d, g)
  BY DEF StreamInv, StreamOK
<1>3. /\ handled[d] \in Nat /\ broadcast \in Nat /\ Len(pending[d]) \in Nat /\ n \in Nat
      /\ broadcast' \in Nat /\ broadcast' >= broadcast
  BY DEF TInv, TypeOK
<1>4. /\ Len(down'[d]) = n + 1 /\ down'[d][n + 1] = m
      /\ \A i \in 1 .. n : down'[d][i] = down[d][i]
  BY AppendTo DEF TInv, TypeOK
<1>5. /\ g[0] = handled[d] + Len(pending[d]) /\ g[n] = broadcast
      /\ \A i \in 1 .. n : IF down[d][i].kind = "sync"
                           THEN g[i] = g[i - 1]
                           ELSE g[i] = g[i - 1] + 1 /\ down[d][i] = log[g[i]]
  BY <1>2 DEF Places
<1> HIDE DEF n
<1>6. PICK h \in [0 .. n + 1 -> 0 .. broadcast'] :
        h[n + 1] = broadcast' /\ \A i \in 0 .. n : h[i] = g[i]
  <2> DEFINE f == [i \in 0 .. n + 1 |-> IF i = n + 1 THEN broadcast' ELSE g[i]]
  <2>1. f \in [0 .. n + 1 -> 0 .. broadcast']
    BY <1>3
  <2>2. f[n + 1] = broadcast' /\ \A i \in 0 .. n : f[i] = g[i]
    BY <1>3
  <2> QED
    BY <2>1, <2>2
<1>7. ASSUME NEW i \in 1 .. n + 1
      PROVE  IF down'[d][i].kind = "sync"
             THEN h[i] = h[i - 1]
             ELSE h[i] = h[i - 1] + 1 /\ down'[d][i] = log[h[i]]
  <2>1. CASE i = n + 1
    BY <1>3, <1>4, <1>5, <1>6, <2>1
  <2>2. CASE i # n + 1
    <3>1. i \in 1 .. n /\ i - 1 \in 0 .. n /\ i \in 0 .. n
      BY <1>3, <2>2
    <3> QED
      BY <1>4, <1>5, <1>6, <3>1
  <2> QED
    BY <2>1, <2>2
<1>8. Places(d, h)'
  BY <1>3, <1>4, <1>5, <1>6, <1>7 DEF Places
<1>9. InPlace(d)'
  BY <1>1, <1>3 DEF InPlace
<1> QED
  BY <1>1, <1>4, <1>6, <1>8, <1>9 DEF StreamOK

\* A registered client receives a message: game messages go to its queue, in order.
LEMMA StreamReceived ==
    ASSUME TInv, StreamInv, NEW d \in Clients, stage[d] = "registered", Len(down[d]) > 0,
           Len(down'[d]) = Len(down[d]) - 1,
           \A i \in 1 .. Len(down'[d]) : down'[d][i] = down[d][i + 1],
           stage'[d] = stage[d], joined'[d] = joined[d], handled'[d] = handled[d],
           log' = log, broadcast' = broadcast,
           pending'[d] = IF down[d][1].kind = "sync" THEN pending[d]
                                                     ELSE Append(pending[d], down[d][1])
    PROVE  StreamOK(d)'
<1> DEFINE n == Len(down[d])
           k == Len(pending[d])
<1>1. joined[d] <= handled[d] /\ InPlace(d)
  BY DEF StreamInv, StreamOK
<1>2. PICK g \in [0 .. n -> 0 .. broadcast] : Places(d, g)
  BY DEF StreamInv, StreamOK
<1>3. /\ handled[d] \in Nat /\ broadcast \in Nat /\ k \in Nat /\ n \in Nat \ {0}
      /\ pending[d] \in Seq(Message) /\ down[d][1] \in Message
  BY DEF TInv, TypeOK
<1>4. /\ g[0] = handled[d] + k /\ g[n] = broadcast
      /\ \A i \in 1 .. n : IF down[d][i].kind = "sync"
                           THEN g[i] = g[i - 1]
                           ELSE g[i] = g[i - 1] + 1 /\ down[d][i] = log[g[i]]
  BY <1>2 DEF Places
<1>5. 1 \in 1 .. n /\ g[1] \in 0 .. broadcast /\ g[0] \in 0 .. broadcast
  BY <1>2, <1>3
<1>6. handled[d] + Len(pending'[d]) = g[1] /\ Len(pending'[d]) \in Nat
  <2>1. CASE down[d][1].kind = "sync"
    BY <1>3, <1>4, <1>5, <2>1
  <2>2. CASE down[d][1].kind # "sync"
    BY <1>3, <1>4, <1>5, <2>2, AppendTo
  <2> QED
    BY <2>1, <2>2
<1>7. \A i \in 1 .. Len(pending'[d]) : pending'[d][i] = log[handled[d] + i]
  <2>1. CASE down[d][1].kind = "sync"
    BY <1>1, <2>1 DEF InPlace
  <2>2. CASE down[d][1].kind # "sync"
    <3>1. /\ Len(pending'[d]) = k + 1 /\ pending'[d][k + 1] = down[d][1]
          /\ \A i \in 1 .. k : pending'[d][i] = pending[d][i]
      BY <1>3, <2>2, AppendTo
    <3>2. g[1] = handled[d] + (k + 1) /\ down[d][1] = log[g[1]]
      BY <1>3, <1>4, <1>5, <2>2
    <3>3. \A i \in 1 .. k : pending[d][i] = log[handled[d] + i]
      BY <1>1 DEF InPlace
    <3> HIDE DEF k
    <3> QED
      BY <1>3, <3>1, <3>2, <3>3
  <2> QED
    BY <2>1, <2>2
<1>8. InPlace(d)'
  BY <1>5, <1>6, <1>7 DEF InPlace
<1> HIDE DEF n, k
<1>9. PICK h \in [0 .. n - 1 -> 0 .. broadcast] : \A i \in 0 .. n - 1 : h[i] = g[i + 1]
  <2> DEFINE f == [i \in 0 .. n - 1 |-> g[i + 1]]
  <2>1. f \in [0 .. n - 1 -> 0 .. broadcast]
    BY <1>3
  <2> QED
    BY <2>1
<1>10. ASSUME NEW i \in 1 .. n - 1
       PROVE  IF down'[d][i].kind = "sync"
              THEN h[i] = h[i - 1]
              ELSE h[i] = h[i - 1] + 1 /\ down'[d][i] = log[h[i]]
  <2>1. /\ i + 1 \in 1 .. n /\ (i + 1) - 1 = i /\ (i - 1) + 1 = i
        /\ i \in 0 .. n - 1 /\ i - 1 \in 0 .. n - 1
    BY <1>3
  <2>2. h[i] = g[i + 1] /\ h[i - 1] = g[i]
    BY <1>9, <2>1
  <2>3. down'[d][i] = down[d][i + 1]
    BY DEF n
  <2> QED
    BY <1>4, <2>1, <2>2, <2>3
<1>11. Places(d, h)'
  <2>1. Len(down'[d]) = n - 1
    BY DEF n
  <2>2. 0 \in 0 .. n - 1 /\ n - 1 \in 0 .. n - 1 /\ (n - 1) + 1 = n /\ 0 + 1 = 1
    BY <1>3 DEF n
  <2>3. h[0] = handled'[d] + Len(pending'[d]) /\ h[n - 1] = broadcast'
    BY <1>4, <1>6, <1>9, <2>2
  <2> QED
    BY <1>9, <1>10, <2>1, <2>3 DEF Places
<1> QED
  BY <1>1, <1>8, <1>9, <1>11 DEF StreamOK, n

\* A registered client's main loop takes a message, and the log moves on by one.
LEMMA StreamTaken ==
    ASSUME TInv, StreamInv, NEW d \in Clients, stage[d] = "registered",
           Len(pending[d]) > 0, Len(pending'[d]) = Len(pending[d]) - 1,
           \A i \in 1 .. Len(pending'[d]) : pending'[d][i] = pending[d][i + 1],
           handled'[d] = handled[d] + 1,
           stage'[d] = stage[d], joined'[d] = joined[d], down'[d] = down[d],
           log' = log, broadcast' = broadcast
    PROVE  /\ StreamOK(d)'
           /\ handled[d] + 1 \in 1 .. broadcast /\ pending[d][1] = log[handled[d] + 1]
<1>1. joined[d] <= handled[d] /\ InPlace(d)
  BY DEF StreamInv, StreamOK
<1>2. PICK g \in [0 .. Len(down[d]) -> 0 .. broadcast] : Places(d, g)
  BY DEF StreamInv, StreamOK
<1>3. /\ handled[d] \in Nat /\ joined[d] \in Nat /\ broadcast \in Nat
      /\ Len(pending[d]) \in Nat \ {0}
  BY DEF TInv, TypeOK
<1>4. handled[d] + 1 \in 1 .. broadcast /\ pending[d][1] = log[handled[d] + 1]
  BY <1>1, <1>3 DEF InPlace
<1>5. ASSUME NEW i \in 1 .. Len(pending'[d]) PROVE pending'[d][i] = log'[handled'[d] + i]
  <2>1. i + 1 \in 1 .. Len(pending[d]) /\ handled[d] + (i + 1) = handled'[d] + i
    BY <1>3
  <2>2. pending[d][i + 1] = log[handled[d] + (i + 1)]
    BY <1>1, <2>1 DEF InPlace
  <2> QED
    BY <2>1, <2>2
<1>6. handled'[d] + Len(pending'[d]) = handled[d] + Len(pending[d]) /\ joined'[d] <= handled'[d]
  BY <1>1, <1>3
<1>7. InPlace(d)'
  BY <1>1, <1>5, <1>6 DEF InPlace
<1>8. Places(d, g)'
  BY <1>2, <1>6 DEF Places
<1> QED
  BY <1>4, <1>6, <1>7, <1>8 DEF StreamOK

\* A client is registered with nothing on its way but what the accept thread sent.
LEMMA StreamRegister ==
    ASSUME TInv, IdInv, StreamInv, NEW c \in Clients, Register(c)
    PROVE  StreamInv'
<1>1. /\ stage[c] = "synced" /\ joined'[c] = broadcast /\ handled'[c] = broadcast
      /\ UNCHANGED <<broadcast, log, pending, down>>
      /\ \A d \in Clients : d # c =>
           stage'[d] = stage[d] /\ joined'[d] = joined[d] /\ handled'[d] = handled[d]
  BY DEF Register, TInv, TypeOK
<1>2. pending[c] = <<>> /\ \A i \in 1 .. Len(down[c]) : down[c][i].kind = "sync"
  BY <1>1 DEF IdInv, Identity
<1>3. broadcast \in Nat /\ Len(down[c]) \in Nat
  BY DEF TInv, TypeOK
<1>4. PICK g \in [0 .. Len(down[c]) -> 0 .. broadcast] : \A i \in 0 .. Len(down[c]) : g[i] = broadcast
  <2> DEFINE f == [i \in 0 .. Len(down[c]) |-> broadcast]
  <2>1. f \in [0 .. Len(down[c]) -> 0 .. broadcast]
    BY <1>3
  <2> QED
    BY <2>1
<1>5. Len(pending[c]) = 0
  BY <1>2
<1>6. Places(c, g)'
  BY <1>1, <1>2, <1>3, <1>4, <1>5 DEF Places
<1>7. InPlace(c)'
  BY <1>1, <1>3, <1>5 DEF InPlace
<1>8. StreamOK(c)'
  BY <1>1, <1>3, <1>6, <1>7 DEF StreamOK
<1> QED
  BY <1>1, <1>8, StreamQuiet DEF StreamInv

\* Every step keeps the streams in the order of the log, with no gap.
LEMMA StreamStep == TInv /\ IdInv /\ StreamInv /\ [Next]_vars => StreamInv'
<1> SUFFICES ASSUME TInv, IdInv, StreamInv, [Next]_vars PROVE StreamInv'
  OBVIOUS
<1>1. ASSUME NEW c \in Clients, Accept(c) \/ SendSync(c) PROVE StreamInv'
  <2>1. UNCHANGED <<joined, handled, pending, log, broadcast>> /\ stage[c] \in {"backlog", "accepted"}
    BY <1>1 DEF Accept, SendSync, clientVars
  <2>2. stage'[c] # "registered" /\ \A d \in Clients : d # c => stage'[d] = stage[d] /\ down'[d] = down[d]
    BY <1>1 DEF Accept, SendSync, Send, TInv, TypeOK
  <2>3. StreamOK(c)'
    BY <2>2 DEF StreamOK
  <2> QED
    BY <2>1, <2>2, <2>3, StreamQuiet DEF StreamInv
<1>2. ASSUME NEW c \in Clients, Register(c) PROVE StreamInv'
  BY <1>2, StreamRegister
<1>3. ASSUME NEW c \in Clients, NEW k \in 1 .. MaxRead, HandleCreate(c, k) \/ HandleTransform(c, k)
      PROVE  StreamInv'
  <2>1. /\ UNCHANGED <<stage, joined, handled, pending, broadcast, down>>
        /\ \E m : log' = Append(log, m)
    BY <1>3 DEF HandleCreate, HandleTransform, clientVars
  <2>2. \A i \in 1 .. broadcast : log'[i] = log[i]
    BY <2>1 DEF TInv, TypeOK
  <2> QED
    BY <2>1, <2>2, StreamQuiet DEF StreamInv
<1>4. ASSUME NEW c \in Clients, NEW k \in 1 .. MaxRead, HandleSync(c, k) PROVE StreamInv'
  <2> DEFINE m == Sync(2, Head(up[c]).client)
  <2>1. m \in Message /\ m.kind = "sync"
    <3>1. Head(up[c]) \in Message /\ Head(up[c]).kind = "sync"
      BY <1>4, TRead DEF HandleSync, TInv
    <3>2. Head(up[c]).client \in Int
      BY <3>1, MessageKinds
    <3> QED
      BY <3>2, SyncMessage
  <2>2. /\ UNCHANGED <<stage, joined, handled, pending, broadcast, log>>
        /\ \A d \in Clients :
            down'[d] = down[d] \/ (stage[d] = "registered" /\ down'[d] = Append(down[d], m))
    BY <1>4 DEF HandleSync, serverVars, clientVars
  <2> HIDE DEF m
  <2> QED
    BY <2>1, <2>2, StreamQuiet, StreamSent DEF StreamInv
<1>5. CASE TickSend
  <2> DEFINE m == log[broadcast + 1]
  <2>1. m \in Message /\ m.kind # "sync"
    <3>1. broadcast + 1 \in 1 .. Len(log) /\ log \in Seq(Message)
      BY <1>5 DEF TickSend, TInv, TypeOK
    <3> QED
      BY <3>1 DEF IdInv, GameLog
  <2>2. /\ UNCHANGED <<stage, joined, handled, pending, log>> /\ broadcast' = broadcast + 1
        /\ \A d \in Clients : stage[d] = "registered" => down'[d] = Append(down[d], m)
    BY <1>5 DEF TickSend, clientVars
  <2>3. ASSUME NEW d \in Clients PROVE StreamOK(d)'
    <3>1. CASE stage[d] = "registered"
      BY <2>1, <2>2, <3>1, StreamSent
    <3>2. CASE stage[d] # "registered"
      BY <2>2, <3>2 DEF StreamOK
    <3> QED
      BY <3>1, <3>2
  <2> QED
    BY <2>3 DEF StreamInv
<1>6. ASSUME NEW c \in Clients, ReceiveThread(c) PROVE StreamInv'
  <2>1. /\ Head(down[c]) \in Message /\ Head(down[c]) = down[c][1] /\ Len(down[c]) > 0
        /\ down' = [down EXCEPT ![c] = down'[c]] /\ Len(down'[c]) = Len(down[c]) - 1
        /\ \A i \in 1 .. Len(down'[c]) : down'[c][i] = down[c][i + 1]
    BY <1>6, TReceived DEF ReceiveThread, ReceiveSync0, ReceiveSync2, ReceiveGame, TInv
  <2>2. UNCHANGED <<stage, joined, handled, broadcast, log>>
    BY <1>6 DEF ReceiveThread, ReceiveSync0, ReceiveSync2, ReceiveGame, serverVars
  <2>3. pending'[c] = IF down[c][1].kind = "sync" THEN pending[c] ELSE Append(pending[c], down[c][1])
    <3>1. CASE ReceiveGame(c)
      BY <2>1, <3>1 DEF ReceiveGame, Receive, Send, TInv, TypeOK
    <3>2. CASE ReceiveSync0(c) \/ ReceiveSync2(c)
      BY <2>1, <3>2 DEF ReceiveSync0, ReceiveSync2, Receive
    <3> QED
      BY <1>6, <3>1, <3>2 DEF ReceiveThread
  <2>4. StreamOK(c)'
    <3>1. CASE stage[c] = "registered"
      BY <2>1, <2>2, <2>3, <3>1, StreamReceived
    <3>2. CASE stage[c] # "registered"
      BY <2>2, <3>2 DEF StreamOK
    <3> QED
      BY <3>1, <3>2
  <2>5. ASSUME NEW d \in Clients, d # c PROVE StreamOK(d)'
    <3>1. pending'[d] = pending[d] /\ down'[d] = down[d]
      BY <1>6, <2>1, <2>5 DEF ReceiveThread, ReceiveSync0, ReceiveSync2, ReceiveGame, Send,
                              TInv, TypeOK
    <3> QED
      BY <2>2, <3>1, StreamQuiet
  <2> QED
    BY <2>4, <2>5 DEF StreamInv
<1>7. ASSUME NEW c \in Clients, Take(c) PROVE StreamInv'
  <2>1. /\ pending[c] # <<>> /\ Len(pending[c]) > 0
        /\ pending' = [pending EXCEPT ![c] = pending'[c]]
        /\ Len(pending'[c]) = Len(pending[c]) - 1
        /\ \A i \in 1 .. Len(pending'[c]) : pending'[c][i] = pending[c][i + 1]
        /\ handled' = [handled EXCEPT ![c] = handled[c] + 1]
    BY <1>7, TTaken DEF TInv
  <2>2. UNCHANGED <<stage, joined, down, broadcast, log>>
    BY <1>7 DEF Take, serverVars
  <2>3. stage[c] = "registered"
    BY <2>1 DEF IdInv, Identity
  <2>4. handled'[c] = handled[c] + 1
    BY <2>1 DEF TInv, TypeOK
  <2>5. StreamOK(c)'
    BY <2>1, <2>2, <2>3, <2>4, StreamTaken
  <2>6. ASSUME NEW d \in Clients, d # c PROVE StreamOK(d)'
    <3>1. pending'[d] = pending[d] /\ handled'[d] = handled[d]
      BY <2>1, <2>6 DEF TInv, TypeOK
    <3> QED
      BY <2>2, <3>1, StreamQuiet
  <2> QED
    BY <2>5, <2>6 DEF StreamInv
<1>8. ASSUME UNCHANGED <<stage, joined, handled, pending, down, broadcast, log>> PROVE StreamInv'
  BY <1>8, StreamQuiet DEF StreamInv
<1>9. ASSUME NEW c \in Clients, CreateOwn(c) \/ StartLoop(c) \/ User(c) PROVE StreamInv'
  BY <1>8, <1>9 DEF CreateOwn, StartLoop, User, GiveOrder, serverVars
<1>10. CASE UNCHANGED vars
  BY <1>8, <1>10 DEF vars, serverVars, clientVars
<1>11. ASSUME NEW c \in Clients, MainLoop(c) \/ Lose(c) PROVE StreamInv'
  BY <1>7, <1>9, <1>11 DEF MainLoop, ProcessOwn, ProcessOther, ProcessTransform, Process, Lose
<1>12. ASSUME NEW c \in Clients, WorkerThread(c) PROVE StreamInv'
  BY <1>3, <1>4, <1>12 DEF WorkerThread
<1> QED
  BY <1>1, <1>2, <1>5, <1>6, <1>9, <1>10, <1>11, <1>12 DEF Next, AcceptThread

-----------------------------------------------------------------------------
(* What is settled stays. *)

\* The log only grows, the server never reuses a slot, and what a client is and owns, once
\* known, does not change.
Grows ==
    /\ \A i \in 1 .. Len(log) : i \in 1 .. Len(log') /\ log'[i] = log[i]
    /\ \A s \in Slots : s < serverArr.back =>
         s < serverArr'.back /\ owner'[s] = owner[s] /\ creator'[s] = creator[s]
    /\ \A c \in Clients :
         /\ id[c] # None => id'[c] = id[c]
         /\ stage[c] = "registered" => stage'[c] = "registered" /\ joined'[c] = joined[c]
         /\ phase[c] = "running" => phase'[c] = "running" /\ player'[c] = player[c]
         /\ phase[c] # "connected" =>
              phase'[c] # "connected" /\ unit'[c][0].player = unit[c][0].player

\* The parts of Grows for which the server's threads, and the clients' threads, are the ones
\* to ask.
ServerGrows ==
    /\ \A i \in 1 .. Len(log) : i \in 1 .. Len(log') /\ log'[i] = log[i]
    /\ \A s \in Slots : s < serverArr.back =>
         s < serverArr'.back /\ owner'[s] = owner[s] /\ creator'[s] = creator[s]
    /\ \A c \in Clients :
         /\ id[c] # None => id'[c] = id[c]
         /\ stage[c] = "registered" => stage'[c] = "registered" /\ joined'[c] = joined[c]

ClientGrows ==
    \A c \in Clients :
         /\ phase[c] = "running" => phase'[c] = "running" /\ player'[c] = player[c]
         /\ phase[c] # "connected" =>
              phase'[c] # "connected" /\ unit'[c][0].player = unit[c][0].player

\* The server's steps.
LEMMA ServerStepGrows ==
    ASSUME TInv, TInv', IdInv, NEW c \in Clients,
           AcceptThread(c) \/ WorkerThread(c) \/ TickSend
    PROVE  Grows
<1>1. UNCHANGED <<phase, player, unit>>
  BY DEF AcceptThread, Accept, SendSync, Register, WorkerThread, HandleCreate, HandleTransform,
         HandleSync, TickSend, worldVars, clientVars
<1>2. ClientGrows
  BY <1>1 DEF ClientGrows
<1>3. CASE AcceptThread(c)
  <2>1. UNCHANGED <<log, serverArr, owner, creator>>
    BY <1>3 DEF AcceptThread, Accept, SendSync, Register
  <2>2. stage[c] = "backlog" => id[c] = None
    BY DEF IdInv, Identity
  <2>3. ASSUME NEW d \in Clients
        PROVE  /\ id[d] # None => id'[d] = id[d]
               /\ stage[d] = "registered" => stage'[d] = "registered" /\ joined'[d] = joined[d]
    BY <1>3, <2>2 DEF AcceptThread, Accept, SendSync, Register, TInv, TypeOK
  <2>4. ServerGrows
    BY <2>1, <2>3 DEF ServerGrows
  <2> QED
    BY <1>2, <2>4 DEF Grows, ServerGrows, ClientGrows
<1>4. CASE WorkerThread(c)
  <2>1. PICK k \in 1 .. MaxRead : HandleCreate(c, k) \/ HandleTransform(c, k) \/ HandleSync(c, k)
    BY <1>4 DEF WorkerThread
  <2>2. UNCHANGED <<stage, id, joined>>
    BY <2>1 DEF HandleCreate, HandleTransform, HandleSync, serverVars
  <2>3. log' = log \/ \E m : log' = Append(log, m)
    BY <2>1 DEF HandleCreate, HandleTransform, HandleSync, serverVars
  <2>4. \A i \in 1 .. Len(log) : i \in 1 .. Len(log') /\ log'[i] = log[i]
    <3>1. log \in Seq(Message) /\ Len(log) \in Nat
      BY DEF TInv, TypeOK
    <3>2. ASSUME NEW m, log' = Append(log, m)
          PROVE  Len(log') = Len(log) + 1 /\ \A i \in 1 .. Len(log) : log'[i] = log[i]
      BY <3>1, <3>2
    <3> QED
      BY <2>3, <3>1, <3>2
  <2>5. \A s \in Slots : s < serverArr.back =>
          s < serverArr'.back /\ owner'[s] = owner[s] /\ creator'[s] = creator[s]
    <3>1. CASE HandleCreate(c, k)
      <4>1. /\ serverArr.back \in Slots /\ Top(serverArr) = serverArr.back
            /\ serverArr'.back = serverArr.back + 1
        BY <3>1, THandleCreate
      <4>2. \A s \in Slots : s # serverArr.back => owner'[s] = owner[s] /\ creator'[s] = creator[s]
        BY <3>1, <4>1 DEF HandleCreate, TInv, TypeOK
      <4> QED
        BY <4>1, <4>2 DEF Slots
    <3>2. CASE HandleTransform(c, k) \/ HandleSync(c, k)
      BY <3>2 DEF HandleTransform, HandleSync, serverVars
    <3> QED
      BY <2>1, <3>1, <3>2
  <2>6. ServerGrows
    BY <2>2, <2>4, <2>5 DEF ServerGrows
  <2> QED
    BY <1>2, <2>6 DEF Grows, ServerGrows, ClientGrows
<1>5. CASE TickSend
  <2>1. ServerGrows
    BY <1>5 DEF TickSend, ServerGrows
  <2> QED
    BY <1>2, <2>1 DEF Grows, ServerGrows, ClientGrows
<1> QED
  BY <1>3, <1>4, <1>5

\* The clients' steps: a client writes the player of a unit it makes, in a new slot, only.
LEMMA ClientStepGrows ==
    ASSUME TInv, TInv', NEW c \in Clients,
           ReceiveThread(c) \/ MainLoop(c) \/ Lose(c) \/ User(c)
    PROVE  Grows
<1>1. ServerGrows
  BY DEF ReceiveThread, ReceiveSync0, ReceiveSync2, ReceiveGame, MainLoop, CreateOwn, StartLoop,
         ProcessOwn, ProcessOther, ProcessTransform, Process, Take, Lose, User, GiveOrder,
         serverVars, ServerGrows
<1>2. 0 \in Slots
  BY IndexRangeAssumption DEF Slots
<1>3. \A d \in Clients : unit[d] \in [Slots -> [player : Int, server : Number]]
  BY DEF TInv, TypeOK
<1>4. CASE ReceiveThread(c) \/ ProcessTransform(c) \/ Lose(c) \/ User(c)
  <2>1. UNCHANGED <<phase, player, unit>>
    BY <1>4 DEF ReceiveThread, ReceiveSync0, ReceiveSync2, ReceiveGame, ProcessTransform, Process,
                Take, Lose, User, GiveOrder, worldVars
  <2> QED
    BY <1>1, <2>1 DEF Grows, ServerGrows
<1>5. CASE CreateOwn(c)
  <2>1. phase[c] = "connected" /\ player' = player
    BY <1>5 DEF CreateOwn
  <2>2. unit' = [unit EXCEPT ![c][0] = [player |-> clientId[c], server |-> None]]
    BY <1>5, TCreateOwn
  <2>3. \A d \in Clients : d # c => phase'[d] = phase[d] /\ unit'[d] = unit[d]
    BY <1>5, <2>2 DEF CreateOwn, TInv, TypeOK
  <2>4. ClientGrows
    BY <2>1, <2>3 DEF ClientGrows
  <2> QED
    BY <1>1, <2>4 DEF Grows, ServerGrows, ClientGrows
<1>6. CASE StartLoop(c)
  <2>1. ClientGrows
    BY <1>6 DEF StartLoop, worldVars, ClientGrows, TInv, TypeOK
  <2> QED
    BY <1>1, <2>1 DEF Grows, ServerGrows, ClientGrows
<1>7. CASE ProcessOwn(c)
  <2>1. UNCHANGED <<phase, player>>
    BY <1>7 DEF ProcessOwn, Process, Take
  <2>2. ASSUME NEW d \in Clients PROVE unit'[d][0].player = unit[d][0].player
    <3> DEFINE m == Head(pending[c])
    <3>1. unit' \in {unit, [unit EXCEPT ![c][m.index].server = m.server]}
      BY <1>7 DEF ProcessOwn
    <3> HIDE DEF m
    <3>2. CASE unit' = [unit EXCEPT ![c][m.index].server = m.server]
      <4>1. unit'[d] = unit[d] \/ unit'[d] = [unit[d] EXCEPT ![m.index].server = m.server]
        BY <3>2 DEF TInv, TypeOK
      <4>2. \/ unit'[d][0] = unit[d][0]
            \/ unit'[d][0] = [unit[d][0] EXCEPT !.server = m.server]
        BY <1>2, <1>3, <4>1
      <4>3. unit[d][0] \in [player : Int, server : Number]
        BY <1>2, <1>3
      <4> QED
        BY <4>2, <4>3
    <3> QED
      BY <3>1, <3>2
  <2>3. ClientGrows
    BY <2>1, <2>2 DEF ClientGrows
  <2> QED
    BY <1>1, <2>3 DEF Grows, ServerGrows, ClientGrows
<1>8. CASE ProcessOther(c)
  <2>1. UNCHANGED <<phase, player>> /\ phase[c] = "running"
    BY <1>8 DEF ProcessOther, Process, Take
  <2> DEFINE u == [player |-> Head(pending[c]).player, server |-> Head(pending[c]).server]
  <2>2. /\ arr[c].back \in Slots /\ arr[c].back > 0
        /\ unit' = [unit EXCEPT ![c][arr[c].back] = u]
    BY <1>8, <2>1, TProcessOther DEF TInv, Shapes, OwnFirst
  <2>3. ASSUME NEW d \in Clients PROVE unit'[d][0] = unit[d][0]
    <3> HIDE DEF u
    <3>1. unit'[d] = unit[d] \/ unit'[d] = [unit[d] EXCEPT ![arr[c].back] = u]
      BY <2>2 DEF TInv, TypeOK
    <3> QED
      BY <1>2, <1>3, <2>2, <3>1
  <2>4. ClientGrows
    BY <2>1, <2>3 DEF ClientGrows
  <2> QED
    BY <1>1, <2>4 DEF Grows, ServerGrows, ClientGrows
<1> QED
  BY <1>4, <1>5, <1>6, <1>7, <1>8 DEF MainLoop

\* Every step.
LEMMA StepGrows == TInv /\ TInv' /\ IdInv /\ [Next]_vars => Grows
<1> SUFFICES ASSUME TInv, TInv', IdInv, [Next]_vars PROVE Grows
  OBVIOUS
<1>1. CASE UNCHANGED vars
  BY <1>1 DEF vars, serverVars, worldVars, clientVars, Grows
<1>2. CASE TickSend /\ Clients # {}
  BY <1>2, ServerStepGrows
<1>3. CASE TickSend /\ Clients = {}
  BY <1>3 DEF TickSend, Grows, worldVars, clientVars
<1> QED
  BY <1>1, <1>2, <1>3, ServerStepGrows, ClientStepGrows DEF Next

\* No step takes back what was settled: the pool's log and the server's slots only grow, an id,
\* a registration, a player's number and the owner of a client's first unit are given once.
THEOREM SettledStays == Spec => [][Grows]_vars
<1>1. Spec => [](TInv /\ IdInv)
  BY TInit, TStep, IdInit, IdStep, PTL DEF Spec
<1> QED
  BY <1>1, StepGrows, PTL DEF Spec

-----------------------------------------------------------------------------
(* What the server has numbered. *)

\* Nothing is announced at first.
LEMMA LogInit == Init => LogInv
<1> SUFFICES ASSUME Init PROVE LogInv
  OBVIOUS
<1>1. Len(log) = 0 /\ \A c \in Clients : Len(up[c]) = 0
  BY DEF Init
<1>2. Numbered /\ Distinct
  BY <1>1 DEF Numbered, Distinct
<1>3. \A c \in Clients : Announcing(c) /\ OwnPlayer(c)
  BY <1>1 DEF Init, Announcing, OwnPlayer
<1> QED
  BY <1>2, <1>3 DEF LogInv

\* The announcements in the log stay what they are.
LEMMA LogStays ==
    ASSUME LogInv, Grows, TInv,
           NEW i \in 1 .. Len(log), log[i].kind = "create"
    PROVE  /\ log'[i] = log[i] /\ i \in 1 .. Len(log')
           /\ log[i].server \in Slots /\ log[i].server < serverArr'.back
           /\ owner'[log[i].server] = log[i].player
           /\ owner'[log[i].server] = owner[log[i].server]
           /\ creator'[log[i].server] = creator[log[i].server]
           /\ creator[log[i].server] \in Clients
           /\ Announces(log[i], creator[log[i].server])'
<1>1. /\ log[i].server \in Slots /\ log[i].server < serverArr.back
      /\ owner[log[i].server] = log[i].player
      /\ creator[log[i].server] \in Clients
      /\ Announces(log[i], creator[log[i].server])
  BY DEF LogInv, Numbered
<1>2. /\ log'[i] = log[i] /\ i \in 1 .. Len(log') /\ log[i].server < serverArr'.back
      /\ owner'[log[i].server] = owner[log[i].server]
      /\ creator'[log[i].server] = creator[log[i].server]
  BY <1>1 DEF Grows
<1>3. Announces(log[i], creator[log[i].server])'
  BY <1>1, <1>2 DEF Grows, Announces
<1> QED
  BY <1>1, <1>2, <1>3

\* A step that announces nothing in the log.
LEMMA LogKept ==
    ASSUME TInv, LogInv, Grows,
           \A i \in 1 .. Len(log') : log'[i].kind = "create" => i \in 1 .. Len(log)
    PROVE  Numbered' /\ Distinct'
<1>1. ASSUME NEW i \in 1 .. Len(log'), log'[i].kind = "create"
      PROVE  i \in 1 .. Len(log) /\ log[i].kind = "create" /\ log'[i] = log[i]
  BY <1>1 DEF Grows
<1>2. Numbered'
  <2> SUFFICES ASSUME NEW i \in 1 .. Len(log'), log'[i].kind = "create"
               PROVE  /\ log'[i].server \in Slots /\ log'[i].server < serverArr'.back
                      /\ owner'[log'[i].server] = log'[i].player
                      /\ creator'[log'[i].server] \in Clients
                      /\ Announces(log[i], creator[log[i].server])'
    BY DEF Numbered
  <2>1. i \in 1 .. Len(log) /\ log[i].kind = "create"
    BY <1>1
  <2> QED
    BY <2>1, LogStays
<1>3. Distinct'
  <2> SUFFICES ASSUME NEW i \in 1 .. Len(log'), NEW j \in 1 .. Len(log'),
                      log'[i].kind = "create", log'[j].kind = "create", i # j
               PROVE  /\ log'[i].server # log'[j].server
                      /\ creator'[log'[i].server] # creator'[log'[j].server]
    BY DEF Distinct
  <2>1. /\ i \in 1 .. Len(log) /\ log[i].kind = "create"
        /\ j \in 1 .. Len(log) /\ log[j].kind = "create"
    BY <1>1
  <2>2. /\ log[i].server # log[j].server
        /\ creator[log[i].server] # creator[log[j].server]
    BY <2>1 DEF LogInv, Distinct
  <2> QED
    BY <2>1, <2>2, LogStays
<1> QED
  BY <1>2, <1>3

\* What is on its way of client c after a step, from place k on, was on its way before, and
\* the step announces no unit of the client in the log.
LEMMA UpKept ==
    ASSUME TInv, TInv', LogInv, Grows, NEW c \in Clients, NEW k \in Nat,
           \A i \in 1 .. Len(log') : log'[i].kind = "create" /\ creator'[log'[i].server] = c
                                       => i \in 1 .. Len(log),
           \A i \in 1 .. Len(up'[c]) : up'[c][i].kind = "create" =>
             i + k \in 1 .. Len(up[c]) /\ up'[c][i] = up[c][i + k]
    PROVE  Announcing(c)'
<1>1. Announcing(c)
  BY DEF LogInv
<1> SUFFICES ASSUME NEW i \in 1 .. Len(up'[c]), up'[c][i].kind = "create"
             PROVE  /\ Announces(up[c][i], c)'
                    /\ \A j \in 1 .. Len(up'[c]) : j # i => up'[c][j].kind # "create"
                    /\ \A j \in 1 .. Len(log') : log'[j].kind = "create" => creator'[log'[j].server] # c
  BY DEF Announcing
<1>2. i + k \in 1 .. Len(up[c]) /\ up'[c][i] = up[c][i + k]
  OBVIOUS
<1>3. /\ Announces(up[c][i + k], c)
      /\ \A j \in 1 .. Len(up[c]) : j # i + k => up[c][j].kind # "create"
      /\ \A j \in 1 .. Len(log) : log[j].kind = "create" => creator[log[j].server] # c
  BY <1>1, <1>2 DEF Announcing
<1>4. Announces(up[c][i], c)'
  BY <1>2, <1>3 DEF Announces, Grows
<1>5. ASSUME NEW j \in 1 .. Len(up'[c]), j # i PROVE up'[c][j].kind # "create"
  <2> SUFFICES ASSUME up'[c][j].kind = "create" PROVE FALSE
    OBVIOUS
  <2>1. j + k \in 1 .. Len(up[c]) /\ up'[c][j] = up[c][j + k]
    OBVIOUS
  <2>2. i \in Int /\ j \in Int
    BY DEF TInv, TypeOK
  <2>3. j + k # i + k
    BY <1>5, <2>2
  <2> QED
    BY <1>3, <2>1, <2>3
<1>6. ASSUME NEW j \in 1 .. Len(log'), log'[j].kind = "create" PROVE creator'[log'[j].server] # c
  <2> SUFFICES ASSUME creator'[log'[j].server] = c PROVE FALSE
    OBVIOUS
  <2>1. j \in 1 .. Len(log) /\ log'[j] = log[j] /\ log[j].kind = "create"
    BY <1>6 DEF Grows
  <2> QED
    BY <1>3, <2>1, LogStays
<1> QED
  BY <1>4, <1>5, <1>6

\* The player of a client's own unit is the client's id, or none.
LEMMA OwnPlayerStep ==
    ASSUME TInv, IdInv, LogInv, Grows, [Next]_vars, NEW c \in Clients
    PROVE  OwnPlayer(c)'
<1> SUFFICES ASSUME phase'[c] # "connected" PROVE unit'[c][0].player \in {None, id'[c]}
  BY DEF OwnPlayer
<1>1. CASE phase[c] # "connected"
  BY <1>1 DEF LogInv, OwnPlayer, Grows
<1>2. CASE phase[c] = "connected"
  <2>1. CreateOwn(c)
    <3>1. ASSUME ~\E d \in Clients : CreateOwn(d) \/ StartLoop(d) PROVE phase' = phase
      BY <3>1 DEF Next, vars, AcceptThread, Accept, SendSync, Register, WorkerThread, HandleCreate,
           HandleTransform, HandleSync, TickSend, ReceiveThread, ReceiveSync0, ReceiveSync2,
           ReceiveGame, MainLoop, ProcessOwn, ProcessOther, ProcessTransform, Process, Take, Lose,
           User, GiveOrder, clientVars
    <3>2. PICK d \in Clients : CreateOwn(d) \/ StartLoop(d)
      BY <1>2, <3>1
    <3> QED
      BY <1>2, <3>2 DEF CreateOwn, StartLoop, TInv, TypeOK
  <2>2. /\ unit' = [unit EXCEPT ![c][0] = [player |-> clientId[c], server |-> None]]
        /\ 0 \in Slots /\ id' = id
    BY <2>1, TCreateOwn DEF CreateOwn, serverVars
  <2>3. unit'[c][0].player = clientId[c]
    BY <2>2 DEF TInv, TypeOK
  <2>4. clientId[c] \in {None, id[c]}
    <3>1. Identity(c) /\ stage[c] \in {"backlog", "accepted", "synced", "registered"}
      BY DEF IdInv, TInv, TypeOK
    <3> QED
      BY <3>1 DEF Identity, Told, Untold
  <2> QED
    BY <2>2, <2>3, <2>4
<1> QED
  BY <1>1, <1>2

\* The server numbers the unit a client announces, in a slot of its own.
LEMMA LogCreate ==
    ASSUME TInv, TInv', LogInv, Grows, NEW c \in Clients, NEW k \in 1 .. MaxRead, HandleCreate(c, k)
    PROVE  Numbered' /\ Distinct' /\ \A d \in Clients : Announcing(d)'
<1>1. /\ serverArr.back \in Slots /\ Top(serverArr) = serverArr.back
      /\ serverArr'.back = serverArr.back + 1
  BY THandleCreate
<1>2. /\ up[c][1] \in Message /\ up[c][1].kind = "create"
      /\ Head(up[c]) = up[c][1] /\ k <= Len(up[c]) /\ Len(up'[c]) = Len(up[c]) - k
      /\ up' = [up EXCEPT ![c] = up'[c]]
      /\ \A i \in 1 .. Len(up'[c]) : up'[c][i] = up[c][i + k]
  BY TRead DEF HandleCreate, Read, TInv
<1>3. PICK s \in Slots : s = serverArr.back
  BY <1>1
<1>4. PICK m \in Message : m = [up[c][1] EXCEPT !.server = s]
  BY <1>2, <1>3, THandleCreate
<1>5. /\ owner' = [owner EXCEPT ![s] = up[c][1].player]
      /\ creator' = [creator EXCEPT ![s] = c] /\ log' = Append(log, m)
      /\ phase' = phase /\ unit' = unit
  BY <1>1, <1>2, <1>3, <1>4 DEF HandleCreate, worldVars, clientVars
<1>6. m.kind = "create" /\ m.server = s /\ m.index = up[c][1].index /\ m.player = up[c][1].player
  BY <1>2, <1>4, MessageKinds
<1>7. 1 \in 1 .. Len(up[c]) /\ Len(up[c]) \in Nat
  <2>1. up[c] \in Seq(Message)
    BY DEF TInv, TypeOK
  <2> QED
    BY <1>2, <2>1, BoundsAssumption
<1>8. /\ Announces(up[c][1], c)
      /\ \A j \in 1 .. Len(up[c]) : j # 1 => up[c][j].kind # "create"
      /\ \A j \in 1 .. Len(log) : log[j].kind = "create" => creator[log[j].server] # c
  BY <1>2, <1>7 DEF LogInv, Announcing
<1>9. PICK n \in Nat : /\ n = Len(log) + 1 /\ Len(log') = n /\ log'[n] = m
                       /\ \A i \in 1 .. n : i # n => i \in 1 .. Len(log)
                       /\ \A i \in 1 .. Len(log) : i # n /\ log'[i] = log[i]
  <2>1. log \in Seq(Message) /\ Len(log) \in Nat
    BY DEF TInv, TypeOK
  <2> QED
    BY <1>5, <2>1
<1>10. owner'[s] = m.player /\ creator'[s] = c
  <2>1. owner \in [Slots -> Int] /\ creator \in [Slots -> Clients \cup {None}]
    BY DEF TInv, TypeOK
  <2> QED
    BY <1>5, <1>6, <2>1
<1>11. phase'[c] # "connected" /\ m.index = 0 /\ m.player = unit'[c][0].player
  BY <1>5, <1>6, <1>8 DEF Announces
<1>12. Numbered'
  <2> SUFFICES ASSUME NEW i \in 1 .. n, log'[i].kind = "create"
               PROVE  /\ log'[i].server \in Slots /\ log'[i].server < serverArr'.back
                      /\ owner'[log'[i].server] = log'[i].player
                      /\ creator'[log'[i].server] \in Clients
                      /\ Announces(log[i], creator[log[i].server])'
    BY <1>9 DEF Numbered
  <2>1. CASE i = n
    <3>1. log'[i] = m /\ creator'[log'[i].server] = c
      BY <1>6, <1>9, <1>10, <2>1
    <3>2. Announces(log[i], creator[log[i].server])'
      BY <1>11, <3>1 DEF Announces
    <3>3. s < serverArr'.back
      BY <1>1, <1>3 DEF Slots
    <3> QED
      BY <1>6, <1>10, <3>1, <3>2, <3>3
  <2>2. CASE i # n
    <3>1. i \in 1 .. Len(log) /\ log[i].kind = "create" /\ log'[i] = log[i]
      BY <1>9, <2>2
    <3> QED
      BY <3>1, LogStays
  <2> QED
    BY <2>1, <2>2
<1>13. ASSUME NEW i \in 1 .. Len(log), log[i].kind = "create"
       PROVE  /\ log[i].server # s /\ creator'[log[i].server] = creator[log[i].server]
              /\ creator[log[i].server] # c
  <2>1. log[i].server < serverArr.back /\ log[i].server \in Slots
    BY <1>13 DEF LogInv, Numbered
  <2> QED
    BY <1>3, <1>8, <1>13, <2>1, LogStays DEF Slots
<1>14. Distinct'
  <2> SUFFICES ASSUME NEW i \in 1 .. n, NEW j \in 1 .. n,
                      log'[i].kind = "create", log'[j].kind = "create", i # j
               PROVE  /\ log'[i].server # log'[j].server
                      /\ creator'[log'[i].server] # creator'[log'[j].server]
    BY <1>9 DEF Distinct
  <2>1. CASE i = n
    <3>1. j \in 1 .. Len(log) /\ log[j].kind = "create" /\ log'[j] = log[j]
      BY <1>9, <2>1
    <3> QED
      BY <1>6, <1>9, <1>10, <1>13, <2>1, <3>1
  <2>2. CASE j = n
    <3>1. i \in 1 .. Len(log) /\ log[i].kind = "create" /\ log'[i] = log[i]
      BY <1>9, <2>2
    <3> QED
      BY <1>6, <1>9, <1>10, <1>13, <2>2, <3>1
  <2>3. CASE i # n /\ j # n
    <3>1. /\ i \in 1 .. Len(log) /\ log[i].kind = "create" /\ log'[i] = log[i]
          /\ j \in 1 .. Len(log) /\ log[j].kind = "create" /\ log'[j] = log[j]
      BY <1>9, <2>3
    <3>2. /\ log[i].server # log[j].server
          /\ creator[log[i].server] # creator[log[j].server]
      BY <3>1 DEF LogInv, Distinct
    <3> QED
      BY <1>13, <3>1, <3>2
  <2> QED
    BY <2>1, <2>2, <2>3
<1>15. Announcing(c)'
  <2>1. ASSUME NEW i \in 1 .. Len(up'[c]) PROVE up'[c][i].kind # "create"
    <3>1. i + k \in 1 .. Len(up[c]) /\ i + k # 1
      BY <1>2, <1>7, BoundsAssumption
    <3> QED
      BY <1>2, <1>8, <3>1
  <2> QED
    BY <2>1 DEF Announcing
<1>16. ASSUME NEW d \in Clients, d # c PROVE Announcing(d)'
  <2>1. up'[d] = up[d] /\ up[d] \in Seq(Message)
    BY <1>2, <1>16 DEF TInv, TypeOK
  <2>2. \A i \in 1 .. Len(log') : log'[i].kind = "create" /\ creator'[log'[i].server] = d
                                    => i \in 1 .. Len(log)
    BY <1>6, <1>9, <1>10, <1>16
  <2>3. \A i \in 1 .. Len(up'[d]) : i + 0 \in 1 .. Len(up[d]) /\ up'[d][i] = up[d][i + 0]
    BY <2>1
  <2> QED
    BY <2>2, <2>3, UpKept
<1> QED
  BY <1>12, <1>14, <1>15, <1>16

\* What is sent is a message, as the streams are typed.
LEMMA SentIsMessage ==
    ASSUME TInv, TInv', NEW c \in Clients, NEW m, up' = [up EXCEPT ![c] = Append(@, m)]
    PROVE  m \in Message
<1>1. up'[c] = Append(up[c], m) /\ up[c] \in Seq(Message) /\ up'[c] \in Seq(Message)
  BY DEF TInv, TypeOK
<1>2. Len(up'[c]) = Len(up[c]) + 1 /\ up'[c][Len(up[c]) + 1] = m
  BY <1>1
<1> QED
  BY <1>1, <1>2

\* Every step keeps the announcements apart, in the log and on their way.
LEMMA LogStep == TInv /\ TInv' /\ IdInv /\ LogInv /\ [Next]_vars => LogInv'
<1> SUFFICES ASSUME TInv, TInv', IdInv, LogInv, [Next]_vars PROVE LogInv'
  OBVIOUS
<1>1. Grows
  BY StepGrows
<1>2. \A c \in Clients : OwnPlayer(c)'
  BY <1>1, OwnPlayerStep
<1>3. ASSUME NEW c \in Clients, NEW k \in 1 .. MaxRead, HandleCreate(c, k) PROVE LogInv'
  BY <1>1, <1>2, <1>3, LogCreate DEF LogInv
\* A step that announces nothing new, in the log or to the server.
<1>4. ASSUME \A i \in 1 .. Len(log') : log'[i].kind = "create" => i \in 1 .. Len(log),
             \A c \in Clients : \E k \in Nat : \A i \in 1 .. Len(up'[c]) :
                up'[c][i].kind = "create" => i + k \in 1 .. Len(up[c]) /\ up'[c][i] = up[c][i + k]
      PROVE  LogInv'
  <2>1. ASSUME NEW c \in Clients PROVE Announcing(c)'
    <3>1. PICK k \in Nat : \A i \in 1 .. Len(up'[c]) :
             up'[c][i].kind = "create" => i + k \in 1 .. Len(up[c]) /\ up'[c][i] = up[c][i + k]
      BY <1>4
    <3> QED
      BY <1>1, <1>4, <3>1, UpKept
  <2> QED
    BY <1>1, <1>2, <1>4, <2>1, LogKept DEF LogInv
\* Nor does one that appends something else to the stream of a client.
<1>5. ASSUME log' = log, NEW c \in Clients, NEW m \in Message, m.kind # "create",
             up' = [up EXCEPT ![c] = Append(@, m)]
      PROVE  LogInv'
  <2>1. ASSUME NEW d \in Clients
        PROVE  \A i \in 1 .. Len(up'[d]) : up'[d][i].kind = "create" =>
                 i + 0 \in 1 .. Len(up[d]) /\ up'[d][i] = up[d][i + 0]
    <3>1. up[d] \in Seq(Message) /\ (up'[d] = up[d] \/ up'[d] = Append(up[d], m))
      BY <1>5 DEF TInv, TypeOK
    <3> QED
      BY <1>5, <3>1, AppendTo
  <2> QED
    BY <1>4, <1>5, <2>1
<1>6. ASSUME log' = log, up' = up PROVE LogInv'
  <2>1. \A c \in Clients : \A i \in 1 .. Len(up'[c]) :
          up'[c][i].kind = "create" => i + 0 \in 1 .. Len(up[c]) /\ up'[c][i] = up[c][i + 0]
    BY <1>6
  <2> QED
    BY <1>4, <1>6, <2>1
<1>7. ASSUME NEW c \in Clients, NEW k \in 1 .. MaxRead, HandleTransform(c, k) \/ HandleSync(c, k)
      PROVE  LogInv'
  <2>1. /\ k <= Len(up[c]) /\ Head(up[c]) \in Message
        /\ up' = [up EXCEPT ![c] = up'[c]] /\ Len(up'[c]) = Len(up[c]) - k
        /\ \A i \in 1 .. Len(up'[c]) : up'[c][i] = up[c][i + k]
    BY <1>7, TRead DEF HandleTransform, HandleSync, Read, TInv
  <2>2. \A i \in 1 .. Len(log') : log'[i].kind = "create" => i \in 1 .. Len(log)
    <3>1. CASE HandleTransform(c, k)
      <4>1. log \in Seq(Message) /\ log' = Append(log, Head(up[c])) /\ Head(up[c]).kind # "create"
        BY <3>1 DEF HandleTransform, TInv, TypeOK
      <4> QED
        BY <2>1, <4>1, AppendTo
    <3>2. CASE HandleSync(c, k)
      BY <3>2 DEF HandleSync, serverVars
    <3> QED
      BY <1>7, <3>1, <3>2
  <2>3. ASSUME NEW d \in Clients
        PROVE  \E j \in Nat : \A i \in 1 .. Len(up'[d]) :
                 up'[d][i].kind = "create" => i + j \in 1 .. Len(up[d]) /\ up'[d][i] = up[d][i + j]
    <3>1. CASE d = c
      <4>1. k \in Nat /\ Len(up[c]) \in Nat
        BY BoundsAssumption DEF TInv, TypeOK
      <4>2. \A i \in 1 .. Len(up'[c]) : i + k \in 1 .. Len(up[c])
        BY <2>1, <4>1
      <4> QED
        BY <2>1, <3>1, <4>1, <4>2
    <3>2. CASE d # c
      <4>1. up'[d] = up[d]
        BY <2>1, <3>2 DEF TInv, TypeOK
      <4>2. \A i \in 1 .. Len(up'[d]) : i + 0 \in 1 .. Len(up[d]) /\ up'[d][i] = up[d][i + 0]
        BY <4>1
      <4> QED
        BY <4>2
    <3> QED
      BY <3>1, <3>2
  <2> QED
    BY <1>4, <2>2, <2>3
<1>8. ASSUME NEW c \in Clients, ReceiveSync0(c) PROVE LogInv'
  <2> DEFINE m == Sync(1, Head(down[c]).client)
  <2>1. m \in Message /\ m.kind # "create"
    <3>1. Head(down[c]) \in Message /\ Head(down[c]).kind = "sync"
      BY <1>8, TReceived DEF ReceiveSync0, TInv
    <3>2. Head(down[c]).client \in Int
      BY <3>1, MessageKinds
    <3> QED
      BY <3>2, SyncMessage
  <2>2. log' = log /\ up' = [up EXCEPT ![c] = Append(@, m)]
    BY <1>8 DEF ReceiveSync0, Send, serverVars
  <2> HIDE DEF m
  <2> QED
    BY <1>5, <2>1, <2>2
<1>9. ASSUME NEW c \in Clients, User(c) PROVE LogInv'
  <2>1. PICK m : log' = log /\ m.kind = "transform" /\ up' = [up EXCEPT ![c] = Append(@, m)]
    BY <1>9 DEF User, GiveOrder, Send, serverVars
  <2>2. m \in Message
    BY <2>1, SentIsMessage
  <2> QED
    BY <1>5, <2>1, <2>2
<1>10. ASSUME NEW c \in Clients, CreateOwn(c) PROVE LogInv'
  <2> DEFINE m == [kind |-> "create", index |-> 0, player |-> clientId[c], server |-> None]
  <2>1. /\ phase[c] = "connected" /\ phase' = [phase EXCEPT ![c] = "created"]
        /\ Top(arr[c]) = 0 /\ UNCHANGED <<log, creator>>
        /\ up' = [up EXCEPT ![c] = Append(@, m)]
        /\ unit' = [unit EXCEPT ![c][0] = [player |-> clientId[c], server |-> None]] /\ 0 \in Slots
    BY <1>10, TCreateOwn DEF CreateOwn, Send, serverVars
  <2>2. m.kind = "create" /\ m.index = 0 /\ m.player = clientId[c]
    OBVIOUS
  <2> HIDE DEF m
  <2>3. Numbered' /\ Distinct'
    BY <1>1, <2>1, LogKept
  <2>4. ASSUME NEW d \in Clients, d # c PROVE Announcing(d)'
    <3>1. up'[d] = up[d] /\ up[d] \in Seq(Message)
      BY <2>1, <2>4 DEF TInv, TypeOK
    <3>2. \A i \in 1 .. Len(up'[d]) : i + 0 \in 1 .. Len(up[d]) /\ up'[d][i] = up[d][i + 0]
      BY <3>1
    <3>3. \A i \in 1 .. Len(log') : log'[i].kind = "create" => i \in 1 .. Len(log)
      BY <2>1
    <3> QED
      BY <1>1, <3>2, <3>3, UpKept
  <2>5. \A i \in 1 .. Len(up[c]) : up[c][i].kind # "create"
    BY <2>1 DEF LogInv, Announcing, Announces
  <2>6. \A i \in 1 .. Len(log) : log[i].kind = "create" => creator[log[i].server] # c
    BY <2>1 DEF LogInv, Numbered, Announces
  <2>7. phase'[c] = "created" /\ unit'[c][0].player = clientId[c]
    BY <2>1 DEF TInv, TypeOK
  <2>8. /\ Len(up'[c]) = Len(up[c]) + 1 /\ up'[c][Len(up[c]) + 1] = m /\ Len(up[c]) \in Nat
        /\ \A i \in 1 .. Len(up[c]) : up'[c][i] = up[c][i]
    <3>1. up'[c] = Append(up[c], m) /\ up[c] \in Seq(Message)
      BY <2>1 DEF TInv, TypeOK
    <3> QED
      BY <3>1
  <2>9. \A i \in 1 .. Len(up'[c]) : up'[c][i].kind = "create" => i = Len(up[c]) + 1
    BY <2>5, <2>8
  <2>10. Announcing(c)'
    BY <2>1, <2>2, <2>6, <2>7, <2>8, <2>9 DEF Announcing, Announces
  <2> QED
    BY <1>2, <2>3, <2>4, <2>10 DEF LogInv
<1>11. CASE UNCHANGED vars \/ TickSend
  BY <1>6, <1>11 DEF vars, serverVars, TickSend
<1>12. ASSUME NEW c \in Clients,
              \/ AcceptThread(c) \/ ReceiveSync2(c) \/ ReceiveGame(c) \/ StartLoop(c)
              \/ ProcessOwn(c) \/ ProcessOther(c) \/ ProcessTransform(c) \/ Lose(c)
       PROVE  LogInv'
  BY <1>6, <1>12 DEF AcceptThread, Accept, SendSync, Register, ReceiveSync2, ReceiveGame, StartLoop,
     ProcessOwn, ProcessOther, ProcessTransform, Process, Take, Lose, serverVars
<1> QED
  BY <1>3, <1>7, <1>8, <1>9, <1>10, <1>11, <1>12 DEF Next, WorkerThread, ReceiveThread, MainLoop

-----------------------------------------------------------------------------
(* The clients' copies. *)

\* All that is used of the layers below.
Below == TInv /\ IdInv /\ StreamInv /\ LogInv

\* There are no copies at first.
LEMMA CopyInit == Init => CopyInv
<1> SUFFICES ASSUME Init, NEW c \in Clients PROVE UnitsOK(c) /\ KnownOK(c)
  BY DEF CopyInv
<1>1. UnitsOK(c)
  BY DEF Init, UnitsOK, NewUnit
<1>2. KnownOK(c)
  BY DEF Init, KnownOK, Known
<1> QED
  BY <1>1, <1>2

\* A unit a client knows was announced in the part of the log it has handled.
LEMMA KnownSettled ==
    ASSUME Below, CopyInv, NEW c \in Clients, NEW s \in Known(c)
    PROVE  /\ \E i \in 1 .. Len(log) : /\ i \in joined[c] + 1 .. handled[c]
                                       /\ log[i].kind = "create" /\ log[i].server = s
           /\ s \in Slots /\ s < serverArr.back /\ stage[c] = "registered"
<1>1. stage[c] = "registered"
  BY DEF Below, IdInv, Identity
<1>2. PICK i \in joined[c] + 1 .. handled[c] : log[i].kind = "create" /\ log[i].server = s
  <2>1. KnownOK(c)
    BY DEF CopyInv
  <2> QED
    BY <2>1 DEF KnownOK
<1>3. handled[c] + Len(pending[c]) <= broadcast
  BY <1>1 DEF Below, StreamInv, StreamOK, InPlace
<1>4. /\ handled[c] \in Nat /\ joined[c] \in Nat /\ Len(pending[c]) \in Nat
      /\ broadcast \in 0 .. Len(log) /\ Len(log) \in Nat
  BY DEF Below, TInv, TypeOK
<1>5. i \in 1 .. Len(log)
  BY <1>3, <1>4
<1>6. s \in Slots /\ s < serverArr.back
  BY <1>2, <1>5 DEF Below, LogInv, Numbered
<1> QED
  BY <1>1, <1>2, <1>5, <1>6

\* A unit that has a server index is known by it.
LEMMA NumberedIsKnown ==
    ASSUME Below, CopyInv, NEW c \in Clients, NEW t \in Slots, unit[c][t].server # None
    PROVE  unit[c][t].server \in Known(c)
<1>1. index[c][unit[c][t].server] = t
  BY DEF CopyInv, UnitsOK
<1>2. unit[c] \in [Slots -> [player : Int, server : Number]]
  BY DEF Below, TInv, TypeOK
<1>3. unit[c][t].server \in Slots
  BY <1>2 DEF Number
<1> QED
  BY <1>1, <1>3, IndexRangeAssumption DEF Known, Slots, None

\* What a client has copied stays, while it makes no unit and its part of the log grows.
LEMMA CopyStays ==
    ASSUME Below, CopyInv, Grows, NEW c \in Clients,
           arr'[c].back = arr[c].back, unit'[c] = unit[c], index'[c] = index[c], own'[c] = own[c],
           Known(c) # {} => joined'[c] = joined[c] /\ handled'[c] >= handled[c],
           handled'[c] \in Nat
    PROVE  UnitsOK(c)' /\ KnownOK(c)'
<1>1. UnitsOK(c) /\ KnownOK(c) /\ Known(c)' = Known(c)
  BY DEF CopyInv, Known
<1>2. \A s \in Known(c) : owner'[s] = owner[s] /\ creator'[s] = creator[s]
  BY KnownSettled DEF Grows
<1>3. UnitsOK(c)'
  BY <1>1, <1>2, NumberedIsKnown DEF UnitsOK
<1>4. ASSUME NEW s \in Known(c)
      PROVE  \E i \in joined'[c] + 1 .. handled'[c] : log'[i].kind = "create" /\ log'[i].server = s
  <2>1. PICK i \in 1 .. Len(log) : /\ i \in joined[c] + 1 .. handled[c]
                                   /\ log[i].kind = "create" /\ log[i].server = s
    BY KnownSettled
  <2>2. log'[i] = log[i]
    BY DEF Grows
  <2>3. joined[c] \in Nat /\ handled[c] \in Nat
    BY DEF Below, TInv, TypeOK
  <2>4. i \in joined'[c] + 1 .. handled'[c]
    BY <1>4, <2>1, <2>3
  <2> QED
    BY <2>1, <2>2, <2>4
<1>5. KnownOK(c)'
  BY <1>1, <1>2, <1>4 DEF KnownOK
<1> QED
  BY <1>3, <1>5

\* A client that takes a message is registered and knows its id, and the message is the next
\* of the log.
LEMMA Taken ==
    ASSUME Below, NEW c \in Clients, Take(c)
    PROVE  /\ stage[c] = "registered" /\ clientId[c] = id[c] /\ id[c] # None
           /\ Head(pending[c]) = log[handled[c] + 1] /\ Head(pending[c]) = pending[c][1]
           /\ handled[c] + 1 \in 1 .. Len(log) /\ handled[c] \in Nat /\ joined[c] \in Nat
           /\ joined[c] <= handled[c] /\ handled'[c] = handled[c] + 1
           /\ handled[c] + 1 \in joined[c] + 1 .. handled'[c]
<1>1. /\ Head(pending[c]) = pending[c][1] /\ pending[c] # <<>> /\ Len(pending[c]) > 0
      /\ handled' = [handled EXCEPT ![c] = handled[c] + 1]
  BY TTaken DEF Below, TInv
<1>2. stage[c] = "registered" /\ clientId[c] = id[c] /\ id[c] # None
  BY <1>1 DEF Below, IdInv, Identity, Told, Untold
<1>3. joined[c] <= handled[c] /\ InPlace(c)
  BY <1>2 DEF Below, StreamInv, StreamOK
<1>4. /\ handled[c] \in Nat /\ joined[c] \in Nat /\ Len(pending[c]) \in Nat
      /\ broadcast \in 0 .. Len(log) /\ Len(log) \in Nat /\ handled'[c] = handled[c] + 1
  BY <1>1 DEF Below, TInv, TypeOK
<1>5. pending[c][1] = log[handled[c] + 1] /\ handled[c] + 1 \in 1 .. Len(log)
  BY <1>1, <1>3, <1>4 DEF InPlace
<1> QED
  BY <1>1, <1>2, <1>3, <1>4, <1>5

\* The unit a client processes the announcement of is new to it.
LEMMA TakenIsNew ==
    ASSUME Below, CopyInv, NEW c \in Clients, Take(c), NEW m, m = Head(pending[c]),
           m.kind = "create"
    PROVE  /\ m.server \in Slots /\ m.server \notin Known(c) /\ index[c][m.server] = None
           /\ m.server < serverArr.back /\ owner[m.server] = m.player
           /\ creator[m.server] \in Clients /\ Announces(m, creator[m.server])
           /\ \A s \in Known(c) : creator[s] # creator[m.server]
<1>1. m = log[handled[c] + 1] /\ handled[c] + 1 \in 1 .. Len(log) /\ handled[c] \in Nat
  BY Taken
<1>2. /\ m.server \in Slots /\ m.server < serverArr.back /\ owner[m.server] = m.player
      /\ creator[m.server] \in Clients /\ Announces(m, creator[m.server])
  BY <1>1 DEF Below, LogInv, Numbered
<1>3. ASSUME NEW s \in Known(c) PROVE s # m.server /\ creator[s] # creator[m.server]
  <2>1. PICK i \in 1 .. Len(log) : /\ i \in joined[c] + 1 .. handled[c]
                                   /\ log[i].kind = "create" /\ log[i].server = s
    BY KnownSettled
  <2>2. i # handled[c] + 1
    BY <1>1, <2>1
  <2> QED
    BY <1>1, <2>1, <2>2 DEF Below, LogInv, Distinct
<1> QED
  BY <1>2, <1>3 DEF Known

\* The client's own unit, in slot 0, is told its number.
LEMMA CopyOwn ==
    ASSUME Below, CopyInv, Grows, NEW c \in Clients, ProcessOwn(c)
    PROVE  /\ UnitsOK(c)' /\ KnownOK(c)'
           /\ \A d \in Clients : d # c => unit'[d] = unit[d] /\ index'[d] = index[d]
           /\ 0 \in Slots /\ index' = Insert(c, Head(pending[c]).server, 0)
<1> DEFINE mm == Head(pending[c])
<1>1. Take(c) /\ mm.kind = "create" /\ mm.player = clientId[c]
  BY DEF ProcessOwn, Process
<1>2. PICK m : m = mm
  OBVIOUS
<1>3. PICK s \in Slots : s = m.server
  BY <1>1, <1>2, TakenIsNew
<1>4. /\ s \notin Known(c) /\ index[c][s] = None /\ s < serverArr.back /\ owner[s] = m.player
      /\ creator[s] \in Clients /\ Announces(m, creator[s])
      /\ \A u \in Known(c) : creator[u] # creator[s]
  BY <1>1, <1>2, <1>3, TakenIsNew
<1>5. creator[s] = c
  <2>1. m.player \in {None, id[creator[s]]}
    BY <1>4 DEF Announces, Below, LogInv, OwnPlayer
  <2>2. m.player = id[c] /\ id[c] # None
    BY <1>1, <1>2, Taken
  <2> QED
    BY <1>4, <2>1, <2>2 DEF Below, IdInv, IdsDiffer
<1>6. m.index = 0 /\ unit[c][0].player = owner[s]
  BY <1>4, <1>5 DEF Announces
<1>7. own[c] = 0 /\ arr[c].back > 0 /\ 0 \in Slots /\ arr' = arr /\ own' = own /\ joined' = joined
  BY <1>1, IndexRangeAssumption
     DEF ProcessOwn, Process, Take, serverVars, Below, TInv, Shapes, OwnFirst, Slots
<1>8. Valid(arr[c], m.index)
  BY <1>6, <1>7, GrownArray DEF Below, TInv, TypeOK, Shapes
<1>9. unit' = [unit EXCEPT ![c][0].server = s] /\ index' = Insert(c, s, 0)
  BY <1>2, <1>3, <1>6, <1>8 DEF ProcessOwn
<1> HIDE DEF mm
<1>10. /\ unit[c] \in [Slots -> [player : Int, server : Number]] /\ unit[c][0] \in [player : Int, server : Number]
       /\ unit'[c] = [unit[c] EXCEPT ![0].server = s]
       /\ \A d \in Clients : d # c => unit'[d] = unit[d]
  BY <1>7, <1>9 DEF Below, TInv, TypeOK
<1>11. /\ unit'[c][0] = [player |-> owner[s], server |-> s]
       /\ \A t \in Slots : t # 0 => unit'[c][t] = unit[c][t]
  BY <1>6, <1>7, <1>10
<1>12. /\ \A u \in Slots : index'[c][u] = IF u = s THEN 0 ELSE index[c][u]
       /\ \A d \in Clients : d # c => index'[d] = index[d]
  <2>1. s \in Number
    BY DEF Number
  <2>2. /\ index' = [index EXCEPT ![c] = index'[c]]
        /\ \A u \in Slots : index'[c][u] = IF u = s /\ index[c][u] = None THEN 0 ELSE index[c][u]
    BY <1>7, <1>9, <2>1, TInsert DEF Below, TInv
  <2> QED
    BY <1>4, <2>2 DEF Below, TInv, TypeOK
<1>13. Known(c)' = Known(c) \cup {s}
  BY <1>12 DEF Known, None
<1>14. unit[c][0].server = None
  <2> SUFFICES ASSUME unit[c][0].server # None PROVE FALSE
    OBVIOUS
  <2>1. unit[c][0].server \in Known(c) /\ index[c][unit[c][0].server] = own[c]
    BY <1>7, NumberedIsKnown DEF CopyInv, UnitsOK
  <2> QED
    BY <1>4, <1>5, <2>1 DEF CopyInv, KnownOK
<1>15. \A u \in Known(c) \cup {s} : owner'[u] = owner[u] /\ creator'[u] = creator[u]
  BY <1>4, KnownSettled DEF Grows
<1>16. UnitsOK(c)'
  <2> SUFFICES ASSUME NEW t \in Slots, unit'[c][t].server # None
               PROVE  /\ t < arr'[c].back
                      /\ index'[c][unit'[c][t].server] = t
                      /\ owner'[unit'[c][t].server] = unit'[c][t].player
    BY DEF UnitsOK
  <2>1. CASE t = 0
    BY <1>7, <1>11, <1>12, <1>15, <2>1
  <2>2. CASE t # 0
    <3>1. unit'[c][t] = unit[c][t] /\ unit[c][t].server \in Known(c)
      BY <1>11, <2>2, NumberedIsKnown
    <3> QED
      BY <1>4, <1>7, <1>12, <1>15, <3>1 DEF CopyInv, UnitsOK, Known
  <2> QED
    BY <2>1, <2>2
<1>17. KnownOK(c)'
  <2> SUFFICES ASSUME NEW u \in Known(c) \cup {s}
               PROVE  /\ index'[c][u] \in Slots
                      /\ unit'[c][index'[c][u]] = [player |-> owner'[u], server |-> u]
                      /\ \E i \in joined'[c] + 1 .. handled'[c] :
                            log'[i].kind = "create" /\ log'[i].server = u
                      /\ index'[c][u] = own'[c] => creator'[u] = c
    BY <1>13 DEF KnownOK
  <2>1. CASE u = s
    <3>1. /\ handled[c] + 1 \in joined'[c] + 1 .. handled'[c]
          /\ log'[handled[c] + 1] = m
      BY <1>1, <1>2, <1>7, Taken DEF Grows, mm
    <3>2. m.kind = "create" /\ m.server = s
      BY <1>1, <1>2, <1>3
    <3> QED
      BY <1>5, <1>7, <1>11, <1>12, <1>15, <2>1, <3>1, <3>2
  <2>2. CASE u # s
    <3>1. /\ u \in Known(c) /\ index[c][u] \in Slots /\ u \in Slots
          /\ unit[c][index[c][u]] = [player |-> owner[u], server |-> u]
          /\ index[c][u] = own[c] => creator[u] = c
      BY <2>2 DEF CopyInv, KnownOK, Known
    <3>2. index'[c][u] = index[c][u] /\ u # None
      BY <1>12, <2>2, <3>1, IndexRangeAssumption DEF Slots, None
    <3>3. index[c][u] # 0
      BY <1>14, <3>1, <3>2
    <3>4. PICK i \in 1 .. Len(log) : /\ i \in joined[c] + 1 .. handled[c]
                                     /\ log[i].kind = "create" /\ log[i].server = u
      BY <3>1, KnownSettled
    <3>5. i \in joined'[c] + 1 .. handled'[c] /\ log'[i] = log[i]
      BY <1>1, <1>7, <3>4, Taken DEF Grows
    <3> QED
      BY <1>7, <1>11, <1>15, <3>1, <3>2, <3>3, <3>4, <3>5
  <2> QED
    BY <2>1, <2>2
<1> QED
  BY <1>2, <1>3, <1>7, <1>9, <1>10, <1>12, <1>16, <1>17 DEF mm

\* Another client's unit goes to a slot that was not in use.
LEMMA CopyOther ==
    ASSUME Below, CopyInv, Grows, NEW c \in Clients, ProcessOther(c)
    PROVE  /\ UnitsOK(c)' /\ KnownOK(c)'
           /\ \A d \in Clients : d # c =>
                unit'[d] = unit[d] /\ index'[d] = index[d] /\ arr'[d] = arr[d]
           /\ arr[c].back \in Slots /\ index' = Insert(c, Head(pending[c]).server, arr[c].back)
<1> DEFINE mm == Head(pending[c])
<1>1. Take(c) /\ mm.kind = "create" /\ mm.player # clientId[c]
  BY DEF ProcessOther, Process
<1>2. PICK m : m = mm
  OBVIOUS
<1>3. PICK s \in Slots : s = m.server
  BY <1>1, <1>2, TakenIsNew
<1>4. /\ s \notin Known(c) /\ index[c][s] = None /\ s < serverArr.back /\ owner[s] = m.player
  BY <1>1, <1>2, <1>3, TakenIsNew
<1>5. PICK slot \in Slots :
        /\ slot = arr[c].back /\ Top(arr[c]) = slot
        /\ arr' = [arr EXCEPT ![c] = arr'[c]] /\ arr'[c].back = slot + 1
        /\ unit' = [unit EXCEPT ![c][slot] = [player |-> m.player, server |-> m.server]]
  BY <1>2, TProcessOther DEF Below
<1>6. index' = Insert(c, s, slot) /\ own' = own /\ joined' = joined
  BY <1>2, <1>3, <1>5 DEF ProcessOther, Process, Take, serverVars
<1>7. own[c] = 0 /\ slot > 0 /\ slot < arr'[c].back /\ slot # None
  <2>1. own[c] = 0 /\ arr[c].back > 0
    BY <1>1 DEF Take, Below, TInv, Shapes, OwnFirst
  <2> QED
    BY <1>5, <2>1 DEF Slots, None
<1> HIDE DEF mm
<1>8. /\ unit[c] \in [Slots -> [player : Int, server : Number]]
      /\ unit'[c] = [unit[c] EXCEPT ![slot] = [player |-> m.player, server |-> m.server]]
      /\ \A d \in Clients : d # c => unit'[d] = unit[d] /\ arr'[d] = arr[d]
  BY <1>5 DEF Below, TInv, TypeOK
<1>9. /\ unit'[c][slot] = [player |-> owner[s], server |-> s]
      /\ \A t \in Slots : t # slot => unit'[c][t] = unit[c][t]
  BY <1>3, <1>4, <1>8
<1>10. /\ \A u \in Slots : index'[c][u] = IF u = s THEN slot ELSE index[c][u]
       /\ \A d \in Clients : d # c => index'[d] = index[d]
  <2>1. s \in Number
    BY DEF Number
  <2>2. /\ index' = [index EXCEPT ![c] = index'[c]]
        /\ \A u \in Slots : index'[c][u] = IF u = s /\ index[c][u] = None THEN slot ELSE index[c][u]
    BY <1>6, <2>1, TInsert DEF Below, TInv
  <2> QED
    BY <1>4, <2>2 DEF Below, TInv, TypeOK
<1>11. Known(c)' = Known(c) \cup {s}
  BY <1>7, <1>10 DEF Known
<1>12. \A t \in Slots : unit[c][t].server # None => t # slot /\ t < arr'[c].back
  <2> SUFFICES ASSUME NEW t \in Slots, unit[c][t].server # None PROVE t # slot /\ t < arr'[c].back
    OBVIOUS
  <2>1. t < arr[c].back
    BY DEF CopyInv, UnitsOK
  <2> QED
    BY <1>5, <2>1 DEF Slots
<1>13. \A u \in Known(c) \cup {s} : owner'[u] = owner[u] /\ creator'[u] = creator[u]
  BY <1>4, KnownSettled DEF Grows
<1>14. UnitsOK(c)'
  <2> SUFFICES ASSUME NEW t \in Slots, unit'[c][t].server # None
               PROVE  /\ t < arr'[c].back
                      /\ index'[c][unit'[c][t].server] = t
                      /\ owner'[unit'[c][t].server] = unit'[c][t].player
    BY DEF UnitsOK
  <2>1. CASE t = slot
    BY <1>7, <1>9, <1>10, <1>13, <2>1
  <2>2. CASE t # slot
    <3>1. unit'[c][t] = unit[c][t] /\ unit[c][t].server \in Known(c)
      BY <1>9, <2>2, NumberedIsKnown
    <3> QED
      BY <1>4, <1>10, <1>12, <1>13, <3>1 DEF CopyInv, UnitsOK, Known
  <2> QED
    BY <2>1, <2>2
<1>15. KnownOK(c)'
  <2> SUFFICES ASSUME NEW u \in Known(c) \cup {s}
               PROVE  /\ index'[c][u] \in Slots
                      /\ unit'[c][index'[c][u]] = [player |-> owner'[u], server |-> u]
                      /\ \E i \in joined'[c] + 1 .. handled'[c] :
                            log'[i].kind = "create" /\ log'[i].server = u
                      /\ index'[c][u] = own'[c] => creator'[u] = c
    BY <1>11 DEF KnownOK
  <2>1. CASE u = s
    <3>1. /\ handled[c] + 1 \in joined'[c] + 1 .. handled'[c]
          /\ log'[handled[c] + 1] = m
      BY <1>1, <1>2, <1>6, Taken DEF Grows, mm
    <3>2. m.kind = "create" /\ m.server = s
      BY <1>1, <1>2, <1>3
    <3>3. slot # own'[c]
      BY <1>6, <1>7
    <3> QED
      BY <1>9, <1>10, <1>13, <2>1, <3>1, <3>2, <3>3
  <2>2. CASE u # s
    <3>1. /\ u \in Known(c) /\ index[c][u] \in Slots /\ u \in Slots
          /\ unit[c][index[c][u]] = [player |-> owner[u], server |-> u]
          /\ index[c][u] = own[c] => creator[u] = c
      BY <2>2 DEF CopyInv, KnownOK, Known
    <3>2. index'[c][u] = index[c][u] /\ u # None
      BY <1>10, <2>2, <3>1, IndexRangeAssumption DEF Slots, None
    <3>3. index[c][u] # slot
      BY <1>12, <3>1, <3>2
    <3>4. PICK i \in 1 .. Len(log) : /\ i \in joined[c] + 1 .. handled[c]
                                     /\ log[i].kind = "create" /\ log[i].server = u
      BY <3>1, KnownSettled
    <3>5. i \in joined'[c] + 1 .. handled'[c] /\ log'[i] = log[i]
      BY <1>1, <1>6, <3>4, Taken DEF Grows
    <3> QED
      BY <1>6, <1>9, <1>13, <3>1, <3>2, <3>3, <3>4, <3>5
  <2> QED
    BY <2>1, <2>2
<1> QED
  BY <1>2, <1>3, <1>5, <1>6, <1>8, <1>10, <1>14, <1>15 DEF mm

\* The client's own unit goes to slot 0 before anything is known.
LEMMA CopyCreateOwn ==
    ASSUME Below, CopyInv, NEW c \in Clients, CreateOwn(c)
    PROVE  /\ UnitsOK(c)' /\ KnownOK(c)' /\ Known(c) = {}
           /\ \A d \in Clients : d # c => unit'[d] = unit[d] /\ arr'[d] = arr[d] /\ own'[d] = own[d]
<1>1. /\ arr[c].back = 0 /\ 0 \in Slots /\ arr' = [arr EXCEPT ![c] = arr'[c]]
      /\ unit' = [unit EXCEPT ![c][0] = [player |-> clientId[c], server |-> None]]
  BY TCreateOwn DEF Below
<1>2. index' = index /\ own' = [own EXCEPT ![c] = Top(arr[c])]
  BY DEF CreateOwn
<1>3. \A t \in Slots : unit[c][t].server = None
  BY <1>1 DEF CopyInv, UnitsOK, Slots
<1>4. Known(c) = {}
  <2> SUFFICES ASSUME NEW s \in Known(c) PROVE FALSE
    OBVIOUS
  <2>1. index[c][s] \in Slots /\ unit[c][index[c][s]] = [player |-> owner[s], server |-> s]
    BY DEF CopyInv, KnownOK
  <2>2. s \in Slots
    BY DEF Known
  <2> QED
    BY <1>3, <2>1, <2>2, IndexRangeAssumption DEF Slots, None
<1>5. \A t \in Slots : unit'[c][t].server = None
  BY <1>1, <1>3 DEF Below, TInv, TypeOK
<1>6. UnitsOK(c)'
  BY <1>5 DEF UnitsOK
<1>7. KnownOK(c)'
  BY <1>2, <1>4 DEF KnownOK, Known
<1> QED
  BY <1>1, <1>2, <1>4, <1>6, <1>7 DEF Below, TInv, TypeOK

\* Every step keeps the clients' copies in agreement with the server.
LEMMA CopyStep == Below /\ TInv' /\ CopyInv /\ [Next]_vars => CopyInv'
<1> SUFFICES ASSUME Below, TInv', CopyInv, [Next]_vars PROVE CopyInv'
  OBVIOUS
<1>1. Grows
  BY StepGrows DEF Below
<1>2. \A d \in Clients : handled[d] \in Nat /\ handled'[d] \in Nat
  BY DEF Below, TInv, TypeOK
\* The clients that a step does not concern.
<1>3. ASSUME NEW d \in Clients,
             arr'[d].back = arr[d].back, unit'[d] = unit[d], index'[d] = index[d], own'[d] = own[d],
             joined'[d] = joined[d], handled'[d] >= handled[d]
      PROVE  UnitsOK(d)' /\ KnownOK(d)'
  BY <1>1, <1>2, <1>3, CopyStays
<1>4. ASSUME UNCHANGED <<worldVars, own, joined, handled>> PROVE CopyInv'
  BY <1>2, <1>3, <1>4 DEF worldVars, CopyInv
<1>5. ASSUME NEW c \in Clients, Register(c) PROVE CopyInv'
  <2>1. /\ UNCHANGED <<arr, unit, index, own>> /\ stage[c] # "registered"
        /\ \A d \in Clients : d # c => joined'[d] = joined[d] /\ handled'[d] = handled[d]
    BY <1>5 DEF Register, worldVars, Below, TInv, TypeOK
  <2>2. Known(c) = {}
    BY <2>1 DEF Below, IdInv, Identity
  <2>3. UnitsOK(c)' /\ KnownOK(c)'
    BY <1>1, <1>2, <2>1, <2>2, CopyStays
  <2> QED
    BY <1>2, <1>3, <2>1, <2>3 DEF CopyInv
<1>6. ASSUME NEW c \in Clients, CreateOwn(c) PROVE CopyInv'
  <2>1. UNCHANGED <<index, joined, handled>>
    BY <1>6 DEF CreateOwn, serverVars
  <2> QED
    BY <1>2, <1>3, <1>6, <2>1, CopyCreateOwn DEF CopyInv
<1>7. ASSUME NEW c \in Clients, Take(c), NEW d \in Clients
      PROVE  own'[d] = own[d] /\ joined'[d] = joined[d] /\ handled'[d] >= handled[d]
  <2>1. own' = own /\ joined' = joined /\ handled' = [handled EXCEPT ![c] = @ + 1]
    BY <1>7 DEF Take, serverVars
  <2>2. handled'[d] = handled[d] \/ handled'[d] = handled[d] + 1
    BY <2>1 DEF Below, TInv, TypeOK
  <2> QED
    BY <1>2, <2>1, <2>2
<1>8. ASSUME NEW c \in Clients, ProcessOwn(c) PROVE CopyInv'
  <2>1. Take(c) /\ arr' = arr
    BY <1>8 DEF ProcessOwn, Process
  <2> QED
    BY <1>1, <1>3, <1>7, <1>8, <2>1, CopyOwn DEF CopyInv
<1>9. ASSUME NEW c \in Clients, ProcessOther(c) PROVE CopyInv'
  <2>1. Take(c)
    BY <1>9 DEF ProcessOther, Process
  <2> QED
    BY <1>1, <1>3, <1>7, <1>9, <2>1, CopyOther DEF CopyInv
<1>10. ASSUME NEW c \in Clients, ProcessTransform(c) \/ Lose(c) PROVE CopyInv'
  <2>1. Take(c) /\ UNCHANGED <<arr, unit, index>>
    BY <1>10 DEF ProcessTransform, Lose, Process, worldVars
  <2> QED
    BY <1>3, <1>7, <2>1 DEF CopyInv
<1>11. CASE UNCHANGED vars \/ TickSend
  BY <1>4, <1>11 DEF vars, serverVars, clientVars, TickSend
<1>12. ASSUME NEW c \in Clients,
              Accept(c) \/ SendSync(c) \/ WorkerThread(c) \/ ReceiveThread(c) \/ StartLoop(c) \/ User(c)
       PROVE  CopyInv'
  BY <1>4, <1>12 DEF Accept, SendSync, WorkerThread, HandleCreate, HandleTransform, HandleSync,
     ReceiveThread, ReceiveSync0, ReceiveSync2, ReceiveGame, StartLoop, User, GiveOrder,
     serverVars, clientVars
<1> QED
  BY <1>5, <1>6, <1>8, <1>9, <1>10, <1>11, <1>12 DEF Next, AcceptThread, MainLoop

\* The layers so far hold together.
LEMMA Copies == Spec => [](Below /\ CopyInv)
<1>1. Init => Below /\ CopyInv
  BY TInit, IdInit, StreamInit, LogInit, CopyInit DEF Below
<1>2. Below /\ CopyInv /\ [Next]_vars => (Below /\ CopyInv)'
  BY TStep, IdStep, StreamStep, LogStep, CopyStep DEF Below
<1> QED
  BY <1>1, <1>2, PTL DEF Spec

\* A client's copy of a unit and the server's agree on the player, the unit has the server's
\* number, and no two numbers are mapped to one slot: std::map::insert never finds the number
\* taken, and no announcement is processed twice.
THEOREM CopiesAgree == Spec => []Agreement
<1>1. CopyInv => Agreement
  <2> SUFFICES ASSUME CopyInv, NEW c \in Clients, NEW s \in Known(c)
               PROVE  /\ unit[c][index[c][s]] = [player |-> owner[s], server |-> s]
                      /\ \A t \in Known(c) \ {s} : index[c][t] # index[c][s]
    BY DEF Agreement
  <2>1. \A t \in Known(c) : unit[c][index[c][t]] = [player |-> owner[t], server |-> t]
    BY DEF CopyInv, KnownOK
  <2>2. ASSUME NEW t \in Known(c) PROVE unit[c][index[c][t]].server = t
    <3>1. unit[c][index[c][t]] = [player |-> owner[t], server |-> t]
      BY <2>1
    <3> QED
      BY <3>1
  <2> QED
    BY <2>1, <2>2
<1> QED
  BY <1>1, Copies, PTL

\* The unit a client created at startup is only ever mapped to the server's number of that
\* very unit: an acknowledgement carries the id of its client, and ids differ.
THEOREM OwnUnitAcknowledged == Spec => []AckIsOwn
<1>1. CopyInv => AckIsOwn
  BY DEF CopyInv, KnownOK, AckIsOwn
<1> QED
  BY <1>1, Copies, PTL

-----------------------------------------------------------------------------
(* The orders. *)

\* There are no orders at first.
LEMMA OrderInit == Init => OrderInv
<1> SUFFICES ASSUME Init PROVE OrderInv
  OBVIOUS
<1>1. Len(log) = 0 /\ \A c \in Clients : Len(up[c]) = 0
  BY DEF Init
<1> QED
  BY <1>1 DEF OrderInv, OrderAfterAnnouncement

\* A unit that was never numbered is sent as an index that no unit has.
LEMMA WrapOfNone == Wrap(None) \notin Slots /\ \A s \in Slots : Wrap(s) = s
<1>1. IndexRange \in Nat /\ IndexRange > 1
  BY IndexRangeAssumption
<1>2. \A s \in Slots : Wrap(s) = s
  BY <1>1 DEF Wrap, Slots
<1>3. Wrap(None) = IndexRange - 1
  BY <1>1 DEF Wrap, None
<1> QED
  BY <1>1, <1>2, <1>3 DEF Slots

\* An order stays one for announced units of the player who gave it.
LEMMA OrderStays ==
    ASSUME Below, Grows, NEW m \in Message, m.kind = "transform", OrderOK(m)
    PROVE  OrderOK(m)'
<1>1. m.by \in Clients
  BY MessageKinds
<1>2. phase[m.by] = "running" /\ phase'[m.by] = "running" /\ player'[m.by] = player[m.by]
  BY <1>1 DEF OrderOK, Grows
<1>3. player[m.by] # None => id'[m.by] = id[m.by]
  <2>1. Identity(m.by) /\ stage[m.by] \in {"backlog", "accepted", "synced", "registered"}
    BY <1>1 DEF Below, IdInv, TInv, TypeOK
  <2>2. player[m.by] # None => id[m.by] # None
    BY <2>1 DEF Identity, Told, Untold
  <2> QED
    BY <1>1, <2>2 DEF Grows
<1>4. ASSUME NEW s \in m.units \cap Slots
      PROVE  /\ \E j \in 1 .. Len(log') : log'[j].kind = "create" /\ log'[j].server = s
             /\ player'[m.by] # None => owner'[s] = id'[m.by]
  <2>1. PICK j \in 1 .. Len(log) : log[j].kind = "create" /\ log[j].server = s
    BY DEF OrderOK
  <2>2. s < serverArr.back
    BY <2>1 DEF Below, LogInv, Numbered
  <2>3. owner'[s] = owner[s] /\ log'[j] = log[j] /\ j \in 1 .. Len(log')
    BY <2>2 DEF Grows
  <2> QED
    BY <1>2, <1>3, <2>1, <2>3 DEF OrderOK
<1> QED
  BY <1>2, <1>4 DEF OrderOK

\* A player orders announced units only, and own ones.
LEMMA OrderGiven ==
    ASSUME Below, CopyInv, NEW c \in Clients, NEW p \in Positions, NEW selection,
           GiveOrder(c, selection, p), NEW m,
           m = [kind |-> "transform", position |-> p, by |-> c,
                units |-> {Wrap(unit[c][s].server) : s \in selection}]
    PROVE  OrderOK(m)
<1>1. m.by = c /\ m.units = {Wrap(unit[c][s].server) : s \in selection}
  OBVIOUS
<1>2. phase[c] = "running" /\ selection \subseteq Selectable(c)
  BY DEF GiveOrder
<1>3. ASSUME NEW s \in m.units \cap Slots
      PROVE  /\ \E j \in 1 .. Len(log) : log[j].kind = "create" /\ log[j].server = s
             /\ player[c] # None => owner[s] = id[c]
  <2>1. PICK t \in selection : s = Wrap(unit[c][t].server)
    BY <1>1
  <2>2. t \in Slots /\ unit[c][t].player = player[c]
    BY <1>2 DEF Selectable
  <2>3. unit[c][t].server \in Number
    <3>1. unit[c] \in [Slots -> [player : Int, server : Number]]
      BY DEF Below, TInv, TypeOK
    <3> QED
      BY <2>2, <3>1
  <2>4. unit[c][t].server = s /\ unit[c][t].server # None
    BY <2>1, <2>3, WrapOfNone, IndexRangeAssumption DEF Number, Slots, None
  <2>5. s \in Known(c) /\ owner[s] = player[c]
    BY <2>2, <2>4, NumberedIsKnown DEF CopyInv, UnitsOK
  <2>6. player[c] # None => player[c] = id[c]
    <3>1. Identity(c) /\ stage[c] \in {"backlog", "accepted", "synced", "registered"}
      BY DEF Below, IdInv, TInv, TypeOK
    <3> QED
      BY <3>1 DEF Identity, Told, Untold
  <2> QED
    BY <2>5, <2>6, KnownSettled
<1> QED
  BY <1>1, <1>2, <1>3 DEF OrderOK

\* Every step keeps the orders, in the log and on their way, behind the announcements of the
\* units they name.
LEMMA OrderStep == Below /\ TInv' /\ CopyInv /\ OrderInv /\ [Next]_vars => OrderInv'
<1> SUFFICES ASSUME Below, TInv', CopyInv, OrderInv, [Next]_vars PROVE OrderInv'
  OBVIOUS
<1>1. Grows
  BY StepGrows DEF Below
<1>2. \A d \in Clients : up[d] \in Seq(Message)
  BY DEF Below, TInv, TypeOK
<1>3. log \in Seq(Message) /\ Len(log) \in Nat
  BY DEF Below, TInv, TypeOK
\* The log and the streams have the orders they had, and maybe one more that is in order.
<1>4. ASSUME \A i \in 1 .. Len(log') : log'[i].kind = "transform" =>
               i \in 1 .. Len(log) \/ (i = Len(log) + 1 /\ \E m \in Message : log'[i] = m /\ OrderOK(m)),
             \A d \in Clients : \A i \in 1 .. Len(up'[d]) : up'[d][i].kind = "transform" =>
               \/ \E j \in 1 .. Len(up[d]) : up'[d][i] = up[d][j]
               \/ \E m \in Message : up'[d][i] = m /\ OrderOK(m)
      PROVE  OrderInv'
  <2>1. ASSUME NEW i \in 1 .. Len(log'), log'[i].kind = "transform"
        PROVE  /\ OrderOK(log[i])'
               /\ \A s \in log'[i].units \cap Slots : \E j \in Announced(s)' : j < i
    <3>1. \A s \in Slots : \A j \in Announced(s) : j \in Announced(s)'
      BY <1>1 DEF Announced, Grows
    <3>2. CASE i \in 1 .. Len(log)
      <4>1. log'[i] = log[i] /\ log[i] \in Message
        BY <1>1, <1>3, <3>2 DEF Grows
      <4>2. PICK m \in Message : m = log[i]
        BY <4>1
      <4>3. OrderOK(m)'
        BY <1>1, <2>1, <3>2, <4>1, <4>2, OrderStays DEF OrderInv
      <4>4. OrderOK(log[i])'
        BY <4>1, <4>2, <4>3 DEF OrderOK
      <4>5. \A s \in log[i].units \cap Slots : \E j \in Announced(s) : j < i
        BY <2>1, <3>2, <4>1 DEF OrderInv, OrderAfterAnnouncement
      <4> QED
        BY <3>1, <4>1, <4>4, <4>5
    <3>3. CASE i = Len(log) + 1 /\ \E m \in Message : log'[i] = m /\ OrderOK(m)
      <4>1. PICK m \in Message : log'[i] = m /\ OrderOK(m)
        BY <3>3
      <4>2. OrderOK(m)'
        BY <1>1, <2>1, <4>1, OrderStays
      <4>3. OrderOK(log[i])'
        BY <4>1, <4>2 DEF OrderOK
      <4>4. ASSUME NEW s \in m.units \cap Slots PROVE \E j \in Announced(s) : j < i
        <5>1. PICK j \in 1 .. Len(log) : log[j].kind = "create" /\ log[j].server = s
          BY <4>1 DEF OrderOK
        <5> QED
          BY <1>3, <3>3, <5>1 DEF Announced
      <4> QED
        BY <3>1, <4>1, <4>3, <4>4
    <3> QED
      BY <1>4, <2>1, <3>2, <3>3
  <2>2. ASSUME NEW d \in Clients, NEW i \in 1 .. Len(up'[d]), up'[d][i].kind = "transform"
        PROVE  OrderOK(up[d][i])'
    <3>1. PICK m \in Message : up'[d][i] = m /\ OrderOK(m)
      <4>1. CASE \E j \in 1 .. Len(up[d]) : up'[d][i] = up[d][j]
        BY <1>2, <2>2, <4>1 DEF OrderInv
      <4> QED
        BY <1>4, <2>2, <4>1
    <3>2. OrderOK(m)'
      BY <1>1, <2>2, <3>1, OrderStays
    <3> QED
      BY <3>1, <3>2 DEF OrderOK
  <2> QED
    BY <2>1, <2>2 DEF OrderInv, OrderAfterAnnouncement
<1>5. ASSUME NEW c \in Clients, NEW k \in 1 .. MaxRead,
             HandleCreate(c, k) \/ HandleTransform(c, k) \/ HandleSync(c, k)
      PROVE  OrderInv'
  <2>1. /\ Head(up[c]) \in Message /\ Head(up[c]) = up[c][1] /\ k <= Len(up[c])
        /\ up' = [up EXCEPT ![c] = up'[c]] /\ Len(up'[c]) = Len(up[c]) - k
        /\ \A i \in 1 .. Len(up'[c]) : up'[c][i] = up[c][i + k]
    BY <1>5, TRead DEF HandleCreate, HandleTransform, HandleSync, Read, Below, TInv
  <2>2. k \in Nat \ {0} /\ Len(up[c]) \in Nat
    BY <1>2, BoundsAssumption
  <2>3. ASSUME NEW d \in Clients, NEW i \in 1 .. Len(up'[d])
        PROVE  \E j \in 1 .. Len(up[d]) : up'[d][i] = up[d][j]
    <3>1. CASE d = c
      <4>1. i + k \in 1 .. Len(up[c])
        BY <2>1, <2>2, <3>1
      <4> QED
        BY <2>1, <3>1, <4>1
    <3>2. CASE d # c
      BY <2>1, <3>2 DEF Below, TInv, TypeOK
    <3> QED
      BY <3>1, <3>2
  <2>4. ASSUME NEW i \in 1 .. Len(log'), log'[i].kind = "transform"
        PROVE  \/ i \in 1 .. Len(log)
               \/ i = Len(log) + 1 /\ \E m \in Message : log'[i] = m /\ OrderOK(m)
    <3>1. CASE HandleCreate(c, k)
      <4>1. PICK m \in Message : m.kind # "transform" /\ log' = Append(log, m)
        <5> DEFINE x == [Head(up[c]) EXCEPT !.server = serverArr.back]
        <5>1. x \in Message /\ log' = Append(log, x) /\ Head(up[c]).kind = "create"
          BY <3>1, THandleCreate DEF HandleCreate, Below
        <5>2. x.kind = Head(up[c]).kind
          BY <2>1, <5>1, MessageKinds
        <5> QED
          BY <5>1, <5>2
      <4> QED
        BY <1>3, <2>4, <4>1, AppendTo
    <3>2. CASE HandleTransform(c, k)
      <4>1. log' = Append(log, up[c][1]) /\ up[c][1].kind = "transform" /\ up[c][1] \in Message
        BY <2>1, <3>2 DEF HandleTransform
      <4>2. OrderOK(up[c][1])
        BY <2>1, <2>2, <4>1 DEF OrderInv
      <4>3. Len(log') = Len(log) + 1 /\ log'[Len(log) + 1] = up[c][1]
        BY <1>3, <4>1, AppendTo
      <4> QED
        BY <1>3, <4>1, <4>2, <4>3
    <3>3. CASE HandleSync(c, k)
      BY <3>3 DEF HandleSync, serverVars
    <3> QED
      BY <1>5, <3>1, <3>2, <3>3
  <2> QED
    BY <1>4, <2>3, <2>4
\* A client sends a message.
<1>6. ASSUME log' = log, NEW c \in Clients, NEW m \in Message, m.kind = "transform" => OrderOK(m),
             up' = [up EXCEPT ![c] = Append(@, m)]
      PROVE  OrderInv'
  <2>1. ASSUME NEW d \in Clients, NEW i \in 1 .. Len(up'[d]), up'[d][i].kind = "transform"
        PROVE  \/ \E j \in 1 .. Len(up[d]) : up'[d][i] = up[d][j]
               \/ \E x \in Message : up'[d][i] = x /\ OrderOK(x)
    <3>1. up'[d] = up[d] \/ up'[d] = Append(up[d], m)
      BY <1>6 DEF Below, TInv, TypeOK
    <3>2. CASE up'[d] = Append(up[d], m)
      <4>1. /\ Len(up'[d]) = Len(up[d]) + 1 /\ up'[d][Len(up[d]) + 1] = m /\ Len(up[d]) \in Nat
            /\ \A j \in 1 .. Len(up[d]) : up'[d][j] = up[d][j]
        BY <1>2, <3>2, AppendTo
      <4>2. CASE i = Len(up[d]) + 1
        BY <1>6, <2>1, <4>1, <4>2
      <4>3. CASE i # Len(up[d]) + 1
        <5>1. i \in 1 .. Len(up[d])
          BY <4>1, <4>3
        <5> QED
          BY <4>1, <5>1
      <4> QED
        BY <4>2, <4>3
    <3> QED
      BY <3>1, <3>2
  <2> QED
    BY <1>4, <1>6, <2>1
<1>7. ASSUME log' = log, up' = up PROVE OrderInv'
  BY <1>4, <1>7
<1>8. ASSUME NEW c \in Clients, ReceiveSync0(c) PROVE OrderInv'
  <2> DEFINE m == Sync(1, Head(down[c]).client)
  <2>1. m \in Message /\ m.kind = "sync"
    <3>1. Head(down[c]) \in Message /\ Head(down[c]).kind = "sync"
      BY <1>8, TReceived DEF ReceiveSync0, Below, TInv
    <3>2. Head(down[c]).client \in Int
      BY <3>1, MessageKinds
    <3> QED
      BY <3>2, SyncMessage
  <2>2. log' = log /\ up' = [up EXCEPT ![c] = Append(@, m)]
    BY <1>8 DEF ReceiveSync0, Send, serverVars
  <2> HIDE DEF m
  <2> QED
    BY <1>6, <2>1, <2>2
<1>9. ASSUME NEW c \in Clients, CreateOwn(c) PROVE OrderInv'
  <2>1. PICK m : m.kind = "create" /\ log' = log /\ up' = [up EXCEPT ![c] = Append(@, m)]
    BY <1>9 DEF CreateOwn, Send, serverVars
  <2>2. m \in Message
    BY <2>1, SentIsMessage DEF Below
  <2> QED
    BY <1>6, <2>1, <2>2
<1>10. ASSUME NEW c \in Clients, User(c) PROVE OrderInv'
  <2>1. PICK p \in Positions, selection \in SUBSET Selectable(c) : GiveOrder(c, selection, p)
    BY <1>10 DEF User
  <2>2. PICK m : m = [kind |-> "transform", position |-> p, by |-> c,
                      units |-> {Wrap(unit[c][s].server) : s \in selection}]
    OBVIOUS
  <2>3. log' = log /\ up' = [up EXCEPT ![c] = Append(@, m)]
    BY <2>1, <2>2 DEF GiveOrder, Send, serverVars
  <2>4. m \in Message
    BY <2>3, SentIsMessage DEF Below
  <2>5. OrderOK(m)
    BY <2>1, <2>2, OrderGiven
  <2> QED
    BY <1>6, <2>3, <2>4, <2>5
<1>11. CASE UNCHANGED vars \/ TickSend
  BY <1>7, <1>11 DEF vars, serverVars, TickSend
<1>12. ASSUME NEW c \in Clients,
              \/ AcceptThread(c) \/ ReceiveSync2(c) \/ ReceiveGame(c) \/ StartLoop(c)
              \/ ProcessOwn(c) \/ ProcessOther(c) \/ ProcessTransform(c) \/ Lose(c)
       PROVE  OrderInv'
  BY <1>7, <1>12 DEF AcceptThread, Accept, SendSync, Register, ReceiveSync2, ReceiveGame, StartLoop,
     ProcessOwn, ProcessOther, ProcessTransform, Process, Take, Lose, serverVars
<1> QED
  BY <1>5, <1>8, <1>9, <1>10, <1>11, <1>12 DEF Next, WorkerThread, ReceiveThread, MainLoop

\* All that is known but the last orders.
LEMMA Orders == Spec => [](Below /\ CopyInv /\ OrderInv)
<1>1. Init => OrderInv
  BY OrderInit
<1>2. Below /\ CopyInv /\ (Below /\ CopyInv)' /\ OrderInv /\ [Next]_vars => OrderInv'
  BY OrderStep DEF Below
<1> QED
  BY <1>1, <1>2, Copies, PTL DEF Spec

\* No order precedes, in the log, the announcement of a unit it names: a client can name only
\* a unit whose number it has from the log.
THEOREM OrdersFollow == Spec => []OrderAfterAnnouncement
<1>1. OrderInv => OrderAfterAnnouncement
  BY DEF OrderInv
<1> QED
  BY <1>1, Orders, PTL

\* A client that had its id when it started gives orders to units of its own id only.
THEOREM OrdersOfOwnUnits == Spec => []OrdersAreOwn
<1>1. OrderInv => OrdersAreOwn
  BY DEF OrderInv, OrderOK, OrdersAreOwn
<1> QED
  BY <1>1, Orders, PTL

-----------------------------------------------------------------------------
(* The last orders. *)

\* Nothing is known, or ordered, at first.
LEMMA LastInit == Init => LastInv
<1> SUFFICES ASSUME Init, NEW c \in Clients PROVE Ordered(c) /\ Complete(c)
  BY DEF LastInv
<1>1. Ordered(c)
  BY DEF Init, Ordered
<1>2. Complete(c)
  BY DEF Init, Complete, Known
<1> QED
  BY <1>1, <1>2

\* What a registered client has handled is in the log.
LEMMA HandledInLog ==
    ASSUME Below, NEW c \in Clients, stage[c] = "registered"
    PROVE  handled[c] \in 0 .. Len(log) /\ joined[c] \in Nat /\ Len(log) \in Nat
<1>1. handled[c] + Len(pending[c]) <= broadcast
  BY DEF Below, StreamInv, StreamOK, InPlace
<1>2. /\ handled[c] \in Nat /\ joined[c] \in Nat /\ Len(pending[c]) \in Nat
      /\ broadcast \in 0 .. Len(log) /\ Len(log) \in Nat
  BY DEF Below, TInv, TypeOK
<1> QED
  BY <1>1, <1>2

\* The last order of a unit up to some place of the log is the same in a longer log, and up to
\* the next place if that does not name the unit.
LEMMA LastStays ==
    ASSUME Grows, NEW s, NEW n \in 0 .. Len(log), NEW p, IsLast(s, n, p), Len(log) \in Nat
    PROVE  /\ IsLast(s, n, p)'
           /\ n + 1 \in 1 .. Len(log) /\ ~Names(n + 1, s) => IsLast(s, n + 1, p)'
<1>1. ASSUME NEW i \in 1 .. Len(log) PROVE Names(i, s)' <=> Names(i, s)
  BY DEF Names, Grows
<1>2. ASSUME NEW k \in {n, n + 1}, k \in 0 .. Len(log), k = n \/ ~Names(n + 1, s)
      PROVE  IsLast(s, k, p)'
  <2>1. CASE p = NoOrder /\ \A i \in 1 .. n : ~Names(i, s)
    <3>1. ASSUME NEW i \in 1 .. k PROVE ~Names(i, s)'
      <4>1. i \in 1 .. Len(log) /\ (i \in 1 .. n \/ (i = n + 1 /\ k # n))
        BY <1>2
      <4> QED
        BY <1>1, <1>2, <2>1, <4>1
    <3> QED
      BY <2>1, <3>1 DEF IsLast
  <2>2. CASE \E i \in 1 .. n : /\ Names(i, s) /\ log[i].position = p
                               /\ \A j \in i + 1 .. n : ~Names(j, s)
    <3>1. PICK i \in 1 .. n : /\ Names(i, s) /\ log[i].position = p
                              /\ \A j \in i + 1 .. n : ~Names(j, s)
      BY <2>2
    <3>2. i \in 1 .. Len(log) /\ i \in 1 .. k
      BY <1>2
    <3>3. Names(i, s)' /\ log'[i].position = p
      BY <1>1, <3>1, <3>2 DEF Grows
    <3>4. ASSUME NEW j \in i + 1 .. k PROVE ~Names(j, s)'
      <4>1. j \in 1 .. Len(log) /\ (j \in i + 1 .. n \/ (j = n + 1 /\ k # n))
        BY <1>2
      <4> QED
        BY <1>1, <1>2, <3>1, <4>1
    <3> QED
      BY <3>2, <3>3, <3>4 DEF IsLast
  <2> QED
    BY <2>1, <2>2 DEF IsLast
<1> QED
  BY <1>2

\* A client that handles nothing in this step.
LEMMA LastQuiet ==
    ASSUME Below, CopyInv, Grows, NEW d \in Clients, Ordered(d), lost = 0 => Complete(d),
           stage'[d] = stage[d], joined'[d] = joined[d], handled'[d] = handled[d],
           index'[d] = index[d], order'[d] = order[d], lost' = 0 => lost = 0
    PROVE  Ordered(d)' /\ (lost' = 0 => Complete(d)')
<1>1. Known(d)' = Known(d)
  BY DEF Known
<1>2. Ordered(d)'
  BY <1>1 DEF Ordered
<1>3. ASSUME lost' = 0 PROVE Complete(d)'
  <2>1. Complete(d)
    BY <1>3
  <2>2. ASSUME stage[d] = "registered", NEW i \in joined[d] + 1 .. handled[d],
               log'[i].kind = "create"
        PROVE  log'[i].server \in Known(d)
    <3>1. i \in 1 .. Len(log)
      BY <2>2, HandledInLog
    <3>2. log'[i] = log[i]
      BY <3>1 DEF Grows
    <3> QED
      BY <2>1, <2>2, <3>2 DEF Complete
  <2>3. ASSUME NEW s \in Known(d) PROVE IsLast(s, handled[d], order[d][index[d][s]])'
    <3>1. handled[d] \in 0 .. Len(log) /\ Len(log) \in Nat
      BY <2>3, KnownSettled, HandledInLog
    <3>2. PICK n, p : n = handled[d] /\ p = order[d][index[d][s]]
      OBVIOUS
    <3>3. IsLast(s, n, p)'
      BY <2>1, <2>3, <3>1, <3>2, LastStays DEF Complete
    <3> QED
      BY <3>2, <3>3 DEF IsLast
  <2> QED
    BY <1>1, <2>2, <2>3 DEF Complete
<1> QED
  BY <1>2, <1>3

\* A client that handles one message, and keeps what it knows: what it knows then was announced
\* in what it has handled, and what was ordered last is what the orders say.
LEMMA LastTaken ==
    ASSUME Below, CopyInv, CopyInv', Grows, NEW c \in Clients, Take(c), Complete(c),
           NEW m, m = Head(pending[c]), NEW n, n = handled[c] + 1,
           m.kind = "create" => m.server \in Known(c)',
           \A s \in Known(c) : s \in Known(c)',
           \A s \in Known(c)' : IsLast(s, n, order[c][index[c][s]])'
    PROVE  Complete(c)'
<1>1. /\ m = log[handled[c] + 1] /\ handled[c] + 1 \in 1 .. Len(log)
      /\ handled[c] \in Nat /\ joined[c] \in Nat
      /\ handled'[c] = handled[c] + 1 /\ stage[c] = "registered"
  BY Taken
<1>2. joined'[c] = joined[c] /\ stage'[c] = stage[c]
  BY DEF Take, serverVars
<1>3. ASSUME NEW i \in joined'[c] + 1 .. handled'[c], log'[i].kind = "create"
      PROVE  log'[i].server \in Known(c)'
  <2>1. i \in 1 .. Len(log)
    BY <1>1, <1>2
  <2>2. log'[i] = log[i]
    BY <2>1 DEF Grows
  <2>3. CASE i = handled[c] + 1
    BY <1>1, <1>3, <2>2, <2>3
  <2>4. CASE i # handled[c] + 1
    <3>1. i \in joined[c] + 1 .. handled[c]
      BY <1>1, <1>2, <2>4
    <3> QED
      BY <1>1, <1>3, <2>2, <3>1 DEF Complete
  <2> QED
    BY <2>3, <2>4
<1>4. ASSUME NEW s \in Known(c)' PROVE IsLast(s, handled[c], order[c][index[c][s]])'
  BY <1>1 DEF IsLast
<1> QED
  BY <1>3, <1>4 DEF Complete

\* A client learns of a unit: no order for the unit precedes its announcement.
LEMMA LastNewUnit ==
    ASSUME Below, CopyInv, CopyInv', OrderInv, Grows, NEW c \in Clients, Ordered(c),
           lost = 0 => Complete(c), Take(c), NEW m, m = Head(pending[c]), m.kind = "create",
           NEW slot \in Slots, index' = Insert(c, m.server, slot), order' = order, lost' = lost
    PROVE  Ordered(c)' /\ (lost' = 0 => Complete(c)')
<1>1. PICK s \in Slots : s = m.server
  BY TakenIsNew
<1>2. s \notin Known(c) /\ index[c][s] = None
  BY <1>1, TakenIsNew
<1>3. PICK n : n = handled[c] + 1
  OBVIOUS
<1>4. /\ m = log[n] /\ n \in 1 .. Len(log) /\ n - 1 = handled[c] /\ n - 1 \in 0 .. Len(log)
      /\ Len(log) \in Nat
  BY <1>3, Taken, HandledInLog
<1>5. \A u \in Slots : index'[c][u] = IF u = s THEN slot ELSE index[c][u]
  <2>1. s \in Number
    BY DEF Number
  <2> QED
    BY <1>1, <1>2, <2>1, TInsert DEF Below, TInv
<1>6. slot # None /\ Known(c)' = Known(c) \cup {s}
  <2>1. slot # None
    BY IndexRangeAssumption DEF Slots, None
  <2> QED
    BY <1>5, <2>1 DEF Known
<1>7. Ordered(c)'
  <2> SUFFICES ASSUME NEW t \in Slots, order[c][t] # NoOrder
               PROVE  \E u \in Known(c)' : index'[c][u] = t
    BY DEF Ordered
  <2>1. PICK u \in Known(c) : index[c][u] = t
    BY DEF Ordered
  <2>2. u \in Slots /\ u # s
    BY <1>2 DEF Known
  <2> QED
    BY <1>5, <1>6, <2>1, <2>2
<1>8. order[c][slot] = NoOrder
  <2> SUFFICES ASSUME NEW u \in Known(c), index[c][u] = slot PROVE FALSE
    BY DEF Ordered
  <2>1. u \in Slots /\ u # s /\ index'[c][u] = slot /\ index'[c][s] = slot
    BY <1>2, <1>5 DEF Known
  <2>2. u \in Known(c)' /\ s \in Known(c)'
    BY <1>6
  <2>3. \A v \in Known(c)' : unit'[c][index'[c][v]] = [player |-> owner'[v], server |-> v]
    <3>1. KnownOK(c)'
      BY DEF CopyInv
    <3> QED
      BY <3>1 DEF KnownOK
  <2>4. [player |-> owner'[u], server |-> u] = [player |-> owner'[s], server |-> s]
    BY <2>1, <2>2, <2>3
  <2> QED
    BY <2>1, <2>4
<1>9. ASSUME lost = 0 PROVE Complete(c)'
  <2>1. Complete(c)
    BY <1>9
  <2>2. ASSUME NEW i \in 1 .. n PROVE ~Names(i, s)'
    <3>1. i \in 1 .. Len(log) /\ log'[i] = log[i]
      BY <1>4 DEF Grows
    <3> SUFFICES ASSUME log[i].kind = "transform", s \in log[i].units PROVE FALSE
      BY <3>1 DEF Names
    <3>2. PICK j \in Announced(s) : j < i
      BY <3>1 DEF OrderInv, OrderAfterAnnouncement
    <3>3. j = n
      BY <1>1, <1>4, <3>2 DEF Announced, Below, LogInv, Distinct
    <3> QED
      BY <1>4, <3>2, <3>3
  <2>3. ASSUME NEW u \in Known(c)' PROVE IsLast(u, n, order[c][index[c][u]])'
    <3>1. CASE u = s
      <4>1. order'[c][index'[c][u]] = NoOrder
        BY <1>5, <1>8, <3>1
      <4> QED
        BY <2>2, <3>1, <4>1 DEF IsLast
    <3>2. CASE u # s
      <4>1. u \in Known(c) /\ u \in Slots
        BY <1>6, <3>2 DEF Known
      <4>2. PICK p : p = order[c][index[c][u]]
        OBVIOUS
      <4>3. order'[c][index'[c][u]] = p
        BY <1>5, <3>2, <4>1, <4>2
      <4>4. IsLast(u, n - 1, p)
        BY <1>4, <2>1, <4>1, <4>2 DEF Complete
      <4>5. ~Names(n, u) /\ (n - 1) + 1 = n
        BY <1>4 DEF Names
      <4>6. IsLast(u, (n - 1) + 1, p)'
        BY <1>4, <4>4, <4>5, LastStays
      <4> QED
        BY <4>3, <4>5, <4>6 DEF IsLast
    <3> QED
      BY <3>1, <3>2
  <2> QED
    BY <1>1, <1>3, <1>6, <2>1, <2>3, LastTaken
<1> QED
  BY <1>7, <1>9

\* A client carries out an order, for the units it names and knows.
LEMMA LastOrdered ==
    ASSUME Below, CopyInv, CopyInv', OrderInv, Grows, NEW c \in Clients, Ordered(c),
           lost = 0 => Complete(c), ProcessTransform(c)
    PROVE  Ordered(c)' /\ (lost' = 0 => Complete(c)')
<1>1. Take(c) /\ index' = index /\ lost' = lost /\ Head(pending[c]).kind = "transform"
  BY DEF ProcessTransform, Process
<1>2. PICK m : m = Head(pending[c])
  OBVIOUS
<1>3. PICK n : n = handled[c] + 1
  OBVIOUS
<1>4. /\ m = log[n] /\ n \in 1 .. Len(log) /\ n - 1 = handled[c] /\ n - 1 \in 0 .. Len(log)
      /\ Len(log) \in Nat
  BY <1>1, <1>2, <1>3, Taken, HandledInLog
<1>5. PICK moved : moved = {index[c][s] : s \in m.units \cap Slots} \ {None}
  OBVIOUS
<1>6. \A t \in Slots : order'[c][t] = IF t \in moved THEN m.position ELSE order[c][t]
  BY <1>2, <1>5 DEF ProcessTransform, Below, TInv, TypeOK
<1>7. Known(c)' = Known(c)
  BY <1>1 DEF Known
<1>8. ASSUME NEW t \in moved PROVE \E s \in Known(c) : s \in m.units /\ index[c][s] = t
  BY <1>5 DEF Known
<1>9. ASSUME NEW s \in Known(c)
      PROVE  /\ index[c][s] \in Slots
             /\ index[c][s] \in moved <=> s \in m.units
  <2>1. \A u \in Known(c) : /\ index[c][u] \in Slots
                            /\ unit[c][index[c][u]] = [player |-> owner[u], server |-> u]
    BY DEF CopyInv, KnownOK
  <2>2. s \in Slots /\ index[c][s] # None
    BY DEF Known
  <2>3. ASSUME index[c][s] \in moved PROVE s \in m.units
    <3>1. PICK u \in Known(c) : u \in m.units /\ index[c][u] = index[c][s]
      BY <1>8, <2>3
    <3>2. [player |-> owner[u], server |-> u] = [player |-> owner[s], server |-> s]
      BY <2>1, <3>1
    <3>3. u = s
      BY <3>2
    <3> QED
      BY <3>1, <3>3
  <2> QED
    BY <1>5, <2>1, <2>2, <2>3
<1>10. Ordered(c)'
  BY <1>1, <1>6, <1>7, <1>8 DEF Ordered
<1>11. ASSUME lost = 0 PROVE Complete(c)'
  <2>1. Complete(c)
    BY <1>11
  <2>2. log'[n] = log[n] /\ m.kind = "transform"
    BY <1>1, <1>2, <1>4 DEF Grows
  <2>3. ASSUME NEW s \in Known(c)' PROVE IsLast(s, n, order[c][index[c][s]])'
    <3>1. s \in Known(c)
      BY <1>7
    <3>2. CASE s \in m.units
      <4>1. order'[c][index'[c][s]] = m.position
        BY <1>1, <1>6, <1>9, <3>1, <3>2
      <4>2. Names(n, s)' /\ log'[n].position = m.position /\ n \in 1 .. n
        BY <1>4, <2>2, <3>2 DEF Names
      <4>3. \A j \in n + 1 .. n : ~Names(j, s)'
        BY <1>4
      <4> QED
        BY <4>1, <4>2, <4>3 DEF IsLast
    <3>3. CASE s \notin m.units
      <4>1. PICK p : p = order[c][index[c][s]]
        OBVIOUS
      <4>2. order'[c][index'[c][s]] = p
        BY <1>1, <1>6, <1>9, <3>1, <3>3, <4>1
      <4>3. IsLast(s, n - 1, p)
        BY <1>4, <2>1, <3>1, <4>1 DEF Complete
      <4>4. ~Names(n, s) /\ (n - 1) + 1 = n
        BY <1>4, <3>3 DEF Names
      <4>5. IsLast(s, (n - 1) + 1, p)'
        BY <1>4, <4>3, <4>4, LastStays
      <4> QED
        BY <4>2, <4>4, <4>5 DEF IsLast
    <3> QED
      BY <3>2, <3>3
  <2> QED
    BY <1>1, <1>2, <1>3, <1>7, <2>1, <2>2, <2>3, LastTaken
<1> QED
  BY <1>1, <1>10, <1>11

\* Every step keeps the last orders.
LEMMA LastStep ==
    Below /\ TInv' /\ CopyInv /\ CopyInv' /\ OrderInv /\ LastInv /\ [Next]_vars => LastInv'
<1> SUFFICES ASSUME Below, TInv', CopyInv, CopyInv', OrderInv, LastInv, [Next]_vars PROVE LastInv'
  OBVIOUS
<1>1. Grows
  BY StepGrows DEF Below
<1>2. \A d \in Clients : Ordered(d) /\ (lost = 0 => Complete(d))
  BY DEF LastInv
\* The clients that a step does not concern.
<1>3. ASSUME NEW d \in Clients, stage'[d] = stage[d], joined'[d] = joined[d], handled'[d] = handled[d],
             index'[d] = index[d], order'[d] = order[d], lost' = lost
      PROVE  Ordered(d)' /\ (lost' = 0 => Complete(d)')
  BY <1>1, <1>2, <1>3, LastQuiet
<1>4. ASSUME UNCHANGED <<stage, joined, handled, index, order, lost>> PROVE LastInv'
  BY <1>3, <1>4 DEF LastInv
<1>5. ASSUME NEW c \in Clients, AcceptThread(c) PROVE LastInv'
  <2>1. /\ UNCHANGED <<index, order, lost>> /\ stage[c] # "registered"
        /\ \A d \in Clients : d # c =>
             stage'[d] = stage[d] /\ joined'[d] = joined[d] /\ handled'[d] = handled[d]
    BY <1>5 DEF AcceptThread, Accept, SendSync, Register, worldVars, clientVars, Below, TInv, TypeOK
  <2>2. Known(c) = {} /\ Known(c)' = {}
    BY <2>1 DEF Below, IdInv, Identity, Known
  <2>3. Ordered(c)'
    BY <1>2, <2>1, <2>2 DEF Ordered
  <2>4. stage'[c] = "registered" => joined'[c] = handled'[c] /\ joined'[c] \in Nat
    BY <1>5 DEF AcceptThread, Accept, SendSync, Register, Below, TInv, TypeOK
  <2>5. Complete(c)'
    BY <2>2, <2>4 DEF Complete
  <2> QED
    BY <1>3, <2>1, <2>3, <2>5 DEF LastInv
<1>6. ASSUME NEW c \in Clients, Take(c), NEW d \in Clients, d # c
      PROVE  /\ stage'[d] = stage[d] /\ joined'[d] = joined[d] /\ handled'[d] = handled[d]
  BY <1>6 DEF Take, serverVars, Below, TInv, TypeOK
<1>7. ASSUME NEW c \in Clients, ProcessOwn(c) \/ ProcessOther(c) PROVE LastInv'
  <2>1. Take(c) /\ order' = order /\ lost' = lost /\ Head(pending[c]).kind = "create"
    BY <1>7 DEF ProcessOwn, ProcessOther, Process
  <2>2. PICK slot \in Slots : index' = Insert(c, Head(pending[c]).server, slot)
    BY <1>1, <1>7, CopyOwn, CopyOther
  <2>3. Ordered(c)' /\ (lost' = 0 => Complete(c)')
    BY <1>1, <1>2, <2>1, <2>2, LastNewUnit
  <2>4. \A d \in Clients : d # c => index'[d] = index[d]
    BY <1>1, <1>7, CopyOwn, CopyOther
  <2> QED
    BY <1>3, <1>6, <2>1, <2>3, <2>4 DEF LastInv
<1>8. ASSUME NEW c \in Clients, ProcessTransform(c) PROVE LastInv'
  <2>1. Take(c) /\ index' = index /\ lost' = lost
    BY <1>8 DEF ProcessTransform, Process
  <2>2. \A d \in Clients : d # c => order'[d] = order[d]
    BY <1>8 DEF ProcessTransform, Below, TInv, TypeOK
  <2>3. Ordered(c)' /\ (lost' = 0 => Complete(c)')
    BY <1>1, <1>2, <1>8, LastOrdered
  <2> QED
    BY <1>3, <1>6, <2>1, <2>2, <2>3 DEF LastInv
<1>9. ASSUME NEW c \in Clients, Lose(c) PROVE LastInv'
  <2>1. UNCHANGED <<index, order>> /\ lost' # 0
    BY <1>9 DEF Lose, worldVars, Below, TInv, TypeOK
  <2>2. \A d \in Clients : Ordered(d)'
    BY <1>2, <2>1 DEF Ordered, Known
  <2> QED
    BY <2>1, <2>2 DEF LastInv
<1>10. CASE UNCHANGED vars \/ TickSend
  BY <1>4, <1>10 DEF vars, serverVars, worldVars, clientVars, TickSend
<1>11. ASSUME NEW c \in Clients,
              WorkerThread(c) \/ ReceiveThread(c) \/ CreateOwn(c) \/ StartLoop(c) \/ User(c)
       PROVE  LastInv'
  BY <1>4, <1>11 DEF WorkerThread, HandleCreate, HandleTransform, HandleSync, ReceiveThread,
     ReceiveSync0, ReceiveSync2, ReceiveGame, CreateOwn, StartLoop, User, GiveOrder,
     serverVars, worldVars, clientVars
<1> QED
  BY <1>5, <1>7, <1>8, <1>9, <1>10, <1>11 DEF Next, MainLoop

\* The whole invariant.
LEMMA Lasts == Spec => [](Below /\ CopyInv /\ LastInv)
<1>1. Below /\ CopyInv /\ OrderInv /\ (Below /\ CopyInv /\ OrderInv)' /\ LastInv /\ [Next]_vars => LastInv'
  BY LastStep DEF Below
<1> QED
  BY <1>1, LastInit, Orders, PTL DEF Spec

\* As long as no message is lost between a client's threads, the client knows exactly the units
\* announced in what it has processed of the log since it was registered.
THEOREM ProcessedIsKnown == Spec => []KnownIsProcessed
<1>1. Below /\ CopyInv /\ LastInv => KnownIsProcessed
  <2> SUFFICES ASSUME Below, CopyInv, LastInv, NEW c \in Clients, lost = 0, stage[c] = "registered"
               PROVE  Known(c) = {s \in Slots : Announced(s) \cap (joined[c] + 1 .. handled[c]) # {}}
    BY DEF KnownIsProcessed
  <2>1. ASSUME NEW s \in Known(c)
        PROVE  s \in Slots /\ Announced(s) \cap (joined[c] + 1 .. handled[c]) # {}
    BY KnownSettled DEF Announced
  <2>2. ASSUME NEW s \in Slots, NEW i \in Announced(s), i \in joined[c] + 1 .. handled[c]
        PROVE  s \in Known(c)
    BY <2>2 DEF Announced, LastInv, Complete
  <2> QED
    BY <2>1, <2>2
<1> QED
  BY <1>1, Lasts, PTL

\* What was ordered last is unique.
LEMMA LastIsOne ==
    ASSUME NEW s, NEW n \in Nat, NEW p, NEW q, IsLast(s, n, p), IsLast(s, n, q)
    PROVE  p = q
<1>1. CASE \A i \in 1 .. n : ~Names(i, s)
  BY <1>1 DEF IsLast
<1>2. CASE \E i \in 1 .. n : Names(i, s)
  <2>1. PICK i \in 1 .. n : /\ Names(i, s) /\ log[i].position = p
                            /\ \A k \in i + 1 .. n : ~Names(k, s)
    BY <1>2 DEF IsLast
  <2>2. PICK j \in 1 .. n : /\ Names(j, s) /\ log[j].position = q
                            /\ \A k \in j + 1 .. n : ~Names(k, s)
    BY <1>2 DEF IsLast
  <2>3. i = j
    BY <2>1, <2>2
  <2> QED
    BY <2>1, <2>2, <2>3
<1> QED
  BY <1>1, <1>2

\* As long as no message is lost, two clients that have processed the log up to the same point
\* agree on the last order of every unit both know, whenever each of them joined.
THEOREM CopiesConverge == Spec => []Convergence
<1>1. Below /\ CopyInv /\ LastInv => Convergence
  <2> SUFFICES ASSUME Below, CopyInv, LastInv, NEW c \in Clients, NEW d \in Clients,
                      lost = 0, handled[c] = handled[d], NEW s \in Known(c) \cap Known(d)
               PROVE  order[c][index[c][s]] = order[d][index[d][s]]
    BY DEF Convergence
  <2>1. handled[c] \in Nat
    BY DEF Below, TInv, TypeOK
  <2>2. /\ IsLast(s, handled[c], order[c][index[c][s]])
        /\ IsLast(s, handled[c], order[d][index[d][s]])
    BY DEF LastInv, Complete
  <2> QED
    BY <2>1, <2>2, LastIsOne
<1> QED
  BY <1>1, Lasts, PTL

=============================================================================
