-------------------------- MODULE EntityLifecycle --------------------------
(***************************************************************************)
(* The life of units in one client, from create() to burn()                *)
(* (EntityManager.cpp): the slots of units and of their components         *)
(* (ComponentManager.cpp), the cache of prototypes with its reference      *)
(* counts, the map from the server's indices, and the movement of units    *)
(* (TransformComponent.cpp).  The server and the other players, who        *)
(* create, order and delete units of their own, are the environment; both  *)
(* directions of the connection are FIFO queues.                           *)
(***************************************************************************)
EXTENDS CompactArrayOps, FiniteSets, Functions

CONSTANTS Prototypes,       \* entity ids
          Has,              \* the kinds of components each one's file lists
          MaxCreates,       \* bound on the units ever created
          MaxBurns,         \* bound on own units burnt
          MaxOrders         \* bound on orders

ASSUME BoundsAssumption == MaxCreates \in Nat /\ MaxBurns \in Nat /\ MaxOrders \in Nat
ASSUME HasAssumption == Has \in [Prototypes -> SUBSET {"Transform", "Building", "Unit", "Action"}]

Kinds == {"Transform", "Building", "Unit", "Action"}
Me == "me"
Peer == "peer"
NoOne == "no one"
None == -1                              \* nullptr; no server index
Places == 0 .. MaxCreates - 1           \* the slots the bounds can reach
NoComponents == [k \in Kinds |-> None]

VARIABLES m,            \* the EntityManager
          toServer, toClient,
          server,       \* the server's _entities
          peers,        \* the units of other players on the server: index -> entity id
          selection,    \* UnitSelection::_selection: a slot, and which unit it held when selected
          crashed,      \* the client or the server ended: an invalid access or an assertion
          created, burnt,   \* history: units created; own units burnt
          units,        \* history: server index -> the unit it was last given to
          peerBurnt,    \* history: another player deleted a unit
          dropped,      \* history: a prototype left the cache
          misled,       \* history: a deletion hit a unit other than the one meant
          orders        \* orders given

vars == <<m, toServer, toClient, server, peers, selection, crashed, created, burnt, units,
          peerBurnt, dropped, misled, orders>>

\* Units are told apart by the order of their creation, 1, 2 ...; Stray is none of them.
Stray == 0

EmptyUnit == [id |-> None, player |-> NoOne, serverIndex |-> None, comp |-> NoComponents,
              unit |-> Stray]

Init ==
    /\ m = [entities |-> New, slot |-> [i \in Places |-> EmptyUnit],
            comps |-> [k \in Kinds |-> New],
            owner |-> [k \in Kinds |-> [c \in Places |-> None]],
            moving |-> [c \in Places |-> None],     \* _moving: whom the order meant, or None
            cache |-> <<>>,
            cachedEntities |-> New,
            cachedSlot |-> [i \in Places |-> NoComponents],
            cachedComps |-> [k \in Kinds |-> New],
            index |-> <<>>]
    /\ toServer = <<>> /\ toClient = <<>>
    /\ server = New /\ peers = <<>> /\ units = <<>> /\ peerBurnt = FALSE
    /\ selection = [slot |-> None, unit |-> Stray]
    /\ crashed = FALSE /\ created = 0 /\ burnt = 0 /\ dropped = FALSE /\ misled = FALSE
    /\ orders = 0

-----------------------------------------------------------------------------
\* A function with the value v for x, unless it had one.
Extended(f, x, v) == [y \in DOMAIN f \cup {x} |-> IF y \in DOMAIN f THEN f[y] ELSE v]

\* The server index s is given to unit u.
Given(s, u) == [y \in DOMAIN units \cup {s} |-> IF y = s THEN u ELSE units[y]]

-----------------------------------------------------------------------------
(* EntityManager. *)

\* get_transform() and the like, for each of these kinds.
Taken(comps, kinds) == [k \in Kinds |-> IF k \in kinds THEN Get(comps[k]) ELSE comps[k]]

\* burn_transform() and the like.
Returned(comps, kinds, comp) ==
    [k \in Kinds |-> IF k \in kinds THEN Remove(comps[k], comp[k]) ELSE comps[k]]

\* load_cached_entity: attach() overwrites the pointers of the kinds the file lists.
Load(e, id) ==
    LET slot == Top(e.cachedEntities)
    IN  [e EXCEPT
          !.cachedEntities = Get(@),
          !.cachedSlot[slot] =
              [k \in Kinds |-> IF k \in Has[id] THEN Top(e.cachedComps[k]) ELSE @[k]],
          !.cachedComps = Taken(@, Has[id]),
          !.cache = Extended(@, id, [entity |-> slot, ref |-> 0])]

\* The assertion of get() holds for the new unit and for what a prototype is loaded into.
MayCreate(id) ==
    /\ MayGet(m.entities)
    /\ id \in DOMAIN m.cache \/ (/\ MayGet(m.cachedEntities)
                                /\ \A k \in Has[id] : MayGet(m.cachedComps[k]))

Cached(e, id) == IF id \in DOMAIN e.cache THEN e ELSE Load(e, id)

Old(e) == e.slot[Top(e.entities)].comp
Wanted(e, id) == {k \in Kinds : e.cachedSlot[e.cache[id].entity][k] # None}

\* Variant of Copied: TransformComponent::copy leaves _moving as it was.
CopiedWhileMoving(moving, transform) == moving

\* TransformComponent::copy: no prototype moves.
Copied(moving, transform) == [moving EXCEPT ![transform] = None]

\* TransformComponent::move, on an order meant for unit u.  A unit that is there already
\* is left as it is.
Moved(moving, transform, u) == {moving, [moving EXCEPT ![transform] = u]}

\* TransformComponent::update: a unit that moves may arrive.
Updated(moving, transform) == {moving, [moving EXCEPT ![transform] = None]}

\* The next slot becomes a unit; its missing components are attached, the unwanted ones
\* burnt, the others kept, and the prototype is copied into those it has.
Place(e, id, player, serverIndex, u, missing, unwanted) ==
    LET slot == Top(e.entities)
        comp == [k \in Kinds |-> IF k \in missing THEN Top(e.comps[k])
                                 ELSE IF k \in unwanted THEN None ELSE Old(e)[k]]
    IN  [e EXCEPT
          !.entities = Get(@),
          !.slot[slot] = [id |-> id, player |-> player, serverIndex |-> serverIndex, comp |-> comp,
                             unit |-> u],
          !.comps = Returned(Taken(@, missing), unwanted, Old(e)),
          !.owner = [k \in Kinds |->
                       IF k \in Wanted(e, id) THEN [@[k] EXCEPT ![comp[k]] = slot] ELSE @[k]],
          !.moving = IF "Transform" \in Wanted(e, id) THEN Copied(@, comp["Transform"]) ELSE @,
          !.cache[id].ref = @ + 1]

\* Variant of Create: a component is attached whatever the slot still holds.
CreateAttachAlways(e0, id, player, serverIndex, u) ==
    LET e == Cached(e0, id) IN Place(e, id, player, serverIndex, u, Wanted(e, id), {})

\* Variant of Create: components not wanted stay.
CreateKeepUnwanted(e0, id, player, serverIndex, u) ==
    LET e == Cached(e0, id)
    IN  Place(e, id, player, serverIndex, u, {k \in Wanted(e, id) : Old(e)[k] = None}, {})

\* create()
Create(e0, id, player, serverIndex, u) ==
    LET e == Cached(e0, id)
    IN  Place(e, id, player, serverIndex, u,
              {k \in Wanted(e, id) : Old(e)[k] = None},
              {k \in Kinds \ Wanted(e, id) : Old(e)[k] # None})

\* burn_entity_components: action components are not returned, and no pointer is cleared.
BurnComponents(comps, comp) ==
    Returned(comps, {k \in Kinds \ {"Action"} : comp[k] # None}, comp)

LastUse(e, id) == e.cache[id].ref = 1

\* A prototype with n units left leaves the cache.
ReleaseAt(e, id, n) ==
    LET slot == e.cache[id].entity
    IN  IF e.cache[id].ref = n
        THEN [e EXCEPT !.cachedComps = BurnComponents(@, e.cachedSlot[slot]),
                       !.cachedEntities = Remove(@, slot),
                       !.cache = Restrict(@, DOMAIN @ \ {id})]
        ELSE [e EXCEPT !.cache[id].ref = @ - 1]

\* Variant of Release: the count is compared before it is decremented.
ReleaseOneLate(e, id) == ReleaseAt(e, id, 0)

Release(e, id) == ReleaseAt(e, id, 1)

\* burn() of an entity with this id, index and components.
Burn(e, id, slot, comp) ==
    [Release(e, id) EXCEPT !.comps = BurnComponents(@, comp), !.entities = Remove(@, slot)]

\* std::map::insert: an index that is there already keeps its unit.
Insert(e, serverIndex, slot) == [e EXCEPT !.index = Extended(@, serverIndex, slot)]

\* u is no part of the message: the unit that is meant, for the history.
Message(op, id, slot, client, serverIndex, u) ==
    [op |-> op, id |-> id, slot |-> slot, client |-> client, serverIndex |-> serverIndex,
     unit |-> u]

\* A TransformMessage of one index; without any it is not valid and not sent.
Order(client, serverIndex, u) == Message("TRANSFORM", None, None, client, serverIndex, u)

-----------------------------------------------------------------------------
(* The client. *)

\* create() of an own unit, which is announced.
CreateOwn(id) ==
    /\ ~crashed /\ created < MaxCreates /\ MayCreate(id)
    /\ toServer' = Append(toServer,
                              Message("CREATE", id, Top(m.entities), Me, None, created + 1))
    /\ m' = Create(m, id, Me, None, created + 1)
    /\ created' = created + 1
    /\ UNCHANGED <<toClient, server, peers, selection, crashed, burnt, units, peerBurnt,
                   dropped, misled, orders>>

\* burn() of an own unit, with its components.  The deletion is on its way before at() may
\* throw, which ends the program.
BurnOwn(i) ==
    /\ ~crashed /\ burnt < MaxBurns
    /\ Valid(m.entities, i) /\ m.slot[i].player = Me
    /\ LET unit == m.slot[i]
       IN  /\ toServer' = Append(toServer,
                                 Message("DELETE", unit.id, i, Me, unit.serverIndex, Stray))
           /\ crashed' = (unit.id \notin DOMAIN m.cache)
           /\ IF crashed' THEN UNCHANGED <<m, dropped>>
              ELSE /\ m' = Burn(m, unit.id, i, unit.comp)
                   /\ dropped' = (dropped \/ LastUse(m, unit.id))
    /\ burnt' = burnt + 1
    /\ UNCHANGED <<toClient, server, peers, selection, created, units, peerBurnt, misled,
                   orders>>

\* entity_message, CREATE with the client's own id: the echo of its announcement.
ProcessOwnCreate ==
    /\ ~crashed /\ toClient # <<>>
    /\ LET msg == Head(toClient)
       IN  /\ msg.op = "CREATE" /\ msg.client = Me
           /\ m' = IF Valid(m.entities, msg.slot)
                   THEN Insert([m EXCEPT !.slot[msg.slot].serverIndex = msg.serverIndex],
                               msg.serverIndex, msg.slot)
                   ELSE m
    /\ toClient' = Tail(toClient)
    /\ UNCHANGED <<toServer, server, peers, selection, crashed, created, burnt, units,
                   peerBurnt, dropped, misled, orders>>

\* CREATE of someone else.
ProcessPeerCreate ==
    /\ ~crashed /\ toClient # <<>>
    /\ LET msg == Head(toClient)
       IN  /\ msg.op = "CREATE" /\ msg.client # Me
           /\ MayCreate(msg.id)
           /\ m' = Insert(Create(m, msg.id, msg.client, msg.serverIndex, msg.unit),
                          msg.serverIndex, Top(m.entities))
    /\ toClient' = Tail(toClient)
    /\ UNCHANGED <<toServer, server, peers, selection, crashed, created, burnt, units,
                   peerBurnt, dropped, misled, orders>>

\* The unit in slot i is the one the message is about.
IsUnit(i, msg) ==
    Valid(m.entities, i) /\ m.slot[i].serverIndex = msg.serverIndex /\ m.slot[i].id = msg.id

\* The message is a deletion by someone else and finds a unit and its prototype.
Deletes(msg) ==
    /\ msg.op = "DELETE" /\ msg.client # Me
    /\ msg.serverIndex \in DOMAIN m.index /\ msg.id \in DOMAIN m.cache

\* burn() of the unit with the message's index and these components; it sends the
\* deletion again.
BurnOther(e, comp) ==
    LET msg == Head(toClient)
        slot == m.index[msg.serverIndex]
    IN  /\ toServer' = Append(toServer,
                              Message("DELETE", msg.id, slot, msg.client, None, Stray))
        /\ m' = Burn(e, msg.id, slot, comp)
        /\ dropped' = (dropped \/ LastUse(m, msg.id))
        /\ misled' = (misled \/ ~IsUnit(slot, msg))
        /\ toClient' = Tail(toClient)
        /\ UNCHANGED <<server, peers, selection, crashed, created, burnt, units, peerBurnt,
                       orders>>

Extracted(msg) == [m EXCEPT !.index = Restrict(@, DOMAIN @ \ {msg.serverIndex})]

\* Variant of ProcessPeerDelete: the unit's components are returned.
ProcessPeerDeleteWhole ==
    /\ ~crashed /\ toClient # <<>> /\ Deletes(Head(toClient))
    /\ BurnOther(Extracted(Head(toClient)), m.slot[m.index[Head(toClient).serverIndex]].comp)

\* Variant of ProcessPeerDelete: the index is looked up, not extracted.
ProcessPeerDeleteAndKeep ==
    /\ ~crashed /\ toClient # <<>> /\ Deletes(Head(toClient))
    /\ BurnOther(m, NoComponents)

\* DELETE of someone else: the unit is burnt through an Entity on the stack, which has its
\* slot but no components and no server index.
ProcessPeerDelete ==
    /\ ~crashed /\ toClient # <<>> /\ Deletes(Head(toClient))
    /\ BurnOther(Extracted(Head(toClient)), NoComponents)

\* DELETE of an index not in the map: the empty node handle is dereferenced.  Without its
\* prototype in the cache, at() throws.
ProcessUnknownDelete ==
    /\ ~crashed /\ toClient # <<>>
    /\ Head(toClient).op = "DELETE" /\ Head(toClient).client # Me
    /\ ~Deletes(Head(toClient))
    /\ crashed' = TRUE
    /\ toClient' = Tail(toClient)
    /\ UNCHANGED <<m, toServer, server, peers, selection, created, burnt, units, peerBurnt,
                   dropped, misled, orders>>

\* The deletion of an own unit comes back.
ProcessOwnDelete ==
    /\ ~crashed /\ toClient # <<>>
    /\ Head(toClient).op = "DELETE" /\ Head(toClient).client = Me
    /\ toClient' = Tail(toClient)
    /\ UNCHANGED <<m, toServer, server, peers, selection, crashed, created, burnt, units,
                   peerBurnt, dropped, misled, orders>>

\* A unit of this player is selected: through any component handed out so far, those of
\* burnt units included, and whatever its slot holds now.
Select(c) ==
    /\ ~crashed /\ orders < MaxOrders
    /\ c < m.comps["Transform"].back
    /\ \E i \in Places :
         /\ m.owner["Transform"][c] = i /\ m.slot[i].player = Me
         /\ selection' = [slot |-> i, unit |-> m.slot[i].unit]
    /\ UNCHANGED <<m, toServer, toClient, server, peers, crashed, created, burnt, units,
                   peerBurnt, dropped, misled, orders>>

\* The selected unit is still the one in its slot.
StillSelected ==
    Valid(m.entities, selection.slot) /\ m.slot[selection.slot].unit = selection.unit

\* An order for the selection, which is kept: the server index is read when the order is
\* given, from the slot as it is then.  The index it may not have yet goes out as 65535,
\* which the map never has.
GiveOrder ==
    /\ ~crashed /\ orders < MaxOrders /\ selection.slot # None
    /\ toServer' = Append(toServer, Order(Me, m.slot[selection.slot].serverIndex,
                                          IF StillSelected THEN selection.unit ELSE Stray))
    /\ orders' = orders + 1
    /\ UNCHANGED <<m, toClient, server, peers, selection, crashed, created, burnt, units,
                   peerBurnt, dropped, misled>>

\* transform_message, for one index.  A slot that is free gives a null pointer.
ProcessTransform ==
    /\ ~crashed /\ toClient # <<>> /\ Head(toClient).op = "TRANSFORM"
    /\ LET s == Head(toClient).serverIndex
           known == s \in DOMAIN m.index
           transform == m.slot[m.index[s]].comp["Transform"]
       IN  /\ crashed' = (known /\ ~Valid(m.entities, m.index[s]))
           /\ IF known /\ ~crashed' /\ transform # None
              THEN \E moving \in Moved(m.moving, transform, Head(toClient).unit) :
                     m' = [m EXCEPT !.moving = moving]
              ELSE UNCHANGED m
    /\ toClient' = Tail(toClient)
    /\ UNCHANGED <<toServer, server, peers, selection, created, burnt, units, peerBurnt,
                   dropped, misled, orders>>

\* update() of a frame, at one of the components: it visits those of burnt units too.
Update ==
    /\ ~crashed
    /\ \E c \in Places :
         /\ c < m.comps["Transform"].back /\ m.moving[c] # None
         /\ \E moving \in Updated(m.moving, c) : m' = [m EXCEPT !.moving = moving]
    /\ UNCHANGED <<toServer, toClient, server, peers, selection, crashed, created, burnt, units,
                   peerBurnt, dropped, misled, orders>>

-----------------------------------------------------------------------------
(* The server and the other players. *)

\* The assertion of get() holds, and the place is not one outside the array, pushed by the
\* removal of index -1.
MayPlace == MayGet(server) /\ Top(server) <= server.back

ServeCreate ==
    /\ ~crashed /\ toServer # <<>>
    /\ LET msg == Head(toServer)
       IN  /\ msg.op = "CREATE"
           /\ IF MayPlace
              THEN /\ toClient' = Append(toClient, [msg EXCEPT !.serverIndex = Top(server)])
                   /\ server' = Get(server)
                   /\ units' = Given(Top(server), msg.unit)
                   /\ UNCHANGED crashed
              ELSE crashed' = TRUE /\ UNCHANGED <<toClient, server, units>>
    /\ toServer' = Tail(toServer)
    /\ UNCHANGED <<m, peers, selection, created, burnt, peerBurnt, dropped, misled, orders>>

\* remove() trusts the index of the message.
ServeDelete ==
    /\ ~crashed /\ toServer # <<>>
    /\ LET msg == Head(toServer)
       IN  /\ msg.op = "DELETE"
           /\ toClient' = Append(toClient, msg)
           /\ server' = Remove(server, msg.serverIndex)
    /\ toServer' = Tail(toServer)
    /\ UNCHANGED <<m, peers, selection, crashed, created, burnt, units, peerBurnt, dropped,
                   misled, orders>>

\* The server sends an order on as it is.
ServeTransform ==
    /\ ~crashed /\ toServer # <<>> /\ Head(toServer).op = "TRANSFORM"
    /\ toClient' = Append(toClient, Head(toServer))
    /\ toServer' = Tail(toServer)
    /\ UNCHANGED <<m, server, peers, selection, crashed, created, burnt, units, peerBurnt,
                   dropped, misled, orders>>

\* An order for a live unit of another player.
PeerOrder(s) ==
    /\ ~crashed /\ orders < MaxOrders
    /\ toClient' = Append(toClient, Order(Peer, s, units[s]))
    /\ orders' = orders + 1
    /\ UNCHANGED <<m, toServer, server, peers, selection, crashed, created, burnt, units,
                   peerBurnt, dropped, misled>>

\* An order through another player's selection of a unit burnt since: its slot may hold any
\* unit by now, with any server index.
PeerStrayOrder ==
    /\ ~crashed /\ orders < MaxOrders /\ peerBurnt
    /\ \E s \in DOMAIN units : toClient' = Append(toClient, Order(Peer, s, Stray))
    /\ orders' = orders + 1
    /\ UNCHANGED <<m, toServer, server, peers, selection, crashed, created, burnt, units,
                   peerBurnt, dropped, misled>>

PeerCreate(id) ==
    /\ ~crashed /\ created < MaxCreates /\ MayPlace
    /\ LET s == Top(server)
       IN  /\ peers' = Extended(peers, s, id)
           /\ toClient' = Append(toClient, Message("CREATE", id, 0, Peer, s, created + 1))
           /\ units' = Given(s, created + 1)
    /\ server' = Get(server)
    /\ created' = created + 1
    /\ UNCHANGED <<m, toServer, selection, crashed, burnt, peerBurnt, dropped, misled, orders>>

PeerDelete(s) ==
    /\ ~crashed
    /\ toClient' = Append(toClient, Message("DELETE", peers[s], 0, Peer, s, Stray))
    /\ server' = Remove(server, s)
    /\ peers' = Restrict(peers, DOMAIN peers \ {s})
    /\ peerBurnt' = TRUE
    /\ UNCHANGED <<m, toServer, selection, crashed, created, burnt, units, dropped, misled,
                   orders>>

entity_message ==
    \/ ProcessOwnCreate \/ ProcessPeerCreate
    \/ ProcessPeerDelete \/ ProcessUnknownDelete \/ ProcessOwnDelete

receive_entity_message == ServeCreate \/ ServeDelete

Next ==
    \/ \E id \in Prototypes : CreateOwn(id) \/ PeerCreate(id)
    \/ \E i \in Places : BurnOwn(i)
    \/ \E c \in Places : Select(c)
    \/ \E s \in DOMAIN peers : PeerDelete(s) \/ PeerOrder(s)
    \/ GiveOrder \/ PeerStrayOrder
    \/ entity_message \/ ProcessTransform \/ Update
    \/ receive_entity_message \/ ServeTransform

Spec == Init /\ [][Next]_vars

-----------------------------------------------------------------------------
(* Properties. *)

Live == {i \in Places : Valid(m.entities, i)}

\* As long as no unit was burnt with its components, every component pointer, in the slots
\* of deleted units too, is to a component in use and to one of its own; and the component
\* of a live unit points back to it (EntityManager.cpp:61, ComponentManager.cpp:53).
Paired ==
    burnt = 0 => \A k \in Kinds :
        LET holders == {i \in Places : m.slot[i].comp[k] # None}
        IN  /\ \A i \in holders : Valid(m.comps[k], m.slot[i].comp[k])
            /\ \A i, j \in holders : m.slot[i].comp[k] = m.slot[j].comp[k] => i = j
            /\ \A i \in holders : m.owner[k][m.slot[i].comp[k]] = i
            /\ m.comps[k].size = Cardinality(holders)

\* The cache holds exactly the prototypes of live units, each with the number of them: no
\* prototype is dropped while a unit needs it and none is kept, as long as no deletion hit
\* another unit than the one meant, which the index an own burn() leaves in the map makes
\* possible (EntityManager.cpp:100, 109, 235).
RefCountIsUse == ~misled =>
    /\ DOMAIN m.cache = {m.slot[i].id : i \in Live}
    /\ \A id \in DOMAIN m.cache :
         m.cache[id].ref = Cardinality({i \in Live : m.slot[i].id = id})

\* As long as no prototype left the cache, a live unit has the components of its own
\* prototype, whatever unit its slot held before (EntityManager.cpp:81).
ComponentsFollowPrototype ==
    ~dropped => \A i \in Live : {k \in Kinds : m.slot[i].comp[k] # None} = Has[m.slot[i].id]

\* There are never more components of a kind than there were units at once, with units
\* burnt and slots reused in any order (ComponentManager.cpp:13).
ComponentsPeak == \A k \in Kinds : m.comps[k].back <= m.entities.back

\* As long as no own unit was burnt, the server's indices lead to live units, each to the
\* one with that index, although the server reuses the indices and the client the slots
\* (EntityManager.cpp:223, 229, 235).
IndexMapsLive ==
    burnt = 0 => \A s \in DOMAIN m.index :
        m.index[s] \in Live /\ m.slot[m.index[s]].serverIndex = s

\* As long as no own unit was burnt, an order meant for one unit moves no other, although
\* orders, deletions and creations are under way at once, the server gives its indices and
\* the client its slots and components to other units, and those held units that were
\* moving (EntityManager.cpp:244, TransformComponent.cpp:19).  What a selection of a burnt
\* unit orders is left out: it may move anyone (UnitSelection.cpp:96).
OrdersMoveTheirUnit ==
    burnt = 0 => \A i \in Live :
        LET transform == m.slot[i].comp["Transform"]
        IN  transform # None /\ m.moving[transform] \notin {None, Stray}
              => m.moving[transform] = m.slot[i].unit
=============================================================================
