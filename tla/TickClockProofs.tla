-------------------------- MODULE TickClockProofs --------------------------
(***************************************************************************)
(* Proof about TickClock, for every width, period and bound on lateness.   *)
(***************************************************************************)
EXTENDS TickClock, TLAPS

(* The remainder modulo the width of a DWORD, one width to each side. *)

LEMMA ModInside == ASSUME NEW x \in Int, 0 <= x, x < Range PROVE x % Range = x
  BY RangeAssumption DEF RangeAssumption

LEMMA ModBelow == ASSUME NEW x \in Int, -Range <= x, x < 0 PROVE x % Range = x + Range
  BY RangeAssumption DEF RangeAssumption

LEMMA ModAbove == ASSUME NEW x \in Int, Range <= x, x < 2 * Range PROVE x % Range = x - Range
  BY RangeAssumption DEF RangeAssumption

LEMMA ModType == ASSUME NEW x \in Int PROVE x % Range \in 0 .. Range - 1
  BY RangeAssumption DEF RangeAssumption

\* Two readings that are apart by the same number of milliseconds stay so, wherever the
\* later of them wraps.
LEMMA SameApart ==
    ASSUME NEW c \in 0 .. Range - 1, NEW s \in 0 .. Range - 2
    PROVE  (((c + 1) % Range) - ((s + 1) % Range)) % Range = (c - s) % Range
<1>1. (s + 1) % Range = s + 1
  BY ModInside, RangeAssumption DEF RangeAssumption
<1>2. CASE c = Range - 1
  <2>1. (c + 1) % Range = 0
    BY <1>2, ModAbove, RangeAssumption DEF RangeAssumption
  <2>2. (0 - (s + 1)) % Range = Range - (s + 1)
    BY ModBelow, RangeAssumption DEF RangeAssumption
  <2>3. (c - s) % Range = Range - 1 - s
    BY <1>2, ModInside, RangeAssumption DEF RangeAssumption
  <2> QED
    BY <1>1, <2>1, <2>2, <2>3, RangeAssumption DEF RangeAssumption
<1>3. CASE c < Range - 1
  <2>1. (c + 1) % Range = c + 1
    BY <1>3, ModInside, RangeAssumption DEF RangeAssumption
  <2>2. (c + 1) - (s + 1) = c - s
    BY RangeAssumption DEF RangeAssumption
  <2> QED
    BY <1>1, <2>1, <2>2, Zenon
<1> QED
  <2>1. c = Range - 1 \/ c < Range - 1
    BY RangeAssumption DEF RangeAssumption
  <2> QED
    BY <1>2, <1>3, <2>1

\* A reading that is t ahead of another is so modulo the width.
LEMMA Ahead ==
    ASSUME NEW s \in 0 .. Range - 1, NEW t \in Int, -Range <= t, t < Range
    PROVE  (((s + t) % Range) - s) % Range = IF t >= 0 THEN t ELSE t + Range
<1> USE RangeAssumption DEF RangeAssumption
<1>1. CASE 0 <= s + t /\ s + t < Range
  <2>1. (s + t) % Range = s + t
    BY <1>1, ModInside
  <2>2. (s + t) - s = t
    OBVIOUS
  <2>3. t % Range = IF t >= 0 THEN t ELSE t + Range
    BY ModInside, ModBelow
  <2> QED
    BY <2>1, <2>2, <2>3
<1>2. CASE s + t < 0
  <2>1. (s + t) % Range = s + t + Range
    BY <1>2, ModBelow
  <2>2. (s + t + Range) - s = t + Range
    OBVIOUS
  <2>3. (t + Range) % Range = t + Range
    BY <1>2, ModInside
  <2> QED
    BY <1>2, <2>1, <2>2, <2>3
<1>3. CASE s + t >= Range
  <2>1. (s + t) % Range = s + t - Range
    BY <1>3, ModAbove
  <2>2. (s + t - Range) - s = t - Range
    OBVIOUS
  <2>3. (t - Range) % Range = t
    BY <1>3, ModBelow
  <2> QED
    BY <1>3, <2>1, <2>2, <2>3
<1> QED
  BY <1>1, <1>2, <1>3

-----------------------------------------------------------------------------
(* Types, and how far the server's timer can run beyond its period. *)

ServerWithin ==
    /\ server \in Nat /\ serverLate \in 0 .. MaxLate
    /\ serverPc \in {"alert", "restart"}
    /\ serverPc = "alert" => server <= Period + serverLate
    /\ serverPc = "restart" => server <= Period + MaxLate + serverLate

Typed ==
    /\ client \in 0 .. Range - 1
    /\ dom \in Int /\ sub \in Int /\ offset \in Int /\ before \in Int
    /\ loaded \in 0 .. Range - 1
    /\ delays \in Nat \X Nat
    /\ restarted \in BOOLEAN
    /\ sync \in {"accepted", "to_client", "to_server", "back", "dropped", "adjusting", "done"}

\* What the messages say of the two timers, as long as neither was restarted since the
\* exchange began.
Lead == client - server         \* no timer has wrapped

Stamped ==                      \* the server's time is on its way
    sync = "to_client" => dom = server - delays[1] /\ dom >= 0 /\ delays[2] = 0

Answered ==                     \* the client's time and its lead are on their way
    sync = "to_server" =>
        /\ sub \in 0 .. Period - 1
        /\ client = sub + delays[2]
        /\ dom = Lead + delays[1]
        /\ delays[1] + delays[2] <= server

Computed ==                     \* the offset is on its way, or being applied
    sync \in {"back", "dropped", "adjusting"} =>
        /\ offset = Lead + delays[1] - Half(delays[1] + delays[2])
        /\ Lead < Period - delays[1] /\ -Lead < Period - delays[2]
        /\ delays[1] + delays[2] < Period

Loaded == sync = "adjusting" => loaded = client /\ before = Lead

ClockInv ==
    /\ ServerWithin /\ Typed
    /\ sync = "accepted" => delays = <<0, 0>>
    /\ ~restarted => Stamped /\ Answered /\ Computed /\ Loaded
    /\ DifferenceDoubles

LEMMA ClockInit == Init => ClockInv
<1> SUFFICES ASSUME Init PROVE ClockInv
  OBVIOUS
<1>1. ServerWithin
  BY RangeAssumption DEF RangeAssumption, Init, ServerWithin
<1>2. Typed
  <2>1. client \in 0 .. Range - 1 /\ 0 \in 0 .. Range - 1
    BY RangeAssumption DEF RangeAssumption, Init
  <2>2. <<0, 0>> \in Nat \X Nat /\ 0 \in Int
    OBVIOUS
  <2> QED
    BY <2>1, <2>2 DEF Init, Typed
<1>3. sync = "accepted" /\ delays = <<0, 0>>
  BY DEF Init
<1> QED
  BY <1>1, <1>2, <1>3 DEF ClockInv, Stamped, Answered, Computed, Loaded, DifferenceDoubles
\* What the integers of a step are.
LEMMA Numbers ==
    ASSUME ClockInv
    PROVE  /\ Range \in Nat /\ Period \in Nat /\ MaxLate \in Nat /\ Period > 0
           /\ Range > 4 * Period /\ MaxLate < Period
           /\ server \in Nat /\ server < 3 * Period - 1
           /\ client \in Nat /\ client < Range
           /\ loaded \in Nat /\ loaded < Range
           /\ delays[1] \in Nat /\ delays[2] \in Nat /\ delays = <<delays[1], delays[2]>>
<1>1. /\ Range \in Nat /\ Period \in Nat /\ MaxLate \in Nat /\ Period > 0
      /\ Range > 4 * Period /\ MaxLate < Period
  BY RangeAssumption DEF RangeAssumption
<1>2. server \in Nat /\ server <= Period + 2 * MaxLate
  BY <1>1 DEF ClockInv, ServerWithin
<1>3. client \in Nat /\ client < Range /\ loaded \in Nat /\ loaded < Range
  BY <1>1 DEF ClockInv, Typed
<1>4. delays[1] \in Nat /\ delays[2] \in Nat /\ delays = <<delays[1], delays[2]>>
  BY DEF ClockInv, Typed
<1> QED
  BY <1>1, <1>2, <1>3, <1>4

\* The server's timer stays within two delays of its period.
LEMMA ServerStays == ClockInv /\ [Next]_vars => ServerWithin'
<1> SUFFICES ASSUME ClockInv, [Next]_vars PROVE ServerWithin'
  OBVIOUS
<1>1. CASE UNCHANGED <<server, serverPc, serverLate>>
  BY <1>1 DEF ClockInv, ServerWithin
<1>2. CASE Pass
  <2>1. server' = server + 1
    BY <1>2, Numbers, ModInside DEF Pass
  <2>2. serverPc' = serverPc
    BY <1>2 DEF Pass
  <2>3. CASE serverPc = "alert" /\ server < Period
    <3>1. serverLate' = 0
      BY <1>2, <2>3 DEF Pass
    <3> QED
      BY <2>1, <2>2, <2>3, <3>1, Numbers DEF ServerWithin
  <2>4. CASE ~(serverPc = "alert" /\ server < Period)
    <3>1. serverLate' = serverLate + 1 /\ serverLate < MaxLate
      BY <1>2, <2>4 DEF Pass
    <3> QED
      BY <2>1, <2>2, <2>4, <3>1, Numbers DEF ClockInv, ServerWithin
  <2> QED
    BY <2>3, <2>4
<1>3. CASE ServerAlert
  BY <1>3, Numbers DEF ServerAlert, ClockInv, ServerWithin
<1>4. CASE ServerRestart
  BY <1>4, Numbers DEF ServerRestart, ServerWithin
<1>5. ASSUME server' = AfterTime(server), UNCHANGED <<serverPc, serverLate>>
      PROVE  ServerWithin'
  BY <1>5, Numbers DEF AfterTime, ClockInv, ServerWithin
<1>6. CASE SendSync
  BY <1>5, <1>6 DEF SendSync
<1>7. CASE ReceiveStep1
  BY <1>5, <1>7 DEF ReceiveStep1
<1>8. CASE ClientTick \/ Register \/ ReceiveStep0 \/ OffsetLoad \/ OffsetStore \/ UNCHANGED vars
  BY <1>1, <1>8 DEF ClientTick, ClientAlert, ClientRestart, ClientSleep, ClientWake, Register,
     ReceiveStep0, OffsetLoad, OffsetStore, vars, tickVars
<1> QED
  BY <1>2, <1>3, <1>4, <1>6, <1>7, <1>8 DEF Next, ServerTick, Exchange

\* Half the numbers at hand are integers.
LEMMA HalfType == ASSUME NEW n \in Int PROVE Half(n) \in Int
  BY DEF Half

\* The signed difference of the timers is an integer.
LEMMA DifferenceType == ASSUME ClockInv PROVE Difference \in Int
<1>1. (client - server) % Range \in 0 .. Range - 1
  BY Numbers, ModType
<1> QED
  BY <1>1, Numbers DEF Difference

\* Types.
LEMMA TypesStay == ClockInv /\ [Next]_vars => Typed'
<1> SUFFICES ASSUME ClockInv, [Next]_vars PROVE Typed'
  OBVIOUS
<1>1. 0 \in 0 .. Range - 1 /\ 0 \in Int /\ Expired \in Int
  BY Numbers DEF Expired
<1>2. CASE UNCHANGED <<client, dom, sub, offset, before, loaded, delays, restarted, sync>>
  BY <1>2 DEF ClockInv, Typed
<1>3. CASE Pass
  <2>1. client' \in 0 .. Range - 1
    BY <1>3, Numbers, ModType DEF Pass
  <2>2. loaded' \in 0 .. Range - 1
    BY <1>3, Numbers, ModType DEF Pass, ClockInv, Typed
  <2>3. delays' \in Nat \X Nat
    <3>1. <<0, 0>> \in Nat \X Nat /\ <<delays[1] + 1, 0>> \in Nat \X Nat
          /\ <<delays[1], delays[2] + 1>> \in Nat \X Nat /\ delays \in Nat \X Nat
      BY Numbers DEF ClockInv, Typed
    <3> QED
      BY <1>3, <3>1 DEF Pass
  <2> QED
    BY <1>3, <2>1, <2>2, <2>3 DEF Pass, ClockInv, Typed
<1>4. CASE ClientRestart
  BY <1>1, <1>4 DEF ClientRestart, ClockInv, Typed, syncVars
<1>5. CASE ServerRestart
  BY <1>1, <1>5 DEF ServerRestart, ClockInv, Typed, syncVars
<1>6. CASE SendSync
  BY <1>1, <1>6, Numbers DEF SendSync, SyncAt, Time, ClockInv, Typed
<1>7. CASE ReceiveStep0
  <2>1. Time(client) \in Int /\ AfterTime(client) \in 0 .. Range - 1
    BY <1>1, Numbers DEF Time, AfterTime
  <2>2. dom' \in Int /\ sub' \in Int
    BY <1>7, <2>1 DEF ReceiveStep0, ClockInv, Typed
  <2> QED
    BY <1>7, <2>1, <2>2, Numbers DEF ReceiveStep0, SyncAt, ClockInv, Typed
<1>8. CASE ReceiveStep1
  <2>1. Time(server) \in Int
    BY <1>1, Numbers DEF Time
  <2>2. dom + Time(server) - sub \in Int
    BY <2>1 DEF ClockInv, Typed
  <2>3. offset' \in Int
    BY <1>8, <2>2, HalfType DEF ReceiveStep1, ClockInv, Typed
  <2> QED
    BY <1>1, <1>8, <2>3, Numbers DEF ReceiveStep1, ClockInv, Typed
<1>9. CASE OffsetLoad
  BY <1>1, <1>9, DifferenceType DEF OffsetLoad, SyncAt, ClockInv, Typed, tickVars
<1>10. CASE OffsetStore
  <2>1. client' \in 0 .. Range - 1
    BY <1>10, ModType DEF OffsetStore, ClockInv, Typed
  <2> QED
    BY <1>1, <1>10, <2>1 DEF OffsetStore, SyncAt, ClockInv, Typed
<1>11. CASE ServerAlert \/ ClientAlert \/ ClientSleep \/ ClientWake \/ Register \/ UNCHANGED vars
  BY <1>2, <1>11 DEF ServerAlert, ClientAlert, ClientSleep, ClientWake, Register, vars, tickVars,
     syncVars
<1> QED
  BY <1>3, <1>4, <1>5, <1>6, <1>7, <1>8, <1>9, <1>10, <1>11
     DEF Next, ServerTick, ClientTick, Exchange
-----------------------------------------------------------------------------
(* The exchange, as long as no timer is restarted. *)

\* What the exchange says of the timers.
Phases ==
    /\ sync = "accepted" => delays = <<0, 0>>
    /\ ~restarted => Stamped /\ Answered /\ Computed /\ Loaded
    /\ DifferenceDoubles

\* A timer that was restarted is not spoken of.
LEMMA OnceRestarted ==
    ASSUME restarted', sync' = "accepted" => delays' = <<0, 0>>
    PROVE  Phases'
  BY DEF Phases, DifferenceDoubles

\* Nothing that the exchange speaks of changes.
LEMMA PhasesSame ==
    ASSUME ClockInv, UNCHANGED <<server, client, sync, dom, sub, offset, loaded, delays, before,
                                 restarted>>
    PROVE  Phases'
<1>1. Difference' = Difference /\ Lead' = Lead
  BY DEF Difference, Lead
<1> QED
  BY <1>1 DEF ClockInv, Phases, Stamped, Answered, Computed, Loaded, DifferenceDoubles

\* A millisecond passes, for both timers and for the message that is under way.
LEMMA PassStep == ASSUME ClockInv, Pass PROVE Phases'
<1>1. /\ sync' = sync /\ dom' = dom /\ sub' = sub /\ offset' = offset /\ before' = before
      /\ restarted' = restarted
  BY DEF Pass
<1>2. server' = server + 1 /\ server + 1 < 3 * Period
  BY Numbers, ModInside DEF Pass
<1>3. sync' = "accepted" => delays' = <<0, 0>>
  BY <1>1, Numbers DEF Pass, ClockInv
<1>4. CASE restarted
  BY <1>1, <1>3, <1>4, OnceRestarted
<1>5. CASE ~restarted /\ sync \in {"accepted", "to_client"}
  <2>1. sync = "to_client" => delays' = <<delays[1] + 1, 0>>
    BY <1>5 DEF Pass
  <2>2. sync = "to_client" => delays'[1] = delays[1] + 1 /\ delays'[2] = 0
    BY <2>1
  <2>3. Stamped'
    BY <1>1, <1>2, <1>5, <2>2, Numbers DEF Stamped, ClockInv, Typed
  <2> QED
    BY <1>1, <1>3, <1>5, <2>3 DEF Phases, Answered, Computed, Loaded, DifferenceDoubles
<1>6. ASSUME client + 1 < Range PROVE client' = client + 1 /\ Lead' = Lead
  BY <1>2, <1>6, Numbers, ModInside DEF Pass, Lead
<1>7. CASE ~restarted /\ sync = "to_server"
  <2>1. delays' = <<delays[1], delays[2] + 1>>
    BY <1>7 DEF Pass
  <2>2. delays'[1] = delays[1] /\ delays'[2] = delays[2] + 1
    BY <2>1
  <2>3. Answered
    BY <1>7 DEF ClockInv
  <2>4. client + 1 < Range
    BY <1>7, <2>3, Numbers DEF Answered
  <2>5. client' = client + 1 /\ Lead' = Lead
    BY <1>6, <2>4
  <2>6. Answered'
    BY <1>1, <1>2, <1>7, <2>2, <2>3, <2>5, Numbers DEF Answered, ClockInv, Typed
  <2> QED
    BY <1>1, <1>7, <2>6 DEF Phases, Stamped, Computed, Loaded, DifferenceDoubles
<1>8. CASE ~restarted /\ sync \in {"back", "dropped", "adjusting"}
  <2>1. delays' = delays
    BY <1>8 DEF Pass
  <2>2. Computed /\ Loaded
    BY <1>8 DEF ClockInv
  <2>3. client + 1 < Range
    BY <1>8, <2>2, Numbers DEF Computed, Lead
  <2>4. client' = client + 1 /\ Lead' = Lead
    BY <1>6, <2>3
  <2>5. Computed'
    BY <1>1, <2>1, <2>2, <2>4 DEF Computed
  <2>6. Loaded'
    <3>1. sync = "adjusting" => loaded' = (loaded + 1) % Range
      BY DEF Pass
    <3> QED
      BY <1>1, <2>2, <2>3, <2>4, <3>1, Numbers, ModInside DEF Loaded
  <2> QED
    BY <1>1, <1>8, <2>5, <2>6 DEF Phases, Stamped, Answered, DifferenceDoubles
<1>9. CASE ~restarted /\ sync = "done"
  <2>1. delays' = delays
    BY <1>9 DEF Pass
  <2>2. client \in 0 .. Range - 1 /\ server \in 0 .. Range - 2
    BY Numbers
  <2>3. (client' - server') % Range = (client - server) % Range
    BY <2>2, SameApart DEF Pass
  <2>4. Difference' = Difference
    BY <2>3 DEF Difference
  <2> QED
    BY <1>1, <1>9, <2>1, <2>4
       DEF ClockInv, Phases, Stamped, Answered, Computed, Loaded, DifferenceDoubles
<1> QED
  BY <1>4, <1>5, <1>7, <1>8, <1>9 DEF ClockInv, Typed

\* The first message leaves: its stamp is the server's time.
LEMMA SendSyncStep == ASSUME ClockInv, SendSync PROVE Phases'
<1>1. sync = "accepted" /\ sync' = "to_client" /\ delays' = delays /\ restarted' = (server >= Period)
  BY DEF SendSync, SyncAt
<1>2. delays = <<0, 0>>
  BY <1>1 DEF ClockInv
<1>3. CASE server >= Period
  BY <1>1, <1>3, OnceRestarted
<1>4. CASE ~(server >= Period)
  <2>1. server' = server /\ dom' = server
    BY <1>4, Numbers DEF SendSync, Time, AfterTime
  <2>2. delays'[1] = 0 /\ delays'[2] = 0
    BY <1>1, <1>2
  <2>3. Stamped'
    BY <2>1, <2>2, Numbers DEF Stamped
  <2> QED
    BY <1>1, <2>3 DEF Phases, Answered, Computed, Loaded, DifferenceDoubles
<1> QED
  BY <1>3, <1>4

\* The client answers with its time and its lead over the stamp.
LEMMA AnswerStep == ASSUME ClockInv, ReceiveStep0 PROVE Phases'
<1>1. sync = "to_client" /\ sync' = "to_server" /\ delays' = delays /\ server' = server
      /\ restarted' = (restarted \/ client >= Period)
  BY DEF ReceiveStep0, SyncAt
<1>2. CASE restarted'
  BY <1>1, <1>2, OnceRestarted
<1>3. CASE ~restarted'
  <2>1. ~restarted /\ client < Period
    <3>1. ~restarted /\ ~(client >= Period)
      BY <1>1, <1>3, Zenon
    <3> QED
      BY <3>1, Numbers
  <2>2. Stamped
    BY <2>1 DEF ClockInv
  <2>3. client' = client /\ sub' = client /\ dom' = client - dom
    BY <2>1, Numbers DEF ReceiveStep0, Time, AfterTime
  <2>4. Answered'
    BY <1>1, <2>1, <2>2, <2>3, Numbers DEF Stamped, Answered, Lead
  <2> QED
    BY <1>1, <2>4 DEF Phases, Stamped, Computed, Loaded, DifferenceDoubles
<1> QED
  BY <1>2, <1>3

\* The server computes the offset: the lead, up to half the difference of the delays.
LEMMA ComputeStep == ASSUME ClockInv, ReceiveStep1 PROVE Phases'
<1>1. sync = "to_server" /\ sync' \in {"back", "dropped"} /\ delays' = delays /\ client' = client
      /\ restarted' = (restarted \/ server >= Period)
  BY DEF ReceiveStep1
<1>2. CASE restarted'
  BY <1>1, <1>2, OnceRestarted
<1>3. CASE ~restarted'
  <2>1. ~restarted /\ server < Period
    <3>1. ~restarted /\ ~(server >= Period)
      BY <1>1, <1>3, Zenon
    <3> QED
      BY <3>1, Numbers
  <2>2. /\ sub \in 0 .. Period - 1 /\ client = sub + delays[2] /\ dom = Lead + delays[1]
        /\ delays[1] + delays[2] <= server
    BY <1>1, <2>1 DEF ClockInv, Answered
  <2>3. server' = server /\ offset' = dom - Half(dom + server - sub)
    BY <2>1, Numbers DEF ReceiveStep1, Time, AfterTime
  <2>4. dom + server - sub = delays[1] + delays[2]
    BY <2>2, Numbers DEF Lead
  <2>5. Lead' = Lead
    BY <1>1, <2>3 DEF Lead
  <2>6. offset' = Lead + delays[1] - Half(delays[1] + delays[2])
    <3>1. offset' = dom - Half(delays[1] + delays[2])
      BY <2>3, <2>4, Zenon
    <3>2. Half(delays[1] + delays[2]) \in Int /\ Lead \in Int
      BY Numbers, HalfType DEF Lead
    <3> QED
      BY <2>2, <3>1, <3>2, Numbers
  <2>7. Lead < Period - delays[1] /\ -Lead < Period - delays[2] /\ delays[1] + delays[2] < Period
    BY <2>1, <2>2, Numbers DEF Lead
  <2>8. Computed'
    BY <1>1, <2>5, <2>6, <2>7 DEF Computed
  <2> QED
    BY <1>1, <2>8 DEF Phases, Stamped, Answered, Loaded, DifferenceDoubles
<1> QED
  BY <1>2, <1>3

\* The client reads its start: the lead is the difference of the timers.
LEMMA LoadStep == ASSUME ClockInv, OffsetLoad PROVE Phases'
<1>1. /\ sync = "back" /\ sync' = "adjusting" /\ delays' = delays /\ server' = server
      /\ client' = client /\ offset' = offset /\ restarted' = restarted /\ loaded' = client
      /\ before' = (IF restarted THEN 0 ELSE Difference)
  BY DEF OffsetLoad, SyncAt, tickVars
<1>2. CASE restarted
  BY <1>1, <1>2, OnceRestarted
<1>3. CASE ~restarted
  <2>1. Computed
    BY <1>3 DEF ClockInv
  <2>2. Lead \in Int /\ Lead < Period /\ -Lead < Period
    BY <1>1, <2>1, Numbers DEF Computed, Lead
  <2>3. Difference = Lead
    <3>1. CASE Lead >= 0
      <4>1. (client - server) % Range = Lead
        BY <2>2, <3>1, Numbers, ModInside DEF Lead
      <4> QED
        BY <2>2, <4>1, Numbers DEF Difference
    <3>2. CASE Lead < 0
      <4>1. (client - server) % Range = Lead + Range
        BY <2>2, <3>2, Numbers, ModBelow DEF Lead
      <4> QED
        BY <2>2, <3>2, <4>1, Numbers DEF Difference
    <3> QED
      BY <2>2, <3>1, <3>2
  <2>4. Lead' = Lead
    BY <1>1 DEF Lead
  <2>5. Loaded'
    BY <1>1, <1>3, <2>3, <2>4 DEF Loaded
  <2>6. Computed'
    BY <1>1, <2>1, <2>4 DEF Computed
  <2> QED
    BY <1>1, <2>5, <2>6 DEF Phases, Stamped, Answered, DifferenceDoubles
<1> QED
  BY <1>2, <1>3

\* The lead and two delays that fit into a period, and what the offset makes of them.
LEMMA Doubled ==
    ASSUME NEW P \in Nat, NEW lead \in Int, NEW a \in Nat, NEW b \in Nat,
           lead < P - a, -lead < P - b, a + b < P
    PROVE  LET t == 2 * lead + a - Half(a + b) IN
           /\ t \in Int /\ t < 2 * P /\ -t < 2 * P
           /\ t - 2 * lead - Half(a - b) \in -1 .. 1
  BY DEF Half

\* The client sets its start back by the offset: what it is ahead is doubled.
LEMMA StoreStep == ASSUME ClockInv, OffsetStore PROVE Phases'
<1>1. /\ sync = "adjusting" /\ sync' = "done" /\ delays' = delays /\ server' = server
      /\ before' = before /\ restarted' = restarted /\ client' = (loaded + offset) % Range
  BY DEF OffsetStore, SyncAt
<1>2. CASE restarted
  BY <1>1, <1>2, OnceRestarted
<1>3. CASE ~restarted
  <2>1. /\ loaded = client /\ before = Lead
        /\ offset = Lead + delays[1] - Half(delays[1] + delays[2])
        /\ Lead < Period - delays[1] /\ -Lead < Period - delays[2]
        /\ delays[1] + delays[2] < Period
    BY <1>1, <1>3 DEF ClockInv, Computed, Loaded
  <2>2. Lead \in Int /\ client = server + Lead
    BY Numbers DEF Lead
  <2>3. PICK t : t = 2 * Lead + delays[1] - Half(delays[1] + delays[2])
    OBVIOUS
  <2>4. /\ t \in Int /\ t < 2 * Period /\ -t < 2 * Period
        /\ t - 2 * Lead - Half(delays[1] - delays[2]) \in -1 .. 1
    BY <2>1, <2>2, <2>3, Numbers, Doubled
  <2>5. Half(delays[1] + delays[2]) \in Int
    BY Numbers, HalfType
  <2>6. loaded + offset = server + t
    BY <2>1, <2>2, <2>3, <2>5, Numbers
  <2>7. server \in 0 .. Range - 1 /\ -Range <= t /\ t < Range
    BY <2>4, Numbers
  <2>8. (client' - server') % Range = IF t >= 0 THEN t ELSE t + Range
    BY <1>1, <2>4, <2>6, <2>7, Ahead
  <2>9. Difference' = t
    BY <2>4, <2>8, Numbers DEF Difference
  <2>10. DifferenceDoubles'
    BY <1>1, <2>1, <2>4, <2>9 DEF DifferenceDoubles
  <2> QED
    BY <1>1, <2>10 DEF Phases, Stamped, Answered, Computed, Loaded
<1> QED
  BY <1>2, <1>3

\* Every step.
LEMMA ClockStep == ClockInv /\ [Next]_vars => ClockInv'
<1> SUFFICES ASSUME ClockInv, [Next]_vars PROVE Phases'
  BY ServerStays, TypesStay DEF ClockInv, Phases
<1>1. CASE ServerRestart
  BY <1>1, OnceRestarted DEF ServerRestart, syncVars, ClockInv
<1>2. CASE ClientRestart
  BY <1>2, OnceRestarted DEF ClientRestart, syncVars, ClockInv
<1>3. CASE ServerAlert \/ ClientAlert \/ ClientSleep \/ ClientWake \/ Register \/ UNCHANGED vars
  BY <1>3, PhasesSame DEF ServerAlert, ClientAlert, ClientSleep, ClientWake, Register, vars,
     tickVars, syncVars
<1> QED
  BY <1>1, <1>2, <1>3, PassStep, SendSyncStep, AnswerStep, ComputeStep, LoadStep, StoreStep
     DEF Next, ServerTick, ClientTick, Exchange

\* In every reachable state in which the exchange is done and no timer was restarted since it
\* began, the client's lead over the server is twice what it was, up to half the difference of
\* the two delays and a rounding (PeriodicTimer.cpp:24), for every width, period and delay.
THEOREM LeadDoubles == Spec => []DifferenceDoubles
<1>1. ClockInv => DifferenceDoubles
  BY DEF ClockInv
<1> QED
  BY <1>1, ClockInit, ClockStep, PTL DEF Spec

=============================================================================
