----------------------------- MODULE TickClock -----------------------------
(***************************************************************************)
(* The PeriodicTimers of the server's and of one client's tick, the        *)
(* exchange of sync messages that adjusts the client's, and the client's   *)
(* tick thread, which sleeps until its timer is due.  A timer is used only *)
(* through GetTickCount() - _start_time_ms, so that difference, modulo the *)
(* width of a DWORD, is its state and the two clocks need no origin.       *)
(***************************************************************************)
EXTENDS Integers

CONSTANTS Range,        \* 2^32: a DWORD
          Period,       \* the period of both tick timers
          MaxLate       \* bound on the time a runnable tick thread waits for a processor

ASSUME RangeAssumption ==
    /\ Range \in Nat /\ Period \in Nat \ {0} /\ MaxLate \in Nat
    /\ Range > 4 * Period /\ MaxLate < Period

Expired == Range - 1    \* (DWORD) -1
INFINITE == Range - 1   \* the same number, as the time to Sleep()

VARIABLES server,       \* the time since the start of the server's timer
          client,       \* the same for the client's
          serverPc,     \* the server's tick thread: "alert", "restart"
          clientPc,     \* the client's: "alert", "restart", "remaining", "sleep"
          sleep,        \* what is left of its Sleep()
          serverLate, clientLate,   \* how long each has been waiting to run
          sync,         \* where the exchange is
          registered,   \* the client is in _clients
          dom, sub, offset,         \* the times in the sync message, 0 when no longer read
          loaded,       \* the time since the start that offset() has read
          delays,       \* history: how long the first two messages were under way,
                        \* as long as no timer was restarted
          before,       \* history: the difference of the timers before the adjustment
          restarted     \* history: a timer was restarted since the exchange began

tickVars == <<server, client, serverPc, clientPc, sleep, serverLate, clientLate>>
syncVars == <<sync, registered, dom, sub, offset, loaded, delays, before>>
vars == <<tickVars, syncVars, restarted>>

\* The difference of the timers, as a signed number.
Difference ==
    LET d == (client - server) % Range IN IF d < Range \div 2 THEN d ELSE d - Range

Init ==
    /\ server \in 0 .. Period /\ client \in 0 .. Period
    /\ serverPc = "alert" /\ clientPc = "alert"
    /\ sleep = 0 /\ serverLate = 0 /\ clientLate = 0
    /\ sync = "accepted" /\ registered = FALSE
    /\ dom = 0 /\ sub = 0 /\ offset = 0 /\ loaded = 0
    /\ delays = <<0, 0>> /\ before = 0
    /\ restarted = FALSE

-----------------------------------------------------------------------------
Asleep == clientPc = "sleep" /\ sleep > 0

\* Sleep(INFINITE) does not return.
Hung == clientPc = "sleep" /\ sleep = INFINITE

\* A millisecond passes; a tick thread that may run is not kept waiting beyond the bound.
Pass ==
    /\ serverLate < MaxLate \/ (serverPc = "alert" /\ server < Period)
    /\ Asleep \/ clientLate < MaxLate
    /\ server' = (server + 1) % Range
    /\ client' = (client + 1) % Range
    /\ sleep' = (IF Asleep /\ ~Hung THEN sleep - 1 ELSE sleep)
    /\ clientLate' = (IF Asleep THEN 0 ELSE clientLate + 1)
    /\ serverLate' = (IF serverPc = "alert" /\ server < Period THEN 0 ELSE serverLate + 1)
    /\ delays' = (CASE restarted           -> <<0, 0>>
                    [] sync = "to_client" -> <<delays[1] + 1, 0>>
                    [] sync = "to_server" -> <<delays[1], delays[2] + 1>>
                    [] OTHER              -> delays)
    /\ loaded' = (IF sync = "adjusting" THEN (loaded + 1) % Range ELSE loaded)
    /\ UNCHANGED <<serverPc, clientPc, sync, registered, dom, sub, offset, before, restarted>>

-----------------------------------------------------------------------------
(* alert() and remaining(). *)

\* The server's tick thread polls; alert() looks at the clock, then again to restart.
ServerAlert ==
    /\ serverPc = "alert" /\ server >= Period
    /\ serverPc' = "restart"
    /\ serverLate' = 0
    /\ UNCHANGED <<server, client, clientPc, sleep, clientLate, syncVars, restarted>>

ServerRestart ==
    /\ serverPc = "restart"
    /\ server' = 0
    /\ serverPc' = "alert"
    /\ serverLate' = 0
    /\ restarted' = TRUE
    /\ UNCHANGED <<client, clientPc, sleep, clientLate, syncVars>>

\* Variant of ClientAlert: the period must have passed exactly.
ClientAlertExact ==
    /\ clientPc = "alert"
    /\ clientPc' = (IF client = Period THEN "restart" ELSE "remaining")
    /\ clientLate' = 0
    /\ UNCHANGED <<server, client, serverPc, sleep, serverLate, syncVars, restarted>>

ClientAlert ==
    /\ clientPc = "alert"
    /\ clientPc' = (IF client >= Period THEN "restart" ELSE "remaining")
    /\ clientLate' = 0
    /\ UNCHANGED <<server, client, serverPc, sleep, serverLate, syncVars, restarted>>

\* The client ticks.
ClientRestart ==
    /\ clientPc = "restart"
    /\ client' = 0
    /\ clientPc' = "alert"
    /\ clientLate' = 0
    /\ restarted' = TRUE
    /\ UNCHANGED <<server, serverPc, sleep, serverLate, syncVars>>

\* Sleep(_tick_timer.remaining()): the difference is a DWORD, so it is never negative,
\* and one millisecond after the period it is INFINITE.
ClientSleep ==
    /\ clientPc = "remaining"
    /\ sleep' = (Period - client) % Range
    /\ clientPc' = "sleep"
    /\ clientLate' = 0
    /\ UNCHANGED <<server, client, serverPc, serverLate, syncVars, restarted>>

ClientWake ==
    /\ clientPc = "sleep" /\ sleep = 0
    /\ clientPc' = "alert"
    /\ clientLate' = 0
    /\ UNCHANGED <<server, client, serverPc, sleep, serverLate, syncVars, restarted>>

-----------------------------------------------------------------------------
(* The exchange of sync messages. *)

\* time(): a period that has passed is restarted and reported as (DWORD) -1.
Time(elapsed) == IF elapsed >= Period THEN Expired ELSE elapsed
AfterTime(elapsed) == IF elapsed >= Period THEN 0 ELSE elapsed

Half(n) == IF n >= 0 THEN n \div 2 ELSE -((-n) \div 2)

SyncAt(from, to) == sync = from /\ sync' = to

\* Server::sync, in the accept thread ...
SendSync ==
    /\ SyncAt("accepted", "to_client")
    /\ dom' = Time(server)
    /\ server' = AfterTime(server)
    /\ restarted' = (server >= Period)
    /\ UNCHANGED <<client, serverPc, clientPc, sleep, serverLate, clientLate,
                   registered, sub, offset, loaded, delays, before>>

\* ... which then registers the client.
Register ==
    /\ sync # "accepted" /\ ~registered
    /\ registered' = TRUE
    /\ UNCHANGED <<tickVars, sync, dom, sub, offset, loaded, delays, before, restarted>>

\* Step 0 at the client: its time, and by how much it is ahead of the server's stamp.
ReceiveStep0 ==
    /\ SyncAt("to_client", "to_server")
    /\ dom' = Time(client) - dom
    /\ sub' = Time(client)
    /\ client' = AfterTime(client)
    /\ restarted' = (restarted \/ client >= Period)
    /\ UNCHANGED <<server, serverPc, clientPc, sleep, serverLate, clientLate,
                   registered, offset, loaded, delays, before>>

\* Variant of ReceiveStep1: the mean of the delays is not taken off.
ReceiveStep1WithoutMean ==
    /\ sync = "to_server"
    /\ sync' = (IF registered THEN "back" ELSE "dropped")
    /\ offset' = dom
    /\ server' = AfterTime(server)
    /\ dom' = 0 /\ sub' = 0
    /\ restarted' = (restarted \/ server >= Period)
    /\ UNCHANGED <<client, serverPc, clientPc, sleep, serverLate, clientLate,
                   registered, loaded, delays, before>>

\* Step 1 at the server, whose answer send_to_client drops unless the client is registered.
ReceiveStep1 ==
    /\ sync = "to_server"
    /\ sync' = (IF registered THEN "back" ELSE "dropped")
    /\ offset' = dom - Half(dom + Time(server) - sub)
    /\ server' = AfterTime(server)
    /\ dom' = 0 /\ sub' = 0
    /\ restarted' = (restarted \/ server >= Period)
    /\ UNCHANGED <<client, serverPc, clientPc, sleep, serverLate, clientLate,
                   registered, loaded, delays, before>>

\* Step 2 at the client: offset() subtracts the offset from the start, in the receive
\* thread and without a lock, while the tick thread may restart the timer.
OffsetLoad ==
    /\ SyncAt("back", "adjusting")
    /\ loaded' = client
    /\ before' = (IF restarted THEN 0 ELSE Difference)
    /\ UNCHANGED <<tickVars, registered, dom, sub, offset, delays, restarted>>

\* A restart in between is overwritten.
OffsetStore ==
    /\ SyncAt("adjusting", "done")
    /\ client' = (loaded + offset) % Range
    /\ offset' = 0 /\ loaded' = 0
    /\ UNCHANGED <<server, serverPc, clientPc, sleep, serverLate, clientLate,
                   registered, dom, sub, delays, before, restarted>>

-----------------------------------------------------------------------------
ServerTick == ServerAlert \/ ServerRestart
ClientTick == ClientAlert \/ ClientRestart \/ ClientSleep \/ ClientWake
Exchange ==
    \/ SendSync \/ Register \/ ReceiveStep0 \/ ReceiveStep1
    \/ OffsetLoad \/ OffsetStore

Next == Pass \/ ServerTick \/ ClientTick \/ Exchange

Spec == Init /\ [][Next]_vars

\* Time passes and the threads run.  Nothing is assumed of the network.
FairSpec == Spec /\ WF_vars(Pass) /\ WF_vars(ServerTick) /\ WF_vars(ClientTick)

-----------------------------------------------------------------------------
\* What the exchange does to the client's timer when no timer was restarted meanwhile:
\* the difference to the server's timer is doubled, up to half the difference of the two
\* delays and a rounding, since the offset is subtracted from the start of the period,
\* not from the time that has passed.  Only timers that agree stay in agreement.
DifferenceDoubles ==
    (sync = "done" /\ ~restarted) =>
        LET error == Difference - 2 * before - Half(delays[1] - delays[2])
        IN  error \in -1 .. 1

\* The client ticks for ever, unless remaining() once reads the clock exactly one
\* millisecond after the end of the period and its tick thread sleeps for good.  Any
\* other time that remaining() wraps to, when the period passes between alert() and it
\* or an adjustment sets the start of the period anywhere, even after the present, is
\* finite, and the thread wakes up to find its timer due.
ClientKeepsTicking == []<>(clientPc = "restart") \/ <>[]Hung
=============================================================================
