---------------------------- MODULE MCTickClock ----------------------------
(* Nothing to define: the constants are numbers. *)
EXTENDS TickClock
=============================================================================
