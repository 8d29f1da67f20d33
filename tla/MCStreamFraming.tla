-------------------------- MODULE MCStreamFraming --------------------------
(* A sync, an entity and a transform message, with scaled-down sizes. *)
EXTENDS StreamFraming

MCSizes == <<2, 3, 2>>
=============================================================================
