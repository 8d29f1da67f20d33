--------------------------- MODULE MCMessagePool ---------------------------
(* MessagePool with its workers and messages as model values. *)
EXTENDS MessagePool
=============================================================================
