--------------------------- MODULE MCCompactArray ---------------------------
(* CompactArray with five users of an array whose indices stop at 4, so that  *)
(* the assertion of get() is reached.                                        *)
EXTENDS CompactArray

MCHolders == 1 .. 5
=============================================================================
