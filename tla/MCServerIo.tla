----------------------------- MODULE MCServerIo -----------------------------
(* Two workers, two messages of the client, the first one answered, one broadcast; one  *)
(* accept and one call of WSARecv or WSASend may fail.                                  *)
EXTENDS ServerIo, TLC

Symmetry == Permutations(Workers)
=============================================================================
