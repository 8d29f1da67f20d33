--------------------------- MODULE MCReplication ---------------------------
(* Replication with its clients and positions as model values. *)
EXTENDS Replication, TLC

Symmetry == Permutations(Clients) \cup Permutations(Positions)

InTransit(c) == Len(up[c]) + Len(down[c]) + Len(pending[c])

\* Bound: once two orders are given, or one is and a message lost, at most two messages
\* are in transit; nothing is lost with a second order.
SecondBound ==
    orders + lost < 2 \/
        (orders + lost = 2 /\ \A c, d \in Clients : c # d => InTransit(c) + InTransit(d) <= 2)
=============================================================================
