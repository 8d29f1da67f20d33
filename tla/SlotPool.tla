------------------------------ MODULE SlotPool ------------------------------
(***************************************************************************)
(* What a slot allocator promises: a holder gets a slot nobody holds, and  *)
(* the slot's number is below the largest number of slots ever held at the *)
(* same time, so a pool that never exceeds its capacity never leaves it.   *)
(***************************************************************************)
EXTENDS Integers

CONSTANTS Holders, None

VARIABLES slot,     \* the slot each holder has, or None
          peak      \* the most slots ever held at once

\* Every slot that was ever in use is in use.
Full == \A s \in 0 .. peak - 1 : \E h \in Holders : slot[h] = s

Init == slot = [h \in Holders |-> None] /\ peak = 0

Acquire(h) ==
    /\ slot[h] = None
    /\ \E s \in 0 .. peak :
         /\ \A g \in Holders : slot[g] # s
         /\ slot' = [slot EXCEPT ![h] = s]
         /\ peak' = (IF Full THEN peak + 1 ELSE peak)
         /\ s < peak'

Release(h) ==
    /\ slot[h] # None
    /\ slot' = [slot EXCEPT ![h] = None]
    /\ UNCHANGED peak

Next == \E h \in Holders : Acquire(h) \/ Release(h)

Spec == Init /\ [][Next]_<<slot, peak>>
=============================================================================
