----------------------------- MODULE Broadcast -----------------------------
(***************************************************************************)
(* What the server's message pool promises its clients: the messages it    *)
(* stores form one log, and every client is sent that log, each message    *)
(* once and in the order of the log.                                       *)
(***************************************************************************)
EXTENDS Naturals, Sequences

CONSTANTS Messages, NumClients

VARIABLES log,      \* the messages stored, in order
          sent      \* what each client was sent, in order

Clients == 1 .. NumClients

Init == log = <<>> /\ sent = [c \in Clients |-> <<>>]

Store == \E m \in Messages : log' = Append(log, m) /\ UNCHANGED sent

Deliver(c) ==
    /\ Len(sent[c]) < Len(log)
    /\ sent' = [sent EXCEPT ![c] = Append(@, log[Len(@) + 1])]
    /\ UNCHANGED log

Next == Store \/ \E c \in Clients : Deliver(c)

Spec == Init /\ [][Next]_<<log, sent>>
=============================================================================
