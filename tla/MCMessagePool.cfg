\* Two workers, so that one may wait for the mutex while the other stores; three
\* messages, so that both arrays can hold messages at once and one of them two.
CONSTANTS
    Messages = {m1, m2, m3}
    Workers = {w1, w2}
    NumClients = 2
    TickThread = tick
    NoThread = nobody
SPECIFICATION FairSpec
INVARIANTS
    NoRace
    Ledger
PROPERTIES
    LogSpec
    EveryMessageIsSent
