SPECIFICATION FairSpec
CONSTANTS
    Terminals = {t1}
    Requests = {r1}
    Conns = {c1, c2}
    MaxTerminals = 1
    MaxTickets = 2
    Faults = {"refuse", "lost", "handshake", "down", "crash"}
    MaxFaults = 2
CHECK_DEADLOCK FALSE
INVARIANT TypeOK
PROPERTIES TicketsRevoked ExpiredIsClosed LifetimeIsHard
