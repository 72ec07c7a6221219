SPECIFICATION Spec
CONSTANTS
    Terminals = {t1, t2}
    Requests = {r1, r2}
    Conns = {c1}
    MaxTerminals = 1
    MaxTickets = 1
    Faults = {}
    MaxFaults = 0
CHECK_DEADLOCK FALSE
INVARIANT LimitRespected
