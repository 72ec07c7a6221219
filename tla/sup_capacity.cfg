SPECIFICATION Spec
CONSTANTS
    Sessions = {s1, s2}
    Requests = {r1, r2}
    Reaper = reaper
    Keys = {k1}
    Capacity = 1
    Faults = {}
    MaxFaults = 0
    MaxServed = 2
SYMMETRY Symmetric
CHECK_DEADLOCK FALSE
INVARIANTS CapacityRespected
