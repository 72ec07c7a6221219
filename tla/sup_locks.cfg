SPECIFICATION Spec
CONSTANTS
    Sessions = {s1, s2, s3}
    Requests = {r1, r2, r3}
    Reaper = reaper
    Keys = {k1}
    Capacity = 1
    Faults = {}
    MaxFaults = 0
    MaxServed = 3
SYMMETRY Symmetric
CHECK_DEADLOCK FALSE
INVARIANT NoLockCycle
