SPECIFICATION Spec
CONSTANTS
    Sessions = {s1, s2}
    Requests = {r1, r2, r3}
    Reaper = reaper
    Keys = {k1, k2}
    Capacity = 1
    Faults = {"spawn", "death"}
    MaxFaults = 1
    MaxServed = 1
SYMMETRY Symmetric
CHECK_DEADLOCK FALSE
INVARIANTS CapacityRespected PromptOnce DeletedIsGone
PROPERTIES NextPromptRestarts StopStops
