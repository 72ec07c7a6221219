SPECIFICATION Spec
CONSTANTS
    Sessions = {s1}
    Requests = {r1, r2}
    Reaper = reaper
    Keys = {k1}
    Capacity = 1
    Faults = {"silent"}
    MaxFaults = 1
    MaxServed = 2
SYMMETRY Symmetric
CHECK_DEADLOCK FALSE
PROPERTY StopStops
