SPECIFICATION Spec
CONSTANTS
    Sessions = {s1}
    Directories = {d1}
    Requests = {r1, r2}
    Turns = {t1, t2}
    Faults = {}
    MaxFaults = 0
    MaxBindings = 1
CHECK_DEADLOCK FALSE
INVARIANT OneActiveTurn
