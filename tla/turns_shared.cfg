SPECIFICATION Spec
CONSTANTS
    Sessions = {s1, s2}
    Directories = {d1}
    Requests = {r1}
    Turns = {t1}
    Faults = {}
    MaxFaults = 0
    MaxBindings = 2
CHECK_DEADLOCK FALSE
INVARIANT OwnBridgeSession
