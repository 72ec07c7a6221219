SPECIFICATION FairSpec
CONSTANTS
    Sessions = {s1}
    Directories = {d1}
    Requests = {r1}
    Turns = {t1}
    Faults = {"crash"}
    MaxFaults = 1
    MaxBindings = 1
CHECK_DEADLOCK FALSE
PROPERTY SubmissionsEnd
