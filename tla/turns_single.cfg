SPECIFICATION PolledSpec
CONSTANTS
    Sessions = {s1}
    Directories = {d1}
    Requests = {r1}
    Turns = {t1, t2}
    Faults = {"refuse", "lost", "death"}
    MaxFaults = 2
    MaxBindings = 2
CHECK_DEADLOCK FALSE
PROPERTIES SubmissionsEnd RunningEnds
