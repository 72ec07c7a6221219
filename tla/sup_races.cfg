SPECIFICATION FairSpec
CONSTANTS
    Sessions = {s1, s2}
    Requests = {r1, r2}
    Reaper = reaper
    Keys = {k1}
    Capacity = 1
    Faults = {"spawn", "silent", "lost", "death"}
    MaxFaults = 1
    MaxServed = 2
CHECK_DEADLOCK FALSE
INVARIANTS TypeOK OneKnownProcess
PROPERTY RequestsEnd
