SPECIFICATION FairSpec
CONSTANTS
    Sessions = {s1}
    Requests = {r1, r2}
    Models = {"coding-default", "large"}
    Default = "coding-default"
    SystemPrompts = {0, 1}
    MaxReplaces = 2
    Faults = {"refuse", "sync", "exit", "crash"}
    MaxFaults = 1
CHECK_DEADLOCK FALSE
PROPERTY RequestsEnd
