SPECIFICATION Spec
CONSTANTS
    Requests = {r1, r2}
    Paths = {"/a"}
    Contents = {c1, c2}
    Faults = {"write", "short", "execd", "silent", "crash"}
    MaxFaults = 2
    MaxWrites = 1
CHECK_DEADLOCK FALSE
INVARIANTS TypeOK NamedIsReplaced
PROPERTIES StaysWhole SavedIsThere
