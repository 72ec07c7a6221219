\* Promises the code does not keep: TLC refutes each of them; the README says how.
\* TLC stops at the first: enable one at a time.
SPECIFICATION Spec
CONSTANTS
    Requests = {r1, r2}
    Paths = {"/a"}
    Contents = {c1, c2}
    Faults = {"write", "short", "execd", "silent", "crash"}
    MaxFaults = 2
    MaxWrites = 1
CHECK_DEADLOCK FALSE
INVARIANT NothingLost
\* INVARIANT ReadersSeeWhole
\* PROPERTY SavedIsWhole
