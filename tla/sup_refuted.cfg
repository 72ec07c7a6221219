\* Promises the code does not keep: TLC refutes each of them; the README says how.
\* TLC stops at the first: enable one at a time.
SPECIFICATION Spec
CONSTANTS
    Sessions = {s1}
    Requests = {r1, r2}
    Reaper = reaper
    Keys = {k1}
    Capacity = 1
    Faults = {}
    MaxFaults = 0
    MaxServed = 2
SYMMETRY Symmetric
CHECK_DEADLOCK FALSE
INVARIANT DeletedIsGone
\* INVARIANT ReaperRuns
\* INVARIANT ToolsAreFresh
\* PROPERTY StopsOnlyIdle
