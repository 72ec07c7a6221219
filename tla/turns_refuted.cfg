\* Promises the code does not keep: TLC refutes each of them; the README says how.
\* TLC stops at the first: enable one at a time.
SPECIFICATION Spec
CONSTANTS
    Sessions = {s1}
    Directories = {d1}
    Requests = {r1}
    Turns = {t1}
    Faults = {}
    MaxFaults = 0
    MaxBindings = 1
CHECK_DEADLOCK FALSE
PROPERTY TerminalIsFinal
\* INVARIANT SucceededIsDone
