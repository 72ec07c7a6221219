\* Promises the code does not keep: TLC refutes each of them; the README says how.
\* TLC stops at the first: enable one at a time.
SPECIFICATION Spec
CONSTANTS
    Sessions = {s1}
    Requests = {r1, r2}
    Models = {"coding-default", "large"}
    Default = "coding-default"
    SystemPrompts = {0, 1}
    MaxReplaces = 2
    Faults = {"refuse"}
    MaxFaults = 0
CHECK_DEADLOCK FALSE
INVARIANT SessionsAreListed
\* PROPERTY UsedWasListed
\* PROPERTY ReportedIsUsed
\* PROPERTY LoadedIsCurrent
