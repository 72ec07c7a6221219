\* Promises the code does not keep: TLC refutes each of them; the README says how.
\* TLC stops at the first: enable one at a time.
SPECIFICATION Spec
CONSTANTS
    Terminals = {t1}
    Requests = {r1}
    Conns = {c1, c2}
    MaxTerminals = 1
    MaxTickets = 2
    Faults = {}
    MaxFaults = 0
CHECK_DEADLOCK FALSE
INVARIANT DeletedIsGone
\* PROPERTY ClosedIsFinal
\* PROPERTY CleanupSparesBrowsers
