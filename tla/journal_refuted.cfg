\* Promises the code does not keep: TLC refutes each of them; the README says how.
\* TLC stops at the first: enable one at a time.
SPECIFICATION Spec
CONSTANTS
    Appenders = {a1, a2}
    Streams = {s1}
    SegmentSize = 2
    SegmentCount = 2
    MaxEvents = 6
    Faults = {"torn"}
    MaxFaults = 1
CHECK_DEADLOCK FALSE
PROPERTY AppendedIsReadable
\* INVARIANT RetainedIsReceived
