SPECIFICATION Spec
CONSTANTS
    Appenders = {a1, a2}
    Streams = {s1}
    SegmentSize = 2
    SegmentCount = 2
    MaxEvents = 4
    Faults = {"halfway"}
    MaxFaults = 1
CHECK_DEADLOCK FALSE
INVARIANT ReceivedOnce
