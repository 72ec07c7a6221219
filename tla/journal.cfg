SPECIFICATION FairSpec
CONSTANTS
    Appenders = {a1, a2}
    Streams = {s1}
    SegmentSize = 2
    SegmentCount = 2
    MaxEvents = 6
    Faults = {"crash", "torn", "disconnect", "unlink"}
    MaxFaults = 2
CHECK_DEADLOCK FALSE
INVARIANTS TypeOK ReceivedOnce RetentionHolds
PROPERTY StoredIsReceived
