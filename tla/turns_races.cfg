SPECIFICATION Spec
CONSTANTS
    Sessions = {s1}
    Directories = {d1}
    Requests = {r1, r2}
    Turns = {t1, t2}
    Faults = {"refuse", "lost", "death", "crash"}
    MaxFaults = 1
    MaxBindings = 2
SYMMETRY Symmetric
CONSTRAINT TwoTurnsOrTwoBindings
CHECK_DEADLOCK FALSE
INVARIANTS TypeOK ActiveIsRunning RunningWasAccepted
PROPERTY FinishedNeverRuns
