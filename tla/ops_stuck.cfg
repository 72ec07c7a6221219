\* Either fault ends the worker or what it was doing for good: also with Faults = {"database"}.
SPECIFICATION FairSpec
CONSTANTS
    Instances = {a}
    Policies = {1}
    ProvisionAttempts = 2
    RecoveryAttempts = 2
    Faults = {"crash"}
    MaxFaults = 1
    MaxRequests = 2
    MaxCredentials = 2
CHECK_DEADLOCK FALSE
PROPERTY AllOperationsEnd
