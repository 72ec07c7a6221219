SPECIFICATION FairSpec
CONSTANTS
    Instances = {a, b}
    Policies = {1}
    ProvisionAttempts = 2
    RecoveryAttempts = 2
    Faults = {"reject", "lost", "death"}
    MaxFaults = 1
    MaxRequests = 2
    MaxCredentials = 2
CHECK_DEADLOCK FALSE
PROPERTIES AllOperationsEnd DeathIsNoticed
