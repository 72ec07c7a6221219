SPECIFICATION Spec
CONSTANTS
    Instances = {a}
    Policies = {1}
    ProvisionAttempts = 2
    RecoveryAttempts = 2
    Faults = {"reject", "death"}
    MaxFaults = 1
    MaxRequests = 3
    MaxCredentials = 2
CHECK_DEADLOCK FALSE
INVARIANT SandboxesAccounted
