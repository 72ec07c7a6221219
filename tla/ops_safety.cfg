SPECIFICATION Spec
CONSTANTS
    Instances = {a}
    Policies = {1, 2}
    ProvisionAttempts = 2
    RecoveryAttempts = 2
    Faults = {"reject", "lost", "death", "crash", "database"}
    MaxFaults = 1
    MaxRequests = 2
    MaxCredentials = 2
CHECK_DEADLOCK FALSE
INVARIANTS TypeOK OneActivePerKind StoppedIsRevoked ReadyIsConsistent
PROPERTIES RetryBudget ProvisionDelivers AbandonedByRacesOnly ImplementsLifecycle
