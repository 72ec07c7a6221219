\* Promises the code does not keep: TLC refutes each of them; the README says how.
\* TLC stops at the first: enable one at a time.
SPECIFICATION Spec
CONSTANTS
    Instances = {a}
    Policies = {1, 2}
    ProvisionAttempts = 2
    RecoveryAttempts = 2
    Faults = {"lost", "death"}
    MaxFaults = 1
    MaxRequests = 3
    MaxCredentials = 2
CHECK_DEADLOCK FALSE
INVARIANT TransitionalIsOwed
\* INVARIANT OneActivePerClass
\* INVARIANT StoppedHasNothing
\* INVARIANT StoppedIsClean
\* INVARIANT StoppingRefusesSessions
\* INVARIANT StopsSucceed
\* INVARIANT ReadyIsCurrent
\* PROPERTY RecoversOnlyTheDead
