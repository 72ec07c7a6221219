SPECIFICATION FairSpec
CONSTANTS
    Models = {"coding-default", "large"}
    Default = "coding-default"
    Policies = {p1}
    ModelVersions = {1, 2}
    PolicyVersions = {1}
    Instances = {i1}
    Faults = {"database", "crash"}
    MaxFaults = 1
    MaxEdits = 2
CHECK_DEADLOCK FALSE
INVARIANTS TypeOK CatalogIsApplied PinnedIsLoadable
PROPERTIES PinnedIsFrozen FileIsApplied
