CONSTANTS
    None = None
    Forks = {1, 2}
    StartLen = 5
    MaxLen = 5
    MaxChanges = 3
    maxWorkers = 2
    MaxFaults = 2
    MaxRevertFaults = 1
SPECIFICATION Spec
INVARIANTS ChainLinked FollowersAgree
PROPERTY RevertsOnlyOrphans
CHECK_DEADLOCK FALSE
