CONSTANTS
    b = b
    o = o
    s = s
    v1 = v1
    v2 = v2
    Nil = Nil
    None = None
    Addr = {b, o, s}
    Hash = {v1, v2}
    Self = b
    Values = {v2}
    SyncSender = s
    SyncedValue <- SyncedV1
    Power <- MCPower
    Proposer <- MCProposer
    MaxHeight = 1
    MaxRound = 1
    InVotes <- FarBehind
    InProposals = {}
    SyncedFrom <- SyncedByO
    MaxCrashes = 1
    MaxSyncErrors = 0
SPECIFICATION FairSpec
PROPERTY CatchesUp
CHECK_DEADLOCK FALSE
