SPECIFICATION Spec
CONSTANTS
    NumBlocksPerFilter = 2
    MaxBlock = 3
    Contents = {0, 2}
    ChunkSize = 3
    MaxScanned = 0
    Froms = {0}
    Tos = {0}
    MaxReverts = 0
    MaxFailures = 0
    MaxRestarts = 0
    MaxPruned = 0
    MaxAhead = 0
    None = None
INVARIANT TiedToSnapshot
CHECK_DEADLOCK FALSE
