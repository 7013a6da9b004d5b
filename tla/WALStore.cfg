SPECIFICATION Spec
CONSTANTS
    MaxHeight = 2
    MaxEntries = 2
    MaxCrashes = 2
    MaxFailures = 1
    CleanupInterval = 1
INVARIANT AlwaysOpens
PROPERTIES CleanupComplete Durable
