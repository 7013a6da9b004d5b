SPECIFICATION Spec
CONSTANTS
    Components = {"PreConf", "StoreS", "StoreF", "EventsE", "EventsQ",
        "Transactions", "Blocks", "Classes", "P2P", "StreamsA",
        "StreamsB", "StreamsC", "Shards", "Cache", "L1A", "L1B", "Ring",
        "Feeds", "SubsHeads", "SubsEvents", "SubsContents", "SubsStatus"}
    None = None
    Junk = Junk
    s1 = s1
    s2 = s2
    g1 = g1
    f1 = f1
    f2 = f2
    p1 = p1
INVARIANTS
    TypeOK
    SlotsTrue
    FollowerHasChain
    ProposalsKept
    QueryExact
    
    
    
    StreamsTrue
    NotificationsTrue
CHECK_DEADLOCK FALSE
