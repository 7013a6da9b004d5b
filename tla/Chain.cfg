SPECIFICATION Spec
CONSTANTS
    Components = {"PruneN", "PruneD", "NewState", "NewTries", "Runner", "RewriteC", "RewriteT",
        "RewriteL", "RewriteB", "HistoryH", "HistoryR", "HistoryV",
        "PrunerA", "PrunerL", "ReadsJ", "ReadsK", "Traces", "Bits",
        "Flat", "Merkle", "PathD", "PathR", "Archive", "SequencerU",
        "SequencerF", "ProposerX"}
    None = None
    Junk = Junk
    s1 = s1
    s2 = s2
    g1 = g1
    f1 = f1
    f2 = f2
    p1 = p1
INVARIANTS
    Migrated
    HistoryExact
    AnswersTrue
    TriesExact
    
PROPERTIES
    PrunedAreOld
CHECK_DEADLOCK FALSE
