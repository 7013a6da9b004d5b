SPECIFICATION Spec
CONSTANTS
    Components = {"RewriteC"}
    None = None
    Junk = Junk
    s1 = s1
    s2 = s2
    g1 = g1
    f1 = f1
    f2 = f2
    p1 = p1
INVARIANTS
    TransactionsKept
CHECK_DEADLOCK FALSE
