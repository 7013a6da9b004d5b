CONSTANTS
    a = a
    b = b
    c = c
    d = d
    v1 = v1
    v2 = v2
    Addr = {a, b, c}
    Hash = {v1, v2}
    Nil = Nil
    MaxHeight = 0
    MaxRound = 1
    Power <- HeavyA
    Proposer <- MCProposer
    Faulty = {c}
    FaultyVotes <- Turncoat
    FaultyProposals = {}
    ValidFor <- AllValid
    ValueOf <- MCValueOf
SPECIFICATION FairSpec
INVARIANTS Agreement NoEquivocation ClaimsJustified PolkasExclusive
PROPERTIES SkipsFollowCorrect DecisionsSpread
CHECK_DEADLOCK FALSE
