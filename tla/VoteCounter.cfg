SPECIFICATION Spec
CONSTANTS
    a1 = a1
    a2 = a2
    v1 = v1
    Addr = {a1, a2}
    Hash = {v1}
    Nil = Nil
    MaxHeight = 1
    MaxRound = 0
    Power <- MCPower
    Proposer <- MCProposer
INVARIANTS CountersExact AnswersExact
PROPERTY ProposalsStick
