---------------------------- MODULE MCTendermint ----------------------------
(* Small networks of Tendermint state machines. *)
EXTENDS Tendermint, FiniteSets

CONSTANTS a, b, c, d, v1, v2

\* Voting power: a has two and the others one, so that a and b, or a and a faulty
\* c, are a quorum.
Plus(x, more, S) == Cardinality(S) + IF x \in S THEN more ELSE 0
HeavyA == [h \in Heights |-> [S \in SUBSET Addr |-> Plus(a, 1, S)]]

\* Round-robin proposers, as consensus/mock_services.go has them.
Order == <<a, b, c, d>>
RoundRobin(h, r) == Order[((h + r) % Cardinality(Addr)) + 1]
MCProposer == [h \in Heights |-> [r \in Rounds |-> RoundRobin(h, r)]]

AllValid == [p \in Correct |-> Hash]

MCValueOf == [p \in Correct |-> IF p = a THEN {v1} ELSE {v2}]

\* c helps v1 to a decision in round 0, and then v2 to one in round 1.
FromC(t, r, v) == [type |-> t, h |-> 0, r |-> r, from |-> c, id |-> v]
Turncoat == {FromC(Prevote, 0, v1), FromC(Precommit, 0, v1), FromC(Precommit, 1, v2)}
=============================================================================
