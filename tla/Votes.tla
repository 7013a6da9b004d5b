------------------------------- MODULE Votes -------------------------------
(***************************************************************************)
(* The vocabulary of the consensus core: the messages validators exchange, *)
(* voting power, the thresholds f and q, and what a set of received        *)
(* messages amounts to.  A vote is identified with <<type, height, round,  *)
(* sender, id>> and a value with its hash ("the value's id is expected to  *)
(* be unique").                                                            *)
(***************************************************************************)
EXTENDS Integers

CONSTANTS
    Addr,       \* validator addresses
    Hash,       \* values, identified with their hashes
    Nil,        \* the nil id of a vote, and "no value"
    MaxHeight,  \* bound on heights
    MaxRound,   \* bound on rounds
    Power,      \* Power[h][S]: voting power at height h of the validators in S
    Proposer    \* Proposer[h][r]: who proposes in round r of height h

Heights == 0 .. MaxHeight
Rounds == 0 .. MaxRound
Ids == Hash \union {Nil}

Prevote == "prevote"
Precommit == "precommit"
VoteType == {Prevote, Precommit}

Vote == [type : VoteType, h : Heights, r : Rounds, from : Addr, id : Ids]
Proposal == [h : Heights, r : Rounds, from : Addr, value : Hash,
             vr : Rounds \union {-1}]

TotalVotingPower(h) == Power[h][Addr]

ASSUME BoundsAssumption == MaxHeight \in Nat /\ MaxRound \in Nat
ASSUME NilAssumption == Nil \notin Hash
ASSUME ProposerAssumption == Proposer \in [Heights -> [Rounds -> Addr]]

\* Voting power is a sum over validators: natural, zero for nobody, additive
\* over disjoint sets, and somebody has some.
ASSUME PowerAssumption ==
    /\ Power \in [Heights -> [SUBSET Addr -> Nat]]
    /\ \A h \in Heights : Power[h][{}] = 0 /\ Power[h][Addr] > 0
    /\ \A h \in Heights : \A S, T \in SUBSET Addr :
          S \intersect T = {} => Power[h][S \union T] = Power[h][S] + Power[h][T]

-----------------------------------------------------------------------------
\* The largest voting power that may be faulty, and the power of a quorum:
\* ceil(2n / 3), computed from the quotient and remainder of an integer division.
f(n) == (n - 1) \div 3
q(n) == IF (2 * n) % 3 > 0 THEN (2 * n) \div 3 + 1 ELSE (2 * n) \div 3

-----------------------------------------------------------------------------
\* What a set V of votes and a set P of proposals says about round r of height h.
Voters(V, t, h, r, id) ==
    {a \in Addr : [type |-> t, h |-> h, r |-> r, from |-> a, id |-> id] \in V}
AnyVoters(V, t, h, r) == {a \in Addr : \E id \in Ids : a \in Voters(V, t, h, r, id)}
Senders(V, P, h, r) ==
    {a \in Addr : \/ \E t \in VoteType : a \in AnyVoters(V, t, h, r)
                  \/ \E m \in P : m.h = h /\ m.r = r /\ m.from = a}

\* The same quorum test is applied to votes for one id and to votes for any id.
IsQuorum(h, S) == Power[h][S] >= q(TotalVotingPower(h))
\* More power than the faulty validators have: a correct one is among them.
HasNonFaulty(h, S) == Power[h][S] > f(TotalVotingPower(h))
=============================================================================
