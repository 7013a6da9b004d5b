------------------------------ MODULE MCDriver ------------------------------
(* One validator b, the others o (with the power of a quorum), and s, who stands for
   the sync protocol. *)
EXTENDS Driver

CONSTANTS b, o, s, v1, v2

\* b has 1 of 4, o has 3, and s the total.
MCPower == [h \in Heights |-> [S \in SUBSET Addr |->
               IF s \in S THEN 4 ELSE (IF b \in S THEN 1 ELSE 0) + (IF o \in S THEN 3 ELSE 0)]]
\* o proposes first, b in the next round and at the next height.
MCProposer == [h \in Heights |-> [r \in Rounds |-> IF (h + r) % 2 = 0 THEN o ELSE b]]

FromO(t, h, r, v) == [type |-> t, h |-> h, r |-> r, from |-> o, id |-> v]
ProposedByO(h, r, v) == [h |-> h, r |-> r, from |-> o, value |-> v, vr |-> -1]

\* Two heights: v1 is decided in round 0, or after it; votes of height 1 come early, and
\* its precommit has the power of a quorum: b learns that it has fallen behind.
TwoHeightVotes == {FromO(Prevote, 0, 0, v1), FromO(Precommit, 0, 0, v1), FromO(Prevote, 1, 0, Nil),
                   FromO(Precommit, 1, 0, v1)}
Proposals == {ProposedByO(0, 0, v1)}

\* b learns that the last height has been decided.
FarBehind == {FromO(Precommit, MaxHeight, 0, v1)}

SyncedByO == [h \in Heights |-> o]
SyncedV1 == [h \in Heights |-> v1]
=============================================================================
