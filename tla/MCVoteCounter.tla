--------------------------- MODULE MCVoteCounter ---------------------------
(* Two validators with different voting power at each of two heights.       *)
EXTENDS VoteCounter

CONSTANTS a1, a2, v1

\* The power of one validator: 2 and 1 at height 0 (f = 0, q = 2), 1 and 3 at
\* height 1 (f = 1, q = 3).
PowerOf(h, a) == IF h = 0 THEN (IF a = a1 THEN 2 ELSE 1) ELSE (IF a = a1 THEN 1 ELSE 3)
MCPower == [h \in 0 .. MaxHeight |->
              [S \in SUBSET Addr |-> (IF a1 \in S THEN PowerOf(h, a1) ELSE 0)
                                   + (IF a2 \in S THEN PowerOf(h, a2) ELSE 0)]]
MCProposer == [h \in 0 .. MaxHeight |-> [r \in 0 .. MaxRound |-> IF h = 0 THEN a1 ELSE a2]]

=============================================================================
