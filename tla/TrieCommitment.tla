--------------------------- MODULE TrieCommitment ---------------------------
(***************************************************************************)
(* What both tries compute: keys as sequences of bits, hashes as the terms *)
(* that are hashed, so that two hashes are equal only when the same was    *)
(* hashed, and the commitment of a set of leaves.                          *)
(***************************************************************************)
EXTENDS Integers, Sequences, FiniteSets, SequencesExt

CONSTANTS
    None,   \* a nil pointer
    Height  \* length of the keys

\* A leaf's value as a felt.
Felt(v) == <<"leaf", v>>

Zero == Felt(0)

NumberOf(key) ==
    LET first[i \in 0..Len(key)] == IF i = 0 THEN 0 ELSE 2 * first[i - 1] + key[i]
    IN first[Len(key)]

FeltToKey(n) == [i \in 1..Height |-> (n \div 2^(Height - i)) % 2]

EqualMSBs(a, b) == IsPrefix(a, b) \/ IsPrefix(b, a)

Common(a, b) ==
    SubSeq(a, 1, CHOOSE n \in 0..Len(a) :
                    /\ n <= Len(b) /\ SubSeq(a, 1, n) = SubSeq(b, 1, n)
                    /\ n < Len(a) /\ n < Len(b) => a[n + 1] # b[n + 1])

LSBs(key, n) == SubSeq(key, n + 1, Len(key))

IsBitSet(key, n) == key[n + 1] = 1

Two(l, r) == <<"two", l, r>>

EdgeTerm(child, path) == <<"edge", child, path>>

(* The commitment as the protocol defines it: an empty subtree is nothing, *)
(* a subtree with one empty half is the other half one bit further away,   *)
(* and only a subtree with two halves is hashed from both.                 *)

RECURSIVE Subtree(_, _)
Subtree(prefix, kept) ==
    LET l == Subtree(Append(prefix, 0), kept)
        r == Subtree(Append(prefix, 1), kept)
        Close(half) == IF half.path = <<>> THEN half.bottom
                       ELSE EdgeTerm(half.bottom, half.path)
    IN IF ~\E n \in DOMAIN kept : kept[n] # Zero /\ IsPrefix(prefix, FeltToKey(n)) THEN None
       ELSE IF Len(prefix) = Height THEN [path |-> <<>>, bottom |-> kept[NumberOf(prefix)]]
       ELSE IF r = None THEN [l EXCEPT !.path = <<0>> \o @]
       ELSE IF l = None THEN [r EXCEPT !.path = <<1>> \o @]
       ELSE [path |-> <<>>, bottom |-> Two(Close(l), Close(r))]

Commitment(kept) ==
    LET root == Subtree(<<>>, kept)
    IN IF root = None THEN Zero
       ELSE IF root.path = <<>> THEN root.bottom ELSE EdgeTerm(root.bottom, root.path)

=============================================================================
