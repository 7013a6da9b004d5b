--------------------------- MODULE BlockBuilding ---------------------------
(***************************************************************************)
(* The block builder, shared by the sequencer and by the proposer of the   *)
(* consensus engine: a block under construction on the head of the chain,  *)
(* and what running transactions on it does.  A transaction of the one     *)
(* account carries a nonce; a message from L1 carries none.  The virtual   *)
(* machine is external: of its checks the nonce is kept, the one that      *)
(* depends on the order and on the state that transactions run on.         *)
(***************************************************************************)
EXTENDS Integers, Sequences, SequencesExt

CONSTANTS None, BlockHashLag

\* The nonce of the account in the state after a sequence of transactions.
Nonce(txns) == Len(SelectSeq(txns, LAMBDA t : t.type # "l1"))

\* The transactions of the blocks of a chain.
Flat(chain) ==
    LET f[i \in 0 .. Len(chain)] ==
            IF i = 0 THEN <<>> ELSE f[i - 1] \o chain[i].txns
    IN f[Len(chain)]

\* A built block; its hash stands for its contents and for its ancestors'.
Block(state) == [number |-> state.number, parent |-> state.parent, txns |-> state.txns]

Hash(chain, n) == IF n = 0 THEN None ELSE chain[n]

\* The hash that contracts of the next block may ask for.
getRevealedBlockHash(chain, height) ==
    IF height < BlockHashLag THEN None ELSE Hash(chain, height - BlockHashLag)

\* A block on top of the head; nonce is the account's in its state diff.
InitPreconfirmedBlock(chain) ==
    [number |-> Len(chain) + 1, parent |-> Hash(chain, Len(chain)),
     revealed |-> getRevealedBlockHash(chain, Len(chain)),
     txns |-> <<>>, nonce |-> None]

\* The account's nonce over the head state and the diff of the block.
PreConfirmedState(chain, state) ==
    IF state.nonce = None THEN Nonce(Flat(chain)) ELSE state.nonce

\* BuildBlock of the virtual machine runs the transactions in order and
\* fails as a whole when one of them is refused.
BuildBlock(nonce, txns) ==
    \A i \in 1 .. Len(txns) :
        \/ txns[i].type = "l1"
        \/ txns[i].nonce = nonce + Nonce(SubSeq(txns, 1, i - 1))

updatePreconfirmedBlock(state, nonce, txns) ==
    [state EXCEPT !.txns = @ \o txns,
                  !.nonce = IF Nonce(txns) = 0 THEN @ ELSE nonce + Nonce(txns)]

\* The state after running the transactions, None when the run fails.
RunTxns(chain, state, txns) ==
    LET nonce == PreConfirmedState(chain, state) IN
    IF txns = <<>> THEN state
    ELSE IF BuildBlock(nonce, txns) THEN updatePreconfirmedBlock(state, nonce, txns)
    ELSE None

\* A chain that the blocks of the builder may extend: every block is on its
\* predecessor and its transactions run on the state the predecessor left.
Linked(chain) ==
    /\ \A i \in 1 .. Len(chain) : chain[i].number = i /\ chain[i].parent = Hash(chain, i - 1)
    /\ BuildBlock(0, Flat(chain))
=============================================================================
