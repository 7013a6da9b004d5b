------------------------------ MODULE Proposer ------------------------------
(***************************************************************************)
(* The proposer of the consensus engine: its loop, the consensus driver    *)
(* that asks it for values and tells it of commits, callers of Submit, and *)
(* the path of a committed block through the commit listener and the data  *)
(* source to the chain.  Blocks are those of BlockBuilding; the blocks of  *)
(* other proposers come from the validator and from synchronisation, which *)
(* put them in the proposal store.                                         *)
(***************************************************************************)
EXTENDS BlockBuilding, FiniteSets

CONSTANTS
    Txs,                 \* the transactions of the network, all of the account
    BufferSize,          \* transactionReceiverBufferSize
    maxCommitHistory,
    MaxHeight, MaxBatch

VARIABLES
    chain,
    buildState, seenTransactions,
    transactionReceiver, \* the queue of submitted batches
    receiving,           \* the loop's receiver is not nil
    commitTrigger, valueTrigger,
    loop,                \* "run" | "done"
    lastValue,           \* <<>> | <<value>>; closed when the loop is done
    done,                \* the context is cancelled
    proposalStore,
    driver,              \* the step the driver is in
    value,               \* the value it was given, or commits
    answers,             \* the values it was given at this height
    cache, latest,       \* of the data source
    submitted

vars == <<chain, buildState, seenTransactions, transactionReceiver, receiving, commitTrigger,
          valueTrigger, loop, lastValue, done, proposalStore, driver, value, answers, cache,
          latest, submitted>>

node == <<chain, cache, latest>>
requests == <<commitTrigger, valueTrigger, driver, value, answers>>
-----------------------------------------------------------------------------
Zero == [number |-> 0, parent |-> None, txns |-> <<>>]   \* of a closed channel

init == buildState' = InitPreconfirmedBlock(chain)

Init ==
    /\ chain = <<>> /\ buildState = InitPreconfirmedBlock(chain) /\ seenTransactions = <<>>
    /\ transactionReceiver = <<>> /\ receiving = TRUE
    /\ commitTrigger = None /\ valueTrigger = FALSE
    /\ loop = "run" /\ lastValue = <<>> /\ done = FALSE
    /\ proposalStore = {} /\ driver = "idle" /\ value = Zero /\ answers = {}
    /\ cache = {} /\ latest = 0 /\ submitted = {}

\* The batches a caller may submit: one or two transactions, in any order.
Batches == {<<t>> : t \in Txs} \cup {p \in Txs \X Txs : MaxBatch > 1 /\ p[1] # p[2]}

Submit ==
    /\ ~done /\ Len(transactionReceiver) < BufferSize
    /\ \E b \in Batches :
        /\ Range(b) \cap submitted = {}
        /\ submitted' = submitted \cup Range(b)
        /\ transactionReceiver' = Append(transactionReceiver, b)
    /\ UNCHANGED <<node, requests, buildState, seenTransactions, receiving, loop, lastValue, done, proposalStore>>

\* The run of a batch on a copy of the block; None when it fails.
runTransactions(state, txns) == RunTxns(chain, state, txns)

receiveTransactions ==
    /\ loop = "run" /\ receiving /\ transactionReceiver # <<>>
    /\ transactionReceiver' = Tail(transactionReceiver)
    /\ \E next \in {runTransactions(buildState, Head(transactionReceiver))} :
        IF next = None THEN UNCHANGED <<buildState, seenTransactions>>
        ELSE /\ buildState' = next
             /\ seenTransactions' = seenTransactions \o Head(transactionReceiver)
    /\ UNCHANGED <<node, requests, receiving, loop, lastValue, done, proposalStore, submitted>>

\* The block is rebuilt on the new head from the transactions seen that the
\* commit does not contain; all are forgotten if they no longer run.
reRunTransactions ==
    /\ loop = "run" /\ commitTrigger # None
    /\ \E seen \in {SelectSeq(seenTransactions, LAMBDA t : t \notin commitTrigger)} :
       \E next \in {runTransactions(InitPreconfirmedBlock(chain), seen)} :
        /\ seenTransactions' = IF next = None THEN <<>> ELSE seen
        /\ buildState' = IF next = None THEN InitPreconfirmedBlock(chain) ELSE next
    /\ receiving' = TRUE
    /\ commitTrigger' = None
    /\ driver' = IF driver = "hook" THEN "hooked" ELSE driver
    /\ UNCHANGED <<node, transactionReceiver, valueTrigger, loop, lastValue, done, proposalStore,
                   value, answers, submitted>>

finish == proposalStore' = proposalStore \cup {Block(buildState)}


ValueRequest ==
    /\ loop = "run" /\ valueTrigger
    /\ finish
    /\ valueTrigger' = FALSE /\ receiving' = FALSE
    /\ driver' = "answered" /\ value' = Block(buildState)
    /\ answers' = answers \cup {Block(buildState)}
    /\ UNCHANGED <<node, buildState, seenTransactions, transactionReceiver, commitTrigger, loop,
                   lastValue, done, submitted>>

LoopEnds ==
    /\ loop = "run" /\ done
    /\ finish /\ lastValue' = <<Block(buildState)>> /\ loop' = "done"
    /\ UNCHANGED <<node, requests, buildState, seenTransactions, transactionReceiver, receiving, done, submitted>>

Cancel ==
    /\ ~done /\ done' = TRUE
    /\ UNCHANGED <<node, requests, buildState, seenTransactions, transactionReceiver, receiving, loop,
                   lastValue, proposalStore, submitted>>

-----------------------------------------------------------------------------
\* A request is queued while the queue has room, else the caller waits.
Value ==
    /\ driver = "idle" /\ ~valueTrigger
    /\ valueTrigger' = TRUE /\ driver' = "asked"
    /\ UNCHANGED <<node, buildState, seenTransactions, transactionReceiver, receiving, commitTrigger,
                   loop, lastValue, done, proposalStore, value, answers, submitted>>

\* After the loop has ended its last value is there once, then the zero value.
ValueFallback ==
    /\ driver \in {"idle", "asked"} /\ loop = "done"
    /\ value' = (IF lastValue = <<>> THEN Zero ELSE lastValue[1]) /\ lastValue' = <<>>
    /\ driver' = "answered"
    /\ answers' = IF lastValue = <<>> THEN answers ELSE answers \cup {lastValue[1]}
    /\ UNCHANGED <<node, buildState, seenTransactions, transactionReceiver, receiving, commitTrigger,
                   valueTrigger, loop, done, proposalStore, submitted>>

\* The round ends without a decision and the driver may ask again.
NextRound ==
    /\ driver = "answered" /\ driver' = "idle" /\ value' = Zero
    /\ UNCHANGED <<node, buildState, seenTransactions, transactionReceiver, receiving, commitTrigger,
                   valueTrigger, loop, lastValue, done, proposalStore, answers, submitted>>

\* A block of another proposer that the validator has run on the head.
Validated ==
    /\ driver \in {"idle", "asked", "answered"} /\ Len(chain) < MaxHeight
    /\ Cardinality({b \in proposalStore : b.number = Len(chain) + 1}) < 2
    /\ \E txns \in Batches \cup {<<>>} :
        LET next == RunTxns(chain, InitPreconfirmedBlock(chain), txns) IN
        /\ next # None
        /\ proposalStore' = proposalStore \cup {Block(next)}
    /\ UNCHANGED <<node, requests, buildState, seenTransactions, transactionReceiver, receiving, loop,
                   lastValue, done, submitted>>

\* The decision of the height: its block goes to the data source.
Commit ==
    /\ driver \in {"idle", "answered"} /\ ~done /\ Len(chain) < MaxHeight
    /\ \E b \in proposalStore :
        /\ b.number = Len(chain) + 1
        /\ value' = b
        /\ cache' = cache \cup {b}
    /\ driver' = "latest"
    /\ UNCHANGED <<chain, latest, buildState, seenTransactions, transactionReceiver, receiving,
                   commitTrigger, valueTrigger, loop, lastValue, done, proposalStore, answers, submitted>>

DataSourceRun ==
    /\ driver = "latest"
    /\ latest' = value.number
    /\ cache' = {b \in cache : b.number # value.number - maxCommitHistory}
    /\ driver' = "persist"
    /\ UNCHANGED <<chain, buildState, seenTransactions, transactionReceiver, receiving, commitTrigger,
                   valueTrigger, loop, lastValue, done, proposalStore, value, answers, submitted>>

BlockByNumber(n) == {b \in cache : b.number = n}

\* External: the synchronizer reads the data source and stores the block.
Persist ==
    /\ driver = "persist"
    /\ \E b \in BlockByNumber(latest) : chain' = Append(chain, b)
    /\ driver' = "persisted"
    /\ UNCHANGED <<cache, latest, buildState, seenTransactions, transactionReceiver, receiving,
                   commitTrigger, valueTrigger, loop, lastValue, done, proposalStore, value, answers, submitted>>

\* The hook of the proposer: the transactions of the block go to the loop.
OnCommit ==
    /\ driver = "persisted" /\ value \in proposalStore /\ commitTrigger = None
    /\ commitTrigger' = Range(value.txns) /\ driver' = "hook"
    /\ UNCHANGED <<node, buildState, seenTransactions, transactionReceiver, receiving, valueTrigger,
                   loop, lastValue, done, proposalStore, value, answers, submitted>>

\* The caller gives up waiting when the context is cancelled.
OnCommitCancelled ==
    /\ driver \in {"persisted", "hook"} /\ done
    /\ driver' = "hooked"
    /\ UNCHANGED <<node, buildState, seenTransactions, transactionReceiver, receiving, commitTrigger,
                   valueTrigger, loop, lastValue, done, proposalStore, value, answers, submitted>>

FinalizeHeight ==
    /\ driver = "hooked"
    /\ proposalStore' = {b \in proposalStore : b.number > value.number}
    /\ driver' = "idle" /\ answers' = {} /\ value' = Zero
    /\ UNCHANGED <<node, buildState, seenTransactions, transactionReceiver, receiving, commitTrigger,
                   valueTrigger, loop, lastValue, done, submitted>>

Next ==
    \/ Submit \/ receiveTransactions \/ reRunTransactions \/ ValueRequest \/ LoopEnds \/ Cancel
    \/ Value \/ ValueFallback \/ NextRound \/ Validated \/ Commit \/ DataSourceRun \/ Persist
    \/ OnCommit \/ OnCommitCancelled \/ FinalizeHeight

Spec == Init /\ [][Next]_vars

-----------------------------------------------------------------------------
PreConfirmedBlockByNumber(n) == IF buildState.number = n THEN buildState ELSE None

InCommit == driver \in {"latest", "persist", "persisted", "hook"}

\* The value a driver is given is in the store, is built on the head and
\* runs on its state, and a second request at the same height is given the
\* same value (Value, finish, and Run that stops receiving transactions).
ValuesExtendHead ==
    driver = "answered" /\ value # Zero /\ ~done =>
        /\ value \in proposalStore /\ answers = {value}
        /\ Linked(Append(chain, value))

\* Outside of a commit the block under construction holds exactly the
\* transactions seen and not committed, and is on the head
\* (reRunTransactions, receiveTransactions).
BuiltFromSeen ==
    /\ buildState.txns = seenTransactions
    /\ ~InCommit /\ ~done =>
        /\ Range(seenTransactions) \cap Range(Flat(chain)) = {}
        /\ Linked(Append(chain, Block(buildState)))
        /\ PreConfirmedBlockByNumber(Len(chain) + 1) # None

\* The loop answers every request: a request is never left in a queue when
\* the loop is done without the caller having another way out, and the
\* receiver of transactions is open again once a height is committed
\* (Run, ask).
RequestersFreed ==
    /\ driver = "asked" => valueTrigger \/ loop = "done"
    /\ driver = "hook" => commitTrigger # None \/ done
    /\ ~receiving /\ ~done => answers # {} \/ commitTrigger # None

\* The committed block is in the data source until it is on the chain, and
\* the chain is one of blocks that run in order (BlockByNumber, OnCommit).
CommittedServed ==
    /\ Linked(chain)
    /\ driver = "persist" => BlockByNumber(latest) = {value}
=============================================================================
