----------------------------- MODULE Sequencing -----------------------------
(***************************************************************************)
(* The centralised sequencer and its mempool: callers of Push, the         *)
(* goroutine that writes the pool to the database, the goroutine that      *)
(* empties the pool into the block under construction, and the timer that  *)
(* finalises the block.  The block itself is that of BlockBuilding.        *)
(***************************************************************************)
EXTENDS BlockBuilding

CONSTANTS
    Pushers,       \* callers of Push
    Txs,           \* the transactions that they push, each once
    maxNumTxns, NumTxnsToBatchExecute,
    MaxBlocks,
    MaxFailures    \* errors that are not of a transaction's execution

VARIABLES
    push,          \* [Pushers -> the step of a Push and its transaction]
    left,          \* the transactions not pushed yet
    memTxnList, txPushed,
    dbWriteChan,   \* the queue of transactions to write, closed once Run ended
    pool,          \* the persistent list
    buildState, mu,
    chain,
    listener, timer, done,
    pushed,        \* the transactions in the order they entered the list
    written,       \* those that reached the database, in order
    failed,        \* those whose batch failed
    failures

vars == <<push, left, memTxnList, txPushed, dbWriteChan, pool, buildState, mu, chain,
          listener, timer, done, pushed, written, failed, failures>>

mempool == <<push, left, pool, dbWriteChan, written, pushed>>

-----------------------------------------------------------------------------
Idle == [step |-> "idle", txn |-> None]

EmptyPool == [head |-> None, tail |-> None, next |-> <<>>, len |-> 0]

\* One key per transaction: a transaction written again loses its successor.
WriteTxn(next, t, n) == [u \in DOMAIN next \cup {t} |-> IF u = t THEN n ELSE next[u]]

writeToDB(p, t) ==
    LET next == WriteTxn(p.next, t, None) IN
    [head |-> IF p.tail = None THEN t ELSE p.head,
     tail |-> t,
     next |-> IF p.tail = None THEN next ELSE WriteTxn(next, p.tail, t),
     len |-> p.len + 1]

\* The list that a restart would read back.
LoadFromDB(p) ==
    LET f[n \in 0 .. p.len] ==
            IF n = 0 THEN <<p.head>>
            ELSE IF Last(f[n - 1]) = None THEN f[n - 1]
            ELSE Append(f[n - 1], p.next[Last(f[n - 1])])
    IN Front(f[p.len])

popBatch(list, n) ==
    LET k == IF n > Len(list) THEN Len(list) ELSE n IN
    [txns |-> SubSeq(list, 1, k), rest |-> SubSeq(list, k + 1, Len(list))]

Init ==
    /\ push = [p \in Pushers |-> Idle] /\ left = Txs
    /\ memTxnList = <<>> /\ txPushed = 0 /\ dbWriteChan = <<>> /\ pool = EmptyPool
    /\ chain = <<>> /\ buildState = InitPreconfirmedBlock(chain) /\ mu = None
    /\ listener = "deplete" /\ timer = "wait" /\ done = FALSE
    /\ pushed = <<>> /\ written = <<>> /\ failed = {} /\ failures = 0

-----------------------------------------------------------------------------
\* Why a transaction does not enter the pool; the length is read unlocked.
validate(t) ==
    /\ ~(Len(memTxnList) + 1 >= maxNumTxns)
    /\ CASE t.type = "deploy" -> FALSE
         [] t.type = "deploy_account" -> t.nonce = 0
         [] t.type \in {"declare", "invoke"} -> ~(Nonce(Flat(chain)) > t.nonce)
         [] t.type = "invoke0" -> FALSE
         [] OTHER -> TRUE

PushStart(p) ==
    /\ push[p].step = "idle"
    /\ \E t \in left :
        /\ left' = left \ {t}
        /\ push' = [push EXCEPT ![p] = IF validate(t) THEN [step |-> "queue", txn |-> t] ELSE Idle]
    /\ UNCHANGED <<memTxnList, txPushed, dbWriteChan, pool, buildState, mu, chain, listener,
                   timer, done, pushed, written, failed, failures>>

\* Into the queue of the writer; with a full queue the oldest entry of the
\* queue is taken out and neither of the two is written.  Sending on the
\* closed queue is a panic.
PushQueue(p) ==
    /\ push[p].step = "queue"
    /\ IF timer = "stopped" THEN
            /\ push' = [push EXCEPT ![p].step = "panic"]
            /\ UNCHANGED dbWriteChan
       ELSE /\ dbWriteChan' = IF Len(dbWriteChan) < maxNumTxns
                              THEN Append(dbWriteChan, push[p].txn) ELSE Tail(dbWriteChan)
            /\ push' = [push EXCEPT ![p].step = "list"]
    /\ UNCHANGED <<left, memTxnList, txPushed, pool, buildState, mu, chain, listener, timer,
                   done, pushed, written, failed, failures>>

PushList(p) ==
    /\ push[p].step = "list"
    /\ memTxnList' = Append(memTxnList, push[p].txn)
    /\ pushed' = Append(pushed, push[p].txn)
    /\ push' = [push EXCEPT ![p] = [step |-> "signal", txn |-> None]]
    /\ UNCHANGED <<left, txPushed, dbWriteChan, pool, buildState, mu, chain, listener, timer,
                   done, written, failed, failures>>

PushSignal(p) ==
    /\ push[p].step = "signal"
    /\ txPushed' = 1
    /\ push' = [push EXCEPT ![p] = Idle]
    /\ UNCHANGED <<left, memTxnList, dbWriteChan, pool, buildState, mu, chain, listener, timer,
                   done, pushed, written, failed, failures>>

dbWriter ==
    /\ dbWriteChan # <<>>
    /\ pool' = writeToDB(pool, Head(dbWriteChan))
    /\ written' = Append(written, Head(dbWriteChan))
    /\ dbWriteChan' = Tail(dbWriteChan)
    /\ UNCHANGED <<push, left, memTxnList, txPushed, buildState, mu, chain, listener, timer,
                   done, pushed, failed, failures>>

-----------------------------------------------------------------------------
DepleteStart ==
    /\ listener = "deplete" /\ mu = None
    /\ mu' = "listener" /\ listener' = "batch"
    /\ UNCHANGED <<mempool, memTxnList, txPushed, buildState, chain, timer, done,
                   failed, failures>>

\* After a batch the context is looked at.
afterBatch == IF done THEN listener' = "publish" /\ mu' = None
              ELSE UNCHANGED <<listener, mu>>

\* A batch whose execution fails is dropped as a whole; any other error ends
\* the goroutine, and the batch with it.
DepleteBatch ==
    /\ listener = "batch" /\ memTxnList # <<>>
    /\ \E b \in {popBatch(memTxnList, NumTxnsToBatchExecute)} :
        LET next == RunTxns(chain, buildState, b.txns) IN
        /\ memTxnList' = b.rest
        /\ \/ /\ next # None /\ buildState' = next
              /\ UNCHANGED <<failed, failures>>
              /\ afterBatch
           \/ /\ next = None /\ failed' = failed \cup Range(b.txns)
              /\ afterBatch
              /\ UNCHANGED <<buildState, failures>>
           \/ /\ failures < MaxFailures /\ failures' = failures + 1
              /\ failed' = failed \cup Range(b.txns)
              /\ listener' = "stopped" /\ mu' = None
              /\ UNCHANGED buildState
    /\ UNCHANGED <<mempool, txPushed, chain, timer, done>>

DepleteEnd ==
    /\ listener = "batch" /\ memTxnList = <<>>
    /\ mu' = None /\ listener' = "publish"
    /\ UNCHANGED <<mempool, memTxnList, txPushed, buildState, chain, timer, done,
                   failed, failures>>

\* The block is read without the lock; while it is being replaced there is
\* none, and its bloom filter cannot be computed.
Publish ==
    /\ listener = "publish"
    /\ listener' = IF buildState = None THEN "panic" ELSE "wait"
    /\ UNCHANGED <<mempool, memTxnList, txPushed, buildState, mu, chain, timer, done, failed, failures>>

Wait ==
    /\ listener = "wait"
    /\ \/ txPushed = 1 /\ txPushed' = 0 /\ listener' = "deplete"
       \/ done /\ listener' = "stopped" /\ UNCHANGED txPushed
    /\ UNCHANGED <<mempool, memTxnList, buildState, mu, chain, timer, done, failed, failures>>

-----------------------------------------------------------------------------
\* The timer fires: the block is finalised under the lock, then cleared, then
\* replaced by one on the new head.
Finalise ==
    /\ timer = "wait" /\ mu = None /\ Len(chain) < MaxBlocks
    /\ mu' = "timer" /\ timer' = "clear"
    /\ chain' = Append(chain, Block(buildState))
    /\ UNCHANGED <<mempool, memTxnList, txPushed, buildState, listener, done, failed, failures>>

ClearPreConfirmed ==
    /\ timer = "clear"
    /\ buildState' = None /\ timer' = "init"
    /\ UNCHANGED <<mempool, memTxnList, txPushed, mu, chain, listener, done, failed, failures>>

initPreConfirmedBlock ==
    /\ timer = "init"
    /\ buildState' = InitPreconfirmedBlock(chain) /\ timer' = "wait" /\ mu' = None
    /\ UNCHANGED <<mempool, memTxnList, txPushed, chain, listener, done, failed, failures>>

\* Finalising or preparing the next block fails: Run returns and never
\* unlocks.
FinaliseFails ==
    /\ failures < MaxFailures /\ failures' = failures + 1
    /\ \/ timer = "wait" /\ mu = None
       \/ timer = "init"
    /\ mu' = "timer" /\ timer' = "stopped" /\ buildState' = None
    /\ UNCHANGED <<mempool, memTxnList, txPushed, chain, listener, done, failed>>

Cancel ==
    /\ ~done /\ done' = TRUE
    /\ UNCHANGED <<mempool, memTxnList, txPushed, buildState, mu, chain, listener, timer,
                   failed, failures>>

\* Run waits for the listener, clears the block and closes the pool.
Stop ==
    /\ done /\ timer = "wait" /\ listener = "stopped"
    /\ timer' = "stopped" /\ buildState' = None
    /\ UNCHANGED <<mempool, memTxnList, txPushed, mu, chain, listener, done, failed, failures>>

Next ==
    \/ \E p \in Pushers : PushStart(p) \/ PushQueue(p) \/ PushList(p) \/ PushSignal(p)
    \/ dbWriter \/ DepleteStart \/ DepleteBatch \/ DepleteEnd \/ Publish \/ Wait
    \/ Finalise \/ ClearPreConfirmed \/ initPreConfirmedBlock \/ FinaliseFails \/ Cancel \/ Stop

Spec == Init /\ [][Next]_vars

-----------------------------------------------------------------------------
\* Every transaction that entered the list of the mempool is in exactly one
\* place and in the order of its arrival: the finalised blocks, then the
\* block under construction, then the list; only the batches that failed
\* are missing (memTxnList.popBatch, depletePool, Run).
PoolIntoBlocks ==
    timer # "stopped" =>
        SelectSeq(pushed, LAMBDA t : t \notin failed) =
            Flat(chain) \o (IF timer = "wait" THEN buildState.txns ELSE <<>>) \o memTxnList

\* The finalised blocks form a chain whose transactions run in order, and
\* the block under construction continues it (initPreConfirmedBlock).
SequencedChain ==
    /\ Linked(chain)
    /\ timer = "wait" => Linked(Append(chain, Block(buildState)))

\* A listener that waits is never left waiting with transactions in the
\* list: a wake-up is there, or the Push that will send it has not returned
\* (SequencerMempool.Push and Wait, a channel of one element).
NoLostWakeup ==
    listener = "wait" /\ memTxnList # <<>> /\ ~done
        => txPushed = 1 \/ \E p \in Pushers : push[p].step = "signal"

\* The persistent list, read from its head, holds what was written in the
\* order it was written (writeToDB, LoadFromDB).
PoolPersisted ==
    /\ pool.len = Len(written)
    /\ written # <<>> => LoadFromDB(pool) = written

\* The unlocked length check lets the list grow beyond its limit by at most
\* one transaction for every other caller (SequencerMempool.validate).
PoolBounded == Len(memTxnList) <= maxNumTxns - 1 + Cardinality(Pushers) - 1
=============================================================================
