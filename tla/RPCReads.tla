------------------------------ MODULE RPCReads ------------------------------
(***************************************************************************)
(* The read handlers of the JSON-RPC API (rpc/v10, rpc/v9) as the          *)
(* sequences of database and pre-confirmed reads they make, interleaved    *)
(* with what the node does meanwhile: storing a block, reverting the head, *)
(* advancing the L1 head, replacing the pre-confirmed chain.  No handler   *)
(* holds a snapshot: every read is of the database as it is then.          *)
(***************************************************************************)
EXTENDS Integers, Sequences, FiniteSets, SequencesExt

CONSTANTS
    Txs,        \* transactions; the requests ask for one of them
    Wanted,     \* the transaction asked for
    MaxHeight,  \* bound on the height of the chain
    MaxReverts, \* bound on the number of reverted heads
    Kinds       \* the families of handlers that are explored

VARIABLES
    chain,      \* the stored blocks: what is under number n is chain[n + 1]
    reverts,    \* heads reverted so far; it also names the fork of a new block
    l1,         \* number of the L1 head in the database, -1 if there is none
    pre,        \* the stored pre-confirmed block, number 0 if there is none
    submitted,  \* Wanted is in the cache of submitted transactions
    req         \* the request being answered

vars == <<chain, reverts, l1, pre, submitted, req>>

Height(c) == Len(c) - 1

BlockAt(n) == <<n, chain[n + 1].fork>>

Stored == UNION {ToSet(chain[i].txs) : i \in DOMAIN chain}

----------------------------------------------------------------------------
(* The readers of the blockchain, as sequences of reads of a bucket.  A     *)
(* read by number uses the number the request has resolved so far.          *)

Head_ == <<"height", "header", "body">>

HeadsHeader == <<"height", "header">>

GetBlockByNumber == <<"header", "body">>

BlockByHash == <<"numberOf">> \o GetBlockByNumber

GetBlockHeaderByHash == <<"numberOf", "header">>

GetStateUpdateByHash == <<"numberOf", "update">>

StateAtBlockHash == <<"numberOf", "state">>

TransactionAndReceiptByBlockNumberAndIndex == <<"txAt", "header">>

GetTransactionByHash == <<"lookup", "txAt">>

(* The resolution of a block id by the handlers.                            *)

l1AcceptedBlockNumber == <<"l1Head", "boundedHeight">>

blockByID(id) ==
    CASE id = "pre_confirmed" -> <<"freshHead">>
      [] id = "latest"        -> Head_
      [] id = "hash"          -> BlockByHash
      [] id = "l1_accepted"   -> l1AcceptedBlockNumber \o GetBlockByNumber
      [] id = "number"        -> GetBlockByNumber

blockHeaderByID(id) ==
    CASE id = "pre_confirmed" -> <<"freshHead">>
      [] id = "latest"        -> HeadsHeader
      [] id = "hash"          -> GetBlockHeaderByHash
      [] id = "l1_accepted"   -> l1AcceptedBlockNumber \o <<"header">>
      [] id = "number"        -> <<"header">>

\* The state of the latest block is read through the database itself, so it
\* moves with the head; the others are fixed to the number they resolve to.
stateByBlockID(id) ==
    CASE id = "pre_confirmed" -> <<"freshHead", "state">>
      [] id = "latest"        -> <<"live">>
      [] id = "hash"          -> StateAtBlockHash
      [] id = "l1_accepted"   -> l1AcceptedBlockNumber \o <<"state">>
      [] id = "number"        -> <<"state">>

\* A read through the state that stateByBlockID returned.
StateRead(id) == IF id = "latest" THEN "live" ELSE "state"

stateAndHeaderByBlockID(id) ==
    IF id = "pre_confirmed" THEN stateByBlockID(id)
    ELSE stateByBlockID(id) \o blockHeaderByID(id)

\* The number of a block named by an id, for the handlers that go on by number.
NumberOf(id) ==
    CASE id = "latest"      -> <<"height">>
      [] id = "hash"        -> <<"numberOf">>
      [] id = "l1_accepted" -> l1AcceptedBlockNumber
      [] id = "number"      -> <<>>

(* The handlers of blocks.                                                  *)

BlockNumber == <<"height">>

BlockHashAndNumber == HeadsHeader

\* The other two headers it compares with are held in memory.
Syncing == HeadsHeader

BlockTransactionCount(id) ==
    IF id = "pre_confirmed" THEN <<"freshHead">> ELSE NumberOf(id) \o <<"header">>

blockStatus(id) == IF id = "pre_confirmed" THEN <<>> ELSE <<"status">>

BlockWithTxHashes(id) ==
    IF id = "pre_confirmed" THEN <<"freshHead">>
    ELSE blockHeaderByID(id) \o <<"body">> \o blockStatus(id) \o <<"commitments">>

BlockWithTxs(id) ==
    IF id = "pre_confirmed" THEN <<"freshHead">>
    ELSE blockHeaderByID(id) \o <<"body">> \o blockStatus(id) \o <<"commitments">>

BlockWithReceipts(id) ==
    blockByID(id) \o blockStatus(id)
      \o (IF id = "pre_confirmed" THEN <<>> ELSE <<"commitments">>)

stateUpdateByID(id) ==
    CASE id = "pre_confirmed" -> <<"freshHead">>
      [] id = "hash"          -> GetStateUpdateByHash
      [] OTHER                -> NumberOf(id) \o <<"update">>

TransactionByBlockIDAndIndex(id) ==
    IF id = "pre_confirmed" THEN <<"freshHead">> ELSE NumberOf(id) \o <<"body">>

\* The header pins the number the transactions are read by.
TraceBlockTransactions(id) == blockHeaderByID(id) \o <<"body">>

\* Only the head can be proved: the number asked for is compared with the height.
isBlockSupported(id) ==
    CASE id = "latest" -> <<>>
      [] id = "hash"   -> <<"numberOf", "isHead">>
      [] id = "number" -> <<"isHead">>

StorageProof(id) == <<"top">> \o isBlockSupported(id) \o <<"atTop", "header", "state">>

(* The handlers of state: reads through one state, or a state and a header. *)

StorageAt(id) == stateByBlockID(id) \o <<StateRead(id), StateRead(id), StateRead(id)>>

Nonce(id) == stateByBlockID(id) \o <<StateRead(id)>>

Class(id) == stateByBlockID(id) \o <<StateRead(id)>>

ClassAt(id) == stateByBlockID(id) \o <<StateRead(id), StateRead(id)>>

ClassHashAt(id) == stateByBlockID(id) \o <<StateRead(id)>>

CompiledCasm == <<"live">>

Call(id) == stateAndHeaderByBlockID(id) \o <<StateRead(id)>>

simulateBroadcastedTransactions(id) == stateAndHeaderByBlockID(id) \o <<StateRead(id)>>

EstimateMessageFee(id) == stateAndHeaderByBlockID(id) \o <<StateRead(id), StateRead(id)>>

(* The handlers of a transaction: alternatives, each tried when the one     *)
(* before it does not find the transaction.                                 *)

finalisedTransactionStatus == <<"lookup", "txAt", "status">>

transactionStatusFromStore ==
    << <<"storedTx">>, finalisedTransactionStatus, <<"freshTx">>, finalisedTransactionStatus >>

TransactionStatus == transactionStatusFromStore \o << <<"feeder">> >>

\* The store is asked once, and the pre-confirmed chain after it.
MutTransactionByHash == << GetTransactionByHash, <<"storedTx">>, <<"freshTx">> >>

TransactionByHash ==
    << <<"storedTx">>, GetTransactionByHash, <<"freshTx">>, GetTransactionByHash >>

getFinalisedTransactionReceipt ==
    <<"lookup">> \o TransactionAndReceiptByBlockNumberAndIndex \o <<"status">>

TransactionReceiptByHash ==
    << <<"storedTx">>, getFinalisedTransactionReceipt,
       <<"freshTx">>, getFinalisedTransactionReceipt >>

\* The trace at the index is returned only if it is of the transaction asked for.
findAndTraceFinalisedTransaction == <<"lookup", "header", "txAt", "sameTx">>

TraceTransaction == << <<"storedTx">>, findAndTraceFinalisedTransaction >>

----------------------------------------------------------------------------
(* Version 0.9 of the API has handlers of its own.                          *)

l1AcceptedBlockNumberV9 == <<"l1Head", "boundedHeight">>

blockByIDV9(id) ==
    CASE id = "pre_confirmed" -> <<"freshHead">>
      [] id = "latest"        -> Head_
      [] id = "hash"          -> BlockByHash
      [] id = "l1_accepted"   -> l1AcceptedBlockNumberV9 \o GetBlockByNumber
      [] id = "number"        -> GetBlockByNumber

blockHeaderByIDV9(id) ==
    CASE id = "pre_confirmed" -> <<"freshHead">>
      [] id = "latest"        -> HeadsHeader
      [] id = "hash"          -> GetBlockHeaderByHash
      [] id = "l1_accepted"   -> l1AcceptedBlockNumberV9 \o <<"header">>
      [] id = "number"        -> <<"header">>

stateByBlockIDV9(id) ==
    CASE id = "pre_confirmed" -> <<"freshHead", "state">>
      [] id = "latest"        -> <<"live">>
      [] id = "hash"          -> StateAtBlockHash
      [] id = "l1_accepted"   -> l1AcceptedBlockNumberV9 \o <<"state">>
      [] id = "number"        -> <<"state">>

stateAndHeaderByBlockIDV9(id) ==
    IF id = "pre_confirmed" THEN stateByBlockIDV9(id)
    ELSE stateByBlockIDV9(id) \o blockHeaderByIDV9(id)

BlockTransactionCountV9(id) ==
    IF id = "pre_confirmed" THEN <<"freshHead">> ELSE NumberOf(id) \o <<"header">>

BlockWithTxHashesV9(id) ==
    IF id = "pre_confirmed" THEN <<"freshHead">>
    ELSE blockHeaderByIDV9(id) \o <<"body", "status">>

BlockWithTxsV9(id) ==
    IF id = "pre_confirmed" THEN <<"freshHead">>
    ELSE blockHeaderByIDV9(id) \o <<"body", "status">>

BlockWithReceiptsV9(id) ==
    blockByIDV9(id) \o (IF id = "pre_confirmed" THEN <<>> ELSE <<"status">>)

stateUpdateByIDV9(id) ==
    CASE id = "pre_confirmed" -> <<"freshHead">>
      [] id = "hash"          -> GetStateUpdateByHash
      [] OTHER                -> NumberOf(id) \o <<"update">>

TransactionByBlockIDAndIndexV9(id) ==
    IF id = "pre_confirmed" THEN <<"freshHead">> ELSE NumberOf(id) \o <<"body">>

TraceBlockTransactionsV9(id) == blockHeaderByIDV9(id) \o <<"body">>

isBlockSupportedV9(id) ==
    CASE id = "latest" -> <<>>
      [] id = "hash"   -> <<"numberOf", "isHead">>
      [] id = "number" -> <<"isHead">>

StorageProofV9(id) == <<"top">> \o isBlockSupportedV9(id) \o <<"atTop", "header", "state">>

StorageAtV9(id) == stateByBlockIDV9(id) \o <<StateRead(id), StateRead(id)>>

NonceV9(id) == stateByBlockIDV9(id) \o <<StateRead(id)>>

ClassV9(id) == stateByBlockIDV9(id) \o <<StateRead(id)>>

ClassHashAtV9(id) == stateByBlockIDV9(id) \o <<StateRead(id)>>

\* The class hash and the class are read from two states, resolved one after the
\* other from the same id.
ClassAtV9(id) == ClassHashAtV9(id) \o ClassV9(id)

CallV9(id) == stateAndHeaderByBlockIDV9(id) \o <<StateRead(id)>>

EstimateMessageFeeV9(id) == stateAndHeaderByBlockIDV9(id) \o <<StateRead(id), StateRead(id)>>

finalisedTransactionStatusV9 == <<"lookup", "txAt", "status">>

transactionStatusFromStoreV9 ==
    << <<"storedTx">>, finalisedTransactionStatusV9, <<"freshTx">>, finalisedTransactionStatusV9 >>

TransactionStatusV9 == transactionStatusFromStoreV9 \o << <<"feeder">> >>

TransactionByHashV9 ==
    << <<"storedTx">>, GetTransactionByHash, <<"freshTx">>, GetTransactionByHash >>

getFinalisedTransactionReceiptV9 ==
    <<"lookup">> \o TransactionAndReceiptByBlockNumberAndIndex \o <<"status">>

TransactionReceiptByHashV9 ==
    << <<"storedTx">>, getFinalisedTransactionReceiptV9,
       <<"freshTx">>, getFinalisedTransactionReceiptV9 >>

findAndTraceFinalisedTransactionV9 == <<"lookup", "header", "txAt", "sameTx">>

TraceTransactionV9 == << <<"storedTx">>, findAndTraceFinalisedTransactionV9 >>

----------------------------------------------------------------------------
ProgramsOfBlock(id) ==
    { BlockTransactionCount(id), BlockWithTxHashes(id), BlockWithTxs(id), BlockWithReceipts(id),
      stateUpdateByID(id), TransactionByBlockIDAndIndex(id),
      BlockTransactionCountV9(id), BlockWithTxHashesV9(id), BlockWithTxsV9(id),
      BlockWithReceiptsV9(id), stateUpdateByIDV9(id), TransactionByBlockIDAndIndexV9(id) }
      \cup (IF id = "latest" THEN {BlockNumber, BlockHashAndNumber, Syncing} ELSE {})
      \cup (IF id = "pre_confirmed" THEN {}
            ELSE {TraceBlockTransactions(id), TraceBlockTransactionsV9(id)})
      \cup (IF id \in {"latest", "hash", "number"} THEN {StorageProof(id), StorageProofV9(id)}
            ELSE {})

ProgramsOfState(id) ==
    { StorageAt(id), Nonce(id), Class(id), ClassAt(id), ClassHashAt(id),
      StorageAtV9(id), NonceV9(id), ClassV9(id), ClassHashAtV9(id) }
      \cup (IF id = "latest" THEN {CompiledCasm} ELSE {})

\* The handlers that resolve their id twice.
ProgramsOfCall(id) ==
    { Call(id), simulateBroadcastedTransactions(id), EstimateMessageFee(id),
      CallV9(id), EstimateMessageFeeV9(id) }

ProgramsOfTx ==
    { TransactionStatus, TransactionByHash, TransactionReceiptByHash, TraceTransaction,
      TransactionStatusV9, TransactionByHashV9, TransactionReceiptByHashV9, TraceTransactionV9 }

Ids == {"pre_confirmed", "latest", "hash", "l1_accepted", "number"}

Idle == [kind |-> "idle"]

Present == Wanted \in Stored \cup ToSet(pre.txs)

Begin(kind, id, alts, n) ==
    req' = [ kind |-> kind, id |-> id, alts |-> alts, num |-> n, l1 |-> -1, idx |-> 0,
             asked |-> IF n < Len(chain) THEN BlockAt(n) ELSE <<n, -1>>,
             parts |-> {}, got |-> Wanted, top |-> Height(chain),
             known |-> \/ Present
                       \/ submitted /\ <<"feeder">> \in ToSet(alts),
             disturbed |-> FALSE, result |-> "" ]

\* A request by number or by hash names a block that is stored now.
Request ==
    /\ req = Idle
    /\ \/ \E kind \in Kinds \cap {"block", "state", "call", "class"}, id \in Ids :
              \E n \in IF id \in {"hash", "number"} THEN 0 .. Height(chain) ELSE {0} :
                  \E p \in CASE kind = "block" -> ProgramsOfBlock(id)
                             [] kind = "state" -> ProgramsOfState(id)
                             [] kind = "call"  -> ProgramsOfCall(id)
                             [] kind = "class" -> {ClassAtV9(id)} :
                      Begin(kind, id, <<p>>, n)
       \/ /\ "tx" \in Kinds
          /\ \E alts \in ProgramsOfTx :
                  Begin("tx", IF alts \in {TraceTransaction, TraceTransactionV9} THEN "trace" ELSE "none", alts, 0)
    /\ UNCHANGED <<chain, reverts, l1, pre, submitted>>

Active == req # Idle /\ req.result = ""

\* The read found nothing: the next alternative is tried, if there is one.
Fail(r) ==
    IF Len(r.alts) = 1 THEN [r EXCEPT !.result = "notfound", !.alts = <<>>]
    ELSE [r EXCEPT !.alts = Tail(r.alts), !.parts = {}]

\* The read is done; the request is answered by the end of an alternative.
Done(r) ==
    IF Len(r.alts[1]) = 1 THEN [r EXCEPT !.result = "ok", !.alts = <<>>]
    ELSE [r EXCEPT !.alts = <<Tail(r.alts[1])>> \o Tail(r.alts)]

Answer(r) == [r EXCEPT !.result = "ok", !.alts = <<>>]

At(r, n) == Done([r EXCEPT !.parts = @ \cup {BlockAt(n)}])

IndexOf(n) == CHOOSE i \in DOMAIN chain[n + 1].txs : chain[n + 1].txs[i] = Wanted

Numbers == 0 .. Height(chain)

\* The outcome of a read of the database: what the reader does with a key that
\* is missing, and with the value when it is there.
Read(r, item) ==
    CASE item = "height"        -> {Done([r EXCEPT !.num = Height(chain)])}
      [] item = "top"           -> {Done([r EXCEPT !.idx = Height(chain)])}
      [] item = "atTop"         -> {Done([r EXCEPT !.num = r.idx])}
      [] item = "isHead"        -> {IF r.num = r.idx THEN Done(r) ELSE Fail(r)}
      [] item = "l1Head"        -> {IF l1 = -1 THEN Fail(r) ELSE Done([r EXCEPT !.l1 = l1])}
      [] item = "boundedHeight" -> {Done([r EXCEPT !.num = IF r.l1 < Height(chain) THEN r.l1
                                                           ELSE Height(chain)])}
      [] item = "numberOf"      -> {IF \E n \in Numbers : BlockAt(n) = r.asked
                                    THEN Done([r EXCEPT !.num = r.asked[1]]) ELSE Fail(r)}
      [] item \in {"header", "body", "commitments", "update", "state"} ->
                                   {IF r.num \in Numbers THEN At(r, r.num) ELSE Fail(r)}
      [] item = "live"          -> {At(r, Height(chain))}
      [] item = "status"        -> {Done([r EXCEPT !.l1 = l1])}
      [] item = "lookup"        ->
             {IF Wanted \notin Stored THEN Fail(r)
              ELSE LET n == CHOOSE n \in Numbers : Wanted \in ToSet(chain[n + 1].txs)
                   IN  Done([r EXCEPT !.num = n, !.idx = IndexOf(n)])}
      [] item = "txAt"          ->
             {IF r.num \in Numbers /\ r.idx \in DOMAIN chain[r.num + 1].txs
              THEN At([r EXCEPT !.got = chain[r.num + 1].txs[r.idx]], r.num) ELSE Fail(r)}
      [] item = "sameTx"        -> {IF r.got = Wanted THEN Done(r) ELSE Fail(r)}
      [] item = "freshHead"     -> {IF pre.num = 0 THEN Fail(r)
                                    ELSE Done([r EXCEPT !.num = pre.num - 1])}
      [] item \in {"storedTx", "freshTx"} ->
                                   {IF Wanted \in ToSet(pre.txs) THEN Answer(r) ELSE Fail(r)}
      \* the gateway knows the transaction, or it does not and the cache is asked
      [] item = "feeder"        -> {Answer(r), IF submitted THEN Answer(r) ELSE Fail(r)}

Step ==
    /\ Active
    /\ req' \in Read(req, req.alts[1][1])
    /\ UNCHANGED <<chain, reverts, l1, pre, submitted>>

Reply ==
    /\ req # Idle /\ req.result # ""
    /\ req' = Idle
    /\ UNCHANGED <<chain, reverts, l1, pre, submitted>>

----------------------------------------------------------------------------
(* What the node does meanwhile.                                            *)

Disturb == req' = IF Active THEN [req EXCEPT !.disturbed = TRUE] ELSE req

Orders == {<<>>} \cup {<<t>> : t \in Txs} \cup {s \in [1 .. 2 -> Txs] : s[1] # s[2]}

\* One batch writes the block, its indices and the height.  The block is the
\* pre-confirmed one when there was one of its number.
Store ==
    /\ Len(chain) <= MaxHeight
    /\ \E txs \in Orders :
          /\ ToSet(txs) \cap Stored = {}
          /\ pre.num = Len(chain) => txs = pre.txs
          /\ chain' = Append(chain, [fork |-> reverts, txs |-> txs])
    /\ UNCHANGED <<reverts, l1, pre, submitted, req>>

RevertHead ==
    /\ Len(chain) > 1
    /\ reverts < MaxReverts
    /\ chain' = Front(chain)
    /\ reverts' = reverts + 1
    /\ Disturb
    /\ UNCHANGED <<l1, pre, submitted>>

SetL1Head ==
    /\ \E n \in l1 + 1 .. MaxHeight : l1' = n
    /\ UNCHANGED <<chain, reverts, pre, submitted, req>>

\* The pre-confirmed block over the head appears, or grows.
PreConfirm ==
    /\ pre.num \in {0, Len(chain)}
    /\ Len(chain) <= MaxHeight
    /\ \E txs \in Orders :
          /\ ToSet(txs) \cap Stored = {}
          /\ pre.num # 0 => IsStrictPrefix(pre.txs, txs)
          /\ pre' = [num |-> Len(chain), txs |-> txs]
    /\ UNCHANGED <<chain, reverts, l1, submitted, req>>

NoPre == [num |-> 0, txs |-> <<>>]

\* The stored chain follows the head: it drops the blocks that are stored, some
\* time after they were.
AdvanceTo ==
    /\ pre.num \in 1 .. Height(chain)
    /\ pre' = NoPre
    /\ UNCHANGED <<chain, reverts, l1, submitted, req>>

\* The round is replaced, or the head it builds on is gone.
DropPreConfirmed ==
    /\ pre.num >= Len(chain)
    /\ pre' = NoPre
    /\ Disturb
    /\ UNCHANGED <<chain, reverts, l1, submitted>>

\* The transaction was pushed to the mempool or to the gateway, then cached.
AddTransaction ==
    /\ ~submitted
    /\ submitted' = TRUE
    /\ UNCHANGED <<chain, reverts, l1, pre, req>>

\* Its time to live is over.
Evict ==
    /\ submitted
    /\ submitted' = FALSE
    /\ Disturb
    /\ UNCHANGED <<chain, reverts, l1, pre>>

----------------------------------------------------------------------------
Init ==
    /\ chain = << [fork |-> 0, txs |-> <<>>] >>
    /\ reverts = 0
    /\ l1 = -1
    /\ pre = NoPre
    /\ submitted = FALSE
    /\ req = Idle

Next ==
    \/ Request \/ Step \/ Reply
    \/ Store \/ RevertHead \/ SetL1Head \/ PreConfirm \/ AdvanceTo \/ DropPreConfirmed
    \/ AddTransaction \/ Evict

Spec == Init /\ [][Next]_vars

----------------------------------------------------------------------------
Answered == req # Idle /\ req.result = "ok" /\ ~req.disturbed

\* What a handler of blocks or of state answers is about one block, however many
\* blocks are stored while it reads, unless a head is reverted meanwhile; a hash
\* gets the block of that hash, `latest` a block no older than the head at the
\* start, `l1_accepted` a block the L1 head covers.  The state of `latest` is not
\* so, as it moves with the head, nor are the handlers that resolve a tag twice.
OneBlock ==
    Answered =>
      /\ \/ req.kind = "block"
         \/ req.kind = "state" /\ req.id # "latest"
         \/ req.kind \in {"call", "class"} /\ req.id \in {"hash", "number"}
         => /\ Cardinality(req.parts) <= 1
            /\ req.id = "hash" => req.parts \subseteq {req.asked}
      /\ req.kind # "tx" => \A b \in req.parts :
            /\ req.id = "latest" => b[1] >= req.top
            /\ req.id = "l1_accepted" => b[1] <= l1

\* A transaction that the node knew when the request came - pre-confirmed, in a
\* block, or accepted from the user - is found, wherever it moves meanwhile:
\* unless it is dropped, the request never falls between the pre-confirmed chain
\* and the database.  What is answered is about it, and the trace is so even
\* when a head is reverted between the lookup and the read.
TransactionFound ==
    /\ req # Idle /\ req.kind = "tx" /\ ~req.disturbed
         => /\ req.known => req.result # "notfound"
            /\ req.result = "ok" => req.got = Wanted
    /\ req # Idle /\ req.id = "trace" /\ req.result = "ok"
         => req.got = Wanted

\* What the read handlers of the API answer is true of one block of the chain, or
\* of the transaction asked for, whatever the node does between their reads.
AnswersTrue == OneBlock /\ TransactionFound

\* The state a call runs on and the header it runs with are of the same block:
\* stateAndHeaderByBlockID "returns the state and the header at blockID".
StateMatchesHeader ==
    Answered /\ req.kind = "call" => Cardinality(req.parts) <= 1
=============================================================================
