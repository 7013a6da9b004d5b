----------------------------- MODULE TraceCache -----------------------------
(***************************************************************************)
(* Tracing of transactions and blocks (rpc/v10/trace.go, rpc/v9/trace.go)  *)
(* over the cache both versions share (rpc/tracecache): one producer per   *)
(* block at a time, the others wait; a cached prefix of a block is         *)
(* extended without executing it again; the least recently used block is   *)
(* dropped.  Block "f" has an old protocol version and is traced by the    *)
(* feeder; "a" and "b" compete for the height above it.                    *)
(***************************************************************************)
EXTENDS Integers, Sequences, FiniteSets, SequencesExt

CONSTANTS
    None,        \* no value
    Requesters,  \* requests served at the same time
    Limit,       \* blocks the cache holds
    MaxRequests, \* bound on the requests
    MaxReorgs,   \* bound on the replacements of the head
    MaxFailures  \* bound on failing executions and fetches

VARIABLES
    head,      \* the block stored above "f"
    pre,       \* whether the stored pre-confirmed chain is still there
    records,   \* the cache, least recently used block first
    flights,   \* the blocks that somebody holds a lease of
    req,       \* the request every requester serves
    served, reorgs, failures,
    misread    \* blocks whose transactions were read after they were replaced

vars == <<head, pre, records, flights, req, served, reorgs, failures, misread>>



Blocks == {"f", "a", "b"}

TxsOf(b) == CASE b = "f" -> <<"x">>
              [] b = "a" -> <<"t", "u", "v">>
              [] b = "b" -> <<"t", "w", "v">>

NumberOf(b) == IF b = "f" THEN 0 ELSE 1

AtNumber(n) == IF n = 0 THEN "f" ELSE head

PreBlocks == << <<"p">>, <<"q", "r">> >>

\* What a transaction writes, one cell per kind of difference.
Writes(tx) == CASE tx \in {"t", "q"} -> {"nonce", "slot"}
                [] tx = "u"          -> {"slot", "declared"}
                [] tx = "v"          -> {"nonce", "class"}
                [] OTHER             -> {"slot"}

Diff(tx) == [c \in Writes(tx) |-> tx]

(* A state is the function of the cells written so far.                     *)

EmptyStateDiff == [c \in {} |-> None]

mergeVMStateDiff(result, diff) ==
    [c \in DOMAIN result \cup DOMAIN diff |->
        IF c \in DOMAIN diff THEN diff[c] ELSE result[c]]

\* State of the readers layered over another one: core/pending's NewState.
NewState(diff, base) == mergeVMStateDiff(base, diff)

checkpointFromTraces(traces) ==
    FoldLeft(LAMBDA r, t : mergeVMStateDiff(r, t.diff), EmptyStateDiff, traces)

\* The state after a sequence of transactions: for each cell the last writer.
StateAfter(txs) ==
    [c \in UNION {Writes(txs[i]) : i \in DOMAIN txs} |->
        LET last == CHOOSE i \in DOMAIN txs :
                        /\ c \in Writes(txs[i])
                        /\ \A j \in i + 1..Len(txs) : c \notin Writes(txs[j])
        IN txs[last]]

\* Class definitions known to the head state.
HeadClasses == IF "u" \in ToSet(TxsOf(head)) THEN {"u"} ELSE {}

loadCheckpointClasses(diff) ==
    "declared" \in DOMAIN diff => diff["declared"] \in HeadClasses

----------------------------------------------------------------------------
(* The VM (external): transactions in order on a state.  A trace remembers  *)
(* the state its transaction ran on.                                        *)

Trace(txs, state) ==
    [i \in DOMAIN txs |->
        [hash |-> txs[i], diff |-> Diff(txs[i]), 
         on |-> NewState(checkpointFromTraces([j \in 1..i - 1 |-> [diff |-> Diff(txs[j])]]), state)]]

\* What the feeder answers for a block, whatever the node's chain is.
FeederTrace(txs) == [i \in DOMAIN txs |-> [hash |-> txs[i], diff |-> Diff(txs[i]), on |-> StateAfter(<<>>)]]

(* The values of the cache.                                                 *)

FromVM(traces, initialReads) ==
    [complete |-> FALSE, source |-> "vm", traces |-> traces, reads |-> initialReads]

\* The feeder answers by hash; the types are those of the stored block.
FromFeeder(kinds, traces) ==
    IF Len(kinds) # Len(traces) THEN None
    ELSE [complete |-> TRUE, source |-> "feeder", traces |-> traces, reads |-> FALSE]

Covers(b, initialReads) ==
    b.complete /\ (initialReads => b.reads \/ b.source = "feeder")

CoversTarget(b, target, initialReads) ==
    /\ target.index <= Len(b.traces) \/ b.complete
    /\ initialReads => b.reads \/ b.source = "feeder"

ValidTarget(b, target) ==
    target = None \/ (/\ target.index <= Len(b.traces)
                      /\ b.traces[target.index].hash = target.hash)

\* The range start+1..end of the transactions to execute, or why there is none.
PlanRange(cached, txs, target, initialReads) ==
    LET end    == IF target = None THEN Len(txs) ELSE target.index
        prefix == IF cached = None \/ initialReads THEN <<>> ELSE cached.traces
        plan(e) == [error |-> e, start |-> Len(prefix), end |-> end, prefix |-> prefix,
                    total |-> Len(txs)]
    IN CASE target # None /\ (target.index > Len(txs) \/ txs[target.index] # target.hash)
                                                -> plan("not found")
         [] initialReads /\ end # Len(txs)      -> plan("partial reads")
         [] cached # None /\ ~initialReads /\ cached.source = "feeder" -> plan("feeder")
         [] Len(prefix) > end                   -> plan("exceeds")
         [] OTHER                               -> plan(None)

\* None when a class that the prefix declared is not in the head state.
ResumeState(plan, parent) ==
    IF plan.start = 0 THEN parent
    ELSE LET checkpoint == checkpointFromTraces(plan.prefix)
         IN IF loadCheckpointClasses(checkpoint) THEN NewState(checkpoint, parent) ELSE None

Combine(b, plan) ==
    IF Len(b.traces) # plan.end - plan.start THEN None
    ELSE [b EXCEPT !.traces = plan.prefix \o b.traces, !.complete = plan.end = plan.total]

\* The classes of the declare transactions come from the head state.
fetchDeclaredClassesAndL1Fees(txs) ==
    \A i \in DOMAIN txs : "declared" \in Writes(txs[i]) => txs[i] \in HeadClasses

fetchDeclaredClassesAndL1FeesV9(txs) == fetchDeclaredClassesAndL1Fees(txs)

traceTransactionsWithState(txs, state, initialReads) ==
    IF fetchDeclaredClassesAndL1Fees(txs) THEN FromVM(Trace(txs, state), initialReads) ELSE None

traceTransactionsWithStateV9(txs, state) ==
    IF fetchDeclaredClassesAndL1FeesV9(txs) THEN FromVM(Trace(txs, state), FALSE) ELSE None

\* The state of the parent is that after block "f".
Execute(txs, initialReads, plan, version) ==
    LET state  == ResumeState(plan, StateAfter(TxsOf("f")))
        suffix == SubSeq(txs, plan.start + 1, plan.end)
    IN IF state = None THEN None
       ELSE IF version = 9 THEN traceTransactionsWithStateV9(suffix, state)
       ELSE traceTransactionsWithState(suffix, state, initialReads)

traceBlockWithVM(txs, initialReads, plan) == Execute(txs, initialReads, plan, 10)

traceBlockWithVMV9(txs, plan) == Execute(txs, FALSE, plan, 9)

shouldFetchTracesFromFeederGateway(b) == b = "f"

shouldFetchTracesFromFeederGatewayV9(b) == b = "f"

----------------------------------------------------------------------------
(* The cache: a record moves to the end when it is read or written.         *)

Cached(key) ==
    LET hits == SelectSeq(records, LAMBDA x : x.key = key)
    IN IF hits = <<>> THEN None ELSE Head(hits).value

Others(key) == SelectSeq(records, LAMBDA x : x.key # key)

Get(key) ==
    IF Cached(key) = None THEN records
    ELSE Others(key) \o <<[key |-> key, value |-> Cached(key)]>>

Add(key, value) ==
    LET new == Others(key) \o <<[key |-> key, value |-> value]>>
    IN IF Len(new) > Limit THEN Tail(new) ELSE new

Idle == [pc |-> "idle"]

\* The lease of key ends: those that wait for it look the key up again.
finishLocked(rq, key) ==
    [r \in Requesters |->
        IF rq[r].pc = "wait" /\ rq[r].block = key THEN [rq[r] EXCEPT !.pc = "acquire"] ELSE rq[r]]

Answered(r, answer) ==
    [pc |-> "done", version |-> req[r].version, block |-> req[r].block, target |-> req[r].target,
     reads |-> req[r].reads, answer |-> answer]

\* Release: a failed producer leaves what is cached as it was.
ReleaseWith(r, answer) ==
    /\ req' = finishLocked([req EXCEPT ![r] = Answered(r, answer)], req[r].block)
    /\ flights' = flights \ {req[r].block}
    /\ UNCHANGED records

Publish(r, value) ==
    /\ records' = Add(req[r].block, value)
    /\ req' = finishLocked([req EXCEPT ![r] = Answered(r, value)], req[r].block)
    /\ flights' = flights \ {req[r].block}

Begin(r, version, pc, block, target, reads) ==
    [pc |-> pc, version |-> version, block |-> block, target |-> target, reads |-> reads,
     cached |-> None, txs |-> None]

----------------------------------------------------------------------------
(* The requests.                                                            *)

Init ==
    /\ head = "a" /\ pre \in BOOLEAN
    /\ records = <<>> /\ flights = {}
    /\ req = [r \in Requesters |-> Idle]
    /\ served = 0 /\ reorgs = 0 /\ failures = 0 /\ misread = {}

\* Where the index by transaction hash says a stored transaction is.
Lookup(hash) ==
    LET holders == {b \in {"f", head} : hash \in ToSet(TxsOf(b))}
    IN IF holders = {} THEN None
       ELSE LET b == CHOOSE h \in holders : TRUE
            IN [number |-> NumberOf(b), 
                index  |-> CHOOSE i \in DOMAIN TxsOf(b) : TxsOf(b)[i] = hash]

\* The state just before a transaction of the pre-confirmed chain: the blocks
\* below it whole, then the transactions before it in its own block.
PreConfirmedStateBeforeIndexAt(slot, index) ==
    LET below  == FoldLeft(LAMBDA d, txs :
                      FoldLeft(LAMBDA x, tx : mergeVMStateDiff(x, Diff(tx)), d, txs),
                      EmptyStateDiff, SubSeq(PreBlocks, 1, slot - 1))
        before == SubSeq(PreBlocks[slot], 1, index - 1)
    IN NewState(FoldLeft(LAMBDA x, tx : mergeVMStateDiff(x, Diff(tx)), below, before),
                StateAfter(TxsOf("f") \o TxsOf(head)))

traceInPreConfirmedChain(hash) ==
    LET slots == {s \in DOMAIN PreBlocks : hash \in ToSet(PreBlocks[s])}
    IN IF slots = {} THEN None
       ELSE LET s == CHOOSE x \in slots : TRUE
                i == CHOOSE x \in DOMAIN PreBlocks[s] : PreBlocks[s][x] = hash
            IN traceTransactionsWithState(<<hash>>, PreConfirmedStateBeforeIndexAt(s, i), FALSE)

traceInPreConfirmedChainV9(hash) == traceInPreConfirmedChain(hash)

\* A transaction is looked for in the pre-confirmed chain, then in the index.
TraceTransaction(r, version, hash) ==
    /\ req[r] = Idle /\ served < MaxRequests
    /\ served' = served + 1
    /\ LET inPre == IF ~pre THEN None
                    ELSE IF version = 9 THEN traceInPreConfirmedChainV9(hash)
                    ELSE traceInPreConfirmedChain(hash)
           at    == Lookup(hash)
       IN req' = [req EXCEPT ![r] =
             IF inPre # None
               THEN [pc |-> "done", version |-> version, block |-> "pre", 
                     target |-> [hash |-> hash, index |-> 1], reads |-> FALSE, answer |-> inPre]
             ELSE IF at = None THEN Idle
             ELSE Begin(r, version, "header", at.number, [hash |-> hash, index |-> at.index], FALSE)]
    /\ UNCHANGED <<head, pre, records, flights, reorgs, failures, misread>>

\* The header of a block named by its number; version 9 knows no initial reads.
TraceBlockTransactions(r, version, number, reads) ==
    /\ req[r] = Idle /\ served < MaxRequests
    /\ reads => version = 10
    /\ served' = served + 1
    /\ req' = [req EXCEPT ![r] = Begin(r, version, "acquire", AtNumber(number), None, reads)]
    /\ UNCHANGED <<head, pre, records, flights, reorgs, failures, misread>>

BlockHeaderByNumber(r) ==
    /\ req[r].pc = "header"
    /\ req' = [req EXCEPT ![r].pc = "acquire", ![r].block = AtNumber(req[r].block)]
    /\ UNCHANGED <<head, pre, records, flights, served, reorgs, failures, misread>>

Accepts(r, value) ==
    IF value = None THEN FALSE
    ELSE IF req[r].target = None THEN Covers(value, req[r].reads)
    ELSE CoversTarget(value, req[r].target, req[r].reads)

\* One round of Acquire: a hit, a lease, or waiting for who holds it.
lookupOrStart(r) ==
    /\ req[r].pc = "acquire"
    /\ LET key == req[r].block
           value == Cached(key)
       IN /\ records' = Get(key)
          /\ \/ /\ Accepts(r, value)
                /\ req' = [req EXCEPT ![r] = Answered(r, 
                        IF ValidTarget(value, req[r].target) THEN value ELSE None)]
                /\ UNCHANGED flights
             \/ /\ ~Accepts(r, value)
                /\ key \in flights
                /\ req' = [req EXCEPT ![r].pc = "wait"]
                /\ UNCHANGED flights
             \/ /\ ~Accepts(r, value)
                /\ key \notin flights
                /\ flights' = flights \cup {key}
                /\ req' = [req EXCEPT ![r].pc = "lease", ![r].cached = value]
    /\ UNCHANGED <<head, pre, served, reorgs, failures, misread>>

\* The context of a request that waits is cancelled.
CancelWait(r) ==
    /\ req[r].pc = "wait"
    /\ req' = [req EXCEPT ![r] = Answered(r, None)]
    /\ UNCHANGED <<head, pre, records, flights, served, reorgs, failures, misread>>

\* The feeder answers by hash, then the transactions are read by number.
fetchTracesFromFeederGateway(block, fails) ==
    IF fails THEN None ELSE FromFeeder(TxsOf(AtNumber(NumberOf(block))), FeederTrace(TxsOf(block)))

fetchTracesFromFeederGatewayV9(block, fails) == fetchTracesFromFeederGateway(block, fails)

Fails(fails) == 
    /\ fails => failures < MaxFailures
    /\ failures' = failures + (IF fails THEN 1 ELSE 0)

\* traceFinalisedBlock with the lease: the feeder's traces, or the transactions
\* that the number holds now.
Fetch(r) ==
    /\ req[r].pc = "lease"
    /\ LET b == req[r].block
           useFeeder == IF req[r].version = 9 THEN shouldFetchTracesFromFeederGatewayV9(b)
                        ELSE shouldFetchTracesFromFeederGateway(b)
       IN \/ /\ useFeeder
             /\ \E fails \in BOOLEAN :
                   /\ Fails(fails)
                   /\ LET got == IF req[r].version = 9 THEN fetchTracesFromFeederGatewayV9(b, fails)
                                 ELSE fetchTracesFromFeederGateway(b, fails)
                      IN IF got = None \/ (got # None /\ ~ValidTarget(got, req[r].target))
                         THEN ReleaseWith(r, None)
                         ELSE Publish(r, got)
             /\ UNCHANGED misread
          \/ /\ ~useFeeder
             /\ LET txs  == TxsOf(AtNumber(NumberOf(b)))
                    plan == PlanRange(req[r].cached, txs, req[r].target, req[r].reads)
                IN /\ misread' = IF AtNumber(NumberOf(b)) = b THEN misread ELSE misread \cup {b}
                   /\ IF plan.error # None THEN ReleaseWith(r, None)
                      ELSE /\ req' = [req EXCEPT ![r].pc = "execute", ![r].txs = txs]
                           /\ UNCHANGED <<records, flights>>
             /\ UNCHANGED failures
    /\ UNCHANGED <<head, pre, served, reorgs>>

\* The rest of traceFinalisedBlock: the VM, Combine, and Publish or Release.
traceFinalisedBlock(r) ==
    /\ req[r].pc = "execute"
    /\ \E fails \in BOOLEAN :
          /\ Fails(fails)
          /\ LET plan     == PlanRange(req[r].cached, req[r].txs, req[r].target, req[r].reads)
                 response == traceBlockWithVM(req[r].txs, req[r].reads, plan)
                 combined == IF fails \/ response = None THEN None ELSE Combine(response, plan)
             IN IF combined = None THEN ReleaseWith(r, None) ELSE Publish(r, combined)
    /\ UNCHANGED <<head, pre, served, reorgs, misread>>

\* Version 9 looks at the target once more before it publishes.
traceFinalisedBlockV9(r) ==
    /\ req[r].pc = "execute"
    /\ \E fails \in BOOLEAN :
          /\ Fails(fails)
          /\ LET plan     == PlanRange(req[r].cached, req[r].txs, req[r].target, FALSE)
                 traces   == traceBlockWithVMV9(req[r].txs, plan)
                 combined == IF fails \/ traces = None THEN None ELSE Combine(traces, plan)
             IN IF combined = None \/ (combined # None /\ ~ValidTarget(combined, req[r].target))
                THEN ReleaseWith(r, None) ELSE Publish(r, combined)
    /\ UNCHANGED <<head, pre, served, reorgs, misread>>

\* The trace at the index is compared with the hash asked for once more.
findAndTraceFinalisedTransaction(rq) ==
    rq.answer # None /\ rq.target.index <= Len(rq.answer.traces)
      /\ rq.answer.traces[rq.target.index].hash = rq.target.hash

Return(r) ==
    /\ req[r].pc = "done"
    /\ req' = [req EXCEPT ![r] = Idle]
    /\ UNCHANGED <<head, pre, records, flights, served, reorgs, failures, misread>>

\* The node replaces its head; the pre-confirmed chain goes with it.
Reorg ==
    /\ reorgs < MaxReorgs
    /\ reorgs' = reorgs + 1
    /\ head' \in {"a", "b"} \ {head}
    /\ pre' = FALSE
    /\ UNCHANGED <<records, flights, req, served, failures, misread>>

Request(r) ==
    \/ \E v \in {9, 10}, h \in {"t", "u", "x", "r"} : TraceTransaction(r, v, h)
    \/ \E v \in {9, 10}, n \in {0, 1}, reads \in BOOLEAN : TraceBlockTransactions(r, v, n, reads)

Next ==
    \/ \E r \in Requesters :
          \/ Request(r) \/ BlockHeaderByNumber(r) \/ lookupOrStart(r) \/ CancelWait(r)
          \/ Fetch(r) \/ Return(r)
          \/ req[r].pc = "execute" /\ req[r].version = 10 /\ traceFinalisedBlock(r)
          \/ req[r].pc = "execute" /\ req[r].version = 9 /\ traceFinalisedBlockV9(r)
    \/ Reorg

Spec == Init /\ [][Next]_vars

----------------------------------------------------------------------------

\* The traces of a block executed from its first transaction in one go.
WholeTrace(b) ==
    [i \in DOMAIN TxsOf(b) |->
        [hash |-> TxsOf(b)[i], diff |-> Diff(TxsOf(b)[i]),
         on |-> IF b = "f" THEN StateAfter(<<>>)
                ELSE StateAfter(TxsOf("f") \o SubSeq(TxsOf(b), 1, i - 1))]]

TrueOf(b, value) ==
    /\ IsPrefix(value.traces, WholeTrace(b))
    /\ value.complete <=> Len(value.traces) = Len(TxsOf(b))
    /\ value.reads => value.complete

\* Every record of the trace cache, and every answer, is a prefix of what
\* executing the block from its start gives, however often it was extended by
\* requests for later transactions, dropped and built again; unless the block
\* was replaced between the reads of its header and its transactions.  A request
\* for a transaction gets a trace of that transaction even then.  Who waits for
\* a block waits for somebody who holds its lease (Cache.Acquire).
TracesTrue ==
    /\ \A i \in DOMAIN records :
          records[i].key \in misread \/ TrueOf(records[i].key, records[i].value)
    /\ Len(records) <= Limit
    /\ \A r \in Requesters :
          LET q == req[r] IN
          /\ q.pc = "wait" =>
                \E o \in Requesters : req[o].pc \in {"lease", "execute"} /\ req[o].block = q.block
          /\ q.pc = "done" /\ q.answer # None =>
                /\ q.target # None => findAndTraceFinalisedTransaction(q)
                /\ q.reads => q.answer.reads \/ q.answer.source = "feeder"
                /\ q.block \in misread \cup {"pre"} \/ TrueOf(q.block, q.answer)
                /\ (q.target = None /\ q.block \notin misread) => q.answer.complete

\* A transaction of the pre-confirmed chain is traced on the state left by all
\* the transactions before it, those of its own block included
\* (traceInPreConfirmedChain).
PreConfirmedTraceTrue ==
    \A r \in Requesters :
        req[r].pc = "done" /\ req[r].block = "pre" =>
            LET txs == TxsOf("f") \o TxsOf("a") \o FlattenSeq(PreBlocks)
                at  == CHOOSE i \in DOMAIN txs : txs[i] = req[r].target.hash
            IN req[r].answer.traces[1].on = StateAfter(SubSeq(txs, 1, at - 1))
=============================================================================
