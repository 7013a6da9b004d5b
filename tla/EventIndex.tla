----------------------------- MODULE EventIndex -----------------------------
(***************************************************************************)
(* The index of events and the queries that use it.                        *)
(*                                                                         *)
(* Blocks are grouped in windows of NumBlocksPerFilter numbers.  For each  *)
(* full window a filter is kept in the database; the window at the head    *)
(* has its filter in memory, the running filter, which is saved only when  *)
(* the node shuts down.  A query finds the blocks that may match with the  *)
(* filters, of which it caches the ones read from the database, and reads  *)
(* their events page by page; above the head it goes on with the           *)
(* pre-confirmed chain.  A matcher is fixed: a block is the number of its  *)
(* matching events, and a filter the set of blocks whose bit it answers.   *)
(***************************************************************************)
EXTENDS Integers, Sequences, FiniteSets, SequencesExt

CONSTANTS
    NumBlocksPerFilter,   \* blocks of a window
    MaxBlock,             \* the last block number
    Contents,             \* how many matching events a block may have
    Froms, Tos,           \* where the ranges of queries begin and end
    ChunkSize, MaxScanned,
    MaxReverts, MaxFailures, MaxRestarts, MaxPruned, MaxAhead,  \* bounds
    None

VARIABLES
    chain,      \* the blocks of the chain (block n is chain[n + 1])
    floor,      \* the oldest block that has not been pruned
    persisted,  \* window start -> bits, in the database
    snapshot,   \* the running filter that a shutdown saved
    running,    \* the running filter in memory, None until it is used
    cached,     \* window start -> bits, the cache of the queries
    ahead,      \* the pre-confirmed chain: [base, slots]
    pc, query,  \* the query under way
    reverts, failures, restarts,
    replaced    \* the block numbers that have been reverted
vars == <<chain, floor, persisted, snapshot, running, cached, ahead, pc, query,
          reverts, failures, restarts, replaced>>
index == <<persisted, running>>
counters == <<reverts, failures, restarts, replaced>>

-----------------------------------------------------------------------------
Sentinel == MaxBlock + 1   \* the pre-confirmed block
Height == Len(chain) - 1
Window(n) == n - (n % NumBlocksPerFilter)
InWindow(from, n) == from <= n /\ n < from + NumBlocksPerFilter
Put(f, k, v) == [x \in DOMAIN f \union {k} |-> IF x = k THEN v ELSE f[x]]
Hot(from, bits, next) == [from |-> from, bits |-> bits, next |-> next]
EventsBloom(n, content) == IF content > 0 THEN {n} ELSE {}


Clear(bits, n) == bits \ {n}
\* The filter after block n, and the filters put in the database with it.
Insert(i, n, content) ==
    LET bits == i.running.bits \union EventsBloom(n, content)
    IN IF n = i.running.from + NumBlocksPerFilter - 1
       THEN [running |-> Hot(n + 1, {}, n + 1), persisted |-> Put(i.persisted, i.running.from, bits)]
       ELSE [running |-> Hot(i.running.from, bits, n + 1), persisted |-> i.persisted]

\* Blocks from up to the head, read from the database again.
Fill(i, from) ==
    FoldLeft(LAMBDA j, n : Insert(j, n, chain[n + 1]), i, [k \in 1 .. Height + 1 - from |-> from + k - 1])

\* Where to start again: after the last filter in the database that is not pruned.
StoredFilters == {w \in DOMAIN persisted : w <= Window(Height) /\ w >= Window(floor)}
Rebuild ==
    LET start == IF StoredFilters = {} THEN floor
                 ELSE (CHOOSE w \in StoredFilters : \A v \in StoredFilters : v <= w) + NumBlocksPerFilter
    IN Fill([running |-> Hot(Window(start), {}, start), persisted |-> persisted], start)

CaughtUp == snapshot # None /\ snapshot.next = Height + 1
SameWindow == snapshot # None /\ snapshot.next <= Height /\ InWindow(snapshot.from, Height)
InitializeRunningEventFilter ==
    IF chain = <<>> THEN [running |-> Hot(0, {}, 0), persisted |-> persisted]
    ELSE IF CaughtUp THEN [running |-> snapshot, persisted |-> persisted]
    ELSE IF SameWindow
    THEN LET next == IF floor > snapshot.next THEN floor ELSE snapshot.next
         IN Fill([running |-> Hot(snapshot.from, snapshot.bits, next), persisted |-> persisted], next)
    ELSE Rebuild

\* The index as the next user of the running filter finds it.
EnsureInit == IF running = None THEN InitializeRunningEventFilter
              ELSE [running |-> running, persisted |-> persisted]

\* The head leaves the running filter, which goes back a window when it has to.
BackAWindow(i) == i.running.next = i.running.from
OnReorg(i) ==
    LET cur == i.running.next - 1
        bits == IF BackAWindow(i) THEN i.persisted[Window(cur)] ELSE i.running.bits
    IN [running |-> Hot(Window(cur), Clear(bits, cur), cur),
        persisted |-> IF BackAWindow(i)
                      THEN [w \in DOMAIN i.persisted \ {i.running.from} |-> i.persisted[w]]
                      ELSE i.persisted]

-----------------------------------------------------------------------------
NoFilters == [w \in {} |-> {}]
Init ==
    /\ chain = <<>> /\ floor = 0 /\ persisted = NoFilters /\ snapshot = None
    /\ running = None /\ cached = NoFilters /\ ahead = [base |-> 0, slots |-> <<>>]
    /\ pc = "idle" /\ query = None
    /\ reverts = 0 /\ failures = 0 /\ restarts = 0 /\ replaced = {}

\* The block n is stored as it was pre-confirmed, unless the chain was reverted.
AheadHas(n) == n \in ahead.base .. ahead.base + Len(ahead.slots) - 1
Foreseen(n) == IF replaced = {} /\ AheadHas(n) THEN {ahead.slots[n - ahead.base + 1]} ELSE Contents

\* A batch is written, or it is not and only the running filter has changed.
Batch(i, j, written) ==
    /\ running' = j.running
    /\ \/ /\ written
          /\ persisted' = j.persisted /\ UNCHANGED failures
       \/ /\ failures < MaxFailures /\ failures' = failures + 1
          /\ persisted' = i.persisted /\ UNCHANGED <<chain, reverts, replaced>>

\* The block is refused when it is not in the window of the running filter.
Store ==
    /\ Height < MaxBlock
    /\ \E i \in {EnsureInit} :
          IF InWindow(i.running.from, Height + 1)
          THEN \E c \in Foreseen(Height + 1) :
                  Batch(i, Insert(i, Height + 1, c), chain' = Append(chain, c) /\ UNCHANGED <<reverts, replaced>>)
          ELSE /\ running' = i.running /\ persisted' = i.persisted
               /\ UNCHANGED <<chain, failures, reverts, replaced>>
    /\ UNCHANGED <<floor, snapshot, cached, ahead, pc, query, restarts>>

RevertHead ==
    /\ reverts < MaxReverts /\ chain # <<>> /\ (floor = 0 \/ Height > floor)
    /\ \E i \in {EnsureInit} :
          IF BackAWindow(i) => Window(i.running.next - 1) \in DOMAIN i.persisted
          THEN Batch(i, OnReorg(i), /\ chain' = Front(chain)
                                    /\ reverts' = reverts + 1
                                    /\ replaced' = replaced \union {Height})
          ELSE /\ running' = i.running /\ persisted' = i.persisted
               /\ UNCHANGED <<chain, failures, reverts, replaced>>
    /\ UNCHANGED <<floor, snapshot, cached, ahead, pc, query, restarts>>

\* The pruner deletes the blocks below the new floor, and the filters of windows that are
\* wholly below it.
PruneUpto(end) ==
    /\ end > floor /\ end <= Height /\ end <= MaxPruned
    /\ floor' = end
    /\ persisted' = [w \in {v \in DOMAIN persisted : v >= Window(end)} |-> persisted[w]]
    /\ UNCHANGED <<chain, snapshot, running, cached, ahead, pc, query, counters>>

\* The node stops, after the running filter was saved or because it crashed.
Restart(saved) ==
    /\ restarts < MaxRestarts /\ restarts' = restarts + 1
    /\ snapshot' = saved.running /\ persisted' = saved.persisted
    /\ running' = None /\ cached' = NoFilters /\ ahead' = [base |-> 0, slots |-> <<>>]
    /\ pc' = "idle" /\ query' = None
    /\ UNCHANGED <<chain, floor, reverts, failures, replaced>>
Shutdown == \E i \in {EnsureInit} : Restart(i)
Crash == Restart([running |-> snapshot, persisted |-> persisted])

\* A poll brings the pre-confirmed chain back to the head, and a block more.
Poll ==
    LET kept == IF ahead.base > Height + 1 THEN <<>>
                ELSE SubSeq(ahead.slots, Height + 2 - ahead.base, Len(ahead.slots)) IN
    /\ chain # <<>>
    /\ \/ ahead' = [base |-> Height + 1, slots |-> kept]
       \/ /\ Height + 1 + Len(kept) <= MaxBlock /\ Len(kept) < MaxAhead
          /\ \E c \in Contents : ahead' = [base |-> Height + 1, slots |-> Append(kept, c)]
    /\ UNCHANGED <<chain, floor, persisted, snapshot, running, cached, pc, query, counters>>

-----------------------------------------------------------------------------
\* A query: first, the block it asks from; start and skip, the continuation token.
stores == <<chain, floor, snapshot, ahead, counters>>
Fail == pc' = "idle" /\ query' = None

Request(first, to, start, skip, out, torn) ==
    [first |-> first, to |-> to, start |-> start, skip |-> skip, out |-> out, torn |-> torn]
Ask(from, to) ==
    /\ pc = "idle" /\ chain # <<>>
    /\ from \in (0 .. Height) \union {Sentinel} /\ to \in (0 .. Height) \union {Sentinel}
    /\ pc' = "head" /\ query' = Request(from, to, from, 0, <<>>, FALSE)
    /\ UNCHANGED <<stores, index, cached>>

\* The head that divides the query comes from the pre-confirmed chain when there is one;
\* last is the end of the part below it.
Page(latest, pre) ==
    [first |-> query.first, to |-> query.to, start |-> query.start, skip |-> query.skip,
     out |-> query.out, torn |-> query.torn, latest |-> latest, pre |-> pre, seen |-> 0, scanned |-> 0,
     last |-> IF query.to <= latest THEN query.to ELSE latest,
     win |-> Window(query.start), next |-> query.start, runningFrom |-> 0, bits |-> {}]
\* A mutant: the head that divides the query is the chain's.
DividedByHead ==
    /\ pc = "head"
    /\ \E p \in {IF query.to <= Height THEN Page(Height, <<>>) ELSE Page(Height, ahead.slots)} :
          IF p.start <= p.latest /\ p.start < floor THEN Fail
          ELSE /\ pc' = IF p.start <= p.last THEN "window"
                        ELSE IF p.to <= p.latest THEN "done" ELSE "ahead"
               /\ query' = p
    /\ UNCHANGED <<stores, index, cached>>
HeadAndPreConfirmed ==
    /\ pc = "head"
    /\ \E p \in {IF query.to <= Height \/ ahead.slots = <<>> THEN Page(Height, <<>>)
                 ELSE Page(ahead.base - 1, ahead.slots)} :
          IF p.start <= p.latest /\ p.start < floor THEN Fail
          ELSE /\ pc' = IF p.start <= p.last THEN "window"
                        ELSE IF p.to <= p.latest THEN "done" ELSE "ahead"
               /\ query' = p
    /\ UNCHANGED <<stores, index, cached>>

\* The window of the running filter is read, then the filter itself.
LoadWindow ==
    /\ pc = "window"
    /\ IF query.win > query.last
       THEN /\ pc' = IF query.to <= query.latest THEN "done" ELSE "ahead"
            /\ UNCHANGED <<query, index>>
       ELSE \E i \in {EnsureInit} :
            /\ running' = i.running /\ persisted' = i.persisted
            /\ query' = [query EXCEPT !.runningFrom = i.running.from]
            /\ pc' = "filter"
    /\ UNCHANGED <<stores, cached>>

\* The bits of a filter are positions in its window: those of the window win.
CandidateBlocks(filter, win) == {n - filter.from + win : n \in filter.bits}
FillCurrentBits ==
    /\ pc = "filter"
    /\ IF query.win = query.runningFrom
       THEN /\ query' = [query EXCEPT !.bits = CandidateBlocks(running, query.win),
                                      !.torn = @ \/ running.from # query.win,
                                      !.runningFrom = 0]
            /\ pc' = "scan"
       ELSE IF query.win \in DOMAIN cached
       THEN query' = [query EXCEPT !.bits = cached[query.win], !.runningFrom = 0] /\ pc' = "scan"
       ELSE IF query.win \in DOMAIN persisted
       THEN query' = [query EXCEPT !.bits = persisted[query.win], !.runningFrom = 0] /\ pc' = "add"
       ELSE Fail
    /\ UNCHANGED <<stores, index, cached>>
AddToCache ==
    /\ pc = "add" /\ pc' = "scan"
    /\ cached' = Put(cached, query.win, query.bits)
    /\ UNCHANGED <<stores, index, query>>

\* The matching events of block n that come after the first skip ones.
EventsOf(n, content, skip) == SubSeq([k \in 1 .. content |-> <<n, k>>], skip + 1, content)
EndPage(first, token, skip, out) ==
    pc' = "head" /\ query' = Request(first, query.to, token, skip, out, query.torn)

\* The next candidate: its events are appended until the page is full.
Scan ==
    /\ pc = "scan"
    /\ LET left == {n \in query.bits : n >= query.next}
           n == CHOOSE m \in left : \A k \in left : m <= k
           skip == IF n = query.start THEN query.skip ELSE 0
           events == EventsOf(n, chain[n + 1], skip)
           room == ChunkSize - query.seen
       IN IF left = {}
          THEN /\ pc' = "window"
               /\ query' = [query EXCEPT !.win = @ + NumBlocksPerFilter, !.bits = {},
                                         !.next = query.win + NumBlocksPerFilter]
          ELSE IF n > query.last
          THEN query' = query /\ pc' = IF query.to <= query.latest THEN "done" ELSE "ahead"
          ELSE IF MaxScanned > 0 /\ query.scanned = MaxScanned THEN EndPage(query.first, n, 0, query.out)
          ELSE IF n > Height \/ n < floor THEN Fail
          ELSE IF Len(events) > room
          THEN EndPage(query.first, n, skip + room, query.out \o SubSeq(events, 1, room))
          ELSE /\ query' = [query EXCEPT !.scanned = @ + 1, !.next = n + 1, !.seen = @ + Len(events),
                                         !.out = @ \o events]
               /\ UNCHANGED pc
    /\ UNCHANGED <<stores, index, cached>>

\* The matching events of the pre-confirmed blocks from the token on.
ReceiptEvents(from, skip) ==
    FlattenSeq([k \in 1 .. Len(query.pre) |->
                   LET n == query.latest + k IN
                   IF n < from \/ n > query.to THEN <<>>
                   ELSE EventsOf(n, query.pre[k], IF n = from THEN skip ELSE 0)])
PreConfirmedEvents ==
    /\ pc = "ahead"
    /\ LET tip == query.latest + Len(query.pre)
           from == IF query.start = Sentinel THEN tip ELSE query.start
           events == ReceiptEvents(from, IF query.start <= query.latest THEN 0 ELSE query.skip)
           room == ChunkSize - query.seen
           first == IF query.first = Sentinel /\ query.pre # <<>> THEN tip ELSE query.first
       IN IF Len(events) > room
          THEN EndPage(first, events[room + 1][1], events[room + 1][2] - 1,
                       query.out \o SubSeq(events, 1, room))
          ELSE pc' = "done" /\ query' = [query EXCEPT !.first = first, !.out = @ \o events]
    /\ UNCHANGED <<stores, index, cached>>
Answered ==
    /\ pc = "done" /\ Fail
    /\ UNCHANGED <<stores, index, cached>>

Next ==
    \/ Store \/ RevertHead \/ Poll \/ Shutdown \/ Crash
    \/ \E end \in 1 .. MaxPruned : PruneUpto(end)
    \/ \E from \in Froms, to \in Tos : Ask(from, to)
    \/ HeadAndPreConfirmed \/ LoadWindow \/ FillCurrentBits \/ AddToCache \/ Scan
    \/ PreConfirmedEvents \/ Answered
Spec == Init /\ [][Next]_vars

-----------------------------------------------------------------------------
Filter == [from : 0 .. MaxBlock + 1, bits : SUBSET (0 .. MaxBlock), next : 0 .. MaxBlock + 1]
TypeOK ==
    /\ chain \in Seq(Contents) /\ floor <= Height + 1
    /\ \A w \in DOMAIN persisted : persisted[w] \subseteq w .. w + NumBlocksPerFilter - 1
    /\ running \in Filter \union {None} /\ snapshot \in Filter \union {None}
    /\ pc \in {"idle", "head", "window", "filter", "add", "scan", "ahead", "done"}

\* What a query must answer: the events from the block asked for to its end, in order.
LastBlock == IF query.to <= query.latest THEN query.to ELSE query.latest + Len(query.pre)
ContentOf(n) == IF n <= Height THEN chain[n + 1] ELSE query.pre[n - query.latest]
Expected ==
    FlattenSeq([k \in 1 .. LastBlock + 1 - query.first |->
                   LET n == query.first + k - 1 IN EventsOf(n, ContentOf(n), 0)])
Reorged == IF query.to <= query.latest THEN replaced \intersect (query.first .. LastBlock) # {}
           ELSE replaced # {}

\* The pages of a query have, together, every matching event of its range once and in
\* order, whatever is stored, pruned or restarted meanwhile; unless a block of the range
\* has ever been reverted, a write has failed, or the running filter moved to the next
\* window between the two reads of LoadWindow and FillCurrentBits.
QueryExact == pc = "done" /\ ~Reorged /\ failures = 0 /\ ~query.torn => query.out = Expected


\* EventFilter is "tied to a snapshot of the blockchain": no event is missed.
TiedToSnapshot == pc = "done" /\ reverts = 0 /\ failures = 0 => query.out = Expected
=============================================================================
