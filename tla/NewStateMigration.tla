-------------------------- MODULE NewStateMigration -------------------------
(***************************************************************************)
(* The migration of the state to the new layout, in three parts that run   *)
(* one after the other: the head fields of every contract become one       *)
(* record ("headstate"), the histories of its class hash, nonce and        *)
(* storage slots are rewritten from the values before a block to the       *)
(* values after it ("history"), and the tries are rewritten in the new     *)
(* format. Each part hands its work to workers, wipes the old buckets at   *)
(* its end, and is resumed after it was cancelled, failed or crashed.      *)
(*                                                                         *)
(* Head fields and histories. A track is one key of a history: <<bucket,   *)
(* contract, slot>>. An entry of a track is <<track, block, value>>.       *)
(*                                                                         *)
(* Tries. Every old trie is walked depth first and each node is written in *)
(* the new format: a leaf at its path, a binary node with the hashes of    *)
(* its edges, and an edge node for every compressed path. Above a          *)
(* threshold the edge hashes are computed by a pool of workers, batch by   *)
(* batch, and the nodes are written when their batch comes back. A trie    *)
(* whose new root is there is skipped by the next run. Paths and keys are  *)
(* sequences of bits. A hash is a term: <<"V", key>> for the value of a    *)
(* leaf, <<"B", left, right>> and <<"E", child, path>>.                    *)
(***************************************************************************)
EXTENDS Integers, Sequences, FiniteSets

CONSTANTS
    Height,      \* the chain height
    Contracts,   \* the addresses, 1..n
    Slots,       \* the storage slots, 1..n
    Deployed,    \* per contract, the block it was deployed at
    ClassHistories, NonceHistories, SlotHistories,
                 \* the values that a field may have, block by block, since
                 \* its contract was deployed
    Oldests,     \* the oldest retained block
    MaxStops,    \* bound on the cancellations and crashes
    None,
    \* of the tries:
    Depth,       \* the height of the tries
    KeySets,     \* the sets of keys that a trie may hold
    Tries,       \* the tries, numbered in the order their buckets are wiped
    Storage,     \* the storage tries among them, which have a contract
    Threshold,   \* SmallTrieThreshold, in nodes
    BatchSize    \* parallelHashBatchSize

VARIABLES
    val,         \* the true value of every track after every block
    oldest,      \* the oldest retained block
    headFields,  \* per old head bucket, the contracts that have a value
    contract,    \* the contracts with a record
    dep, new,    \* the entries of the old and of the new histories
    saved,       \* the intermediate state that the runner keeps
    pc,          \* <<part, phase>>
    from,        \* the next contract of the source
    held,        \* per contract, the writes that are not in the database yet
    stops,       \* the cancellations and crashes so far
    \* of the tries:
    keys,        \* per trie, its keys
    old,         \* the tries whose old bucket is still there
    nodes,       \* per trie, the nodes of the new layout in the database
    root,        \* per trie, the storage root of its contract
    state,       \* per trie: "todo", "run" or "done" in this run
    pos,         \* per trie, the groups of writes put into the batch so far
    batched,     \* per trie, what is in the batch
    stage,       \* "idle", "run", "wipe" or "complete"
    crashes,     \* the crashes and cancellations so far
    cut          \* a crash hit between a root node and its storage root

vars == <<val, oldest, headFields, contract, dep, new, saved, pc, from, held,
          stops>>
chain == <<val, oldest>>

Buckets == <<"class", "nonce", "storage">>
HeadBuckets == {"ClassHash", "Nonce", "DeploymentHeight"}
SlotsOf(k) == IF k = "storage" THEN Slots ELSE {0}
Tracks == UNION {{<<k, c, s>> : c \in Contracts, s \in SlotsOf(k)} :
                 k \in {"class", "nonce", "storage"}}
NoWrites == [c \in Contracts |-> <<>>]
Count == Cardinality(Contracts)

\* A history that begins at a block, and is zero before it.
Since(b, h) == [i \in 1..Height + 1 |-> IF i <= b THEN 0 ELSE h[i - b]]

\* The value of a track at a block, and before it.
ValueAt(t, b) == IF b < 0 THEN 0 ELSE val[t][b + 1]
HeadOf(t) == ValueAt(t, Height)

\* The old history: the value before each block that changed it.  The class
\* hash that a contract is deployed with leaves no entry.
OldEntries ==
    {e \in UNION {{<<t, b, ValueAt(t, b - 1)>> : b \in 0..Height} : t \in Tracks} :
        /\ e[2] >= oldest
        /\ ValueAt(e[1], e[2]) # e[3]
        /\ ~(e[1][1] = "class" /\ e[2] = Deployed[e[1][2]])}

Init ==
    /\ \E c \in ClassHistories, n \in NonceHistories,
          s \in [Slots -> SlotHistories] :
          val = [t \in Tracks |-> Since(Deployed[t[2]],
                   CASE t[1] = "class" -> c [] t[1] = "nonce" -> n
                     [] t[1] = "storage" -> s[t[3]])]
    /\ oldest \in Oldests
    /\ headFields = [k \in HeadBuckets |-> Contracts]
    /\ contract = {} /\ dep = OldEntries /\ new = {}
    /\ saved = None /\ pc = <<"idle", 0>> /\ from = 1 /\ held = NoWrites
    /\ stops = 0

TypeOK ==
    /\ contract \subseteq Contracts /\ from \in 1..Count + 1
    /\ \A e \in dep \cup new : e[1] \in Tracks /\ e[2] \in 0..Height

-----------------------------------------------------------------------------
\* The lowest block with readable state.
historyFloor == (IF oldest > 1 THEN oldest ELSE 1) - 1

EntriesOf(S, t) == {e \in S : e[1] = t}
HasEntries(S, t) == EntriesOf(S, t) # {}
FirstOf(E) == CHOOSE e \in E : \A x \in E : e[2] <= x[2]
LastOf(E) == CHOOSE e \in E : \A x \in E : e[2] >= x[2]

\* Each entry takes the value of the next one, the last that of the head.
shifted(E, head) ==
    {<<e[1], e[2], LET N == {x \in E : x[2] > e[2]}
                   IN  IF N = {} THEN head ELSE FirstOf(N)[3]>> : e \in E}

\* An entry at the floor with the value there, unless it is zero.
atFloor(t, v) == IF v = 0 THEN {} ELSE {<<t, historyFloor, v>>}

\* classHashIngestor.Run: the deploy entry, and the shifted history.
classHashWrites(c) ==
    LET t == <<"class", c, 0>>
        E == EntriesOf(dep, t)
        deploy == {<<t, Deployed[c], IF E = {} THEN HeadOf(t) ELSE FirstOf(E)[3]>>}
    IN  IF E = {} /\ \E e \in EntriesOf(new, t) : e[2] = Deployed[c] THEN <<>>
        ELSE <<deploy \cup shifted(E, HeadOf(t))>>

\* nonceIngestor.Run.
nonceWrites(c) ==
    LET t == <<"nonce", c, 0>>
        E == EntriesOf(dep, t)
    IN  IF E = {} /\ HasEntries(new, t) THEN <<>>
        ELSE <<atFloor(t, IF E = {} THEN HeadOf(t) ELSE FirstOf(E)[3])
                 \cup shifted(E, HeadOf(t))>>

\* storageIngestor.Run: history and head leaves are walked together in the
\* order of the slots.  Without history, a written last leaf means that the
\* contract was migrated before the wipe.
Leaves(c) == {s \in Slots : HeadOf(<<"storage", c, s>>) # 0}

migrated(c) ==
    /\ \A s \in Slots : ~HasEntries(dep, <<"storage", c, s>>)
    /\ Leaves(c) # {}
    /\ LET last == CHOOSE s \in Leaves(c) : \A x \in Leaves(c) : s >= x
       IN  HasEntries(new, <<"storage", c, last>>)

slotWrites(c, s) ==
    LET t == <<"storage", c, s>>
        E == EntriesOf(dep, t)
    IN  IF E # {} THEN atFloor(t, FirstOf(E)[3]) \cup shifted(E, HeadOf(t))
        ELSE IF s \in Leaves(c) THEN {<<t, historyFloor, HeadOf(t)>>} ELSE {}

storageWrites(c) ==
    IF migrated(c) THEN <<>>
    ELSE [s \in 1..Cardinality(Slots) |-> slotWrites(c, s)]

Writes(k, c) == CASE k = "class" -> classHashWrites(c)
                  [] k = "nonce" -> nonceWrites(c)
                  [] k = "storage" -> storageWrites(c)

Put(S, W) == {e \in S : \A w \in W : <<w[1], w[2]>> # <<e[1], e[2]>>} \cup W

-----------------------------------------------------------------------------
\* The process starts, with the phase and the contract that were saved.
Migrate ==
    /\ pc = <<"idle", 0>>
    /\ IF saved = None THEN pc' = <<"headstate", 0>> /\ from' = 1
       ELSE pc' = saved[1] /\ from' = saved[2]
    /\ held' = NoWrites
    /\ UNCHANGED <<chain, headFields, contract, dep, new, saved, stops>>

InHead == pc = <<"headstate", 0>>
InHistory == pc[1] = "history"

\* headstate: the next contract without a record, from the three old buckets.
pendingContracts ==
    /\ InHead /\ from <= Count
    /\ IF from \in contract \/ from \notin headFields["ClassHash"] THEN UNCHANGED held
       ELSE /\ from \in headFields["Nonce"] \cap headFields["DeploymentHeight"]
            /\ held' = [held EXCEPT ![from] = <<{}>>]
    /\ from' = from + 1
    /\ UNCHANGED <<chain, headFields, contract, dep, new, saved, pc, stops>>

Pending == {c \in Contracts : held[c] # <<>>}

\* The records collected so far are written.
writeContracts ==
    /\ InHead /\ Pending # {}
    /\ contract' = contract \cup Pending /\ held' = NoWrites
    /\ UNCHANGED <<chain, headFields, dep, new, saved, pc, from, stops>>

\* All contracts have a record: the old buckets are wiped one by one, and
\* the next part begins.
WipeOrder == <<"ClassHash", "Nonce", "DeploymentHeight">>
wipeDeprecatedBuckets ==
    /\ \/ InHead /\ from > Count /\ Pending = {}
       \/ pc \in {<<"wipe", 1>>, <<"wipe", 2>>}
    /\ LET i == IF InHead THEN 1 ELSE pc[2] + 1
       IN  /\ headFields' = [headFields EXCEPT ![WipeOrder[i]] = {}]
           /\ pc' = IF i = 3 THEN <<"history", 1>> ELSE <<"wipe", i>>
           /\ from' = IF i = 3 THEN 1 ELSE from
    /\ UNCHANGED <<chain, contract, dep, new, saved, held, stops>>

\* history: a worker takes the next contract of this phase and collects what
\* is to be written for it.
ingest ==
    /\ InHistory /\ from <= Count
    /\ held' = [held EXCEPT ![from] = Writes(Buckets[pc[2]], from)]
    /\ from' = from + 1
    /\ UNCHANGED <<chain, headFields, contract, dep, new, saved, pc, stops>>

\* A batch is written.  The slots of a contract are written in their order.
commitTask ==
    /\ InHistory
    /\ \E c \in Pending :
          /\ new' = Put(new, held[c][1])
          /\ held' = [held EXCEPT ![c] = Tail(@)]
    /\ UNCHANGED <<chain, headFields, contract, dep, saved, pc, from, stops>>

\* The phase has reached its end: the old bucket is dropped.
wipeDeprecated ==
    /\ InHistory /\ from > Count /\ Pending = {}
    /\ dep' = {e \in dep : e[1][1] # Buckets[pc[2]]}
    /\ pc' = IF pc[2] = 3 THEN <<"done", 0>> ELSE <<"history", pc[2] + 1>>
    /\ from' = 1
    /\ UNCHANGED <<chain, headFields, contract, new, saved, held, stops>>

\* The runner marks the migration as applied (the tries come in between).
commit ==
    /\ pc = <<"done", 0>> /\ pc' = <<"complete", 0>> /\ saved' = None
    /\ UNCHANGED <<chain, headFields, contract, dep, new, from, held, stops>>

-----------------------------------------------------------------------------
Stop == /\ stops < MaxStops /\ stops' = stops + 1
        /\ pc' = <<"idle", 0>> /\ from' = 1 /\ held' = NoWrites

RECURSIVE PutAll(_, _)
PutAll(S, ws) == IF ws = <<>> THEN S ELSE PutAll(Put(S, ws[1]), Tail(ws))
RECURSIVE PutEach(_, _)
PutEach(S, cs) ==
    IF cs = {} THEN S
    ELSE LET c == CHOOSE x \in cs : TRUE
         IN  PutEach(PutAll(S, held[c]), cs \ {c})

\* The context is cancelled: what was handed out is written, and the
\* position of the source is saved.
Cancelled ==
    /\ from <= Count
    /\ \/ /\ InHead
          /\ contract' = contract \cup Pending
          /\ saved' = <<<<"headstate", 0>>, 1>>
          /\ UNCHANGED new
       \/ /\ InHistory
          /\ new' = PutEach(new, Pending)
          /\ saved' = <<pc, from>>
          /\ UNCHANGED contract
    /\ Stop
    /\ UNCHANGED <<chain, headFields, dep>>

\* The process is killed or a step fails: the saved state stays as it was.
Crash ==
    /\ pc[1] \notin {"idle", "complete"}
    /\ Stop
    /\ UNCHANGED <<chain, headFields, contract, dep, new, saved>>

Next ==
    \/ Migrate \/ pendingContracts \/ writeContracts \/ wipeDeprecatedBuckets
    \/ ingest \/ commitTask \/ wipeDeprecated \/ commit \/ Cancelled \/ Crash

Spec == Init /\ [][Next]_vars

-----------------------------------------------------------------------------
\* What a read of a track at a block returns in either layout.
ReadOld(t, h) ==
    LET E == {e \in EntriesOf(dep, t) : e[2] > h}
    IN  IF E = {} THEN HeadOf(t) ELSE FirstOf(E)[3]
ReadNew(t, h) ==
    LET E == {e \in EntriesOf(new, t) : e[2] <= h}
    IN  IF E = {} THEN 0 ELSE LastOf(E)[3]

Readable == {h \in 0..Height : h >= historyFloor}
Right(t, Read(_, _)) ==
    \A h \in Readable : h >= Deployed[t[2]] => Read(t, h) = ValueAt(t, h)

\* Once the migration is applied every read of the new history at a block
\* with readable state returns the value after that block, however often the
\* migration was stopped, and every contract has its record.
NewHistoryExact ==
    pc = <<"complete", 0>> => contract = Contracts
                       /\ \A t \in Tracks : Right(t, ReadNew)

\* At no moment has a contract lost its head fields or a track its history:
\* one of the two layouts is whole.
OneLayoutWhole ==
    /\ \A c \in Contracts :
          c \in contract \/ \A k \in HeadBuckets : c \in headFields[k]
    /\ \A t \in Tracks : Right(t, ReadOld) \/ Right(t, ReadNew)

-----------------------------------------------------------------------------
\* The tries.

trieVars == <<keys, old, nodes, root, state, pos, batched, stage, crashes, cut>>

Bits == {0, 1}
Prefixed(K, p) == {k \in K : SubSeq(k, 1, Len(p)) = p}
MaxLen(S) == CHOOSE p \in S : \A q \in S : Len(p) >= Len(q)
\* The longest common prefix of some keys.
Common(K) ==
    LET k == CHOOSE x \in K : TRUE
    IN  MaxLen({SubSeq(k, 1, n) : n \in
                  {m \in 0..Depth : \A x \in K : SubSeq(x, 1, m) = SubSeq(k, 1, m)}})
\* LSBs: what is left of a path after its first n bits.
LSBs(p, n) == SubSeq(p, n + 1, Len(p))

\* An edge of length zero is the child itself.
computeEdgeHash(child, seg) == IF seg = <<>> THEN child ELSE <<"E", child, seg>>
compressedSegment(child, parentLen) == LSBs(child, parentLen + 1)

-----------------------------------------------------------------------------
\* The old trie: a node at the common prefix of the keys below it, which
\* records the full paths of its children and its own hash.
ChildPath(K, p, bit) == Common(Prefixed(K, Append(p, bit)))

RECURSIVE OldHash(_, _)
OldHash(K, p) ==
    IF Len(p) = Depth THEN <<"V", p>>
    ELSE LET l == ChildPath(K, p, 0)
             r == ChildPath(K, p, 1)
         IN  <<"B", computeEdgeHash(OldHash(K, l), compressedSegment(l, Len(p))),
                    computeEdgeHash(OldHash(K, r), compressedSegment(r, Len(p)))>>

\* The number of nodes that scanTrie counts.
scanTrie(K) == 2 * Cardinality(K) - 1

\* A node of the new layout: <<path, leaf or not, content>>.
writeLeafNode(p) == {<<p, TRUE, <<"V", p>>>>}

\* An edge at the empty path when the root has a path of its own.
writeRootEdgeNode(K, p) ==
    IF p = <<>> THEN {} ELSE {<<<<>>, FALSE, <<"E", OldHash(K, p), p>>>>}

writeEdge(p, bit, child, seg) ==
    IF seg = <<>> THEN {} ELSE {<<Append(p, bit), FALSE, <<"E", child, seg>>>>}

writeBinaryAndEdges(K, p) ==
    LET l == ChildPath(K, p, 0)
        r == ChildPath(K, p, 1)
        ls == compressedSegment(l, Len(p))
        rs == compressedSegment(r, Len(p))
    IN  {<<p, FALSE, <<"B", computeEdgeHash(OldHash(K, l), ls),
                            computeEdgeHash(OldHash(K, r), rs)>>>>}
          \cup writeEdge(p, 0, OldHash(K, l), ls)
          \cup writeEdge(p, 1, OldHash(K, r), rs)

\* The scheduler: the groups of writes so far, the jobs that wait and those
\* that the pool works on.  Between two groups the batch may be flushed.
Start == [out |-> <<>>, jobs |-> {}, flight |-> {}]

Drained(K, S) == UNION {writeBinaryAndEdges(K, p) : p \in S}

schedule(K, p, parallel, s) ==
    IF ~parallel THEN [s EXCEPT !.out = Append(@, writeBinaryAndEdges(K, p))]
    ELSE IF Cardinality(s.jobs) + 1 < BatchSize THEN [s EXCEPT !.jobs = @ \cup {p}]
    ELSE [out |-> Append(s.out, Drained(K, s.flight)),
          jobs |-> {}, flight |-> s.jobs \cup {p}]

RECURSIVE traverse(_, _, _, _)
traverse(K, p, parallel, s) ==
    IF Len(p) = Depth
    THEN [s EXCEPT !.out = Append(@, writeLeafNode(p))]
    ELSE schedule(K, p, parallel,
            traverse(K, ChildPath(K, p, 1), parallel,
               traverse(K, ChildPath(K, p, 0), parallel, s)))

\* The walk, and at its end what the scheduler still holds and the edge above
\* the root.  The last group also holds the storage root.
migrateTrie(K) ==
    LET p == Common(K)
        parallel == scanTrie(K) >= Threshold
        s == traverse(K, p, parallel, Start)
    IN  Append(s.out, Drained(K, s.flight) \cup Drained(K, s.jobs)
                        \cup writeRootEdgeNode(K, p))

\* The root that is recorded in the contract.
trieRoot(K) == computeEdgeHash(OldHash(K, Common(K)), Common(K))

rootProcessed(t) == \E n \in nodes[t] : n[1] = <<>>

-----------------------------------------------------------------------------
Todo == [t \in Tries |-> "todo"]
Zero == [t \in Tries |-> 0]
Nothing == [t \in Tries |-> {}]

TrieTypeOK ==
    /\ old \subseteq Tries /\ stage \in {"idle", "run", "wipe", "complete"}
    /\ \A t \in Tries : state[t] \in {"todo", "run", "done"}

TrieInit ==
    /\ keys \in [Tries -> KeySets] /\ old = Tries
    /\ nodes = Nothing /\ root = [t \in Tries |-> None] /\ state = Todo
    /\ pos = Zero /\ batched = Nothing /\ stage = "idle" /\ crashes = 0
    /\ cut = FALSE

\* A run begins when there is something of the old format.
MigrateTries ==
    /\ stage = "idle"
    /\ stage' = (IF old = {} THEN "complete" ELSE "run")
    /\ state' = Todo /\ pos' = Zero /\ batched' = Nothing
    /\ UNCHANGED <<keys, old, nodes, root, crashes, cut>>

\* A worker takes a trie, and skips it when it is there already.
Run(t) ==
    /\ stage = "run" /\ state[t] = "todo"
    /\ state' = [state EXCEPT ![t] =
          IF t \notin old \/ rootProcessed(t) \/ keys[t] = {} THEN "done"
          ELSE "run"]
    /\ UNCHANGED <<keys, old, nodes, root, pos, batched, stage, crashes, cut>>

\* The next group of writes goes into the batch.
Walk(t) ==
    /\ stage = "run" /\ state[t] = "run"
    /\ \E ops \in {migrateTrie(keys[t])} :
          /\ batched' = [batched EXCEPT ![t] = @ \cup ops[pos[t] + 1]]
          /\ pos' = [pos EXCEPT ![t] = @ + 1]
          /\ state' = [state EXCEPT ![t] = IF pos[t] + 1 = Len(ops) THEN "done"
                                           ELSE "run"]
    /\ UNCHANGED <<keys, old, nodes, root, stage, crashes, cut>>

\* The batch of a worker is written.  The storage root is in the batch that
\* ends its trie.
Commit(t) ==
    /\ stage = "run" /\ pos[t] > 0
    /\ nodes' = [nodes EXCEPT ![t] = @ \cup batched[t]]
    /\ batched' = [batched EXCEPT ![t] = {}]
    /\ IF state[t] = "done"
       THEN /\ root' = [root EXCEPT ![t] = trieRoot(keys[t])]
            /\ pos' = [pos EXCEPT ![t] = 0]
       ELSE batched[t] # {} /\ UNCHANGED <<root, pos>>
    /\ UNCHANGED <<keys, old, state, stage, crashes, cut>>

\* Everything is migrated and written: the old buckets are wiped in order.
wipeTrieBuckets ==
    /\ \/ stage = "run" /\ (\A t \in Tries : state[t] = "done" /\ pos[t] = 0)
       \/ stage = "wipe"
    /\ IF old = {} THEN stage' = "complete" /\ UNCHANGED old
       ELSE /\ old' = old \ {CHOOSE t \in old : \A x \in old : t <= x}
            /\ stage' = "wipe"
    /\ UNCHANGED <<keys, nodes, root, state, pos, batched, crashes, cut>>

\* A crash loses the batches.  A cancellation lets the tries that were begun
\* finish, which is no other than a crash at a point where they are done.
TrieCrash ==
    /\ stage \in {"run", "wipe"} /\ crashes < MaxStops
    /\ cut' = (cut \/ \E t \in Tries : rootProcessed(t) /\ pos[t] > 0)
    /\ stage' = "idle" /\ crashes' = crashes + 1
    /\ state' = Todo /\ pos' = Zero /\ batched' = Nothing
    /\ UNCHANGED <<keys, old, nodes, root>>

TrieNext == \/ MigrateTries \/ wipeTrieBuckets \/ TrieCrash
        \/ \E t \in Tries : Run(t) \/ Walk(t) \/ Commit(t)

TrieSpec == TrieInit /\ [][TrieNext]_trieVars

-----------------------------------------------------------------------------
\* The nodes of a trie built in the new layout, from its keys.
RECURSIVE Native(_, _)
Native(K, p) ==
    LET q == Common(K)
        here == IF q = p THEN {} ELSE {<<p, FALSE, <<"E", OldHash(K, q), LSBs(q, Len(p))>>>>}
    IN  here \cup
        IF Len(q) = Depth THEN {<<q, TRUE, <<"V", q>>>>}
        ELSE LET l == Prefixed(K, Append(q, 0))
                 r == Prefixed(K, Append(q, 1))
             IN  {<<q, FALSE, OldHash(K, q)>>}
                   \cup Native(l, Append(q, 0)) \cup Native(r, Append(q, 1))

Whole(t) == nodes[t] = IF keys[t] = {} THEN {} ELSE Native(keys[t], <<>>)

\* Once the old buckets are wiped, every trie is node by node the one that
\* the new layout builds, and every contract has the root of its storage.
TriesMigrated ==
    stage \in {"wipe", "complete"} => \A t \in Tries :
        /\ Whole(t)
        /\ t \in Storage /\ keys[t] # {} /\ ~cut => root[t] = trieRoot(keys[t])

\* A trie whose new root is in the database is there as a whole, which is
\* what lets the next run skip it.
RootMeansWhole == \A t \in Tries : rootProcessed(t) => Whole(t)
=============================================================================
