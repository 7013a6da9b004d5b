------------------------------- MODULE TrieDB -------------------------------
(***************************************************************************)
(* The trie database that keeps nodes by path (core/trie2/triedb/pathdb):  *)
(* a tree of layers in memory, one for each state that was added, each     *)
(* holding the nodes that its state changed, over one disk layer with a    *)
(* write buffer and a cache of clean nodes.  A tree that grows past        *)
(* maxDiffLayers is flattened from the bottom.  Layers are objects that    *)
(* other layers point to, so they live in `heap' and are named by their    *)
(* index.  A node key stands for a trie, an owner and a path; the state    *)
(* with root r has the nodes content[r].                                   *)
(*                                                                         *)
(* The second half is about the database that keeps nodes by hash.         *)
(***************************************************************************)
EXTENDS Integers, Sequences, FiniteSets, FiniteSetsExt, TLC

CONSTANTS
    None,             \* no node
    Keys, Values,     \* node keys and encoded nodes
    maxDiffLayers,
    WriteBufferSize,  \* limit of the write buffer
    Reverts,          \* whether an older state is added again
    MaxUpdates, MaxRestarts,
    \* of the store by hash:
    Owners, Paths, Hashes,
    MaxFailures, MaxCrashes

VARIABLES
    db,       \* memory: heap, tree (by root), the write buffer and the clean cache
    disk,     \* nodes, the state ids, the persisted state id and the journal
    content,  \* the nodes of every state ever added
    head,     \* root of the last state added
    updates, restarts,
    \* of the store by hash:
    dirty, clean, diskKeys,   \* the keys that each store has, with the hash of the node
    committing,           \* step of the commit that holds the lock
    batch,                \* what the commit will write
    last, saved,          \* the last state and the last committed: a hash or None for each place
    alive,                \* the nodes of the states that can be read
    kept,                 \* the nodes of the states that were committed
    reading,              \* the node a reader wants and how far it is
    count                 \* updates, failures and crashes so far

vars == <<db, disk, content, head, updates, restarts>>

Deleted == "deleted"

NoNodes == [k \in {} |-> None]

Without(f, keys) == [k \in DOMAIN f \ keys |-> f[k]]

Removed(nodes) == {k \in DOMAIN nodes : nodes[k] = Deleted}

Layer(kind, root, id, nodes, parent) ==
    [kind |-> kind, root |-> root, id |-> id, nodes |-> nodes, parent |-> parent, stale |-> FALSE]

newBuffer(nodes, layers) == [nodes |-> nodes, layers |-> layers]

IsDiff(s, at) == s.heap[at].kind = "diff"

(* A node as the layer sees it: the layer's own, its parent's, and at the   *)
(* bottom the buffer's, the cached one and the one on disk.                 *)

Found(node) == IF node = Deleted THEN None ELSE node

RECURSIVE node(_, _, _, _)
node(s, d, at, k) ==
    LET l == s.heap[at] IN
    CASE l.kind = "diff" /\ k \in DOMAIN l.nodes    -> Found(l.nodes[k])
      [] l.kind = "diff" /\ k \notin DOMAIN l.nodes -> node(s, d, l.parent, k)
      [] l.kind = "disk" /\ l.stale                 -> "ErrDiskLayerStale"
      [] l.kind = "disk" /\ ~l.stale ->
            IF k \in DOMAIN s.buffer.nodes THEN Found(s.buffer.nodes[k])
            ELSE IF k \in DOMAIN s.cleans THEN s.cleans[k] ELSE d.nodes[k]

RECURSIVE bottom(_, _)
bottom(s, at) == IF IsDiff(s, at) THEN bottom(s, s.heap[at].parent) ELSE at

(* Nodes of a set are counted with their key and what they hold.            *)

size(nodes) == 2 * Cardinality(DOMAIN nodes) - Cardinality(Removed(nodes))

isFull(buffer) == size(buffer.nodes) > WriteBufferSize

merge(nodes, other) == other @@ nodes

writeNodes(stored, nodes) == [k \in Keys |-> IF k \in DOMAIN nodes THEN Found(nodes[k]) ELSE stored[k]]

\* Buffered nodes go to the disk and to the cache; s and d are memory and disk.
flush(s, d, id) ==
    LET nodes == s.buffer.nodes IN
    [db   |-> [s EXCEPT !.cleans = merge(Without(@, Removed(nodes)), Without(nodes, Removed(nodes))),
                        !.buffer = newBuffer(NoNodes, 0)],
     disk |-> [d EXCEPT !.nodes = writeNodes(@, nodes), !.persisted = id]]

\* The disk layer at `dl' takes in the diff layer at `at' and a new disk layer
\* replaces it.  A buffer that does not follow the persisted state is refused,
\* with the old layer already stale.
commit(s, d, dl, at, force) ==
    LET l   == s.heap[at]
        ids == (l.root :> l.id) @@ (IF s.heap[dl].id = 0 THEN s.heap[dl].root :> 0 ELSE NoNodes)
        st  == [s EXCEPT !.heap[dl].stale = TRUE,
                         !.buffer = newBuffer(merge(@.nodes, l.nodes), @.layers + 1)]
        d1  == [d EXCEPT !.ids = ids @@ @]
        ok  == d.persisted + st.buffer.layers = l.id
        due == force \/ isFull(st.buffer)
        r   == IF due /\ ok THEN flush(st, d1, l.id) ELSE [db |-> st, disk |-> d1]
    IN [db   |-> [r.db EXCEPT !.heap = Append(@, Layer("disk", l.root, l.id, NoNodes, 0))],
        disk |-> r.disk, at |-> Len(s.heap) + 1, ok |-> ok \/ ~due]

\* The layers below `at' first, from the bottom up, then `at'.
RECURSIVE persist(_, _, _, _)
persist(s, d, at, force) ==
    LET up == s.heap[at].parent IN
    IF IsDiff(s, up)
    THEN LET r == persist(s, d, up, force)
         IN commit([r.db EXCEPT !.heap[at].parent = r.at], r.disk, r.at, at, force)
    ELSE commit(s, d, up, at, force)

----------------------------------------------------------------------------
(* The layer tree.                                                          *)

add(s, root, parentRoot, nodes) ==
    LET up == s.tree[parentRoot]
    IN [s EXCEPT !.heap = Append(@, Layer("diff", root, s.heap[up].id + 1, nodes, up)),
                 !.tree = (root :> Len(s.heap) + 1) @@ @]

\* The layer n parents below `at', the disk layer if there are fewer.
RECURSIVE below(_, _, _)
below(s, at, n) ==
    IF n = 0 \/ ~IsDiff(s, at) THEN at ELSE below(s, s.heap[at].parent, n - 1)

\* The roots that hang below a root, found through the parents' roots.
RECURSIVE removeLinks(_, _)
removeLinks(s, roots) ==
    LET more == roots \cup {r \in DOMAIN s.tree :
                     IsDiff(s, s.tree[r]) /\ s.heap[s.heap[s.tree[r]].parent].root \in roots}
    IN IF more = roots THEN roots ELSE removeLinks(s, more)

removeStale(s) ==
    LET old == {r \in DOMAIN s.tree : s.heap[s.tree[r]].stale}
    IN [s EXCEPT !.tree = Without(@, removeLinks(s, old))]

cap(s, d, root, layers) ==
    LET at   == s.tree[root]
        same == [db |-> s, disk |-> d]
    IN IF ~IsDiff(s, at) THEN same
       ELSE IF layers = 0
       THEN LET r == persist(s, d, at, TRUE)
            IN [db |-> [r.db EXCEPT !.tree = r.db.heap[r.at].root :> r.at], disk |-> r.disk]
       ELSE LET diff == below(s, at, layers - 1)
                up   == s.heap[diff].parent
            IN IF ~IsDiff(s, diff) \/ ~IsDiff(s, up) THEN same
               ELSE LET r == persist(s, d, up, FALSE)
                    IN [db   |-> removeStale([r.db EXCEPT !.tree = (r.db.heap[r.at].root :> r.at) @@ @,
                                                          !.heap[diff].parent = r.at]),
                        disk |-> r.disk]

----------------------------------------------------------------------------
(* The journal: the chain of layers of a root, the disk layer first.        *)

\* A deleted node is written without a blob.
encode(nodes) == {<<k, IF nodes[k] = Deleted THEN <<>> ELSE <<nodes[k]>>>> : k \in DOMAIN nodes}

decodeJournalNode(blob) == IF blob = <<>> THEN Deleted ELSE blob[1]

decode(enc) ==
    [k \in {e[1] : e \in enc} |-> decodeJournalNode((CHOOSE e \in enc : e[1] = k)[2])]

RECURSIVE journal(_, _)
journal(s, at) ==
    LET l == s.heap[at] IN
    IF IsDiff(s, at) THEN Append(journal(s, l.parent), [root |-> l.root, id |-> 0, nodes |-> encode(l.nodes)])
    ELSE <<[root |-> l.root, id |-> l.id, nodes |-> encode(s.buffer.nodes)]>>

loadLayers(enc, persisted) ==
    LET heap == [i \in 1..Len(enc) |->
                    IF i = 1 THEN Layer("disk", enc[1].root, enc[1].id, NoNodes, 0)
                    ELSE Layer("diff", enc[i].root, enc[1].id + i - 1, decode(enc[i].nodes), i - 1)]
    IN [heap |-> heap, cleans |-> NoNodes,
        buffer |-> newBuffer(decode(enc[1].nodes), enc[1].id - persisted),
        tree |-> [r \in {enc[i].root : i \in 1..Len(enc)} |->
                    Min({i \in 1..Len(enc) : enc[i].root = r})]]

Empty == [k \in Keys |-> None]

\* A new database over an empty disk has the layer of the empty state, root 0.
Init ==
    /\ db = [heap |-> <<Layer("disk", 0, 0, NoNodes, 0)>>, tree |-> 0 :> 1,
             buffer |-> newBuffer(NoNodes, 0), cleans |-> NoNodes]
    /\ disk = [nodes |-> Empty, ids |-> NoNodes, persisted |-> 0, journal |-> <<>>]
    /\ content = 0 :> Empty
    /\ head = 0 /\ updates = 0 /\ restarts = 0

Changes(old, new) ==
    [k \in {x \in Keys : old[x] # new[x]} |-> IF new[k] = None THEN Deleted ELSE new[k]]

\* A state is added on the last one: a new state, or (a revert) an older one again.
Update(root, new) ==
    /\ updates < MaxUpdates /\ updates' = updates + 1
    /\ root # head
    /\ \E r \in {cap(add(db, root, head, Changes(content[head], new)), disk, root, maxDiffLayers)} :
          db' = r.db /\ disk' = r.disk
    /\ content' = (root :> new) @@ content
    /\ head' = root
    /\ UNCHANGED restarts

Extend ==
    \E new \in [Keys -> Values \cup {None}] :
        new # content[head] /\ Update(Cardinality(DOMAIN content), new)

Back == Reverts /\ \E root \in DOMAIN content : Update(root, content[root])

Commit ==
    /\ IsDiff(db, db.tree[head])
    /\ \E r \in {cap(db, disk, head, 0)} : db' = r.db /\ disk' = r.disk
    /\ UNCHANGED <<content, head, updates, restarts>>

\* Reading through a layer caches what was read from the disk.
Read(root, k) ==
    /\ root \in DOMAIN db.tree
    /\ node([db EXCEPT !.cleans = k :> "miss"], disk, db.tree[root], k) = "miss"
    /\ k \notin DOMAIN db.cleans /\ disk.nodes[k] # None
    /\ db' = [db EXCEPT !.cleans = (k :> disk.nodes[k]) @@ @]
    /\ UNCHANGED <<disk, content, head, updates, restarts>>

\* The cache is bounded and may drop an entry.
Evict(k) ==
    /\ k \in DOMAIN db.cleans
    /\ db' = [db EXCEPT !.cleans = Without(@, {k})]
    /\ UNCHANGED <<disk, content, head, updates, restarts>>

\* The journal is written and the process stops and starts again.
Restart ==
    /\ restarts < MaxRestarts /\ restarts' = restarts + 1
    /\ \E enc \in {journal(db, db.tree[head])} :
          disk' = [disk EXCEPT !.journal = enc] /\ db' = loadLayers(enc, disk.persisted)
    /\ UNCHANGED <<content, head, updates>>

Next ==
    \/ Extend \/ Back \/ Commit \/ Restart
    \/ \E k \in Keys : Evict(k) \/ \E root \in DOMAIN db.tree : Read(root, k)

Spec == Init /\ [][Next]_vars

----------------------------------------------------------------------------

\* A reader opened on the last state added finds exactly its nodes, whatever was
\* flattened, flushed, cached or restarted since.  On any other root of the layer
\* tree it finds the nodes of that state too, unless states were reverted: then
\* it may end on a disk layer that was replaced, but never on a wrong node.
LayersExact ==
    \A root \in DOMAIN db.tree, k \in Keys :
        LET found == node(db, disk, db.tree[root], k) IN
        found # content[root][k] => found = "ErrDiskLayerStale" /\ Reverts /\ root # head

\* The buffer always follows the persisted state, so no flush is ever refused.
FlushInOrder ==
    db.heap[bottom(db, db.tree[head])].id = disk.persisted + db.buffer.layers

-----------------------------------------------------------------------------
(* The trie database that keeps every node under its hash, for archive     *)
(* nodes (core/trie2/triedb/hashdb): new nodes wait in the dirty cache     *)
(* until a commit writes them to the disk, and reads take no lock.  A node *)
(* has an owner, a path and a hash; what it encodes follows from its hash. *)
(* The three stores key it differently: the dirty cache by all three, the  *)
(* clean cache without the owner, the disk with a part of the path only.   *)

hashVars == <<dirty, clean, diskKeys, committing, batch, last, saved, alive, kept, reading, count>>

Node(place, hash) == [owner |-> place[1], path |-> place[2], hash |-> hash]

dirtyKey(n) == <<n.owner, n.path, n.hash>>

nodeKey(n) == <<n.path, n.hash>>

nodeKeyByHash(n) == <<n.owner, n.path \div 2, n.hash>>

Places == Owners \X Paths

Idle == [node |-> None, at |-> "idle"]

HashInit ==
    /\ dirty = {} /\ clean = {} /\ diskKeys = {} /\ batch = {}
    /\ committing = "no"
    /\ last = [p \in Places |-> None] /\ saved = last
    /\ alive = {} /\ kept = {}
    /\ reading = Idle
    /\ count = [updates |-> 0, failures |-> 0, crashes |-> 0]

Nodes(state) == {Node(p, state[p]) : p \in {q \in Places : state[q] # None}}

\* The nodes that a new state has and the last one has not; deleted ones are skipped.
HashUpdate(new) ==
    /\ committing = "no"
    /\ count.updates < MaxUpdates /\ count' = [count EXCEPT !.updates = @ + 1]
    /\ dirty' = dirty \cup (Nodes(new) \ Nodes(last))
    /\ last' = new
    /\ alive' = alive \cup Nodes(new)
    /\ UNCHANGED <<clean, diskKeys, committing, batch, saved, kept, reading>>

\* The dirty nodes are put in a batch and in the clean cache one after the other.
CommitNodes ==
    /\ committing = "no" /\ committing' = "batched"
    /\ batch' = dirty
    /\ clean' = clean \cup {nodeKey(n) : n \in dirty}
    /\ UNCHANGED <<dirty, diskKeys, last, saved, alive, kept, reading, count>>

CommitWrite ==
    /\ committing = "batched"
    /\ \/ /\ diskKeys' = diskKeys \cup {nodeKeyByHash(n) : n \in batch}
          /\ kept' = alive /\ saved' = last
          /\ committing' = "written"
          /\ UNCHANGED count
       \/ /\ count.failures < MaxFailures /\ count' = [count EXCEPT !.failures = @ + 1]
          /\ committing' = "no"
          /\ UNCHANGED <<diskKeys, saved, kept>>
    /\ batch' = {}
    /\ UNCHANGED <<dirty, clean, last, alive, reading>>

CommitReset ==
    /\ committing = "written" /\ committing' = "no"
    /\ dirty' = {}
    /\ UNCHANGED <<clean, diskKeys, batch, last, saved, alive, kept, reading, count>>

(* A read: the clean cache, the dirty one, the disk.                        *)

ReadStart(n) ==
    /\ reading.at = "idle" /\ n \in alive
    /\ reading' = IF nodeKey(n) \in clean THEN Idle ELSE [node |-> n, at |-> "dirty"]
    /\ UNCHANGED <<dirty, clean, diskKeys, committing, batch, last, saved, alive, kept, count>>

ReadDirty ==
    /\ reading.at = "dirty"
    /\ reading' = IF reading.node \in dirty THEN Idle ELSE [reading EXCEPT !.at = "disk"]
    /\ UNCHANGED <<dirty, clean, diskKeys, committing, batch, last, saved, alive, kept, count>>

ReadDisk ==
    /\ reading.at = "disk"
    /\ IF nodeKeyByHash(reading.node) \in diskKeys
       THEN reading' = Idle /\ clean' = clean \cup {nodeKey(reading.node)}
       ELSE reading' = [reading EXCEPT !.at = "not found"] /\ UNCHANGED clean
    /\ UNCHANGED <<dirty, diskKeys, committing, batch, last, saved, alive, kept, count>>

\* The clean cache is bounded and may drop an entry.
HashEvict ==
    /\ \E k \in clean : clean' = clean \ {k}
    /\ UNCHANGED <<dirty, diskKeys, committing, batch, last, saved, alive, kept, reading, count>>

\* The process ends between two steps; the disk is what remains.
Crash ==
    /\ count.crashes < MaxCrashes /\ count' = [count EXCEPT !.crashes = @ + 1]
    /\ dirty' = {} /\ clean' = {} /\ batch' = {} /\ committing' = "no" /\ reading' = Idle
    /\ alive' = kept /\ last' = saved
    /\ UNCHANGED <<diskKeys, saved, kept>>

HashNext ==
    \/ \E new \in [Places -> Hashes \cup {None}] : HashUpdate(new)
    \/ CommitNodes \/ CommitWrite \/ CommitReset
    \/ \E n \in alive : ReadStart(n)
    \/ ReadDirty \/ ReadDisk \/ HashEvict \/ Crash

HashSpec == HashInit /\ [][HashNext]_hashVars

----------------------------------------------------------------------------

\* A node of any state that was added in this process, or committed in an earlier
\* one, is always found, although a commit moves it from one store to the other
\* while the read, which holds no lock, is between the two.
ArchiveComplete ==
    /\ reading.at # "not found"
    /\ \A n \in alive : n \in dirty \/ nodeKeyByHash(n) \in diskKeys
    /\ \A n \in kept : nodeKeyByHash(n) \in diskKeys
=============================================================================
