------------------------------ MODULE FlatTrie ------------------------------
(***************************************************************************)
(* The trie keyed by path (core/trie/trie.go, node.go, storage.go) and its *)
(* proofs (core/trie/proof.go).  Every node is stored under its full path  *)
(* from the root, an edge and the binary node below it are one stored      *)
(* node, and the hashes of inner nodes are brought up to date only when    *)
(* the root is asked for.                                                  *)
(***************************************************************************)
EXTENDS TrieCommitment

CONSTANTS
    Junk,       \* whatever a reused node of the pool still holds
    Numbers,    \* the keys that are written, as numbers
    Values,     \* the values that are written, none of them zero
    MaxUnhashed, \* bound on the writes between two hashings
    Proved,     \* the keys proofs are asked for, as numbers
    Together    \* bound on the keys of one proof

VARIABLES
    trie,     \* the open trie over its batch: nodes, root key, dirty nodes
    rootRow,  \* the root key as stored
    leaves,   \* what was written, the reference
    unhashed  \* writes since the last hashing

vars == <<trie, rootRow, leaves, unhashed>>

(* Nodes and their hashes.                                                  *)

Leaf(value) == [value |-> value, left |-> None, right |-> None,
                lh |-> None, rh |-> None]

path(key, parent) == IF parent = None THEN key ELSE LSBs(key, Len(parent) + 1)

Hash(node, p) == IF p = <<>> THEN node.value ELSE EdgeTerm(node.value, p)

HashFromParent(node, key, parent) == Hash(node, path(key, parent))

(* The stored form of a node: a leaf has no links; the hashes of the       *)
(* children are stored both or not at all, and a node read without them    *)
(* keeps those of the pooled node it is read into.                         *)

Writable(node) == node.value # None /\ ((node.lh = None) <=> (node.rh = None))

UnmarshalBinary(node) ==
    IF node.left = None THEN Leaf(node.value)
    ELSE IF node.lh = None THEN [node EXCEPT !.lh = Junk, !.rh = Junk]
    ELSE node

EmptyTrie == [nodes |-> [k \in {} |-> None], root |-> None,
              dirty |-> {}, rootDirty |-> FALSE, failed |-> FALSE]

Get_(t, key) == UnmarshalBinary(t.nodes[key])

Put_(t, key, node) ==
    IF Writable(node)
    THEN [t EXCEPT !.nodes = [k \in DOMAIN @ \cup {key} |->
                                IF k = key THEN node ELSE @[k]]]
    ELSE [t EXCEPT !.failed = TRUE]

Delete_(t, key) == [t EXCEPT !.nodes = [k \in DOMAIN @ \ {key} |-> @[k]]]

setRootKey(t, key) == [t EXCEPT !.root = key, !.rootDirty = TRUE]

Soil(t, key) == [t EXCEPT !.dirty = @ \cup {key}]

(* The nodes on the way to a key, the root first.                           *)

RECURSIVE nodesFrom(_, _, _, _)
nodesFrom(t, cur, key, nodes) ==
    IF cur = None \/ (nodes # <<>> /\ cur = <<>>) THEN nodes
    ELSE LET node == Get_(t, cur)
             more == Append(nodes, [key |-> cur, node |-> node])
         IN IF Len(cur) >= Len(key) \/ ~EqualMSBs(key, cur) THEN more
            ELSE nodesFrom(t, IF IsBitSet(key, Len(cur)) THEN node.right ELSE node.left,
                           key, more)

nodesFromRoot(t, key) == nodesFrom(t, t.root, key, <<>>)

Get(t, key) == IF key \in DOMAIN t.nodes THEN t.nodes[key].value ELSE Zero

Relink(node, from, to) ==
    IF node.left = from THEN [node EXCEPT !.left = to] ELSE [node EXCEPT !.right = to]

MutDeleteLast(t, nodes) ==
    LET n       == Len(nodes)
        last    == nodes[n]
        without == Delete_(t, last.key)
        parent  == nodes[n - 1]
        sibling == IF parent.node.left = last.key THEN parent.node.right
                   ELSE parent.node.left
        alone   == Delete_(without, parent.key)
        grand   == nodes[n - 2]
    IN CASE n = 1 -> setRootKey(without, None)
         [] n = 2 -> setRootKey(alone, sibling)
         [] n > 2 -> Put_(alone, grand.key, Relink(grand.node, parent.key, sibling))

deleteLast(t, nodes) ==
    LET n       == Len(nodes)
        last    == nodes[n]
        without == Delete_(t, last.key)
        parent  == nodes[n - 1]
        sibling == IF parent.node.left = last.key THEN parent.node.right
                   ELSE parent.node.left
        alone   == Delete_(without, parent.key)
        grand   == nodes[n - 2]
    IN CASE n = 1 -> setRootKey(without, None)
         [] n = 2 -> setRootKey(alone, sibling)
         [] n > 2 -> Soil(Put_(alone, grand.key, Relink(grand.node, parent.key, sibling)),
                          sibling)

\* A link of a proof's node is completed and its hash set.
FillProofParent(t, key, node, common) ==
    LET parent == Get_(t, common)
        filled == IF IsBitSet(key, Len(common))
                  THEN [parent EXCEPT !.right = key, !.rh = Hash(node, key)]
                  ELSE [parent EXCEPT !.left = key, !.lh = Hash(node, key)]
    IN IF common \notin DOMAIN t.nodes THEN [t EXCEPT !.failed = TRUE]
       ELSE Soil(Put_(t, common, filled), common)

\* A new node takes the sibling's place and has both below it.
InsertParent(t, key, node, nodes, sibling, common) ==
    LET right  == IsBitSet(key, Len(common))
        lkey   == IF right THEN sibling.key ELSE key
        lnode  == IF right THEN sibling.node ELSE node
        rkey   == IF right THEN key ELSE sibling.key
        rnode  == IF right THEN node ELSE sibling.node
        parent == [value |-> Two(HashFromParent(lnode, lkey, common),
                                 HashFromParent(rnode, rkey, common)),
                   left |-> lkey, right |-> rkey, lh |-> None, rh |-> None]
        above  == nodes[Len(nodes) - 1]
        added  == Put_(t, common, parent)
    IN IF Len(nodes) > 1
       THEN Soil(Put_(added, above.key, Relink(above.node, sibling.key, common)), common)
       ELSE setRootKey(added, common)

insertOrUpdateValue(t, key, node, nodes, sibling, isProof) ==
    LET common == Common(key, sibling.key)
    IN Put_(IF isProof THEN FillProofParent(t, key, node, common)
            ELSE InsertParent(t, key, node, nodes, sibling, common),
            key, node)

(* Put and PutWithProof: the trie after the write; old is the value the    *)
(* call returns, None when it returns nil.                                 *)

PutWithProof(t, key, value, proof) ==
    LET node    == Leaf(value)
        nodes   == nodesFromRoot(t, key)
        last    == nodes[Len(nodes)]
        inProof == {n \in ToSet(proof) : n.key = last.key}
        sibling == IF inProof = {} THEN last ELSE CHOOSE n \in inProof : TRUE
    IN IF value # Zero /\ key \in DOMAIN t.nodes
       THEN [trie |-> Soil(Put_(t, key, node), key), old |-> t.nodes[key].value]
       ELSE IF nodes = <<>>
       THEN IF value = Zero THEN [trie |-> t, old |-> None]
            ELSE [trie |-> setRootKey(Put_(t, key, node), key), old |-> Zero]
       ELSE IF last.key = key
       THEN [trie |-> deleteLast(t, nodes), old |-> last.node.value]
       ELSE IF value = Zero THEN [trie |-> t, old |-> None]
       ELSE [trie |-> insertOrUpdateValue(t, key, node, nodes, sibling, inProof # {}),
             old |-> Zero]

Put(t, key, value) == PutWithProof(t, key, value, <<>>)

(* Hashing.  The two children of a node are updated concurrently; their    *)
(* nodes are disjoint and the batch is locked, so the order is no matter.  *)
(* Next to the node, the nodes written under it.                           *)

RECURSIVE updateValueIfDirty(_, _)
updateValueIfDirty(t, key) ==
    LET node     == Get_(t, key)
        same     == [node |-> node, nodes |-> [k \in {} |-> None]]
        dirty    == \E d \in t.dirty : Len(key) < Len(d) /\ IsPrefix(key, d)
        leftProof  == node.left = <<>>
        rightProof == node.right = <<>>
        update   == IF leftProof /\ rightProof THEN FALSE
                    ELSE leftProof \/ rightProof \/ dirty
        l        == updateValueIfDirty(t, node.left)
        r        == updateValueIfDirty(t, node.right)
        lh       == IF leftProof THEN node.lh ELSE HashFromParent(l.node, node.left, key)
        rh       == IF rightProof THEN node.rh ELSE HashFromParent(r.node, node.right, key)
        new      == [node EXCEPT !.value = Two(lh, rh)]
        below    == (IF leftProof THEN same ELSE l).nodes
        belowR   == (IF rightProof THEN same ELSE r).nodes
    IN IF Len(key) = Height \/ ~update THEN same
       ELSE [node |-> new, nodes |-> (key :> new) @@ below @@ belowR]

HashTrie(t) ==
    LET root == updateValueIfDirty(t, t.root)
    IN IF t.root = None
       THEN [trie |-> [t EXCEPT !.rootDirty = FALSE, !.dirty = {}], root |-> Zero]
       ELSE [trie |-> [t EXCEPT !.rootDirty = FALSE, !.dirty = {}, !.nodes = root.nodes @@ @],
             root |-> Hash(root.node, t.root)]

(* A trie reader hashes what is stored (GetLeafPedersen, TrieReader.Hash).  *)

ReaderHash(nodes, root) == Hash(nodes[root], root)

(* Actions                                                                  *)

Init == /\ trie = EmptyTrie
        /\ rootRow = None
        /\ leaves = [n \in Numbers |-> Zero]
        /\ unhashed = 0

Write(n, value) ==
    /\ unhashed < MaxUnhashed
    /\ \E result \in {Put(trie, FeltToKey(n), value)} :
          /\ trie' = result.trie
          /\ leaves' = [leaves EXCEPT ![n] = value]
    /\ unhashed' = unhashed + 1
    /\ UNCHANGED rootRow

Commit ==
    /\ unhashed > 0
    /\ \E result \in {HashTrie(trie)} : trie' = result.trie
    /\ rootRow' = IF trie.rootDirty THEN trie.root ELSE rootRow
    /\ unhashed' = 0
    /\ UNCHANGED leaves

\* A new trie on the same batch finds its root by the stored key.
newTrie ==
    /\ unhashed = 0
    /\ trie' = [EmptyTrie EXCEPT !.nodes = trie.nodes, !.root = rootRow]
    /\ UNCHANGED <<rootRow, leaves, unhashed>>

Next == \/ \E n \in Numbers, v \in Values \cup {0} : Write(n, Felt(v))
        \/ Commit
        \/ newTrie

Spec == Init /\ [][Next]_vars
\* After any sequence of writes, deletions, hashings and reopenings the root
\* Trie.Hash returns is the commitment of what was written: no inner node whose
\* leaves changed is left out of the dirty nodes, and no pooled value is hashed.
RootExact == HashTrie(trie).root = Commitment(leaves)

\* The leaves read back are those last written, and Put returns the value that
\* it replaces: the old values of the state's history come from there.
LeavesExact ==
    \A n \in Numbers :
        /\ Get(trie, FeltToKey(n)) = leaves[n]
        /\ \A v \in Values \cup {0} :
              Put(trie, FeltToKey(n), Felt(v)).old =
                  IF leaves[n] = Zero /\ v = 0 THEN None ELSE leaves[n]

Branches == {Common(FeltToKey(n), FeltToKey(k)) :
                n, k \in {x \in Numbers : leaves[x] # Zero}}

\* The storage holds the leaves and the points where two of them part, nothing
\* else, and a reader that opens it after a commit computes the same root.
NoOrphans ==
    /\ DOMAIN trie.nodes = Branches
    /\ ~trie.failed
    /\ unhashed = 0 => rootRow = trie.root
    /\ unhashed = 0 /\ rootRow # None =>
          ReaderHash(trie.nodes, rootRow) = Commitment(leaves)


-----------------------------------------------------------------------------
(* Merkle proofs (core/trie/proof.go): proofs of several keys in one       *)
(* traversal, proofs of a range of keys, and their verification from the   *)
(* root's hash alone.                                                      *)

Binary(l, r) == [kind |-> "binary", l |-> l, r |-> r]

Edge(child, p) == [kind |-> "edge", child |-> child, path |-> p]

ProofHash(pn) == IF pn.kind = "binary" THEN Two(pn.l, pn.r) ELSE EdgeTerm(pn.child, pn.path)

NoProof == [h \in {} |-> None]

isEdge(parent, key) == IF parent = None THEN key # <<>> ELSE Len(key) - Len(parent) > 1

createBinaryProofNode(t, key, node) ==
    LET ChildHash(child) == IF isEdge(key, child) THEN HashFromParent(Get_(t, child), child, key)
                            ELSE Get_(t, child).value
    IN Binary(ChildHash(node.left), ChildHash(node.right))

multiProofKeysForNode(key, keys) ==
    SelectSeq(keys, LAMBDA k : Len(key) < Len(k) /\ EqualMSBs(k, key))

rightStart(keys, bit) ==
    LET set == {i \in 1..Len(keys) : IsBitSet(keys[i], bit)}
    IN IF set = {} THEN Len(keys) + 1 ELSE Min(set)

addProofNode(t, parent, key, node, carried, proof, going) ==
    LET edge   == Edge(node.value, path(key, parent))
        hash   == IF carried = None THEN ProofHash(edge) ELSE carried
        edged  == IF isEdge(parent, key) THEN (hash :> edge) @@ proof ELSE proof
        binary == createBinaryProofNode(t, key, node)
    IN IF isEdge(parent, key) /\ going = <<>> THEN edged
       ELSE IF Len(key) = Height THEN proof
       ELSE (node.value :> binary) @@ edged

RECURSIVE proveMultiFrom(_, _, _, _, _, _)
proveMultiFrom(t, key, parent, keys, carried, proof) ==
    LET node   == Get_(t, key)
        going  == multiProofKeysForNode(key, keys)
        start  == rightStart(going, Len(key))
        added  == addProofNode(t, parent, key, node, carried, proof, going)
        binary == createBinaryProofNode(t, key, node)
        left   == proveMultiFrom(t, node.left, key, SubSeq(going, 1, start - 1), binary.l, added)
    IN IF key = None \/ keys = <<>> \/ (parent # None /\ key = <<>>) THEN proof
       ELSE IF Len(key) >= Height \/ going = <<>> THEN added
       ELSE proveMultiFrom(t, node.right, key, SubSeq(going, start, Len(going)),
                           binary.r, left)

ensureNoUnhashedWrites(t) == ~t.rootDirty /\ t.dirty = {}

\* The keys are sorted by their paths and every key is taken once.
ProveMulti(t, numbers, proof) ==
    proveMultiFrom(t, t.root, None,
                   [i \in 1..Cardinality(numbers) |->
                        FeltToKey(SetToSortSeq(numbers, <)[i])], None, proof)

GetRangeProof(t, first, last) == ProveMulti(t, {last}, ProveMulti(t, {first}, NoProof))

verifyEdgePath(key, p, pos) == EqualMSBs(LSBs(key, pos), p)

(* Verification of one key: the value, or None when the proof is invalid.   *)

RECURSIVE verifyFrom(_, _, _, _)
verifyFrom(expected, key, pos, proof) ==
    LET pn    == proof[expected]
        next  == IF pn.kind = "edge" THEN pn.child
                 ELSE IF IsBitSet(key, pos) THEN pn.r ELSE pn.l
        after == pos + (IF pn.kind = "edge" THEN Len(pn.path) ELSE 1)
    IN IF expected \notin DOMAIN proof \/ ProofHash(pn) # expected THEN None
       ELSE IF pn.kind = "binary" /\ Len(key) <= pos THEN None
       ELSE IF pn.kind = "edge" /\ ~verifyEdgePath(key, pn.path, pos) THEN Zero
       ELSE IF after >= Len(key) THEN next
       ELSE verifyFrom(next, key, after, proof)

VerifyProof(root, key, proof) == verifyFrom(root, key, 0, proof)

(* The path of a key rebuilt from a proof.  Links that are not resolved    *)
(* are the empty key; a result is the node's key, the leaf's value if it   *)
(* was reached, the nodes gathered so far, and whether they conflict.      *)

NewPartialStorageNode(value) ==
    [value |-> value, left |-> <<>>, right |-> <<>>, lh |-> None, rh |-> None]

Conflict(a, b) ==
    \/ \E f \in {"value", "lh", "rh"} : a[f] # None /\ b[f] # None /\ a[f] # b[f]
    \/ \E f \in {"left", "right"} : a[f] # <<>> /\ b[f] # <<>> /\ a[f] # b[f]

Update(a, b) ==
    [f \in {"value", "lh", "rh"} |-> IF b[f] # None THEN b[f] ELSE a[f]]
    @@ [f \in {"left", "right"} |-> IF b[f] # <<>> THEN b[f] ELSE a[f]]

PutNode(r, key, node) ==
    IF key \notin DOMAIN r.nodes THEN [r EXCEPT !.nodes = (key :> node) @@ @]
    ELSE IF Conflict(r.nodes[key], node) THEN [r EXCEPT !.failed = TRUE]
    ELSE [r EXCEPT !.nodes = (key :> Update(@[key], node)) @@ @]

Path(key, val, r) == [r EXCEPT !.key = key, !.val = val]

RECURSIVE buildPath(_, _, _, _, _, _)
buildPath(hash, key, pos, cur, proof, r) ==
    LET pn       == proof[hash]
        \* a binary node, alone or below the edge that leads to it
        bkey     == IF cur = None THEN SubSeq(key, 1, pos) ELSE cur.key
        bnode    == [(IF cur = None THEN NewPartialStorageNode(hash) ELSE cur.node)
                        EXCEPT !.lh = pn.l, !.rh = pn.r]
        right    == IsBitSet(key, pos)
        below    == buildPath(IF right THEN pn.r ELSE pn.l, key, pos + 1, None, proof, r)
        linked   == IF right THEN [bnode EXCEPT !.right = below.key]
                    ELSE [bnode EXCEPT !.left = below.key]
        \* an edge
        next     == pos + Len(pn.path)
        ekey     == SubSeq(key, 1, next)
        enode    == NewPartialStorageNode(pn.child)
        child    == buildPath(pn.child, key, next, [key |-> ekey, node |-> enode], proof, r)
    IN IF pos = Len(key)
       THEN Path(key, hash, PutNode(r, key, NewPartialStorageNode(hash)))
       ELSE IF hash \notin DOMAIN proof THEN Path(<<>>, None, r)
       ELSE IF pn.kind = "binary" THEN Path(bkey, below.val, PutNode(below, bkey, linked))
       ELSE IF ~verifyEdgePath(key, pn.path, pos) THEN Path(<<>>, None, r)
       ELSE IF next = Len(key) THEN Path(ekey, pn.child, PutNode(r, ekey, enode))
       ELSE Path(ekey, child.val, IF ekey \in DOMAIN child.nodes THEN child
                                  ELSE PutNode(child, ekey, enode))

\* A key that leaves the trie in the root's edge: the root itself.
proofToPath(root, key, proof, r) ==
    LET built  == buildPath(root, key, 0, None, proof, r)
        edge   == proof[root]
        sn     == NewPartialStorageNode(edge.child)
        binary == proof[edge.child]
    IN IF DOMAIN built.nodes # {} \/ built.failed THEN built
       ELSE IF root \notin DOMAIN proof \/ edge.kind # "edge" THEN [built EXCEPT !.failed = TRUE]
       ELSE IF Len(edge.path) = Len(key)
       THEN Path(edge.path, edge.child, PutNode(built, edge.path, sn))
       ELSE IF edge.child \notin DOMAIN proof \/ binary.kind # "binary"
       THEN [built EXCEPT !.failed = TRUE]
       ELSE Path(edge.path, built.val,
                 PutNode(built, edge.path, [sn EXCEPT !.lh = binary.l, !.rh = binary.r]))

RECURSIVE hasRightElement(_, _, _)
hasRightElement(cur, key, nodes) ==
    IF cur \in {None, <<>>} \/ cur \notin DOMAIN nodes \/ key = cur THEN FALSE
    ELSE IF IsBitSet(key, Len(cur)) THEN hasRightElement(nodes[cur].right, key, nodes)
    ELSE nodes[cur].rh # None \/ hasRightElement(nodes[cur].left, key, nodes)

RECURSIVE PutAll(_, _, _)
PutAll(t, pairs, proof) ==
    IF pairs = <<>> \/ t.failed THEN t
    ELSE PutAll(PutWithProof(t, pairs[1].key, pairs[1].value, proof).trie, Tail(pairs), proof)

buildTrie(root, nodes, pairs) ==
    LET seq == SetToSeq({[key |-> k, node |-> nodes[k]] : k \in DOMAIN nodes})
    IN PutAll([setRootKey(EmptyTrie, root) EXCEPT !.nodes = nodes], pairs, seq)

\* The verdict on a range: whether it is accepted, and whether more keys follow.
Refused == [ok |-> FALSE, more |-> FALSE]

VerifyRangeProof(root, first, pairs, proof) ==
    LET start    == [key |-> None, val |-> None, nodes |-> [k \in {} |-> None], failed |-> FALSE]
        left     == proofToPath(root, first, proof, start)
        last     == pairs[Len(pairs)].key
        both     == proofToPath(root, last, proof, left)
        whole    == buildTrie(None, [k \in {} |-> None], pairs)
        rebuilt  == buildTrie(left.key, both.nodes, pairs)
    IN IF \E i \in 1..Len(pairs) :
              \/ pairs[i].value = Zero
              \/ i < Len(pairs) /\ NumberOf(pairs[i].key) > NumberOf(pairs[i + 1].key)
       THEN Refused
       ELSE IF proof = None
       THEN [ok |-> ~whole.failed /\ HashTrie(whole).root = root, more |-> FALSE]
       ELSE IF pairs = <<>>
       THEN [ok |-> ~left.failed /\ left.val = None
                      /\ ~hasRightElement(left.key, first, left.nodes),
             more |-> FALSE]
       ELSE IF Len(pairs) = 1 /\ first = last
       THEN IF left.failed \/ left.val # pairs[1].value THEN Refused
            ELSE [ok |-> TRUE, more |-> hasRightElement(left.key, first, left.nodes)]
       ELSE IF NumberOf(last) <= NumberOf(first) \/ left.failed \/ both.failed
                 \/ left.key # both.key \/ rebuilt.failed \/ HashTrie(rebuilt).root # root
       THEN Refused
       ELSE [ok |-> TRUE, more |-> hasRightElement(left.key, last, both.nodes)]

Root == HashTrie(trie).root

Value(n) == IF n \in Numbers THEN leaves[n] ELSE Zero

\* A proof of several keys of a hashed trie, gathered in one traversal,
\* verifies for each of them to its value, and to zero for an absent key.
ProofsVerify ==
    unhashed = 0 /\ trie.root # None =>
        /\ ensureNoUnhashedWrites(trie)
        /\ \A together \in SUBSET Proved :
              Cardinality(together) \in 1..Together =>
                \E proof \in {ProveMulti(trie, together, NoProof)} :
                  \A n \in together : VerifyProof(Root, FeltToKey(n), proof) = Value(n)

Present == {n \in Numbers : leaves[n] # Zero}

Pairs(first, last) ==
    LET s == SetToSortSeq({n \in Present : first <= n /\ n <= last}, <)
    IN [i \in 1..Len(s) |-> [key |-> FeltToKey(s[i]), value |-> leaves[s[i]]]]

\* The proof of a range that ends in a stored key is accepted with exactly the
\* leaves of the range, and all leaves without a proof; whether more keys follow
\* is told correctly where the root is below an edge.
RangesAccepted ==
    unhashed = 0 /\ trie.root # None =>
        /\ VerifyRangeProof(Root, None, Pairs(0, Max(Present)), None).ok
        /\ \A first \in Proved, last \in Present :
              first <= last =>
                \E verdict \in {VerifyRangeProof(Root, FeltToKey(first), Pairs(first, last),
                                                 GetRangeProof(trie, first, last))} :
                  /\ verdict.ok
                  /\ trie.root # <<>> => (verdict.more <=> \E n \in Present : n > last)

=============================================================================
