----------------------------- MODULE MerkleTrie -----------------------------
(***************************************************************************)
(* The trie of edge, binary, hash and value nodes (core/trie2): nodes are  *)
(* read from the database when they are walked over, changed ones are      *)
(* marked dirty, a tracer notes which paths disappear, and a commit        *)
(* collects the dirty nodes and the deletions into one set that the        *)
(* database applies.  Large tries are hashed and collected in parallel     *)
(* over disjoint subtrees, which changes nothing here.                     *)
(***************************************************************************)
EXTENDS TrieCommitment

CONSTANTS
    Numbers,   \* the keys that are written, as numbers
    Values,    \* the values that are written, none of them zero
    MaxPending, \* bound on the writes between two commits
    Proved,     \* the keys proofs are asked for, as numbers
    Together    \* bound on the keys of one proof

VARIABLES
    db,      \* the stored nodes by path
    stored,  \* the leaves the database stands for
    trie,    \* the open trie: root node, tracer, committed
    leaves,  \* what was written, the reference
    pending  \* writes since the trie was opened

vars == <<db, stored, trie, leaves, pending>>

Nothing == [p \in {} |-> None]

(* Nodes.  An edge or binary node has the cached hash and the dirty flag.   *)

EdgeNode(p, child) == [kind |-> "edge", path |-> p, child |-> child,
                       hash |-> None, dirty |-> TRUE]

BinaryNode(children) == [kind |-> "binary", child |-> children,
                         hash |-> None, dirty |-> TRUE]

HashNode(h) == [kind |-> "hash", felt |-> h]

ValueNode(v) == [kind |-> "value", felt |-> v]

Inner(n) == n.kind \in {"edge", "binary"}

(* Encoding: children are written as felts, and what a felt stands for     *)
(* follows from the length of its path.                                    *)

EncodeNode(n) ==
    CASE n.kind = "edge"   -> [kind |-> "edge", felt |-> n.child.felt, path |-> n.path]
      [] n.kind = "binary" -> [kind |-> "binary",
                               felts |-> [i \in {0, 1} |-> n.child[i].felt]]
      [] n.kind = "value"  -> [kind |-> "value", felt |-> n.felt]

decodeFelt(felt, len) == IF len = Height THEN ValueNode(felt) ELSE HashNode(felt)

DecodeNode(blob, hash, len) ==
    LET cached == IF hash = Zero THEN None ELSE hash
    IN CASE blob.kind = "value"  -> decodeFelt(blob.felt, len)
         [] blob.kind = "edge"   ->
              [kind |-> "edge", path |-> blob.path,
               child |-> decodeFelt(blob.felt, len + Len(blob.path)),
               hash |-> cached, dirty |-> FALSE]
         [] blob.kind = "binary" ->
              [kind |-> "binary", child |-> [i \in {0, 1} |-> decodeFelt(blob.felts[i], len + 1)],
               hash |-> cached, dirty |-> FALSE]

\* The database that the node opens keeps the nodes by path.
readNode(d, p) == d[p]

resolveNode(d, hash, p) == DecodeNode(readNode(d, p), hash, Len(p))

(* The tracer.                                                              *)

NewTracer == [inserts |-> {}, deletes |-> {}]

onInsert(t, p) == IF p \in t.deletes THEN [t EXCEPT !.deletes = @ \ {p}]
                  ELSE [t EXCEPT !.inserts = @ \cup {p}]

onDelete(t, p) == IF p \in t.inserts THEN [t EXCEPT !.inserts = @ \ {p}]
                  ELSE [t EXCEPT !.deletes = @ \cup {p}]

(* Reading a key: its value or None, and the node with what was resolved.   *)

RECURSIVE get(_, _, _, _)
get(d, n, prefix, key) ==
    IF n = None THEN [val |-> None, node |-> None]
    ELSE CASE n.kind = "value" -> [val |-> n.felt, node |-> n]
      [] n.kind = "hash" -> get(d, resolveNode(d, n.felt, prefix), prefix, key)
      [] n.kind = "edge" ->
           IF ~EqualMSBs(n.path, key) THEN [val |-> None, node |-> n]
           ELSE LET r == get(d, n.child, prefix \o n.path, LSBs(key, Len(n.path)))
                IN [r EXCEPT !.node = [n EXCEPT !.child = r.node]]
      [] n.kind = "binary" ->
           LET r == get(d, n.child[key[1]], Append(prefix, key[1]), Tail(key))
           IN [r EXCEPT !.node = [n EXCEPT !.child[key[1]] = r.node]]

(* Writing: the new node, whether anything changed, and the tracer.         *)

Result(node, dirty, t) == [node |-> node, dirty |-> dirty, tracer |-> t]

RECURSIVE insert(_, _, _, _, _, _)
insert(d, t, n, prefix, key, value) ==
    IF key = <<>> THEN Result(value, n # value, t)
    ELSE IF n = None THEN Result(EdgeNode(key, value), TRUE, onInsert(t, prefix))
    ELSE CASE n.kind = "hash" ->
           LET child == resolveNode(d, n.felt, prefix)
               r     == insert(d, t, child, prefix, key, value)
           IN IF r.dirty THEN r ELSE Result(child, FALSE, r.tracer)
      [] n.kind = "binary" ->
           LET bit == key[1]
               r   == insert(d, t, n.child[bit], Append(prefix, bit), Tail(key), value)
           IN IF r.dirty THEN Result(BinaryNode([n.child EXCEPT ![bit] = r.node]), TRUE, r.tracer)
              ELSE Result(n, FALSE, r.tracer)
      [] n.kind = "edge" ->
           LET m    == Len(Common(n.path, key))
               r    == insert(d, t, n.child, prefix \o n.path, LSBs(key, m), value)
               old  == insert(d, t, None, prefix \o SubSeq(n.path, 1, m + 1),
                              LSBs(n.path, m + 1), n.child)
               new  == insert(d, old.tracer, None, prefix \o SubSeq(key, 1, m + 1),
                              LSBs(key, m + 1), value)
               fork == BinaryNode([i \in {0, 1} |-> IF i = key[m + 1] THEN new.node
                                                    ELSE old.node])
           IN IF m = Len(n.path)
              THEN IF r.dirty THEN Result(EdgeNode(n.path, r.node), TRUE, r.tracer)
                   ELSE Result(n, FALSE, r.tracer)
              ELSE IF m = 0 THEN Result(fork, TRUE, new.tracer)
              ELSE Result(EdgeNode(SubSeq(key, 1, m), fork), TRUE,
                          onInsert(new.tracer, prefix \o SubSeq(key, 1, m)))

RECURSIVE delete(_, _, _, _, _)
delete(d, t, n, prefix, key) ==
    IF n = None THEN Result(None, FALSE, t)
    ELSE CASE n.kind = "value" -> Result(None, TRUE, onDelete(t, prefix))
      [] n.kind = "hash" ->
           LET child == resolveNode(d, n.felt, prefix)
               r     == delete(d, t, child, prefix, key)
           IN IF r.dirty THEN r ELSE Result(child, FALSE, r.tracer)
      [] n.kind = "edge" ->
           LET r    == delete(d, t, n.child, prefix \o n.path, LSBs(key, Len(n.path)))
               join == EdgeNode(n.path \o r.node.path, r.node.child)
           IN IF ~IsPrefix(n.path, key) THEN Result(n, FALSE, t)
              ELSE IF n.path = key
              THEN Result(None, TRUE, onDelete(onDelete(t, prefix), prefix \o key))
              ELSE IF ~r.dirty THEN Result(n, FALSE, r.tracer)
              ELSE IF r.node.kind = "edge"
              THEN Result(join, TRUE, onDelete(r.tracer, prefix \o n.path))
              ELSE Result(EdgeNode(n.path, r.node), TRUE, r.tracer)
      [] n.kind = "binary" ->
           LET bit   == key[1]
               r     == delete(d, t, n.child[bit], Append(prefix, bit), Tail(key))
               at    == Append(prefix, 1 - bit)
               raw   == n.child[1 - bit]
               other == IF raw.kind = "hash" THEN resolveNode(d, raw.felt, at) ELSE raw
           IN IF ~r.dirty THEN Result(n, FALSE, r.tracer)
              ELSE IF r.node # None
              THEN Result(BinaryNode([n.child EXCEPT ![bit] = r.node]), TRUE, r.tracer)
              ELSE IF other.kind = "edge"
              THEN Result(EdgeNode(<<1 - bit>> \o other.path, other.child), TRUE,
                          onDelete(r.tracer, at))
              ELSE Result(EdgeNode(<<1 - bit>>, other), TRUE, r.tracer)

update(d, t, key, value) ==
    IF value = Zero THEN delete(d, t.tracer, t.root, <<>>, key)
    ELSE insert(d, t.tracer, t.root, <<>>, key, ValueNode(value))

(* Hashing: the node with the hashes cached; its own is in its flags.       *)

FeltOf(n) == IF Inner(n) THEN n.hash ELSE n.felt

RECURSIVE hash(_)
hash(n) ==
    IF ~Inner(n) \/ n.hash # None THEN n
    ELSE IF n.kind = "edge"
    THEN LET child == IF Inner(n.child) THEN hash(n.child) ELSE n.child
         IN [n EXCEPT !.child = child, !.hash = EdgeTerm(FeltOf(child), n.path)]
    ELSE LET child == [i \in {0, 1} |-> IF n.child[i] = None THEN ValueNode(Zero)
                                        ELSE hash(n.child[i])]
         IN [n EXCEPT !.child = child, !.hash = Two(FeltOf(child[0]), FeltOf(child[1]))]

hashRoot(root) == IF root = None THEN None ELSE hash(root)

RootHash(root) == IF root = None THEN Zero ELSE FeltOf(hash(root))

(* Collecting: the dirty nodes by path; a collapsed child is a felt.        *)

Collapsed(n) == IF Inner(n) THEN HashNode(n.hash) ELSE n

RECURSIVE collect(_, _)
collect(p, n) ==
    IF (Inner(n) /\ n.hash # None /\ ~n.dirty) \/ n.kind = "hash" THEN Nothing
    ELSE CASE n.kind = "value" -> p :> EncodeNode(n)
      [] n.kind = "edge" ->
           (p :> EncodeNode([n EXCEPT !.child = Collapsed(n.child)]))
           @@ collect(p \o n.path, n.child)
      [] n.kind = "binary" ->
           (p :> EncodeNode([n EXCEPT !.child = [i \in {0, 1} |-> Collapsed(n.child[i])]]))
           @@ collect(Append(p, 0), n.child[0]) @@ collect(Append(p, 1), n.child[1])

\* The set a commit hands to the database: a path to a blob, or None to delete.
Deleted(t) == [p \in t.tracer.deletes |-> None]

commitNodes(t) ==
    LET root == hashRoot(t.root)
    IN IF root = None THEN Deleted(t)
       ELSE IF ~root.dirty THEN Nothing
       ELSE collect(<<>>, root) @@ Deleted(t)

MergeNodes(d, nodes) ==
    [p \in {q \in DOMAIN d \cup DOMAIN nodes : q \in DOMAIN nodes => nodes[q] # None} |->
        IF p \in DOMAIN nodes THEN nodes[p] ELSE d[p]]

(* Actions                                                                  *)

\* The root is read without knowing its hash, or by it in the hash scheme.
NewTrie(d, rootHash) ==
    [root |-> IF <<>> \in DOMAIN d THEN resolveNode(d, rootHash, <<>>) ELSE None,
     tracer |-> NewTracer, committed |-> FALSE]

Init == /\ db = Nothing
        /\ stored = [n \in Numbers |-> Zero]
        /\ trie = NewTrie(Nothing, Zero)
        /\ leaves = stored
        /\ pending = 0

\* A trie that was committed, or was given up, is opened again.
New(rootHash) ==
    /\ trie' = NewTrie(db, rootHash)
    /\ leaves' = stored
    /\ pending' = 0
    /\ UNCHANGED <<db, stored>>

Update(n, value) ==
    /\ ~trie.committed /\ pending < MaxPending
    /\ \E r \in {update(db, trie, FeltToKey(n), value)} :
          trie' = [trie EXCEPT !.root = r.node, !.tracer = r.tracer]
    /\ leaves' = [leaves EXCEPT ![n] = value]
    /\ pending' = pending + 1
    /\ UNCHANGED <<db, stored>>

Get(n) ==
    /\ ~trie.committed
    /\ trie' = [trie EXCEPT !.root = get(db, @, <<>>, FeltToKey(n)).node]
    /\ UNCHANGED <<db, stored, leaves, pending>>

Hash ==
    /\ ~trie.committed
    /\ trie' = [trie EXCEPT !.root = hashRoot(@)]
    /\ UNCHANGED <<db, stored, leaves, pending>>

Commit ==
    /\ ~trie.committed
    /\ db' = MergeNodes(db, commitNodes(trie))
    /\ stored' = leaves
    /\ trie' = [root |-> IF trie.root = None THEN None ELSE HashNode(RootHash(trie.root)),
                tracer |-> NewTracer, committed |-> TRUE]
    /\ UNCHANGED <<leaves, pending>>

Next == \/ \E h \in {Zero, Commitment(stored)} : New(h)
        \/ \E n \in Numbers, v \in Values \cup {0} : Update(n, Felt(v))
        \/ \E n \in Numbers : Get(n)
        \/ Hash
        \/ Commit

Spec == Init /\ [][Next]_vars

(* The nodes a set of leaves is stored as.                                  *)

RECURSIVE Layout(_, _)
Layout(p, kept) ==
    LET s == Subtree(p, kept)
        q == p \o s.path
        Close(half) == IF half.path = <<>> THEN half.bottom ELSE EdgeTerm(half.bottom, half.path)
        edge == IF s.path = <<>> THEN Nothing
                ELSE p :> [kind |-> "edge", felt |-> s.bottom, path |-> s.path]
        at   == IF Len(q) = Height THEN q :> [kind |-> "value", felt |-> s.bottom]
                ELSE (q :> [kind |-> "binary",
                            felts |-> [i \in {0, 1} |-> Close(Subtree(Append(q, i), kept))]])
                     @@ Layout(Append(q, 0), kept) @@ Layout(Append(q, 1), kept)
    IN IF s = None THEN Nothing ELSE edge @@ at

\* Whatever was read, written, deleted and hashed since the trie was opened, its
\* root is the commitment of the leaves, the same that the trie keyed by path
\* computes, and every key reads as last written.
TrieExact ==
    ~trie.committed =>
        /\ RootHash(trie.root) = Commitment(leaves)
        /\ \A n \in Numbers :
              get(db, trie.root, <<>>, FeltToKey(n)).val =
                  IF leaves[n] = Zero THEN None ELSE leaves[n]

\* After a commit the database holds exactly the nodes of the new trie: no node
\* that a later read needs is deleted or stale, and none is left behind.
DatabaseExact == db = Layout(<<>>, stored)


-----------------------------------------------------------------------------
(* Merkle proofs (core/trie2/proof.go).  A range is verified by linking    *)
(* the nodes of a proof into two paths, cutting what lies between them,    *)
(* and inserting the keys of the range again.  The nodes of a proof are    *)
(* shared objects that are changed in place, so links are references into  *)
(* the proof by hash.                                                      *)

Ref(h) == [kind |-> "ref", felt |-> h]

NoProof == [h \in {} |-> None]

(* Proving.                                                                 *)

\* The node with its children as felts, kept under its hash.
proofHash(n) ==
    LET hashed == hash(n)
    IN IF n.kind = "edge" THEN [n EXCEPT !.child = Collapsed(hashed.child)]
       ELSE [n EXCEPT !.child = [i \in {0, 1} |-> Collapsed(hashed.child[i])]]

addProofNode(proof, n) == (FeltOf(hash(n)) :> proofHash(n)) @@ proof

\* Paths that end at the node are dropped.
Shortened(paths, n) ==
    SelectSeq([i \in 1..Len(paths) |-> LSBs(paths[i], n)], LAMBDA p : p # <<>>)

matchingEdgePaths(n, paths) ==
    Shortened(SelectSeq(paths, LAMBDA p : EqualMSBs(n.path, p)), Len(n.path))

\* The paths are sorted, so those to the right follow those to the left.
rightStart(paths) ==
    LET right == {i \in 1..Len(paths) : paths[i][1] = 1}
    IN IF right = {} THEN Len(paths) + 1 ELSE Min(right)

RECURSIVE proveMultiFrom(_, _, _, _, _)
proveMultiFrom(d, raw, prefix, paths, proof) ==
    LET n     == IF raw.kind = "hash" THEN resolveNode(d, raw.felt, prefix) ELSE raw
        added == addProofNode(proof, n)
        start == rightStart(paths)
        left  == proveMultiFrom(d, n.child[0], Append(prefix, 0),
                                Shortened(SubSeq(paths, 1, start - 1), 1), added)
    IN IF raw = None \/ paths = <<>> THEN proof
       ELSE IF n.kind = "edge"
       THEN proveMultiFrom(d, n.child, prefix \o n.path, matchingEdgePaths(n, paths), added)
       ELSE proveMultiFrom(d, n.child[1], Append(prefix, 1),
                           Shortened(SubSeq(paths, start, Len(paths)), 1), left)

ProveMulti(d, root, numbers, proof) ==
    proveMultiFrom(d, root, <<>>,
                   [i \in 1..Cardinality(numbers) |->
                        FeltToKey(SetToSortSeq(numbers, <)[i])], proof)

GetRangeProof(d, root, first, last) ==
    ProveMulti(d, root, {last}, ProveMulti(d, root, {first}, NoProof))

(* Verifying one key: the value, or None when the proof is invalid.         *)

\* The child on the way to a key, and what is left of the key.
child(n, key) ==
    IF n.kind = "edge"
    THEN IF EqualMSBs(n.path, key) THEN [node |-> n.child, key |-> LSBs(key, Len(n.path))]
         ELSE [node |-> None, key |-> key]
    ELSE [node |-> n.child[key[1]], key |-> Tail(key)]

RECURSIVE VerifyProof(_, _, _)
VerifyProof(expected, key, proof) ==
    LET n    == proof[expected]
        next == child(n, key)
    IN IF expected \notin DOMAIN proof \/ FeltOf(hash(n)) # expected THEN None
       ELSE IF next.node = None THEN Zero
       ELSE IF next.node.kind = "value" \/ next.key = <<>> THEN next.node.felt
       ELSE VerifyProof(next.node.felt, next.key, proof)

(* A path of a proof is resolved: the hashes on it become references.       *)

RECURSIVE linkFrom(_, _, _, _)
linkFrom(heap, at, key, missing) ==
    LET n      == heap[at]
        next   == child(n, key)
        h      == next.node.felt
        linked == IF n.kind = "edge" THEN [n EXCEPT !.child = Ref(h)]
                  ELSE [n EXCEPT !.child[key[1]] = Ref(h)]
    IN IF next.node = None THEN [heap |-> heap, val |-> None, failed |-> ~missing]
       ELSE IF next.node.kind = "value" THEN [heap |-> heap, val |-> h, failed |-> FALSE]
       ELSE IF h \notin DOMAIN heap THEN [heap |-> heap, val |-> None, failed |-> TRUE]
       ELSE linkFrom([heap EXCEPT ![at] = linked], h, next.key, missing)

proofToPath(root, heap, key, missing) ==
    IF root \notin DOMAIN heap THEN [heap |-> heap, val |-> None, failed |-> TRUE]
    ELSE linkFrom(heap, root, key, missing)

Soiled(n) == [n EXCEPT !.hash = None, !.dirty = TRUE]

Cut(heap, at, bit) == [heap EXCEPT ![at].child[bit] = None]

Less(a, b) == NumberOf(a) < NumberOf(b)

Pad(p, len) == [i \in 1..len |-> IF i <= Len(p) THEN p[i] ELSE 0]

RECURSIVE unset(_, _, _, _, _, _)
unset(heap, parent, link, key, pos, removeLeft) ==
    LET at    == link.felt
        n     == heap[at]
        bit   == key[pos + 1]
        cut   == IF removeLeft /\ bit = 1 THEN [n EXCEPT !.child[0] = None]
                 ELSE IF ~removeLeft /\ bit = 0 THEN [n EXCEPT !.child[1] = None]
                 ELSE n
        rest  == LSBs(key, pos)
        edge  == Pad(n.path, Len(rest))
        inRange == IF removeLeft THEN Less(edge, rest) ELSE Less(rest, edge)
    IN IF link = None THEN heap
       ELSE IF link.kind # "ref" THEN heap
       ELSE IF n.kind = "binary"
       THEN unset([heap EXCEPT ![at] = Soiled(cut)], at, cut.child[bit], key, pos + 1, removeLeft)
       ELSE IF ~EqualMSBs(n.path, rest)
       THEN IF inRange THEN Cut(heap, parent, key[pos]) ELSE heap
       ELSE IF n.child.kind = "value" THEN Cut(heap, parent, key[pos])
       ELSE unset([heap EXCEPT ![at] = Soiled(n)], at, n.child, key, pos + Len(n.path), removeLeft)

\* What is left of the two paths, whether nothing is, and whether they are a range.
Unset(heap, empty, failed) == [heap |-> heap, empty |-> empty, failed |-> failed]

handleEdgeFork(heap, at, parent, left, right, pos) ==
    LET n     == heap[at]
        l     == SubSeq(left, pos + 1, pos + Len(n.path))
        r     == SubSeq(right, pos + 1, pos + Len(n.path))
        whole == IF parent = None THEN Unset(heap, TRUE, FALSE)
                 ELSE Unset(Cut(heap, parent, left[pos]), FALSE, FALSE)
    IN IF (Less(l, n.path) /\ Less(r, n.path)) \/ (Less(n.path, l) /\ Less(n.path, r))
       THEN Unset(heap, FALSE, TRUE)
       ELSE IF (l # n.path /\ r # n.path) \/ n.child.kind = "value" THEN whole
       ELSE IF r # n.path
       THEN Unset(unset(heap, at, n.child, LSBs(left, pos), Len(n.path), FALSE), FALSE, FALSE)
       ELSE Unset(unset(heap, at, n.child, LSBs(right, pos), Len(n.path), TRUE), FALSE, FALSE)

handleBinaryFork(heap, at, left, right, pos) ==
    LET l    == left[pos + 1]
        r    == right[pos + 1]
        one  == IF l = r THEN Cut(heap, at, 1 - l) ELSE heap
        two  == unset(one, at, one[at].child[l], LSBs(left, pos), 1, FALSE)
    IN Unset(unset(two, at, two[at].child[r], LSBs(right, pos), 1, TRUE), FALSE, FALSE)

RECURSIVE unsetInternal(_, _, _, _, _, _)
unsetInternal(heap, at, parent, left, right, pos) ==
    LET n      == heap[at]
        soiled == [heap EXCEPT ![at] = Soiled(n)]
        len    == Len(n.path)
        fork   == \/ SubSeq(left, pos + 1, pos + len) # n.path
                  \/ SubSeq(right, pos + 1, pos + len) # n.path
        l      == n.child[left[pos + 1]]
        r      == n.child[right[pos + 1]]
        same   == /\ l # None /\ r # None
                  /\ left[pos + 1] = right[pos + 1] \/ (l.kind = "ref" /\ l = r)
    IN IF n.kind = "edge"
       THEN IF fork THEN handleEdgeFork(soiled, at, parent, left, right, pos)
            ELSE unsetInternal(soiled, n.child.felt, at, left, right, pos + len)
       ELSE IF same THEN unsetInternal(soiled, l.felt, at, left, right, pos + 1)
       ELSE handleBinaryFork(soiled, at, left, right, pos)

RECURSIVE hasRightElement(_, _, _)
hasRightElement(heap, link, key) ==
    LET n    == heap[link.felt]
        next == child(n, key)
    IN IF link = None THEN FALSE
       ELSE IF link.kind = "value" THEN FALSE
       ELSE IF n.kind = "binary"
       THEN (key[1] = 0 /\ n.child[1] # None) \/ hasRightElement(heap, next.node, next.key)
       ELSE IF next.node = None THEN Less(key, Pad(n.path, Len(key)))
       ELSE hasRightElement(heap, next.node, next.key)

\* The trie that the references lead to.
RECURSIVE Tree(_, _)
Tree(heap, link) ==
    IF link = None THEN None
    ELSE IF link.kind # "ref" THEN link
    ELSE IF heap[link.felt].kind = "edge"
    THEN [heap[link.felt] EXCEPT !.child = Tree(heap, @)]
    ELSE [heap[link.felt] EXCEPT !.child = [i \in {0, 1} |-> Tree(heap, @[i])]]

UpdateAll(root, pairs) ==
    FoldLeft(LAMBDA n, pair : insert(Nothing, NewTracer, n, <<>>, pair.key,
                                     ValueNode(pair.value)).node,
             root, pairs)

Refused == [ok |-> FALSE, more |-> FALSE]

verifyProofData(pairs) ==
    \A i \in 1..Len(pairs) :
        /\ pairs[i].value # Zero
        /\ i < Len(pairs) => ~Less(pairs[i + 1].key, pairs[i].key)

verifyEmptyRangeProof(root, first, proof) ==
    LET p == proofToPath(root, proof, first, TRUE)
    IN [ok |-> ~p.failed /\ p.val = None /\ ~hasRightElement(p.heap, Ref(root), first),
        more |-> FALSE]

verifySingleElementProof(root, pair, proof) ==
    LET p == proofToPath(root, proof, pair.key, FALSE)
    IN IF p.failed \/ p.val # pair.value THEN Refused
       ELSE [ok |-> TRUE, more |-> hasRightElement(p.heap, Ref(root), pair.key)]

verifyRangeWithProof(root, first, last, pairs, proof) ==
    LET l    == proofToPath(root, proof, first, TRUE)
        r    == proofToPath(root, l.heap, last, TRUE)
        u    == unsetInternal(r.heap, root, None, first, last, 0)
        tree == UpdateAll(IF u.empty THEN None ELSE Tree(u.heap, Ref(root)), pairs)
    IN IF l.failed \/ r.failed THEN Refused
       ELSE IF u.failed \/ RootHash(tree) # root THEN Refused
       ELSE [ok |-> TRUE, more |-> hasRightElement(u.heap, Ref(root), last)]

VerifyRangeProof(root, first, pairs, proof) ==
    LET last == pairs[Len(pairs)].key
    IN IF ~verifyProofData(pairs) THEN Refused
       ELSE IF proof = None
       THEN [ok |-> RootHash(UpdateAll(None, pairs)) = root, more |-> FALSE]
       ELSE IF pairs = <<>> THEN verifyEmptyRangeProof(root, first, proof)
       ELSE IF Len(pairs) = 1 /\ first = last
       THEN verifySingleElementProof(root, pairs[1], proof)
       ELSE IF ~Less(first, last) THEN Refused
       ELSE verifyRangeWithProof(root, first, last, pairs, proof)

Root == RootHash(trie.root)

Present == {n \in Numbers : leaves[n] # Zero}

\* A proof of several keys, taken from an open trie with whatever was written,
\* verifies for each of them to its value, and to zero for an absent key.
ProofsVerify ==
    ~trie.committed /\ trie.root # None =>
        \A together \in SUBSET Proved :
            Cardinality(together) \in 1..Together =>
                \E proof \in {ProveMulti(db, trie.root, together, NoProof)} :
                    \A n \in together :
                        VerifyProof(Root, FeltToKey(n), proof) =
                            IF n \in Present THEN leaves[n] ELSE Zero

Pairs(first, last) ==
    LET s == SetToSortSeq({n \in Present : first <= n /\ n <= last}, <)
    IN [i \in 1..Len(s) |-> [key |-> FeltToKey(s[i]), value |-> leaves[s[i]]]]

\* No two nodes of the trie are the same, so that no object of a proof is shared.
NoTwins ==
    LET nodes == Layout(<<>>, leaves)
    IN \A p, q \in DOMAIN nodes : p # q /\ nodes[p] = nodes[q] => nodes[p].kind = "value"

\* The proof of a range that ends in a stored key is accepted with exactly the
\* leaves of the range and tells whether more keys follow; a range without keys
\* is accepted exactly when no key follows its start.  Only tries without equal
\* subtrees: the two would be one object of the proof.
RangesAccepted ==
    ~trie.committed /\ trie.root # None /\ NoTwins =>
        /\ VerifyRangeProof(Root, None, Pairs(0, Max(Present)), None).ok
        /\ \A first \in Proved, last \in Present :
              first <= last =>
                VerifyRangeProof(Root, FeltToKey(first), Pairs(first, last),
                                 GetRangeProof(db, trie.root, first, last)) =
                    [ok |-> TRUE, more |-> \E n \in Present : n > last]
        /\ \A first \in Proved :
              VerifyRangeProof(Root, FeltToKey(first), <<>>,
                               GetRangeProof(db, trie.root, first, first)).ok =
                    ~\E n \in Present : n >= first

=============================================================================
