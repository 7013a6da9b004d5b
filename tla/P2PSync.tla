------------------------------ MODULE P2PSync ------------------------------
(***************************************************************************)
(* Fetching a block in pieces.  A node that syncs over p2p asks random      *)
(* peers for the header, the transactions with their receipts, the events,  *)
(* the classes and the state diff of the next block, five streams that know *)
(* nothing of each other (p2p/sync).  Each peer answers from its own        *)
(* database, several reads per answer, while it is itself following a chain *)
(* that may be reorganised (p2p/server).  A node that syncs over RPC makes  *)
(* one call for the block, one for the state update and one per class       *)
(* (sync/rpcsource).  The pieces are put together, checked, and handed to   *)
(* the consumer, which stores them.                                         *)
(*                                                                         *)
(* A block is <<fork, number>>; the blocks before Split are common.  A      *)
(* piece says which block it is of and how many of its items were received; *)
(* a hash covers a piece if it tells any two different pieces apart.        *)
(***************************************************************************)
EXTENDS Integers, Sequences, FiniteSets

CONSTANTS Peers, None,
          MaxHeight,      \* last block of the network
          MaxReverts      \* blocks that peers revert

VARIABLES era,            \* "old", "sepolia" (old, hashes known), "new"
          chains,         \* per peer: the fork and the height of its chain
          reverts,        \* blocks reverted by peers so far
          protocol,       \* "p2p" or "rpc"
          local,          \* the blocks stored by this node
          number,         \* the block being fetched, or None
          streams,        \* per kind: how far the request for it is
          body,           \* the body on its way to the consumer
          held            \* the body that the consumer is about to store

vars == <<era, chains, reverts, protocol, local, number, streams, body, held>>

Kinds == {"header", "txs", "events", "classes", "diffs"}
Split == 1
Forks == {1, 2}
Id(f, n) == <<IF n < Split THEN 0 ELSE f, n>>
Parent(id) == IF id[2] - 1 < Split THEN <<0, id[2] - 1>> ELSE <<id[1], id[2] - 1>>

\* Blocks of fork 1 emit an event and declare a Sierra class, those of fork 2
\* declare a Cairo 0 class.
Len1(kind, id) ==
  CASE kind = "events" -> IF id[1] = 1 THEN 1 ELSE 0
    [] kind = "classes" -> IF id[1] = 0 THEN 0 ELSE 1
    [] OTHER -> 1
DeclaresV0(id) == id[1] = 2

Piece(id, got) == [of |-> IF got = 0 THEN None ELSE id, got |-> got]
Empty == Piece(None, 0)
Whole(kind, id) == Piece(id, Len1(kind, id))

-----------------------------------------------------------------------------
(* The peers (p2p/server), each the reader of a database that it also       *)
(* changes.                                                                 *)

BlockAt(p, n) == IF n \in 0 .. chains[p].height THEN Id(chains[p].fork, n) ELSE None

\* iterator: the requests of a node are for one block, so it ends after Next.
newIteratorByNumber(n, limit, step) == [n |-> n, limit |-> limit, step |-> step, reachedEnd |-> FALSE]
createIteratorForBlock(n) == newIteratorByNumber(n, 1, 1)
Valid(it) == it.limit # 0 /\ ~ it.reachedEnd
NextBlock(it) == [it EXCEPT !.n = @ + it.step, !.limit = @ - 1]
Block(it, p) == [it EXCEPT !.reachedEnd = BlockAt(p, it.n) = None]

\* The stream is closed: what of the answer has reached the node.  It may be
\* any prefix, since reads time out and connections break.
Answers(kind, id) == IF id = None THEN {Empty} ELSE {Piece(id, k) : k \in 0 .. Len1(kind, id)}

Sent(p, n) == [at |-> "sent", peer |-> p, it |-> createIteratorForBlock(n), of |-> None]
Unsent == [at |-> "unsent"]
Got(piece) == [at |-> "got", piece |-> piece]

\* streamHandler and processIterationRequest: an error ends the answer, and so
\* does the end of the iteration; both look the same to the node.
End(kind, id) == \E a \in Answers(kind, id) : streams' = [streams EXCEPT ![kind] = Got(a)]

SendAll(kind, id) ==
  LET it == NextBlock(streams[kind].it) IN ~ Valid(it) /\ End(kind, id)

\* onTransactionsRequest, onEventsRequest: one read of the block.
onBlockRequest(kind) ==
  LET s == streams[kind]
      it == Block(s.it, s.peer) IN
  /\ kind \in {"txs", "events"} /\ s.at = "sent"
  /\ IF Valid(it) THEN SendAll(kind, BlockAt(s.peer, it.n)) ELSE End(kind, None)

\* The state update, the block and the commitments are read by number after the
\* header; if one is gone by then the answer is empty, as it may be anyway.
onHeadersRequest ==
  LET s == streams["header"]
      it == Block(s.it, s.peer) IN
  /\ s.at = "sent"
  /\ IF Valid(it) THEN SendAll("header", BlockAt(s.peer, it.n)) ELSE End("header", None)

\* The other two handlers first read the block for its number.
ReadBlock(kind) ==
  LET s == streams[kind]
      it == Block(s.it, s.peer) IN
  /\ kind \in {"classes", "diffs"} /\ s.at = "sent"
  /\ IF Valid(it) THEN streams' = [streams EXCEPT ![kind] = [s EXCEPT !.at = "block", !.it = it]]
     ELSE End(kind, None)

\* The answer is made from the state update alone, read by that number.
onStateDiffRequest ==
  LET s == streams["diffs"] IN
  /\ s.at = "block"
  /\ LET update == BlockAt(s.peer, s.it.n) IN
       IF update = None THEN End("diffs", None) ELSE SendAll("diffs", update)

\* The classes are looked up in the state at the block's number, which is
\* opened after the state update was read.
onClassesRequest ==
  LET s == streams["classes"] IN
  \/ /\ s.at = "block"
     /\ LET update == BlockAt(s.peer, s.it.n) IN
          IF update = None THEN End("classes", None)
          ELSE streams' = [streams EXCEPT !["classes"] = [s EXCEPT !.at = "update", !.of = update]]
  \/ /\ s.at = "update"
     /\ LET state == BlockAt(s.peer, s.it.n) IN
          IF state = None \/ (Len1("classes", s.of) > 0 /\ state # s.of)
          THEN End("classes", None) ELSE SendAll("classes", s.of)

PeerGrow(p) ==
  /\ chains[p].height < MaxHeight
  /\ \E f \in Forks :
       /\ chains[p].height >= Split => f = chains[p].fork
       /\ chains' = [chains EXCEPT ![p] = [fork |-> f, height |-> @.height + 1]]
  /\ UNCHANGED <<era, reverts, protocol, local, number, streams, body, held>>

PeerRevert(p) ==
  /\ chains[p].height >= Split /\ reverts < MaxReverts
  /\ chains' = [chains EXCEPT ![p].height = @ - 1]
  /\ reverts' = reverts + 1
  /\ UNCHANGED <<era, protocol, local, number, streams, body, held>>

-----------------------------------------------------------------------------
(* The node.                                                                *)

getNextHeight == Len(local)
Idle == [k \in Kinds |-> Unsent]
Order == <<"header", "txs", "events", "classes", "diffs">>

\* Service.Run begins an iteration.
Start ==
  /\ number = None /\ getNextHeight <= MaxHeight
  /\ number' = getNextHeight
  /\ UNCHANGED <<era, chains, reverts, protocol, local, streams, body, held>>

GiveUp == number' = None /\ streams' = Idle

\* requestAndReceiveStream, for the first kind not yet asked for: a random
\* peer of the store.  If no stream to it can be opened it is removed (until
\* the discovery finds it again); that, an empty store, and a failed write end
\* the iteration.
Request ==
  /\ protocol = "p2p" /\ number # None /\ body = None
  /\ \E i \in DOMAIN Order :
       /\ streams[Order[i]] = Unsent /\ \A j \in 1 .. i - 1 : streams[Order[j]] # Unsent
       /\ \/ /\ \E p \in Peers : streams' = [streams EXCEPT ![Order[i]] = Sent(p, number)]
             /\ UNCHANGED number
          \/ GiveUp
  /\ UNCHANGED <<era, chains, reverts, protocol, local, body, held>>

Serve ==
  /\ protocol = "p2p" /\ number # None
  /\ \/ \E kind \in Kinds : ReadBlock(kind) \/ onBlockRequest(kind)
     \/ onHeadersRequest \/ onStateDiffRequest \/ onClassesRequest
  /\ UNCHANGED <<era, chains, reverts, protocol, local, number, body, held>>

\* rpcsource.fetchBlock: the block with its receipts in one call, the state
\* update in the next, then the classes.  Class definitions are found by hash.
fetchBlock ==
  /\ protocol = "rpc" /\ number # None /\ body = None
  /\ \E p \in Peers :
       LET id == BlockAt(p, number) IN
       \/ id = None /\ GiveUp
       \/ GiveUp                                      \* a call fails
       \/ /\ id # None /\ streams["header"] = Unsent
          /\ streams' = [k \in Kinds |-> IF k \in {"header", "txs", "events"}
                                         THEN Got(Whole(k, id)) ELSE Unsent]
          /\ UNCHANGED number
       \/ /\ id # None /\ streams["header"] # Unsent /\ streams["diffs"] = Unsent
          /\ streams' = [streams EXCEPT !["diffs"] = Got(Whole("diffs", id))]
          /\ UNCHANGED number
       \/ /\ streams["diffs"] # Unsent /\ streams["classes"] = Unsent
          /\ LET update == streams["diffs"].piece.of IN
               /\ Len1("classes", update) > 0 => id = update
               /\ streams' = [streams EXCEPT !["classes"] = Got(Whole("classes", update))]
          /\ UNCHANGED number
  /\ UNCHANGED <<era, chains, reverts, protocol, local, body, held>>

Part(k) == streams[k].piece
HasHeader == Part("header") # Empty
AllParts == \A k \in Kinds : streams[k].at = "got"

\* What each check of SanityCheckNewHeight and adaptAndSanityCheckBlock sees of
\* the pieces: the counts of the header, the hash of the era and, for the old
\* blocks of Sepolia, the hash of the table.  The classes enter the state diff
\* as declared classes.
HeaderOf == Part("header").of
Covers(kinds) == \A k \in kinds : Part(k) = Whole(k, HeaderOf)
CountsAgree == \A k \in {"txs", "events"} : Part(k).got = Len1(k, HeaderOf)
SameUpdate == protocol = "rpc" => Part("diffs").of = HeaderOf      \* block.Hash = stateUpdate.BlockHash
HashAgrees ==
  Covers(CASE era = "old" -> {"txs", "events"}
           [] OTHER -> {"txs", "events", "diffs", "classes"})

\* processSpecBlockParts and adaptAndSanityCheckBlock.  Without a header, or
\* when the parent is not stored, or the counts disagree, nothing is delivered.
Failed == [id |-> None]            \* a body that only carries an error
Assemble ==
  /\ AllParts /\ body = None
  /\ IF \/ ~ HasHeader
        \/ number > 0 /\ number > Len(local)
        \/ protocol = "p2p" /\ ~ CountsAgree
     THEN GiveUp /\ UNCHANGED body
     ELSE /\ body' = IF SameUpdate /\ HashAgrees
                     THEN [id |-> HeaderOf, parts |-> [k \in Kinds |-> Part(k)],
                           oldRoot |-> IF number = 0 THEN None ELSE local[number].id]
                     ELSE Failed
          /\ UNCHANGED <<number, streams>>
  /\ UNCHANGED <<era, chains, reverts, protocol, local, held>>

\* Bridge: the consumer takes the body; the loop goes on at once.
Deliver ==
  /\ body # None /\ held = None
  /\ held' = IF body = Failed THEN None ELSE body
  /\ body' = None /\ GiveUp
  /\ UNCHANGED <<era, chains, reverts, protocol, local>>

\* Blockchain.Store: the number, the parent, and the roots before and after
\* the state diff, which hold the contracts and the Sierra classes.
verifyBlockSuccession(b) ==
  /\ b.id[2] = Len(local)
  /\ b.id[2] > 0 => Parent(b.id) = local[Len(local)].id
RootsAgree(b) ==
  /\ b.oldRoot = IF Len(local) = 0 THEN None ELSE local[Len(local)].id
  /\ b.parts["diffs"] = Whole("diffs", b.id)
  /\ b.parts["classes"] = Whole("classes", b.id) \/ (DeclaresV0(b.id) /\ b.parts["classes"].got = 0)
Store ==
  /\ held # None
  /\ local' = IF verifyBlockSuccession(held) /\ RootsAgree(held) THEN Append(local, held) ELSE local
  /\ held' = None
  /\ UNCHANGED <<era, chains, reverts, protocol, number, streams, body>>

Init ==
  /\ era \in {"old", "sepolia", "new"} /\ protocol \in {"p2p", "rpc"}
  /\ chains \in [Peers -> [fork : Forks, height : {0, MaxHeight}]]
  /\ \A p \in Peers : chains[p].height < Split => chains[p].fork = 1
  /\ reverts = 0 /\ local = <<>> /\ number = None
  /\ streams = Idle /\ body = None /\ held = None

Next ==
  \/ \E p \in Peers : PeerGrow(p) \/ PeerRevert(p)
  \/ Start \/ Request \/ Serve \/ fetchBlock \/ Assemble \/ Deliver \/ Store

Spec == Init /\ [][Next]_vars

-----------------------------------------------------------------------------
=============================================================================
