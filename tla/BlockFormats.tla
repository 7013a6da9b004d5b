---------------------------- MODULE BlockFormats ----------------------------
(***************************************************************************)
(* A block on its way between the nodes of the network.  A node gets it    *)
(* from the feeder gateway (sn2core), from a p2p peer (core2p2p, p2p2core)  *)
(* or from another node's RPC API (rpc/v10, rpc2core), and stores it only   *)
(* if VerifyBlockHash agrees.  Which fields the hash covers depends on the  *)
(* era of the block, and each protocol fills in or leaves out some fields.  *)
(* The variables follow one block through any chain of nodes.               *)
(*                                                                         *)
(* The block has one transaction.  A field holds 0 or 1 (two values that    *)
(* must not be mixed up; an empty and a non-empty list), or Absent, Go's    *)
(* nil.  A hash is the tuple of the values hashed.                          *)
(***************************************************************************)
EXTENDS Integers, Sequences, FiniteSets

CONSTANT MaxHops       \* nodes the block passes after the first one

VARIABLES origin,      \* the block as the sequencer made it
          form,        \* "feeder", "core", "p2p", "rpc", "refused", "panic"
          block,       \* its present contents in that form
          route        \* the protocols it has crossed, in order

vars == <<origin, form, block, route>>

Absent == -1
Fallback == 2      \* BlockHashMetaInfo.FallBackSequencerAddress

Header == {"parentHash", "globalStateRoot", "sequencerAddress", "timestamp",
           "signatures", "l1GasPriceETH", "l1GasPriceSTRK", "l1DAMode",
           "l1DataGasPrice", "l2GasPrice"}
Receipt == {"fee", "events", "l1ToL2Message", "l2ToL1Message",
            "reverted", "revertReason", "steps", "segmentArena",
            "daL1DataGas", "l1Gas", "l1DataGas", "l2Gas"}
Diff == {"storageDiffs", "nonces", "deployed", "replaced", "declaredV0",
         "declaredV1", "migrated"}
Transaction == {"txHash", "isInvoke", "txSignature"}
Fields == Transaction \cup Header \cup Receipt \cup Diff

\* A block is of the era "0.13.2" if its version is that or a later one, before
\* the next era; "pre07" are the first blocks, by their number.
Eras == {"pre07", "post07", "0.11.1", "0.13.2", "0.13.4", "0.14.1"}
Old == {"pre07", "post07", "0.11.1"}
NilToZero(v) == IF v = Absent THEN 0 ELSE v
NilToOne(v) == IF v = Absent THEN 1 ELSE v

\* The struct f with the fields of g set to what g says.
With(f, g) == [x \in Fields |-> IF x \in DOMAIN g THEN g[x] ELSE f[x]]

-----------------------------------------------------------------------------
(* The block hash.                                                         *)

Length(f) == Cardinality({x \in Diff : f[x] # 0})

updatedContractsDigest(f) == {<<x, f[x]>> : x \in {y \in {"deployed", "replaced"} : f[y] # 0}}
declaredClassesDigest(f) == {<<x, f[x]>> : x \in {y \in {"declaredV1", "migrated"} : f[y] # 0}}

\* StateDiff.Hash
DiffHash(f) ==
  <<updatedContractsDigest(f), declaredClassesDigest(f), f["declaredV0"],
    f["storageDiffs"], f["nonces"]>>

\* Before 0.11.1 only the signatures of invoke transactions are hashed.
transactionCommitmentPedersen(era, f) ==
  <<f["txHash"], IF era = "0.11.1" \/ f["isInvoke"] = 1 THEN f["txSignature"] ELSE 0>>

\* An empty signature counts as <<0>>, and from 0.13.4 on as <<>>.
transactionCommitmentPoseidon0132(f) == <<f["txHash"], <<f["txSignature"]>>>>
transactionCommitmentPoseidon0134(f) ==
  <<f["txHash"], IF f["txSignature"] = 0 THEN <<>> ELSE <<f["txSignature"]>>>>

eventCommitmentPedersen(f) == f["events"]
eventCommitmentPoseidon(f) == IF f["events"] = 0 THEN <<>> ELSE <<f["txHash"], f["events"]>>

\* TransactionReceipt.hash
receiptCommitment(f) ==
  <<f["txHash"], f["fee"], f["l2ToL1Message"],
    IF f["reverted"] = 1 THEN <<f["revertReason"]>> ELSE <<>>,
    NilToZero(f["l1Gas"]), NilToZero(f["l1DataGas"])>>

ConcatCounts(f) == <<1, f["events"], Length(f), f["l1DAMode"]>>

gasPricesHash(f) ==
  <<f["l1GasPriceETH"], f["l1GasPriceSTRK"], f["l1DataGasPrice"], f["l2GasPrice"]>>

pre07Hash(era, f) ==
  <<f["globalStateRoot"], transactionCommitmentPedersen(era, f), f["parentHash"]>>

post07Hash(era, f, sequencer) ==
  <<f["globalStateRoot"], sequencer, f["timestamp"],
    transactionCommitmentPedersen(era, f), f["events"], eventCommitmentPedersen(f),
    f["parentHash"]>>

Post0132Hash(f) ==
  <<f["globalStateRoot"], NilToZero(f["sequencerAddress"]), f["timestamp"],
    ConcatCounts(f), DiffHash(f), transactionCommitmentPoseidon0132(f),
    eventCommitmentPoseidon(f), receiptCommitment(f), f["l1GasPriceETH"],
    NilToZero(f["l1GasPriceSTRK"]), NilToZero(f["l1DataGasPrice"]), f["parentHash"]>>

post0134Hash(f) ==
  <<f["globalStateRoot"], f["sequencerAddress"], f["timestamp"],
    ConcatCounts(f), DiffHash(f), transactionCommitmentPoseidon0134(f),
    eventCommitmentPoseidon(f), receiptCommitment(f), gasPricesHash(f), f["parentHash"]>>

BlockHash(era, f, sequencer) ==
  CASE era \in {"0.13.4", "0.14.1"} -> post0134Hash(f)
    [] era = "0.13.2" -> Post0132Hash(f)
    [] era = "pre07" -> pre07Hash(era, f)
    [] era \in {"post07", "0.11.1"} -> post07Hash(era, f, sequencer)

\* The sequencer addresses tried, with a nil address one after the other.
SequencersTried(f) ==
  IF f["sequencerAddress"] = Absent THEN {0, Fallback} ELSE {f["sequencerAddress"]}

NoFallback(b) ==
  b.skip \/ BlockHash(b.era, b.f, NilToZero(b.f["sequencerAddress"])) = b.hash

VerifyBlockHash(b) ==
  b.skip \/ \E s \in SequencersTried(b.f) : BlockHash(b.era, b.f, s) = b.hash

-----------------------------------------------------------------------------
(* The conversions.                                                        *)

\* core2p2p.AdaptHeader: prices that are nil become zero, except the price of
\* L1 gas, whose conversion dereferences it.
HeaderToP2P(f) ==
  With(f, [x \in {"l1DataGasPrice", "l2GasPrice"} |-> NilToZero(f[x])])

\* The receipt has no field for the total of L2 gas, of L1 data gas and for
\* the segment arena, and none for the message of an L1 handler.
ReceiptToP2P(f) ==
  With(f, [x \in {"l2Gas", "l1ToL2Message", "segmentArena"} |->
             IF x = "segmentArena" THEN 0 ELSE Absent])

\* onStateDiffRequest: one message per contract with its nonce, storage and
\* class, whether deployed or replaced; classes travel by themselves, and
\* migrated ones not at all.
DiffToP2P(f) == With(f, [x \in {"migrated"} |-> 0])

ToP2PContents(f) == DiffToP2P(ReceiptToP2P(HeaderToP2P(f)))

RevertedByReason(f) ==
  With(f, [x \in {"l1Gas", "l1DataGas", "l2Gas", "l1ToL2Message", "reverted"} |->
    CASE x = "l1Gas" -> NilToZero(f["l1Gas"])
      [] x = "l1DataGas" -> f["daL1DataGas"]
      [] x = "l2Gas" -> 0
      [] x = "l1ToL2Message" -> Absent
      [] x = "reverted" -> f["revertReason"]])

\* p2p2core.AdaptReceipt: a revert reason, even an empty one, means reverted.
ReceiptFromP2P(f) ==
  With(f, [x \in {"l1Gas", "l1DataGas", "l2Gas", "l1ToL2Message", "reverted"} |->
    CASE x = "l1Gas" -> NilToZero(f["l1Gas"])
      [] x = "l1DataGas" -> f["daL1DataGas"]
      [] x = "l2Gas" -> 0
      [] x = "l1ToL2Message" -> Absent
      [] x = "reverted" -> IF f["reverted"] = 1 \/ f["revertReason"] = 1 THEN 1 ELSE 0])

\* p2p2core.AdaptStateDiff: a class that is declared is compiled again and its
\* compiled hash is the one of version 1.
DiffFromP2P(f) ==
  With(f, [x \in {"declaredV1", "migrated"} |->
             IF x = "declaredV1" /\ f[x] # 0 THEN 1 ELSE 0])

FromP2PContents(f) == DiffFromP2P(ReceiptFromP2P(f))

AdaptBlockHeader(f) ==
  With(f, [x \in {"sequencerAddress", "l1GasPriceETH", "l1GasPriceSTRK",
                  "l1DataGasPrice", "l2GasPrice"} |->
             IF x = "sequencerAddress" THEN NilToZero(f[x]) ELSE NilToOne(f[x])])

\* Of the resources only the gas in total is in the receipt.
adaptExecutionResources(f) ==
  With(f, [x \in {"l1Gas", "l1DataGas", "l2Gas"} |-> NilToZero(f[x])])

\* StateUpdate: every part of the state diff is listed.
ToRPCContents(f) == adaptExecutionResources(AdaptBlockHeader(f))

adaptHeader(f) == With(f, [x \in {"signatures"} |-> 0])

adaptReceipt(f) ==
  With(f, [x \in {"l1ToL2Message", "steps", "segmentArena", "daL1DataGas"} |->
             IF x = "l1ToL2Message" THEN Absent ELSE 0])

FromRPCContents(f) == adaptReceipt(adaptHeader(f))

-----------------------------------------------------------------------------
(* The blocks the sequencer made.                                          *)

\* Fields that blocks of an era always have, and never have.
Missing(era) ==
  CASE era = "pre07" -> {"sequencerAddress", "l1DataGasPrice", "l2GasPrice"}
    [] era = "post07" -> {"l1DataGasPrice", "l2GasPrice"}
    [] era = "0.13.2" -> {"l2GasPrice"}
    [] OTHER -> {}
MayMiss(era) ==
  CASE era = "pre07" -> {"l1GasPriceSTRK"}
    [] era \in {"post07", "0.11.1"} ->
         {"sequencerAddress", "l1GasPriceSTRK", "l1DataGasPrice", "l2GasPrice"}
    [] OTHER -> {}
Gas == {"l1Gas", "l1DataGas", "l2Gas"}

Contents(era, u, S) ==
  [x \in Fields |->
     LET v == IF x \in S THEN 1 - u ELSE u IN
     CASE x \in Missing(era) -> Absent
       [] x \in MayMiss(era) /\ x \in S -> Absent
       [] x \in Gas /\ era \in Old -> Absent
       [] x = "l1ToL2Message" -> IF v = 1 THEN 1 ELSE Absent
       [] x = "revertReason" -> IF v = 1 /\ (("reverted" \in S) # (u = 1)) THEN 1 ELSE 0
       [] x = "declaredV1" /\ era = "0.14.1" /\ v = 1 -> 2
       [] x = "migrated" /\ era # "0.14.1" -> 0
       [] OTHER -> v]

\* Two fields at most differ from the others.
Unusual == {{}} \cup {{x, y} : x, y \in Fields}

\* The addresses the hash of a block without sequencer address may have used.
TrueSequencers(f) ==
  IF f["sequencerAddress"] = Absent THEN {0, Fallback} ELSE {f["sequencerAddress"]}

\* Sepolia has no blocks from before 0.7, and only other networks have a range
\* of blocks whose hash cannot be verified.
Networks(era) ==
  {[sepolia |-> FALSE, skip |-> FALSE]}
    \cup (IF era = "pre07" THEN {} ELSE {[sepolia |-> TRUE, skip |-> FALSE]})
    \cup (IF era \in Old THEN {[sepolia |-> FALSE, skip |-> TRUE]} ELSE {})

-----------------------------------------------------------------------------
(* A block's way.                                                          *)

Init ==
  \E era \in Eras, u \in {0, 1}, S \in Unusual :
    \E f \in {Contents(era, u, S)}, net \in Networks(era) :
      \E s \in TrueSequencers(f) :
        /\ origin = [era |-> era, sepolia |-> net.sepolia, skip |-> net.skip,
                     f |-> f, sequencer |-> s, hash |-> BlockHash(era, f, s)]
        /\ form = "feeder"
        /\ block = f
        /\ route = <<>>

Checked(f) == VerifyBlockHash([origin EXCEPT !.f = f])

\* sn2core.AdaptBlock and AdaptStateUpdate: the feeder's JSON has every field.
FromFeeder ==
  /\ form = "feeder"
  /\ form' = IF Checked(block) THEN "core" ELSE "refused"
  /\ UNCHANGED <<origin, block, route>>

\* A p2p server answers with the block, or panics on a price it has not got.
ToP2P ==
  /\ form = "core"
  /\ Len(route) < MaxHops
  /\ route' = Append(route, "p2p")
  /\ IF Absent \in {block["l1GasPriceETH"], block["l1GasPriceSTRK"]}
       THEN form' = "panic" /\ block' = block
       ELSE form' = "p2p" /\ block' = ToP2PContents(block)
  /\ UNCHANGED origin

\* The hash Sepolia's blocks from before 0.13.2 are known to have over p2p.
SepoliaBlockHashesMap == Post0132Hash(FromP2PContents(ToP2PContents(origin.f)))

\* adaptAndSanityCheckBlock
FromP2P ==
  /\ form = "p2p"
  /\ \E f \in {FromP2PContents(block)} :
       /\ block' = f
       /\ form' = IF /\ Checked(f)
                     /\ origin.sepolia /\ origin.era \in Old
                          => Post0132Hash(f) = SepoliaBlockHashesMap
                    THEN "core" ELSE "refused"
  /\ UNCHANGED <<origin, route>>

ToRPC ==
  /\ form = "core"
  /\ Len(route) < MaxHops
  /\ route' = Append(route, "rpc")
  /\ form' = "rpc"
  /\ block' = ToRPCContents(block)
  /\ UNCHANGED origin

\* rpc2core refuses a header without sequencer or without a price.
FromRPC ==
  /\ form = "rpc"
  /\ \E f \in {FromRPCContents(block)} :
       /\ block' = f
       /\ form' = IF /\ \A x \in Header : f[x] # Absent
                     /\ Checked(f)
                    THEN "core" ELSE "refused"
  /\ UNCHANGED <<origin, route>>

Next == FromFeeder \/ ToP2P \/ FromP2P \/ ToRPC \/ FromRPC

Spec == Init /\ [][Next]_vars

-----------------------------------------------------------------------------
(* Properties.                                                             *)

Crossed(p) == \E i \in 1..Len(route) : route[i] = p

LostOverP2P == {"l2Gas", "l1ToL2Message", "segmentArena"}
LostOverRPC == {"signatures", "l1ToL2Message", "steps", "segmentArena", "daL1DataGas"}

\* Fields that are nil in old blocks and that a protocol gives a value.
Defaulted == {"sequencerAddress", "l1GasPriceSTRK", "l1DataGasPrice", "l2GasPrice"} \cup Gas

\* Whatever nodes and protocols a stored block has come through, it is the
\* sequencer's block: the conversions (core2p2p, p2p2core, rpc/v10, rpc2core)
\* lose the fields listed for the protocols it crossed, give nil fields of old
\* blocks a value, and change nothing else.
BlockSurvives ==
  form = "core" =>
    \A x \in Fields :
      \/ block[x] = origin.f[x]
      \/ x \in Defaulted /\ origin.f[x] = Absent
      \/ x \in LostOverP2P /\ Crossed("p2p")
      \/ x \in LostOverRPC /\ Crossed("rpc")

\* A block the first node verified is refused further on only where a protocol
\* cannot carry it: over p2p, classes with the second compiled hash and migrated
\* ones, and L1 data gas after RPC dropped what it is taken from; over RPC, a
\* block hashed with the fallback sequencer address; over p2p on Sepolia, an old
\* block to which RPC gave prices or whose data gas it dropped.
BlockRefusedForAReason ==
  /\ form = "panic" => origin.f["l1GasPriceSTRK"] = Absent
  /\ form = "refused" =>
       LET f == origin.f
           over == route[Len(route)]
           lostDA == Crossed("rpc") /\ f["daL1DataGas"] = 1 IN
       /\ route # <<>>
       /\ \/ over = "rpc" /\ origin.era \in Old /\ f["sequencerAddress"] = Absent
             /\ origin.sequencer = Fallback
          \/ over = "p2p" /\ origin.era = "0.14.1"
             /\ (f["declaredV1"] # 0 \/ f["migrated"] # 0)
          \/ over = "p2p" /\ origin.era \notin Old
             /\ (lostDA \/ f["l1DataGas"] # f["daL1DataGas"])
          \/ over = "p2p" /\ origin.sepolia /\ origin.era \in Old /\ Crossed("rpc")
             /\ (lostDA \/ Absent \in {f["l1GasPriceSTRK"], f["l1DataGasPrice"]})
=============================================================================
