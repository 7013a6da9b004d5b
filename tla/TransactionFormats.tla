------------------------- MODULE TransactionFormats -------------------------
(***************************************************************************)
(* A transaction on its way between the nodes of the network.  Juno keeps  *)
(* it as a core.Transaction and converts it to and from                    *)
(*   - the JSON of the feeder gateway             (adapters/sn2core),       *)
(*   - the protobuf of p2p block sync             (core2p2p, p2p2core),     *)
(*   - the protobuf of proposals and the mempool  (consensus2p2p, ...),     *)
(*   - the JSON of the RPC API and of RPC sync    (rpc/v10, rpc2core),      *)
(*   - what a user submits                        (BroadcastedTransaction). *)
(* Every conversion either drops a field, renames it or fills one in, and   *)
(* the transaction's hash is recomputed at the other end.  The variables    *)
(* follow one transaction through any chain of conversions.                 *)
(*                                                                         *)
(* A field holds 0 or 1 (two felts the adapters must not mix up; an empty   *)
(* and a non-empty list), or Absent, Go's nil.  A hash is the sequence of   *)
(* the values hashed, so two hashes agree exactly when their inputs do.     *)
(***************************************************************************)
EXTENDS Integers, Sequences, FiniteSets

CONSTANTS MaxHops,     \* conversions into core form that a transaction makes
          MaxUnusual   \* fields of a transaction that differ from the others

VARIABLES origin,      \* the transaction as it entered the network
          form,        \* the representation it is in
          tx,          \* its present contents in that representation
          hops,        \* conversions into core form so far
          overP2P      \* whether it has crossed a p2p protocol

vars == <<origin, form, tx, hops, overP2P>>

Absent == -1
NilPrice == -2     \* a resource bound with amount 0 and no price

Pointers == {"contractAddress", "entryPointSelector", "nonce", "maxFee",
             "senderAddress", "classHash", "compiledClassHash", "salt",
             "l1Gas", "l2Gas", "l1DataGas"}
Others == {"callData", "signature", "tip", "paymasterData",
           "accountDeploymentData", "nonceDAMode", "feeDAMode", "proofFacts"}
Fields == Pointers \cup Others

\* A struct literal that names the fields S: the rest are nil, 0 or empty.
Only(f, S) ==
  [x \in Fields |-> IF x \in S THEN f[x] ELSE IF x \in Pointers THEN Absent ELSE 0]

-----------------------------------------------------------------------------
(* What each type of transaction has, and how its hash is computed.        *)

Bounds == {"l1Gas", "l2Gas", "l1DataGas"}
V3Fields == {"nonce", "signature", "tip", "paymasterData", "nonceDAMode",
             "feeDAMode"} \cup Bounds

DeployFields == {"classHash", "salt", "callData", "contractAddress"}

DeployAccountFields(version) ==
  DeployFields \cup IF version = 3 THEN V3Fields ELSE {"nonce", "signature", "maxFee"}

InvokeFields(version) ==
  {"callData", "signature"} \cup
    CASE version = 0 -> {"contractAddress", "entryPointSelector", "maxFee"}
      [] version = 1 -> {"senderAddress", "maxFee", "nonce"}
      [] version = 3 -> V3Fields \cup {"senderAddress", "accountDeploymentData",
                                       "proofFacts"}

DeclareFields(version) ==
  {"classHash", "senderAddress", "signature"} \cup
    CASE version = 0 -> {"maxFee"}
      [] version = 1 -> {"maxFee", "nonce"}
      [] version = 2 -> {"maxFee", "nonce", "compiledClassHash"}
      [] version = 3 -> V3Fields \cup {"compiledClassHash", "accountDeploymentData"}

L1HandlerFields == {"contractAddress", "entryPointSelector", "nonce", "callData"}

FieldsOf(kind, version) ==
  CASE kind = "deploy" -> DeployFields
    [] kind = "deployAccount" -> DeployAccountFields(version)
    [] kind = "invoke" -> InvokeFields(version)
    [] kind = "declare" -> DeclareFields(version)
    [] kind = "l1Handler" -> L1HandlerFields

\* The address a deployment gives its contract (values 0 and 1 are addresses
\* that no deployment produced).
ContractAddress(f) == 2 + f["classHash"] + 2 * f["salt"] + 4 * f["callData"]

tipAndResourcesHash(f) ==
  <<f["tip"], f["l1Gas"], f["l2Gas"]>> \o
    IF f["l1DataGas"] \in {Absent, NilPrice} THEN <<>> ELSE <<f["l1DataGas"]>>

dataAvailabilityMode(f) == f["feeDAMode"] + 2 * f["nonceDAMode"]

invokeTransactionHash(t) ==
  LET f == t.f IN
  CASE t.version = 0 ->
         <<f["contractAddress"], f["entryPointSelector"], f["callData"], f["maxFee"]>>
    [] t.version = 1 ->
         <<f["senderAddress"], f["callData"], f["maxFee"], f["nonce"]>>
    [] t.version = 3 ->
         <<f["senderAddress"], tipAndResourcesHash(f), f["paymasterData"], f["nonce"],
           dataAvailabilityMode(f), f["accountDeploymentData"], f["callData"]>>
           \o IF f["proofFacts"] = 1 THEN <<f["proofFacts"]>> ELSE <<>>

declareTransactionHash(t) ==
  LET f == t.f IN
  CASE t.version = 0 -> t.hash
    [] t.version = 1 ->
         <<f["senderAddress"], f["classHash"], f["maxFee"], f["nonce"]>>
    [] t.version = 2 ->
         <<f["senderAddress"], f["classHash"], f["maxFee"], f["nonce"],
           f["compiledClassHash"]>>
    [] t.version = 3 ->
         <<f["senderAddress"], tipAndResourcesHash(f), f["paymasterData"], f["nonce"],
           dataAvailabilityMode(f), f["accountDeploymentData"], f["classHash"],
           f["compiledClassHash"]>>

l1HandlerTransactionHash(t) ==
  LET f == t.f IN
  IF f["nonce"] = Absent
    THEN t.hash
    ELSE <<f["contractAddress"], f["entryPointSelector"], f["callData"], f["nonce"]>>

deployAccountTransactionHash(t) ==
  LET f == t.f IN
  CASE t.version = 1 ->
         <<f["contractAddress"], f["classHash"], f["salt"], f["callData"],
           f["maxFee"], f["nonce"]>>
    [] t.version = 3 ->
         <<f["contractAddress"], tipAndResourcesHash(f), f["paymasterData"], f["nonce"],
           dataAvailabilityMode(f), f["callData"], f["classHash"], f["salt"]>>

TransactionHash(t) ==
  CASE t.kind = "declare" -> declareTransactionHash(t)
    [] t.kind = "invoke" -> invokeTransactionHash(t)
    [] t.kind = "deploy" -> t.hash
    [] t.kind = "l1Handler" -> l1HandlerTransactionHash(t)
    [] t.kind = "deployAccount" -> deployAccountTransactionHash(t)

\* VerifyTransactions leaves the blocks before 0.11.0 alone, the only ones whose
\* L1 handlers have no nonce.
VerifyTransactions(t, old) == old \/ TransactionHash(t) = t.hash

-----------------------------------------------------------------------------
(* The feeder gateway (adapters/sn2core).  One JSON type serves every       *)
(* transaction; a deployment may come without the address it creates.       *)

AdaptDeployTransaction(f) ==
  [Only(f, DeployFields) EXCEPT !["contractAddress"] = IF @ = Absent THEN ContractAddress(f) ELSE @]

AdaptDeployAccountTransaction(f) ==
  [Only(f, DeployAccountFields(1) \cup DeployAccountFields(3)) EXCEPT
     !["contractAddress"] = AdaptDeployTransaction(f)["contractAddress"]]

AdaptInvokeTransaction(f) ==
  Only(f, {"nonce"} \cup InvokeFields(0) \cup InvokeFields(1) \cup InvokeFields(3))

AdaptDeclareTransaction(f) == Only(f, DeclareFields(2) \cup DeclareFields(3))

AdaptL1HandlerTransaction(f) == Only(f, L1HandlerFields)

AdaptFeederTransaction(t) ==
  [t EXCEPT !.f =
     CASE t.kind = "deploy" -> AdaptDeployTransaction(t.f)
       [] t.kind = "deployAccount" -> AdaptDeployAccountTransaction(t.f)
       [] t.kind = "invoke" -> AdaptInvokeTransaction(t.f)
       [] t.kind = "declare" -> AdaptDeclareTransaction(t.f)
       [] t.kind = "l1Handler" -> AdaptL1HandlerTransaction(t.f)]

-----------------------------------------------------------------------------
(* P2P block sync (core2p2p, p2p2core).  The message always has all three   *)
(* resource bounds; it has neither proof facts nor deployed addresses.      *)

adaptResourceLimits(f) ==
  [f EXCEPT !["l1DataGas"] = IF @ = Absent THEN NilPrice ELSE @]

ToDeclareV3Common(f) == adaptResourceLimits(Only(f, DeclareFields(3)))

ToDeployAccountV3(f) ==
  adaptResourceLimits(Only(f, DeployAccountFields(3) \ {"contractAddress"}))

ToInvokeV3(f) == adaptResourceLimits(Only(f, InvokeFields(3) \ {"proofFacts"}))

ToDeploy(f) == Only(f, DeployFields \ {"contractAddress"})

ToL1Handler(f) == Only(f, L1HandlerFields)

ToP2P(t) ==
  [t EXCEPT !.f =
     CASE t.kind = "deploy" -> ToDeploy(t.f)
       [] t.kind = "deployAccount" /\ t.version = 1 ->
            Only(t.f, DeployAccountFields(1) \ {"contractAddress"})
       [] t.kind = "deployAccount" /\ t.version = 3 -> ToDeployAccountV3(t.f)
       [] t.kind = "declare" /\ t.version < 3 -> Only(t.f, DeclareFields(t.version))
       [] t.kind = "declare" /\ t.version = 3 -> ToDeclareV3Common(t.f)
       [] t.kind = "invoke" /\ t.version < 3 -> Only(t.f, InvokeFields(t.version))
       [] t.kind = "invoke" /\ t.version = 3 -> ToInvokeV3(t.f)
       [] t.kind = "l1Handler" -> ToL1Handler(t.f)]

\* The address is computed again from what the message does carry.
AdaptDeployTxnCommon(f) ==
  [Only(f, DeployFields) EXCEPT !["contractAddress"] = ContractAddress(f)]

AdaptDeployAccountV1TxnCommon(f) ==
  [Only(f, DeployAccountFields(1)) EXCEPT !["contractAddress"] = ContractAddress(f)]

AdaptDeployAccountV3TxnCommon(f) ==
  [Only(f, DeployAccountFields(3)) EXCEPT !["contractAddress"] = ContractAddress(f)]

AdaptDeclareV0TxnCommon(f) == Only(f, DeclareFields(0))

AdaptDeclareV1TxnCommon(f) == Only(f, DeclareFields(1))

AdaptDeclareV2TxnCommon(f) == Only(f, DeclareFields(2))

AdaptDeclareV3TxnCommon(f) == Only(f, DeclareFields(3))

AdaptInvokeV0TxnCommon(f) == Only(f, InvokeFields(0))

AdaptInvokeV1TxnCommon(f) == Only(f, InvokeFields(1))

\* "AccountDeploymentData: nil, // todo(kirill) recheck"
AdaptInvokeV3TxnCommon(f) ==
  Only(f, InvokeFields(3) \ {"accountDeploymentData", "proofFacts"})

AdaptL1Handler(f) == Only(f, L1HandlerFields)

FromP2P(t) ==
  [t EXCEPT !.f =
     CASE t.kind = "deploy" -> AdaptDeployTxnCommon(t.f)
       [] t.kind = "deployAccount" /\ t.version = 1 -> AdaptDeployAccountV1TxnCommon(t.f)
       [] t.kind = "deployAccount" /\ t.version = 3 -> AdaptDeployAccountV3TxnCommon(t.f)
       [] t.kind = "declare" /\ t.version = 0 -> AdaptDeclareV0TxnCommon(t.f)
       [] t.kind = "declare" /\ t.version = 1 -> AdaptDeclareV1TxnCommon(t.f)
       [] t.kind = "declare" /\ t.version = 2 -> AdaptDeclareV2TxnCommon(t.f)
       [] t.kind = "declare" /\ t.version = 3 -> AdaptDeclareV3TxnCommon(t.f)
       [] t.kind = "invoke" /\ t.version = 0 -> AdaptInvokeV0TxnCommon(t.f)
       [] t.kind = "invoke" /\ t.version = 1 -> AdaptInvokeV1TxnCommon(t.f)
       [] t.kind = "invoke" /\ t.version = 3 -> AdaptInvokeV3TxnCommon(t.f)
       [] t.kind = "l1Handler" -> AdaptL1Handler(t.f)]

-----------------------------------------------------------------------------
(* Proposals and the p2p mempool: the same messages, for version 3 only (and *)
(* L1 handlers in proposals).  The receiver recomputes the hash and refuses  *)
(* a transaction whose hash differs; a declaration comes with its class,     *)
(* whose hash replaces the class hash field.                                 *)

Spread(t) ==
  [t EXCEPT !.f =
     CASE t.kind = "declare" -> ToDeclareV3Common(t.f)
       [] t.kind = "deployAccount" -> ToDeployAccountV3(t.f)
       [] t.kind = "invoke" -> ToInvokeV3(t.f)
       [] t.kind = "l1Handler" -> ToL1Handler(t.f)]

Gather(t) ==
  [t EXCEPT !.f =
     CASE t.kind = "declare" -> AdaptDeclareV3TxnCommon(t.f)
       [] t.kind = "deployAccount" -> AdaptDeployAccountV3TxnCommon(t.f)
       [] t.kind = "invoke" -> AdaptInvokeV3TxnCommon(t.f)
       [] t.kind = "l1Handler" -> AdaptL1Handler(t.f)]

-----------------------------------------------------------------------------
(* The RPC API (rpc/v10) and RPC sync (rpc2core).  The receipt beside the    *)
(* transaction carries the address a deployment creates.                     *)


\* An absent bound is served as zero, for the API cannot leave it out.
adaptCoreResourceBounds(f) == [f EXCEPT !["l1DataGas"] = IF @ = Absent THEN 0 ELSE @]

RpcInvoke(t) ==
  IF t.version = 3 THEN adaptCoreResourceBounds(Only(t.f, InvokeFields(3)))
                   ELSE Only(t.f, {"nonce"} \cup InvokeFields(0) \cup InvokeFields(1))

RpcDeclare(t) ==
  IF t.version = 3 THEN adaptCoreResourceBounds(Only(t.f, DeclareFields(3)))
                   ELSE Only(t.f, DeclareFields(2))

RpcDeployAccount(t) ==
  IF t.version = 3 THEN adaptCoreResourceBounds(Only(t.f, DeployAccountFields(3)))
                   ELSE Only(t.f, DeployAccountFields(1))

AdaptCoreTransaction(t) ==
  LET f == CASE t.kind = "deploy" -> Only(t.f, DeployFields)
             [] t.kind = "invoke" -> RpcInvoke(t)
             [] t.kind = "declare" -> RpcDeclare(t)
             [] t.kind = "deployAccount" -> RpcDeployAccount(t)
             [] t.kind = "l1Handler" ->
                  [Only(t.f, L1HandlerFields) EXCEPT !["nonce"] = IF @ = Absent THEN 0 ELSE @]
  IN [t EXCEPT !.f = IF t.version = 0 /\ t.kind # "l1Handler"
                       THEN [f EXCEPT !["nonce"] = Absent] ELSE f]

\* The fields without which rpc2core refuses a transaction.
RequiredOfDeclare(version) == IF version = 0 THEN {} ELSE DeclareFields(version)
RequiredOfDeploy == {"contractAddress"}
RequiredOfDeployAccount(version) == DeployAccountFields(version)
RequiredOfInvoke(version) == InvokeFields(version)
RequiredOfL1Handler == {"contractAddress", "entryPointSelector"}

Required(t) ==
  CASE t.kind = "deploy" -> RequiredOfDeploy
    [] t.kind = "deployAccount" -> RequiredOfDeployAccount(t.version)
    [] t.kind = "invoke" -> RequiredOfInvoke(t.version)
    [] t.kind = "declare" -> RequiredOfDeclare(t.version)
    [] t.kind = "l1Handler" -> RequiredOfL1Handler

Missing(t) ==
  \/ \E x \in Required(t) : t.f[x] \in {Absent, NilPrice}
  \/ t.kind = "l1Handler" /\ t.f["callData"] = 0

\* Mutant: a zero bound is taken for an absent one.
dropZeroL1DataGasBounds(t) ==
  IF t.f["l1DataGas"] = 0 THEN [t EXCEPT !.f["l1DataGas"] = Absent] ELSE t

\* Only the hash tells a bound that was set to zero from one that was absent.
dropAbsentL1DataGasBounds(t) ==
  IF t.f["l1DataGas"] = 0 /\ TransactionHash(t) # t.hash
    THEN [t EXCEPT !.f["l1DataGas"] = Absent] ELSE t

\* What a user submits, always version 3 and without a hash, becomes a core
\* transaction with the hash computed from it.  Version 0.9 of the API goes
\* through the feeder's representation and knows no proof facts.
AdaptBroadcastedTransactionToCore(t) ==
  LET c == [t EXCEPT !.f["contractAddress"] =
                       IF t.kind = "deployAccount" THEN ContractAddress(t.f) ELSE Absent]
  IN [c EXCEPT !.hash = TransactionHash(c)]

AdaptBroadcastedTransactionV9(t) ==
  LET c == AdaptFeederTransaction(t) IN [c EXCEPT !.hash = TransactionHash(c)]

-----------------------------------------------------------------------------
(* The transactions that exist and their journeys.                         *)

Types == {<<"deploy", 0>>, <<"deployAccount", 1>>, <<"deployAccount", 3>>,
          <<"invoke", 0>>, <<"invoke", 1>>, <<"invoke", 3>>, <<"declare", 0>>,
          <<"declare", 1>>, <<"declare", 2>>, <<"declare", 3>>, <<"l1Handler", 0>>}

\* All fields alike, except for at most MaxUnusual of them.
Contents(k, v) ==
  {[x \in Fields |->
      IF x \notin FieldsOf(k, v) \/ (x = "contractAddress" /\ k \in {"deploy", "deployAccount"})
        THEN Only([y \in Fields |-> 0], {})[x]
        ELSE IF x = "callData" /\ k = "l1Handler" THEN 1
        ELSE IF x \in U THEN 1 - usual ELSE usual] :
     usual \in 0..1,
     U \in {S \in SUBSET FieldsOf(k, v) : Cardinality(S) <= MaxUnusual}}

\* A version 3 transaction from before 0.13.4 has no bound on L1 data gas, and an
\* L1 handler from before 0.11.0 no nonce; a version 0 one may have a nonce.
Variants(k, v, f) ==
  {f} \cup CASE v = 3 -> {[f EXCEPT !["l1DataGas"] = Absent]}
             [] k = "l1Handler" -> {[f EXCEPT !["nonce"] = Absent]}
             [] v = 0 /\ k \in {"invoke", "declare"} -> {[f EXCEPT !["nonce"] = 0]}
             [] OTHER -> {}

Old(t) == t.kind = "l1Handler" /\ t.f["nonce"] = Absent

\* The sequencer's hash covers the deployed address.
WithHash(t) == [t EXCEPT !.hash = TransactionHash(AdaptFeederTransaction(t))]

\* In blocks: the hash is the sequencer's.  Submitted: version 3, all bounds.
FromFeeder ==
  {WithHash([kind |-> kv[1], version |-> kv[2], hash |-> <<>>, f |-> g]) :
     <<kv, g>> \in UNION {{<<kv, g>> : g \in UNION {Variants(kv[1], kv[2], f) :
                                          f \in Contents(kv[1], kv[2])}} : kv \in Types}}

FromUser ==
  {[t EXCEPT !.hash = <<>>] :
     t \in {u \in FromFeeder : u.version = 3 /\ u.f["l1DataGas"] # Absent}}

Init ==
  /\ \/ form = "feeder" /\ origin \in FromFeeder
     \/ form = "user" /\ origin \in FromUser
     \/ form = "user9" /\ origin \in {t \in FromUser : t.f["proofFacts"] = 0}
  /\ tx = origin
  /\ hops = 0
  /\ overP2P = FALSE

Becomes(newForm, t) == form' = newForm /\ tx' = t
ToCore(t) == Becomes("core", t) /\ hops' = hops + 1 /\ UNCHANGED <<origin, overP2P>>
Refuse == Becomes("refused", tx) /\ UNCHANGED <<origin, hops, overP2P>>
FromCore(newForm, t) ==
  form = "core" /\ hops < MaxHops /\ Becomes(newForm, t) /\ UNCHANGED <<origin, hops>>

FetchFromFeeder == form = "feeder" /\ ToCore(AdaptFeederTransaction(tx))
AddTransaction ==
  \/ form = "user" /\ ToCore(AdaptBroadcastedTransactionToCore(tx))
  \/ form = "user9" /\ ToCore(AdaptBroadcastedTransactionV9(tx))
\* The gateway gives the transaction its hash and the feeder serves it in a block.
PushToFeederGateway ==
  form \in {"user", "user9"} /\ Becomes("feeder", WithHash(tx)) /\ UNCHANGED <<origin, hops, overP2P>>

ServeP2P == FromCore("p2p", ToP2P(tx)) /\ overP2P' = TRUE
SyncP2P == form = "p2p" /\ ToCore(FromP2P(tx))

\* Only new transactions are proposed: version 3, and L1 handlers with a nonce.
Broadcast ==
  /\ tx.version = 3 \/ (tx.kind = "l1Handler" /\ ~Old(origin))
  /\ FromCore("spread", Spread(tx))
  /\ overP2P' = TRUE
Receive ==
  /\ form = "spread"
  /\ LET t == [Gather(tx) EXCEPT !.f["classHash"] =
                 IF tx.kind = "declare" THEN origin.f["classHash"] ELSE @]
     IN IF TransactionHash(t) = t.hash THEN ToCore(t) ELSE Refuse

ServeRPC == FromCore("rpc", AdaptCoreTransaction(tx)) /\ UNCHANGED overP2P
SyncRPC ==
  /\ form = "rpc"
  /\ IF Missing(tx) THEN Refuse ELSE ToCore(dropAbsentL1DataGasBounds(tx))

Done == (form = "refused" \/ (form = "core" /\ hops = MaxHops)) /\ UNCHANGED vars

Next == FetchFromFeeder \/ AddTransaction \/ PushToFeederGateway \/ ServeP2P \/ SyncP2P
        \/ Broadcast \/ Receive \/ ServeRPC \/ SyncRPC \/ Done

Spec == Init /\ [][Next]_vars

-----------------------------------------------------------------------------
TypeOK ==
  /\ form \in {"feeder", "user", "user9", "core", "p2p", "spread", "rpc", "refused"}
  /\ hops \in 0..MaxHops
  /\ DOMAIN tx.f = Fields

\* What the p2p protocols lose of an invoke transaction.
LosesFields == overP2P /\ origin.kind = "invoke" /\ origin.version = 3
               /\ (origin.f["accountDeploymentData"] = 1 \/ origin.f["proofFacts"] = 1)

Same(x, a, b) ==
  \/ a = b
  \/ x = "l1DataGas" /\ {a, b} \subseteq {Absent, NilPrice}
  \/ x = "nonce" /\ origin.version = 0 /\ (origin.kind = "l1Handler" => Old(origin) /\ a = 0)


\* A transaction that is valid is refused for two reasons only: the fields that p2p
\* lost, and a bound on L1 data gas that was never set, which reaches the RPC API of
\* a node that synced over p2p as a bound without a price.
RefusedForAReason ==
  form = "refused" => LosesFields \/ (overP2P /\ tx.f["l1DataGas"] = NilPrice)
=============================================================================
