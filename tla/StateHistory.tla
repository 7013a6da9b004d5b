---------------------------- MODULE StateHistory ----------------------------
(***************************************************************************)
(* The state of the chain in the database: the head, and enough history to  *)
(* read the state after any retained block and to undo the last one.  Both  *)
(* layouts are modelled.  The old one (core/deprecatedstate) records what a *)
(* key held before the block that changed it; the new one (core/state) what *)
(* it holds after that block.  The pruner (pruner/accessors.go) deletes the *)
(* history of old blocks in several batches while blocks are stored and     *)
(* reverted, and the node may crash between two of them.                    *)
(*                                                                         *)
(* One contract with a class, a nonce and a storage slot, one system        *)
(* contract with a slot, a Cairo 0 class and a Sierra class.  A state diff  *)
(* is a function from the fields it mentions to their new values.           *)
(***************************************************************************)
EXTENDS Integers, Sequences, FiniteSets

CONSTANTS Features,       \* fields that a state diff may mention
          MaxHeight,      \* last block
          MaxReverts,     \* blocks reverted
          MaxTouched,     \* fields mentioned by one diff
          Ver0_14_1,      \* first block of that protocol version
          Cancels, Crashes \* BOOLEAN: whether pruning is interrupted

VARIABLES layout,         \* "new" or "old"
          truth,          \* the states after blocks 0, 1, ..., from their diffs
          diffs,          \* the diffs of blocks 0, 1, ...
          head,           \* what the head of the state holds, by field
          hist,           \* history entries: field -> (block -> value)
          deployedAt,     \* deployment heights of the two contracts
          classAt,        \* DeclaredClassDefinition.At of the two classes
          casm,           \* ClassCasmHashMetadata of the Sierra class
          oldest,         \* OldestRetainedBlock
          byHash,         \* blocks with a hash -> number mapping
          floor,          \* RetentionFloor
          pruning,        \* the call of PruneUpto under way
          l1,             \* blocks up to here are never reverted
          reverts, stuck

chain == <<truth, diffs, head, hist, deployedAt, classAt, casm>>
vars == <<layout, chain, oldest, byHash, floor, pruning, l1, reverts, stuck>>

Never == -1
Fields == {"class", "nonce", "slot", "sys"}
OwnerOf(f) == IF f = "sys" THEN "sys" ELSE "contract"
Height == Len(diffs) - 1
Min(S) == CHOOSE x \in S : \A y \in S : x <= y
Max(S) == CHOOSE x \in S : \A y \in S : x >= y
NoPrune == [end |-> Never]

-----------------------------------------------------------------------------
(* What the diffs say, read one after the other: the reference.             *)

Before == [class |-> Never, nonce |-> Never, slot |-> Never, sys |-> Never,
           v0 |-> Never, v1 |-> Never]
StateAfter(s, d, n) ==
  LET get(f, old) == IF f \in DOMAIN d THEN d[f] ELSE old
      fresh(f) == IF "deploy" \in DOMAIN d THEN 0 ELSE s[f] IN
  [class |-> get("replace", get("deploy", s.class)),
   nonce |-> get("nonce", fresh("nonce")), slot |-> get("slot", fresh("slot")),
   sys |-> get("sys", s.sys),
   v0 |-> IF "v0" \in DOMAIN d THEN 1 ELSE s.v0,
   v1 |-> CASE "v1" \in DOMAIN d -> IF n >= Ver0_14_1 THEN 2 ELSE 1
            [] "migrate" \in DOMAIN d -> 2
            [] OTHER -> s.v1]

Last == IF truth = <<>> THEN Before ELSE truth[Len(truth)]
At(h) == IF h < 0 THEN Before ELSE truth[h + 1]

\* The diffs a block may have: fields change, contracts exist, classes are
\* declared once (Cairo 0 classes may be declared again) and migrated once, by
\* a later block.
ValuesOf(f) == IF f \in {"v0", "v1", "migrate"} THEN {1} ELSE IF f = "slot" THEN {0, 1} ELSE {1, 2}
Possible(d) ==
  /\ "deploy" \in DOMAIN d => Last.class = Never
  /\ DOMAIN d \cap {"replace", "nonce", "slot"} # {} => Last.class # Never \/ "deploy" \in DOMAIN d
  /\ \A f \in DOMAIN d \cap {"nonce", "sys"} : d[f] # Last[f]
  /\ "slot" \in DOMAIN d => d["slot"] # (IF Last.slot = Never THEN 0 ELSE Last.slot)
  /\ "v1" \in DOMAIN d => Last.v1 = Never
  /\ "migrate" \in DOMAIN d => Last.v1 = 1 /\ Len(diffs) >= Ver0_14_1
Touched == {S \in SUBSET Features : Cardinality(S) <= MaxTouched}
Diffs == UNION {{d \in [S -> 0 .. 2] : \A f \in S : d[f] \in ValuesOf(f)} : S \in Touched}

-----------------------------------------------------------------------------
(* ClassCasmHashMetadata.                                                   *)

NewCasmHashMetadataDeclaredV1(n) == [declaredAt |-> n, migratedAt |-> 0, v1 |-> TRUE]
NewCasmHashMetadataDeclaredV2(n) == [declaredAt |-> n, migratedAt |-> 0, v1 |-> FALSE]
NoCasm == [declaredAt |-> Never, migratedAt |-> 0, v1 |-> FALSE]
IsMigratedAt(m, h) == m.migratedAt > 0 /\ m.migratedAt <= h
CasmHashAt(m, h) ==
  IF m.declaredAt = Never \/ m.declaredAt > h THEN Never
  ELSE IF ~ m.v1 \/ IsMigratedAt(m, h) THEN 2 ELSE 1
Migrate(m, n) == [m EXCEPT !.migratedAt = n]
Unmigrate(m) == [m EXCEPT !.migratedAt = 0]

storeCasmHashMetadata(m, d, n) ==
  CASE "v1" \in DOMAIN d -> IF n >= Ver0_14_1 THEN NewCasmHashMetadataDeclaredV2(n)
                            ELSE NewCasmHashMetadataDeclaredV1(n)
    [] "migrate" \in DOMAIN d -> Migrate(m, n)
    [] OTHER -> m
revertCasmHashMetadata(m, d) ==
  CASE "v1" \in DOMAIN d -> NoCasm
    [] "migrate" \in DOMAIN d -> Unmigrate(m)
    [] OTHER -> m

-----------------------------------------------------------------------------
(* Writing.                                                                 *)

WithEntry(e, n, v) == [b \in DOMAIN e \cup {n} |-> IF b = n THEN v ELSE e[b]]
Without(e, S) == [b \in DOMAIN e \ S |-> e[b]]
Log(fields, n, value) ==
  [f \in Fields |-> IF f \in fields THEN WithEntry(hist[f], n, value[f]) ELSE hist[f]]
Erase(fields, n) == [f \in Fields |-> IF f \in fields THEN Without(hist[f], {n}) ELSE hist[f]]

\* The contract deployed by the diff, if any, with nonce and storage zero.
DeployContract(d) ==
  [f \in Fields |-> IF "deploy" \in DOMAIN d /\ OwnerOf(f) = "contract"
                    THEN IF f = "class" THEN d["deploy"] ELSE 0 ELSE head[f]]
\* A system contract exists from the first write to its storage.
putNewContract(d) ==
  IF "sys" \in DOMAIN d /\ deployedAt.sys = Never THEN [DeployContract(d) EXCEPT !.sys = 0]
  ELSE DeployContract(d)
newContractDeployed(d, n) ==
  [contract |-> IF "deploy" \in DOMAIN d THEN n ELSE deployedAt.contract,
   sys |-> IF "sys" \in DOMAIN d /\ deployedAt.sys = Never THEN n ELSE deployedAt.sys]

replaceContract(s, d) == IF "replace" \in DOMAIN d THEN [s EXCEPT !.class = d["replace"]] ELSE s
updateContractNonce(s, d) == IF "nonce" \in DOMAIN d THEN [s EXCEPT !.nonce = d["nonce"]] ELSE s
updateContractStorages(s, d) ==
  [f \in Fields |-> IF f \in {"slot", "sys"} \cap DOMAIN d THEN d[f] ELSE s[f]]
updateContracts(s, d) == updateContractStorages(updateContractNonce(replaceContract(s, d), d), d)

\* New layout: what each field holds after the block, deployed classes included
\* and replaced ones over them.
newLogged(d) == {f \in Fields : f \in DOMAIN d \/ (f = "class" /\ DOMAIN d \cap {"deploy", "replace"} # {})}
writeHistory(d, n) == Log(newLogged(d), n, updateContracts(putNewContract(d), d))
\* Old layout: what it held before the change, which for a contract deployed by
\* the same block is what the deployment gave it.
oldLogged(d) == {f \in Fields : f \in DOMAIN d \/ (f = "class" /\ "replace" \in DOMAIN d)}
logChanges(d, n) == Log(oldLogged(d), n, putNewContract(d))

\* A class already there is kept with the height it was declared at.
putClass(d, n) ==
  [c \in {"v0", "v1"} |-> IF c \in DOMAIN d /\ classAt[c] = Never THEN n ELSE classAt[c]]

\* Both backends write the whole block in one batch.
writeBlockContent(d, n) ==
  /\ truth' = Append(truth, StateAfter(Last, d, n)) /\ diffs' = Append(diffs, d)
  /\ byHash' = byHash \cup {n}
  /\ oldest' = IF oldest = Never THEN n ELSE oldest

StoreNew ==
  LET n == Len(diffs) IN
  /\ layout = "new" /\ ~ stuck /\ n <= MaxHeight
  /\ \E d \in Diffs :
       /\ Possible(d)
       /\ head' = updateContracts(putNewContract(d), d)
       /\ hist' = writeHistory(d, n)
       /\ deployedAt' = newContractDeployed(d, n)
       /\ classAt' = putClass(d, n)
       /\ casm' = storeCasmHashMetadata(casm, d, n)
       /\ writeBlockContent(d, n)
  /\ UNCHANGED <<layout, floor, pruning, l1, reverts, stuck>>

StoreOld ==
  LET n == Len(diffs) IN
  /\ layout = "old" /\ ~ stuck /\ n <= MaxHeight
  /\ \E d \in Diffs :
       /\ Possible(d)
       /\ head' = updateContracts(putNewContract(d), d)
       /\ hist' = logChanges(d, n)
       /\ deployedAt' = newContractDeployed(d, n)
       /\ classAt' = putClass(d, n)
       /\ casm' = storeCasmHashMetadata(casm, d, n)
       /\ writeBlockContent(d, n)
  /\ UNCHANGED <<layout, floor, pruning, l1, reverts, stuck>>

-----------------------------------------------------------------------------
(* Reading the state after block h.                                         *)

\* The last entry at or before h, else zero.
valueAtNew(f, h) ==
  LET S == {b \in DOMAIN hist[f] : b <= h} IN IF S = {} THEN 0 ELSE hist[f][Max(S)]
\* The first entry after h, else the head.
valueAtOld(f, h) ==
  LET S == {b \in DOMAIN hist[f] : b > h} IN IF S = {} THEN head[f] ELSE hist[f][Min(S)]

ContractDeployedAt(f, h) == deployedAt[OwnerOf(f)] # Never /\ deployedAt[OwnerOf(f)] <= h

ReadNew(f, h) == IF ContractDeployedAt(f, h) THEN valueAtNew(f, h) ELSE Never
\* Storage answers before it looks at the deployment, if the value is not zero.
ReadOld(f, h) ==
  IF ContractDeployedAt(f, h) \/ (f \in {"slot", "sys"} /\ valueAtOld(f, h) > 0)
  THEN valueAtOld(f, h) ELSE Never
ReadField(f, h) == IF layout = "new" THEN ReadNew(f, h) ELSE ReadOld(f, h)
ReadClass(h) == IF classAt.v0 # Never /\ classAt.v0 <= h THEN 1 ELSE Never

\* The two ways to open it.
StateAtBlockNumber(h) == h >= floor /\ h <= Height
StateAtBlockHash(h) == h \in byHash

-----------------------------------------------------------------------------
(* Reverting the head.  The root is checked against the state before the    *)
(* block; an error leaves everything as it was.                             *)

Undone(d) == DOMAIN d \cap {"replace", "nonce", "slot", "sys"}
FieldOf(u) == IF u = "replace" THEN "class" ELSE u
\* GetReverseStateDiff: values of the parent, zero for the first block.
reverseNew(d, n) == [u \in Undone(d) |-> IF n = 0 THEN 0 ELSE valueAtNew(FieldOf(u), n - 1)]
reverseOld(d, n) == [u \in Undone(d) |-> IF n = 0 THEN 0 ELSE valueAtOld(FieldOf(u), n - 1)]

deleteHistory(d, n) ==
  Erase(newLogged(d) \cup (IF "deploy" \in DOMAIN d THEN {"nonce"} ELSE {}), n)
performStateDeletions(d, n) == Erase(oldLogged(d), n)

\* Only if this block is the one that declared it.
removeDeclaredClasses(d, n) ==
  [c \in {"v0", "v1"} |-> IF c \in DOMAIN d /\ classAt[c] = n THEN Never ELSE classAt[c]]

purgeContract(s, d) ==
  [f \in Fields |-> IF "deploy" \in DOMAIN d /\ OwnerOf(f) = "contract" THEN Never ELSE s[f]]
\* A system contract whose storage is empty again.
purgesystemContracts(s) == IF s.sys = 0 THEN [s EXCEPT !.sys = Never] ELSE s

RootsAgree(s, c, n) ==
  (\A f \in Fields : s[f] = At(n - 1)[f]) /\ CasmHashAt(c, n) = At(n - 1).v1

deleteBlockContent(n) ==
  /\ truth' = SubSeq(truth, 1, n) /\ diffs' = SubSeq(diffs, 1, n)
  /\ byHash' = byHash \ {n}
  /\ oldest' = IF n = 0 THEN Never ELSE oldest

Restore(s, d, n) ==
  /\ head' = s
  /\ deployedAt' = [contract |-> IF "deploy" \in DOMAIN d THEN Never ELSE deployedAt.contract,
                    sys |-> IF s.sys = Never THEN Never ELSE deployedAt.sys]
  /\ classAt' = removeDeclaredClasses(d, n)
  /\ casm' = revertCasmHashMetadata(casm, d)

MayRevert == Height > l1 /\ reverts < MaxReverts /\ ~ stuck

RevertNew ==
  LET n == Height
      d == diffs[n + 1]
      s == purgesystemContracts(purgeContract(updateContracts(head, reverseNew(d, n)), d)) IN
  /\ layout = "new" /\ MayRevert
  /\ IF RootsAgree(s, revertCasmHashMetadata(casm, d), n)
     THEN Restore(s, d, n) /\ hist' = deleteHistory(d, n) /\ deleteBlockContent(n) /\ UNCHANGED stuck
     ELSE stuck' = TRUE /\ UNCHANGED <<chain, oldest, byHash>>
  /\ reverts' = reverts + 1
  /\ UNCHANGED <<layout, floor, pruning, l1>>

RevertOld ==
  LET n == Height
      d == diffs[n + 1]
      s == purgesystemContracts(purgeContract(updateContracts(head, reverseOld(d, n)), d)) IN
  /\ layout = "old" /\ MayRevert
  /\ IF RootsAgree(s, revertCasmHashMetadata(casm, d), n)
     THEN Restore(s, d, n) /\ hist' = performStateDeletions(d, n) /\ deleteBlockContent(n) /\ UNCHANGED stuck
     ELSE stuck' = TRUE /\ UNCHANGED <<chain, oldest, byHash>>
  /\ reverts' = reverts + 1
  /\ UNCHANGED <<layout, floor, pruning, l1>>

-----------------------------------------------------------------------------
(* Pruning.                                                                 *)

\* Pruner.pruneUpto raises the floor, then calls PruneUpto.
raiseTo(x) == Max({floor, x})
PruneUpto ==
  /\ pruning = NoPrune /\ oldest # Never
  /\ \E end \in oldest + 1 .. Height :
       /\ floor' = raiseTo(end - 1)
       /\ pruning' = [start |-> oldest, next |-> oldest, end |-> end]
       /\ l1' = Max({l1, end})
  /\ UNCHANGED <<layout, chain, oldest, byHash, reverts, stuck>>

\* supersededPruner: the last entry before block b of each key it changed.
Superseded(f, b) == LET S == {x \in DOMAIN hist[f] : x < b} IN IF S = {} THEN {} ELSE {Max(S)}
\* Mutant: deletes the block's own entries, as the old layout does.
OwnEntries(f, b) == IF f \in newLogged(diffs[b + 1]) THEN {b} ELSE {}
pruneNewStateHistoryFromUpdate(f, b) == IF f \in newLogged(diffs[b + 1]) THEN Superseded(f, b) ELSE {}
pruneStateHistoryFromUpdate(f, b) == IF f \in oldLogged(diffs[b + 1]) THEN {b} ELSE {}

\* pruneHashKeyedUpto writes a batch: the blocks from pruning.next up to some
\* block, the mapping left by the previous call with the first.
pruneHashKeyedUpto ==
  /\ pruning # NoPrune
  /\ \E to \in pruning.next .. pruning.end :
       LET blocks == pruning.next .. to - 1 IN
       /\ to > pruning.next \/ Cancels
       /\ hist' = [f \in Fields |-> Without(hist[f], UNION {
             IF layout = "new" THEN pruneNewStateHistoryFromUpdate(f, b)
             ELSE pruneStateHistoryFromUpdate(f, b) : b \in blocks})]
       /\ byHash' = (byHash \ (blocks \ {pruning.end - 1}))
                      \ (IF pruning.next = pruning.start THEN {pruning.start - 1} ELSE {})
       /\ pruning' = [pruning EXCEPT !.next = to]
  /\ UNCHANGED <<layout, truth, diffs, head, deployedAt, classAt, casm, oldest, floor, l1, reverts, stuck>>

\* PruneBlockDataUpto, at the end of the loop; earlier if it was cancelled.
PruneBlockDataUpto ==
  /\ pruning # NoPrune
  /\ pruning.next = pruning.end \/ Cancels
  /\ oldest' = pruning.next
  /\ pruning' = NoPrune
  /\ UNCHANGED <<layout, chain, byHash, floor, l1, reverts, stuck>>

\* A crash between two batches; RetentionFloor.Seed at the next start.
Crash ==
  /\ Crashes /\ pruning # NoPrune
  /\ pruning' = NoPrune
  /\ floor' = Max({oldest, 1}) - 1
  /\ UNCHANGED <<layout, chain, oldest, byHash, l1, reverts, stuck>>

Init ==
  /\ layout \in {"new", "old"} /\ truth = <<>> /\ diffs = <<>>
  /\ head = [f \in Fields |-> Never] /\ hist = [f \in Fields |-> <<>>]
  /\ deployedAt = [contract |-> Never, sys |-> Never] /\ classAt = [v0 |-> Never, v1 |-> Never]
  /\ casm = NoCasm /\ oldest = Never /\ byHash = {} /\ floor = 0 /\ pruning = NoPrune
  /\ l1 = Never /\ reverts = 0 /\ stuck = FALSE

Next == StoreNew \/ StoreOld \/ RevertNew \/ RevertOld \/ PruneUpto \/ pruneHashKeyedUpto \/ PruneBlockDataUpto \/ Crash
Spec == Init /\ [][Next]_vars

-----------------------------------------------------------------------------
Exact(h) ==
  /\ \A f \in Fields : ReadField(f, h) = At(h)[f]
  /\ ReadClass(h) = At(h).v0 /\ CasmHashAt(casm, h) = At(h).v1

\* The state after block h that StateAtBlockNumber opens for any h from the
\* retention floor to the head is the state that the diffs up to h produce,
\* however many blocks were reverted, stored again and pruned, and while the
\* pruner is between two batches; so is the one StateAtBlockHash opens as long
\* as it knows the hash.  The head can always be reverted.
HistoryExact ==
  /\ ~ stuck
  /\ \A h \in 0 .. Height : StateAtBlockNumber(h) \/ StateAtBlockHash(h) => Exact(h)

\* The same across a crash of the node, after which the floor is derived from
\* the oldest retained block (RetentionFloor.Seed).
SeededFloorExact == \A h \in 0 .. Height : StateAtBlockNumber(h) => Exact(h)
=============================================================================
