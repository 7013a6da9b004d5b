------------------------------- MODULE MCNode -------------------------------
(***************************************************************************)
(* The components of a node that are checked one at a time: each behaviour *)
(* is one of a component, on its own variables. One run is about building  *)
(* blocks and keeping them: the sequencer and the proposer, the state and  *)
(* its history, the pruner, the tries and their databases, the migrations  *)
(* of the database, and the reads of the RPC server. A third one is about  *)
(* the migration of the transactions when it crashes. Another one is about *)
(* the services around the chain: the formats that blocks are exchanged    *)
(* in, p2p sync, the proposals of other nodes, events, subscriptions and   *)
(* the L1 client.                                                          *)
(***************************************************************************)
EXTENDS Integers, Sequences, FiniteSets

CONSTANTS
    Components,   \* the components that a run is about
    None, Junk, s1, s2, g1, f1, f2, p1

VARIABLES
    which,   \* the component that this behaviour is about
    x1, x2, x3, x4, x5, x6, x7, x8, x9, x10, x11, x12, x13, x14, x15, x16,
    x17

Unused == 0   \* what a variable that the component does not need holds

PruneN == INSTANCE HistoryPruning WITH Height <- 3, Keys <- 2,
    Written <- {0, 2, 3, 4, 5, 7}, Layout <- "new", L1Head <- 3,
    Retentions <- {0, 1}, AgeFloors <- {1, 2}, BlockHashLag <- 1,
    MaxStops <- 3, hist <- x1, scratch <- x2, data <- x3, headers <- x4,
    lookups <- x5, saved <- x6, pc <- x7, m <- x8, pos <- x9, held <- x10,
    age <- x11, stops <- x12, floor0 <- x13, late <- x14

PruneD == INSTANCE HistoryPruning WITH Height <- 3, Keys <- 2,
    Written <- {0, 2, 3, 4, 5, 7}, Layout <- "deprecated", L1Head <- 3,
    Retentions <- {0, 1}, AgeFloors <- {1, 2}, BlockHashLag <- 1,
    MaxStops <- 2, hist <- x1, scratch <- x2, data <- x3, headers <- x4,
    lookups <- x5, saved <- x6, pc <- x7, m <- x8, pos <- x9, held <- x10,
    age <- x11, stops <- x12, floor0 <- x13, late <- x14

NewState == INSTANCE NewStateMigration WITH Height <- 2, Contracts <- 1..2,
    Slots <- 1..2, Deployed <- <<0, 1>>,
    ClassHistories <- {<<7, 7, 7>>, <<7, 8, 7>>},
    NonceHistories <- {<<0, 1, 1>>},
    SlotHistories <- {<<0, 0, 0>>, <<1, 1, 1>>, <<1, 0, 1>>, <<0, 1, 0>>},
    Oldests <- 0..2, MaxStops <- 1, Depth <- Unused, KeySets <- Unused,
    Tries <- Unused, Storage <- Unused, Threshold <- Unused,
    BatchSize <- Unused, val <- x1, oldest <- x2, headFields <- x3,
    contract <- x4, dep <- x5, new <- x6, saved <- x7, pc <- x8, from <- x9,
    held <- x10, stops <- x11, keys <- Unused, old <- Unused,
    nodes <- Unused, root <- Unused, state <- Unused, pos <- Unused,
    batched <- Unused, stage <- Unused, crashes <- Unused, cut <- Unused

NewTries == INSTANCE NewStateMigration WITH Height <- Unused,
    Contracts <- Unused, Slots <- Unused, Deployed <- Unused,
    ClassHistories <- Unused, NonceHistories <- Unused,
    SlotHistories <- Unused, Oldests <- Unused, MaxStops <- 1, Depth <- 3,
    KeySets <- {{}, {<<0, 1, 0>>}, {<<0, 0, 0>>, <<0, 1, 0>>, <<0, 1, 1>>}, {<<0, 0, 1>>, <<0, 1, 0>>, <<1, 0, 0>>, <<1, 0, 1>>}},
    Tries <- 1..2, Storage <- {2}, Threshold <- 5, BatchSize <- 2,
    val <- Unused, oldest <- Unused, headFields <- Unused,
    contract <- Unused, dep <- Unused, new <- Unused, saved <- Unused,
    pc <- Unused, from <- Unused, held <- Unused, stops <- Unused,
    keys <- x1, old <- x2, nodes <- x3, root <- x4, state <- x5, pos <- x6,
    batched <- x7, stage <- x8, crashes <- x9, cut <- x10

RewriteC == INSTANCE Migrations WITH Optional <- Unused, Pruning <- Unused,
    Releases <- Unused, Downgrades <- Unused, MaxRuns <- Unused,
    Kind <- "txs", Height <- 3, Oldest <- 0, Silent <- {}, batchSize <- 1,
    Ingestors <- 1..2, MaxCancels <- 0, MaxFaults <- 1, legacy <- Unused,
    current <- Unused, lastTarget <- Unused, inter <- Unused,
    l1Stored <- Unused, known <- Unused, target <- Unused, pc <- Unused,
    index <- Unused, begun <- Unused, runs <- Unused, stored <- x1,
    saved <- x2, phase <- x3, next <- x4, ended <- x5, batch <- x6, at <- x7,
    spare <- x8, failed <- x9, cancels <- x10, faults <- x11

Runner == INSTANCE Migrations WITH Optional <- {1, 2}, Pruning <- 1,
    Releases <- {2, 4}, Downgrades <- FALSE, MaxRuns <- 4, Kind <- Unused,
    Height <- Unused, Oldest <- Unused, Silent <- Unused,
    batchSize <- Unused, Ingestors <- Unused, MaxCancels <- Unused,
    MaxFaults <- Unused, legacy <- x1, current <- x2, lastTarget <- x3,
    inter <- x4, l1Stored <- x5, known <- x6, target <- x7, pc <- x8,
    index <- x9, begun <- x10, runs <- x11, stored <- Unused,
    saved <- Unused, phase <- Unused, next <- Unused, ended <- Unused,
    batch <- Unused, at <- Unused, spare <- Unused, failed <- Unused,
    cancels <- Unused, faults <- Unused

RewriteT == INSTANCE Migrations WITH Optional <- Unused, Pruning <- Unused,
    Releases <- Unused, Downgrades <- Unused, MaxRuns <- Unused,
    Kind <- "txs", Height <- 4, Oldest <- 0, Silent <- {1}, batchSize <- 2,
    Ingestors <- 1..2, MaxCancels <- 2, MaxFaults <- 0, legacy <- Unused,
    current <- Unused, lastTarget <- Unused, inter <- Unused,
    l1Stored <- Unused, known <- Unused, target <- Unused, pc <- Unused,
    index <- Unused, begun <- Unused, runs <- Unused, stored <- x1,
    saved <- x2, phase <- x3, next <- x4, ended <- x5, batch <- x6, at <- x7,
    spare <- x8, failed <- x9, cancels <- x10, faults <- x11

RewriteL == INSTANCE Migrations WITH Optional <- Unused, Pruning <- Unused,
    Releases <- Unused, Downgrades <- Unused, MaxRuns <- Unused,
    Kind <- "lengths", Height <- 3, Oldest <- 1, Silent <- {},
    batchSize <- 1, Ingestors <- 1..2, MaxCancels <- 1, MaxFaults <- 1,
    legacy <- Unused, current <- Unused, lastTarget <- Unused,
    inter <- Unused, l1Stored <- Unused, known <- Unused, target <- Unused,
    pc <- Unused, index <- Unused, begun <- Unused, runs <- Unused,
    stored <- x1, saved <- x2, phase <- x3, next <- x4, ended <- x5,
    batch <- x6, at <- x7, spare <- x8, failed <- x9, cancels <- x10,
    faults <- x11

RewriteB == INSTANCE Migrations WITH Optional <- Unused, Pruning <- Unused,
    Releases <- Unused, Downgrades <- Unused, MaxRuns <- Unused,
    Kind <- "bloom", Height <- 4, Oldest <- 1, Silent <- {}, batchSize <- 1,
    Ingestors <- {1}, MaxCancels <- 1, MaxFaults <- 1, legacy <- Unused,
    current <- Unused, lastTarget <- Unused, inter <- Unused,
    l1Stored <- Unused, known <- Unused, target <- Unused, pc <- Unused,
    index <- Unused, begun <- Unused, runs <- Unused, stored <- x1,
    saved <- x2, phase <- x3, next <- x4, ended <- x5, batch <- x6, at <- x7,
    spare <- x8, failed <- x9, cancels <- x10, faults <- x11

PreConf == INSTANCE PreConfirmed WITH MaxNumber <- 3, MaxRound <- 1,
    MaxTxs <- 2, Declares <- {1}, MaxFaults <- 1, gateway <- x1,
    latest <- x2, window <- x3, height <- x4, highest <- x5, chain <- x6,
    pc <- x7, oldest <- x8, tip <- x9, update <- x10, fill <- x11,
    follower <- x12, faults <- x13

StoreS == INSTANCE ProposalStore WITH Storers <- {s1, s2}, Getters <- {g1},
    Finalizers <- {f1}, MaxHeight <- 2, Ids <- {1}, outer <- x1,
    bucket <- x2, finalized <- x3, pc <- x4, key <- x5, held <- x6,
    visited <- x7, promised <- x8

StoreF == INSTANCE ProposalStore WITH Storers <- {s1}, Getters <- {g1},
    Finalizers <- {f1, f2}, MaxHeight <- 2, Ids <- {1}, outer <- x1,
    bucket <- x2, finalized <- x3, pc <- x4, key <- x5, held <- x6,
    visited <- x7, promised <- x8

EventsE == INSTANCE EventIndex WITH NumBlocksPerFilter <- 2, MaxBlock <- 3,
    Contents <- {0, 2}, Froms <- {0}, Tos <- {3}, ChunkSize <- 3,
    MaxScanned <- 0, MaxReverts <- 1, MaxFailures <- 0, MaxRestarts <- 1,
    MaxPruned <- 2, MaxAhead <- 0, chain <- x1, floor <- x2, persisted <- x3,
    snapshot <- x4, running <- x5, cached <- x6, ahead <- x7, pc <- x8,
    query <- x9, reverts <- x10, failures <- x11, restarts <- x12,
    replaced <- x13

EventsQ == INSTANCE EventIndex WITH NumBlocksPerFilter <- 2, MaxBlock <- 3,
    Contents <- {0, 2}, Froms <- {0, 4}, Tos <- {0, 4}, ChunkSize <- 3,
    MaxScanned <- 1, MaxReverts <- 0, MaxFailures <- 1, MaxRestarts <- 0,
    MaxPruned <- 0, MaxAhead <- 2, chain <- x1, floor <- x2, persisted <- x3,
    snapshot <- x4, running <- x5, cached <- x6, ahead <- x7, pc <- x8,
    query <- x9, reverts <- x10, failures <- x11, restarts <- x12,
    replaced <- x13

Transactions == INSTANCE TransactionFormats WITH MaxHops <- 3,
    MaxUnusual <- 2, origin <- x1, form <- x2, tx <- x3, hops <- x4,
    overP2P <- x5

Blocks == INSTANCE BlockFormats WITH MaxHops <- 3, origin <- x1, form <- x2,
    block <- x3, route <- x4

Classes == INSTANCE ClassFormats WITH MaxHops <- 3, MaxBytecode <- 3,
    origin <- x1, form <- x2, class <- x3, hash <- x4, route <- x5

P2P == INSTANCE P2PSync WITH Peers <- {p1}, MaxHeight <- 1, MaxReverts <- 2,
    era <- x1, chains <- x2, reverts <- x3, protocol <- x4, local <- x5,
    number <- x6, streams <- x7, body <- x8, held <- x9

HistoryH == INSTANCE StateHistory WITH
    Features <- {"deploy", "nonce", "slot", "sys"}, MaxHeight <- 3,
    MaxReverts <- 1, MaxTouched <- 1, Ver0_14_1 <- 2, Cancels <- TRUE,
    Crashes <- FALSE, layout <- x1, truth <- x2, diffs <- x3, head <- x4,
    hist <- x5, deployedAt <- x6, classAt <- x7, casm <- x8, oldest <- x9,
    byHash <- x10, floor <- x11, pruning <- x12, l1 <- x13, reverts <- x14,
    stuck <- x15

HistoryR == INSTANCE StateHistory WITH Features <- {"deploy", "replace"},
    MaxHeight <- 3, MaxReverts <- 1, MaxTouched <- 2, Ver0_14_1 <- 2,
    Cancels <- TRUE, Crashes <- FALSE, layout <- x1, truth <- x2,
    diffs <- x3, head <- x4, hist <- x5, deployedAt <- x6, classAt <- x7,
    casm <- x8, oldest <- x9, byHash <- x10, floor <- x11, pruning <- x12,
    l1 <- x13, reverts <- x14, stuck <- x15

HistoryV == INSTANCE StateHistory WITH Features <- {"v0", "v1", "migrate"},
    MaxHeight <- 3, MaxReverts <- 1, MaxTouched <- 1, Ver0_14_1 <- 2,
    Cancels <- TRUE, Crashes <- FALSE, layout <- x1, truth <- x2,
    diffs <- x3, head <- x4, hist <- x5, deployedAt <- x6, classAt <- x7,
    casm <- x8, oldest <- x9, byHash <- x10, floor <- x11, pruning <- x12,
    l1 <- x13, reverts <- x14, stuck <- x15

PrunerA == INSTANCE Pruner WITH MaxHeight <- 4, MaxTime <- 3,
    MaxReverts <- 0, Retained <- 1, L2HeadsPerPrune <- 2, MinAge <- 2,
    stamps <- x1, l1Head <- x2, now <- x3, headEv <- x4, l1Ev <- x5,
    latestSampledHeight <- x6, pendingL2Heads <- x7, oldest <- x8,
    reverts <- x9

PrunerL == INSTANCE Pruner WITH MaxHeight <- 3, MaxTime <- 3,
    MaxReverts <- 2, Retained <- 1, L2HeadsPerPrune <- 1, MinAge <- 2,
    stamps <- x1, l1Head <- x2, now <- x3, headEv <- x4, l1Ev <- x5,
    latestSampledHeight <- x6, pendingL2Heads <- x7, oldest <- x8,
    reverts <- x9

ReadsJ == INSTANCE RPCReads WITH Txs <- {}, Wanted <- "t", MaxHeight <- 2,
    MaxReverts <- 1, Kinds <- {"block", "state", "call", "class"},
    chain <- x1, reverts <- x2, l1 <- x3, pre <- x4, submitted <- x5,
    req <- x6

ReadsK == INSTANCE RPCReads WITH Txs <- {"t", "u"}, Wanted <- "t",
    MaxHeight <- 1, MaxReverts <- 1, Kinds <- {"tx"}, chain <- x1,
    reverts <- x2, l1 <- x3, pre <- x4, submitted <- x5, req <- x6

Traces == INSTANCE TraceCache WITH Requesters <- {"r1", "r2"}, Limit <- 1,
    MaxRequests <- 3, MaxReorgs <- 1, MaxFailures <- 1, head <- x1,
    pre <- x2, records <- x3, flights <- x4, req <- x5, served <- x6,
    reorgs <- x7, failures <- x8, misread <- x9

Bits == INSTANCE BitArray WITH WordBits <- 2, ByteBits <- 1, cur <- x1,
    bits <- x2

Flat == INSTANCE FlatTrie WITH Height <- 3, Numbers <- {0, 1, 3, 6},
    Values <- {1, 2}, MaxUnhashed <- 2, Proved <- 0..7, Together <- 2,
    trie <- x1, rootRow <- x2, leaves <- x3, unhashed <- x4

Merkle == INSTANCE MerkleTrie WITH Height <- 3, Numbers <- {0, 1, 6},
    Values <- {1, 2}, MaxPending <- 2, Proved <- {0, 2, 5, 6}, Together <- 2,
    db <- x1, stored <- x2, trie <- x3, leaves <- x4, pending <- x5

PathD == INSTANCE TrieDB WITH Keys <- {"a", "b"}, Values <- {"x"},
    maxDiffLayers <- 2, WriteBufferSize <- 3, Reverts <- FALSE,
    MaxUpdates <- 5, MaxRestarts <- 1, Owners <- Unused, Paths <- Unused,
    Hashes <- Unused, MaxFailures <- Unused, MaxCrashes <- Unused, db <- x1,
    disk <- x2, content <- x3, head <- x4, updates <- x5, restarts <- x6,
    dirty <- Unused, clean <- Unused, diskKeys <- Unused,
    committing <- Unused, batch <- Unused, last <- Unused, saved <- Unused,
    alive <- Unused, kept <- Unused, reading <- Unused, count <- Unused

PathR == INSTANCE TrieDB WITH Keys <- {"a"}, Values <- {"x"},
    maxDiffLayers <- 2, WriteBufferSize <- 1, Reverts <- TRUE,
    MaxUpdates <- 6, MaxRestarts <- 1, Owners <- Unused, Paths <- Unused,
    Hashes <- Unused, MaxFailures <- Unused, MaxCrashes <- Unused, db <- x1,
    disk <- x2, content <- x3, head <- x4, updates <- x5, restarts <- x6,
    dirty <- Unused, clean <- Unused, diskKeys <- Unused,
    committing <- Unused, batch <- Unused, last <- Unused, saved <- Unused,
    alive <- Unused, kept <- Unused, reading <- Unused, count <- Unused

Archive == INSTANCE TrieDB WITH Keys <- Unused, Values <- Unused,
    maxDiffLayers <- Unused, WriteBufferSize <- Unused, Reverts <- Unused,
    MaxUpdates <- 2, MaxRestarts <- Unused, Owners <- {0, 1},
    Paths <- {0, 1}, Hashes <- {"h"}, MaxFailures <- 1, MaxCrashes <- 1,
    db <- Unused, disk <- Unused, content <- Unused, head <- Unused,
    updates <- Unused, restarts <- Unused, dirty <- x1, clean <- x2,
    diskKeys <- x3, committing <- x4, batch <- x5, last <- x6, saved <- x7,
    alive <- x8, kept <- x9, reading <- x10, count <- x11

SequencerU == INSTANCE Sequencing WITH BlockHashLag <- 2,
    Pushers <- {"p1", "p2"},
    Txs <- {[type |-> "invoke", nonce |-> 0, id |-> 1], [type |-> "declare", nonce |-> 1, id |-> 1], [type |-> "l1", nonce |-> 0, id |-> 1]},
    maxNumTxns <- 3, NumTxnsToBatchExecute <- 2, MaxBlocks <- 1,
    MaxFailures <- 0, push <- x1, left <- x2, memTxnList <- x3,
    txPushed <- x4, dbWriteChan <- x5, pool <- x6, buildState <- x7,
    mu <- x8, chain <- x9, listener <- x10, timer <- x11, done <- x12,
    pushed <- x13, written <- x14, failed <- x15, failures <- x16

SequencerF == INSTANCE Sequencing WITH BlockHashLag <- 2, Pushers <- {"p1"},
    Txs <- {[type |-> "invoke", nonce |-> 0, id |-> 1], [type |-> "declare", nonce |-> 1, id |-> 1], [type |-> "l1", nonce |-> 0, id |-> 1]},
    maxNumTxns <- 2, NumTxnsToBatchExecute <- 2, MaxBlocks <- 2,
    MaxFailures <- 1, push <- x1, left <- x2, memTxnList <- x3,
    txPushed <- x4, dbWriteChan <- x5, pool <- x6, buildState <- x7,
    mu <- x8, chain <- x9, listener <- x10, timer <- x11, done <- x12,
    pushed <- x13, written <- x14, failed <- x15, failures <- x16

ProposerX == INSTANCE Proposer WITH BlockHashLag <- 2,
    Txs <- {[type |-> "invoke", nonce |-> 0, id |-> 1], [type |-> "invoke", nonce |-> 0, id |-> 2], [type |-> "invoke", nonce |-> 1, id |-> 1]},
    BufferSize <- 1, maxCommitHistory <- 1, MaxHeight <- 2, MaxBatch <- 2,
    chain <- x1, buildState <- x2, seenTransactions <- x3,
    transactionReceiver <- x4, receiving <- x5, commitTrigger <- x6,
    valueTrigger <- x7, loop <- x8, lastValue <- x9, done <- x10,
    proposalStore <- x11, driver <- x12, value <- x13, answers <- x14,
    cache <- x15, latest <- x16, submitted <- x17

StreamsA == INSTANCE ProposalStreams WITH BlockHashLag <- 2,
    Offers <- {[height |-> 1, round |-> 0, validRound |-> 0 - 1, txns |-> <<>>, agrees |-> TRUE], [height |-> 2, round |-> 0, validRound |-> 0 - 1, txns |-> <<>>, agrees |-> TRUE]},
    Decided <- <<<<[type |-> "invoke", nonce |-> 0, id |-> 1]>>>>,
    txBatchSize <- 1, InputSize <- 1, OutputSize <- 1, NotifierSize <- 1,
    MaxCopies <- 1, proposals <- x1, copies <- x2, streams <- x3,
    streamHeights <- x4, currentHeight <- x5, blocked <- x6,
    commitNotifier <- x7, chain <- x8, driver <- x9, outputs <- x10,
    proposalStore <- x11, failures <- x12

StreamsB == INSTANCE ProposalStreams WITH BlockHashLag <- 2,
    Offers <- {[height |-> 2, round |-> 0, validRound |-> 0 - 1, txns |-> <<[type |-> "invoke", nonce |-> 1, id |-> 1]>>, agrees |-> TRUE]},
    Decided <- <<<<[type |-> "invoke", nonce |-> 0, id |-> 1]>>>>,
    txBatchSize <- 1, InputSize <- 1, OutputSize <- 1, NotifierSize <- 1,
    MaxCopies <- 2, proposals <- x1, copies <- x2, streams <- x3,
    streamHeights <- x4, currentHeight <- x5, blocked <- x6,
    commitNotifier <- x7, chain <- x8, driver <- x9, outputs <- x10,
    proposalStore <- x11, failures <- x12

StreamsC == INSTANCE ProposalStreams WITH BlockHashLag <- 2,
    Offers <- {[height |-> 1, round |-> 1, validRound |-> 0, txns |-> <<[type |-> "invoke", nonce |-> 0, id |-> 1]>>, agrees |-> FALSE]},
    Decided <- <<<<[type |-> "invoke", nonce |-> 0, id |-> 1]>>>>,
    txBatchSize <- 1, InputSize <- 2, OutputSize <- 1, NotifierSize <- 1,
    MaxCopies <- 1, proposals <- x1, copies <- x2, streams <- x3,
    streamHeights <- x4, currentHeight <- x5, blocked <- x6,
    commitNotifier <- x7, chain <- x8, driver <- x9, outputs <- x10,
    proposalStore <- x11, failures <- x12

Shards == INSTANCE Propeller WITH Peers <- {1, 3, 7},
    Lists <- {<<>>, <<1>>, <<2, 1>>, <<2, 2>>, <<3, 1, 2>>, <<3, 1, 3>>, <<2, 4, 1, 3>>, <<7, 2, 5, 1, 3, 6, 4>>},
    Base <- 2, Bytes <- {0, 3}, MaxLength <- 3, Values <- Unused,
    initialSize <- Unused, standardSize <- Unused, expiry <- Unused,
    MaxTime <- Unused, nodes <- x1, local <- x2, publisher <- x3,
    message <- x4, received <- x5, now <- Unused, added <- Unused,
    values <- Unused, timestamps <- Unused, start <- Unused, end <- Unused,
    stale <- Unused

Cache == INSTANCE Propeller WITH Peers <- Unused, Lists <- Unused,
    Base <- Unused, Bytes <- Unused, MaxLength <- Unused, Values <- 1..6,
    initialSize <- 2, standardSize <- 5, expiry <- 2, MaxTime <- 4,
    nodes <- Unused, local <- Unused, publisher <- Unused, message <- Unused,
    received <- Unused, now <- x1, added <- x2, values <- x3,
    timestamps <- x4, start <- x5, end <- x6, stale <- x7

L1A == INSTANCE L1Client WITH catchUpChunkSize <- 2, BufferSize <- 1,
    MaxHeight <- 3, MaxReorgs <- 1, MaxFailures <- 0, MaxRestarts <- 0,
    chain <- x1, finalised <- x2, forks <- x3, network <- x4, once <- x5,
    phase <- x6, to <- x7, target <- x8, nonFinalisedLogs <- x9,
    gethEvents <- x10, updateCh <- x11, fed <- x12, l1Head <- x13,
    failures <- x14, restarts <- x15, missed <- x16, polled <- x17

L1B == INSTANCE L1Client WITH catchUpChunkSize <- 2, BufferSize <- 1,
    MaxHeight <- 2, MaxReorgs <- 1, MaxFailures <- 1, MaxRestarts <- 1,
    chain <- x1, finalised <- x2, forks <- x3, network <- x4, once <- x5,
    phase <- x6, to <- x7, target <- x8, nonFinalisedLogs <- x9,
    gethEvents <- x10, updateCh <- x11, fed <- x12, l1Head <- x13,
    failures <- x14, restarts <- x15, missed <- x16, polled <- x17

Ring == INSTANCE Broadcast WITH requested <- 2, Subs <- 1..2, MaxSends <- 3,
    FeedOf <- Unused, KeepLast <- Unused, Teed <- Unused, tail <- x1,
    seq <- x2, closing <- x3, pc <- x4, nextSeq <- x5, res <- x6, out <- x7,
    unsub <- x8, wake <- x9, expected <- x10, sent <- Unused, subs <- Unused,
    ch <- Unused, closed <- Unused, sending <- Unused, todo <- Unused,
    full <- Unused, got <- Unused, offered <- Unused

Feeds == INSTANCE Broadcast WITH requested <- Unused, Subs <- 1..3,
    MaxSends <- 3, FeedOf <- <<1, 1, 2>>, KeepLast <- {2, 3}, Teed <- 2,
    tail <- Unused, seq <- Unused, closing <- Unused, pc <- Unused,
    nextSeq <- Unused, res <- Unused, out <- Unused, unsub <- Unused,
    wake <- Unused, expected <- Unused, sent <- x1, subs <- x2, ch <- x3,
    closed <- x4, sending <- x5, todo <- x6, full <- x7, got <- x8,
    offered <- x9

SubsHeads == INSTANCE Subscriptions WITH Kinds <- {"heads"}, Keys <- {},
    MaxHeight <- 2, MaxReverts <- 1, MaxRounds <- 0, MaxL1 <- 0, chain <- x1,
    reverts <- x2, reorg <- x3, announce <- x4, at <- x5, pre <- x6,
    l1 <- x7, submitted <- x8, hop1 <- x9, hop2 <- x10, sub <- x11,
    told <- x12, again <- x13

SubsEvents == INSTANCE Subscriptions WITH Kinds <- {"events"}, Keys <- {1},
    MaxHeight <- 1, MaxReverts <- 1, MaxRounds <- 1, MaxL1 <- 0, chain <- x1,
    reverts <- x2, reorg <- x3, announce <- x4, at <- x5, pre <- x6,
    l1 <- x7, submitted <- x8, hop1 <- x9, hop2 <- x10, sub <- x11,
    told <- x12, again <- x13

SubsContents == INSTANCE Subscriptions WITH Kinds <- {"contents"},
    Keys <- {1}, MaxHeight <- 1, MaxReverts <- 1, MaxRounds <- 2, MaxL1 <- 0,
    chain <- x1, reverts <- x2, reorg <- x3, announce <- x4, at <- x5,
    pre <- x6, l1 <- x7, submitted <- x8, hop1 <- x9, hop2 <- x10,
    sub <- x11, told <- x12, again <- x13

SubsStatus == INSTANCE Subscriptions WITH Kinds <- {"status"}, Keys <- {0},
    MaxHeight <- 1, MaxReverts <- 0, MaxRounds <- 1, MaxL1 <- 2, chain <- x1,
    reverts <- x2, reorg <- x3, announce <- x4, at <- x5, pre <- x6,
    l1 <- x7, submitted <- x8, hop1 <- x9, hop2 <- x10, sub <- x11,
    told <- x12, again <- x13

vars == <<which, x1, x2, x3, x4, x5, x6, x7, x8, x9, x10, x11, x12, x13, x14,
          x15, x16, x17>>

-----------------------------------------------------------------------------
Init ==
  /\ which \in Components
  /\ \/ which = "PruneN" /\ PruneN!Init
       /\ x15 = Unused /\ x16 = Unused /\ x17 = Unused
     \/ which = "PruneD" /\ PruneD!Init
       /\ x15 = Unused /\ x16 = Unused /\ x17 = Unused
     \/ which = "NewState" /\ NewState!Init
       /\ x12 = Unused /\ x13 = Unused /\ x14 = Unused /\ x15 = Unused
       /\ x16 = Unused /\ x17 = Unused
     \/ which = "NewTries" /\ NewTries!TrieInit
       /\ x11 = Unused /\ x12 = Unused /\ x13 = Unused /\ x14 = Unused
       /\ x15 = Unused /\ x16 = Unused /\ x17 = Unused
     \/ which = "RewriteC" /\ RewriteC!RewriteInit
       /\ x12 = Unused /\ x13 = Unused /\ x14 = Unused /\ x15 = Unused
       /\ x16 = Unused /\ x17 = Unused
     \/ which = "Runner" /\ Runner!Init
       /\ x12 = Unused /\ x13 = Unused /\ x14 = Unused /\ x15 = Unused
       /\ x16 = Unused /\ x17 = Unused
     \/ which = "RewriteT" /\ RewriteT!RewriteInit
       /\ x12 = Unused /\ x13 = Unused /\ x14 = Unused /\ x15 = Unused
       /\ x16 = Unused /\ x17 = Unused
     \/ which = "RewriteL" /\ RewriteL!RewriteInit
       /\ x12 = Unused /\ x13 = Unused /\ x14 = Unused /\ x15 = Unused
       /\ x16 = Unused /\ x17 = Unused
     \/ which = "RewriteB" /\ RewriteB!RewriteInit
       /\ x12 = Unused /\ x13 = Unused /\ x14 = Unused /\ x15 = Unused
       /\ x16 = Unused /\ x17 = Unused
     \/ which = "PreConf" /\ PreConf!Init
       /\ x14 = Unused /\ x15 = Unused /\ x16 = Unused /\ x17 = Unused
     \/ which = "StoreS" /\ StoreS!Init
       /\ x9 = Unused /\ x10 = Unused /\ x11 = Unused /\ x12 = Unused
       /\ x13 = Unused /\ x14 = Unused /\ x15 = Unused /\ x16 = Unused
       /\ x17 = Unused
     \/ which = "StoreF" /\ StoreF!Init
       /\ x9 = Unused /\ x10 = Unused /\ x11 = Unused /\ x12 = Unused
       /\ x13 = Unused /\ x14 = Unused /\ x15 = Unused /\ x16 = Unused
       /\ x17 = Unused
     \/ which = "EventsE" /\ EventsE!Init
       /\ x14 = Unused /\ x15 = Unused /\ x16 = Unused /\ x17 = Unused
     \/ which = "EventsQ" /\ EventsQ!Init
       /\ x14 = Unused /\ x15 = Unused /\ x16 = Unused /\ x17 = Unused
     \/ which = "Transactions" /\ Transactions!Init
       /\ x6 = Unused /\ x7 = Unused /\ x8 = Unused /\ x9 = Unused
       /\ x10 = Unused /\ x11 = Unused /\ x12 = Unused /\ x13 = Unused
       /\ x14 = Unused /\ x15 = Unused /\ x16 = Unused /\ x17 = Unused
     \/ which = "Blocks" /\ Blocks!Init
       /\ x5 = Unused /\ x6 = Unused /\ x7 = Unused /\ x8 = Unused
       /\ x9 = Unused /\ x10 = Unused /\ x11 = Unused /\ x12 = Unused
       /\ x13 = Unused /\ x14 = Unused /\ x15 = Unused /\ x16 = Unused
       /\ x17 = Unused
     \/ which = "Classes" /\ Classes!Init
       /\ x6 = Unused /\ x7 = Unused /\ x8 = Unused /\ x9 = Unused
       /\ x10 = Unused /\ x11 = Unused /\ x12 = Unused /\ x13 = Unused
       /\ x14 = Unused /\ x15 = Unused /\ x16 = Unused /\ x17 = Unused
     \/ which = "P2P" /\ P2P!Init
       /\ x10 = Unused /\ x11 = Unused /\ x12 = Unused /\ x13 = Unused
       /\ x14 = Unused /\ x15 = Unused /\ x16 = Unused /\ x17 = Unused
     \/ which = "HistoryH" /\ HistoryH!Init
       /\ x16 = Unused /\ x17 = Unused
     \/ which = "HistoryR" /\ HistoryR!Init
       /\ x16 = Unused /\ x17 = Unused
     \/ which = "HistoryV" /\ HistoryV!Init
       /\ x16 = Unused /\ x17 = Unused
     \/ which = "PrunerA" /\ PrunerA!Init
       /\ x10 = Unused /\ x11 = Unused /\ x12 = Unused /\ x13 = Unused
       /\ x14 = Unused /\ x15 = Unused /\ x16 = Unused /\ x17 = Unused
     \/ which = "PrunerL" /\ PrunerL!Init
       /\ x10 = Unused /\ x11 = Unused /\ x12 = Unused /\ x13 = Unused
       /\ x14 = Unused /\ x15 = Unused /\ x16 = Unused /\ x17 = Unused
     \/ which = "ReadsJ" /\ ReadsJ!Init
       /\ x7 = Unused /\ x8 = Unused /\ x9 = Unused /\ x10 = Unused
       /\ x11 = Unused /\ x12 = Unused /\ x13 = Unused /\ x14 = Unused
       /\ x15 = Unused /\ x16 = Unused /\ x17 = Unused
     \/ which = "ReadsK" /\ ReadsK!Init
       /\ x7 = Unused /\ x8 = Unused /\ x9 = Unused /\ x10 = Unused
       /\ x11 = Unused /\ x12 = Unused /\ x13 = Unused /\ x14 = Unused
       /\ x15 = Unused /\ x16 = Unused /\ x17 = Unused
     \/ which = "Traces" /\ Traces!Init
       /\ x10 = Unused /\ x11 = Unused /\ x12 = Unused /\ x13 = Unused
       /\ x14 = Unused /\ x15 = Unused /\ x16 = Unused /\ x17 = Unused
     \/ which = "Bits" /\ Bits!Init
       /\ x3 = Unused /\ x4 = Unused /\ x5 = Unused /\ x6 = Unused
       /\ x7 = Unused /\ x8 = Unused /\ x9 = Unused /\ x10 = Unused
       /\ x11 = Unused /\ x12 = Unused /\ x13 = Unused /\ x14 = Unused
       /\ x15 = Unused /\ x16 = Unused /\ x17 = Unused
     \/ which = "Flat" /\ Flat!Init
       /\ x5 = Unused /\ x6 = Unused /\ x7 = Unused /\ x8 = Unused
       /\ x9 = Unused /\ x10 = Unused /\ x11 = Unused /\ x12 = Unused
       /\ x13 = Unused /\ x14 = Unused /\ x15 = Unused /\ x16 = Unused
       /\ x17 = Unused
     \/ which = "Merkle" /\ Merkle!Init
       /\ x6 = Unused /\ x7 = Unused /\ x8 = Unused /\ x9 = Unused
       /\ x10 = Unused /\ x11 = Unused /\ x12 = Unused /\ x13 = Unused
       /\ x14 = Unused /\ x15 = Unused /\ x16 = Unused /\ x17 = Unused
     \/ which = "PathD" /\ PathD!Init
       /\ x7 = Unused /\ x8 = Unused /\ x9 = Unused /\ x10 = Unused
       /\ x11 = Unused /\ x12 = Unused /\ x13 = Unused /\ x14 = Unused
       /\ x15 = Unused /\ x16 = Unused /\ x17 = Unused
     \/ which = "PathR" /\ PathR!Init
       /\ x7 = Unused /\ x8 = Unused /\ x9 = Unused /\ x10 = Unused
       /\ x11 = Unused /\ x12 = Unused /\ x13 = Unused /\ x14 = Unused
       /\ x15 = Unused /\ x16 = Unused /\ x17 = Unused
     \/ which = "Archive" /\ Archive!HashInit
       /\ x12 = Unused /\ x13 = Unused /\ x14 = Unused /\ x15 = Unused
       /\ x16 = Unused /\ x17 = Unused
     \/ which = "SequencerU" /\ SequencerU!Init
       /\ x17 = Unused
     \/ which = "SequencerF" /\ SequencerF!Init
       /\ x17 = Unused
     \/ which = "ProposerX" /\ ProposerX!Init
     \/ which = "StreamsA" /\ StreamsA!Init
       /\ x13 = Unused /\ x14 = Unused /\ x15 = Unused /\ x16 = Unused
       /\ x17 = Unused
     \/ which = "StreamsB" /\ StreamsB!Init
       /\ x13 = Unused /\ x14 = Unused /\ x15 = Unused /\ x16 = Unused
       /\ x17 = Unused
     \/ which = "StreamsC" /\ StreamsC!Init
       /\ x13 = Unused /\ x14 = Unused /\ x15 = Unused /\ x16 = Unused
       /\ x17 = Unused
     \/ which = "Shards" /\ Shards!Init
       /\ x6 = Unused /\ x7 = Unused /\ x8 = Unused /\ x9 = Unused
       /\ x10 = Unused /\ x11 = Unused /\ x12 = Unused /\ x13 = Unused
       /\ x14 = Unused /\ x15 = Unused /\ x16 = Unused /\ x17 = Unused
     \/ which = "Cache" /\ Cache!CacheInit
       /\ x8 = Unused /\ x9 = Unused /\ x10 = Unused /\ x11 = Unused
       /\ x12 = Unused /\ x13 = Unused /\ x14 = Unused /\ x15 = Unused
       /\ x16 = Unused /\ x17 = Unused
     \/ which = "L1A" /\ L1A!Init
     \/ which = "L1B" /\ L1B!Init
     \/ which = "Ring" /\ Ring!Init
       /\ x11 = Unused /\ x12 = Unused /\ x13 = Unused /\ x14 = Unused
       /\ x15 = Unused /\ x16 = Unused /\ x17 = Unused
     \/ which = "Feeds" /\ Feeds!FeedInit
       /\ x10 = Unused /\ x11 = Unused /\ x12 = Unused /\ x13 = Unused
       /\ x14 = Unused /\ x15 = Unused /\ x16 = Unused /\ x17 = Unused
     \/ which = "SubsHeads" /\ SubsHeads!Init
       /\ x14 = Unused /\ x15 = Unused /\ x16 = Unused /\ x17 = Unused
     \/ which = "SubsEvents" /\ SubsEvents!Init
       /\ x14 = Unused /\ x15 = Unused /\ x16 = Unused /\ x17 = Unused
     \/ which = "SubsContents" /\ SubsContents!Init
       /\ x14 = Unused /\ x15 = Unused /\ x16 = Unused /\ x17 = Unused
     \/ which = "SubsStatus" /\ SubsStatus!Init
       /\ x14 = Unused /\ x15 = Unused /\ x16 = Unused /\ x17 = Unused

PruneNStep == which = "PruneN" /\ PruneN!Next
              /\ UNCHANGED <<which, x15, x16, x17>>

PruneDStep == which = "PruneD" /\ PruneD!Next
              /\ UNCHANGED <<which, x15, x16, x17>>

NewStateStep == which = "NewState" /\ NewState!Next
                /\ UNCHANGED <<which, x12, x13, x14, x15, x16, x17>>

NewTriesStep == which = "NewTries" /\ NewTries!TrieNext
                /\ UNCHANGED <<which, x11, x12, x13, x14, x15, x16, x17>>

RewriteCStep == which = "RewriteC" /\ RewriteC!RewriteNext
                /\ UNCHANGED <<which, x12, x13, x14, x15, x16, x17>>

RunnerStep == which = "Runner" /\ Runner!Next
              /\ UNCHANGED <<which, x12, x13, x14, x15, x16, x17>>

RewriteTStep == which = "RewriteT" /\ RewriteT!RewriteNext
                /\ UNCHANGED <<which, x12, x13, x14, x15, x16, x17>>

RewriteLStep == which = "RewriteL" /\ RewriteL!RewriteNext
                /\ UNCHANGED <<which, x12, x13, x14, x15, x16, x17>>

RewriteBStep == which = "RewriteB" /\ RewriteB!RewriteNext
                /\ UNCHANGED <<which, x12, x13, x14, x15, x16, x17>>

PreConfStep == which = "PreConf" /\ PreConf!Next
               /\ UNCHANGED <<which, x14, x15, x16, x17>>

StoreSStep == which = "StoreS" /\ StoreS!Next
              /\ UNCHANGED <<which, x9, x10, x11, x12, x13, x14, x15, x16,
                            x17>>

StoreFStep == which = "StoreF" /\ StoreF!Next
              /\ UNCHANGED <<which, x9, x10, x11, x12, x13, x14, x15, x16,
                            x17>>

EventsEStep == which = "EventsE" /\ EventsE!Next
               /\ UNCHANGED <<which, x14, x15, x16, x17>>

EventsQStep == which = "EventsQ" /\ EventsQ!Next
               /\ UNCHANGED <<which, x14, x15, x16, x17>>

TransactionsStep == which = "Transactions" /\ Transactions!Next
                    /\ UNCHANGED <<which, x6, x7, x8, x9, x10, x11, x12, x13,
                                  x14, x15, x16, x17>>

BlocksStep == which = "Blocks" /\ Blocks!Next
              /\ UNCHANGED <<which, x5, x6, x7, x8, x9, x10, x11, x12, x13,
                            x14, x15, x16, x17>>

ClassesStep == which = "Classes" /\ Classes!Next
               /\ UNCHANGED <<which, x6, x7, x8, x9, x10, x11, x12, x13, x14,
                             x15, x16, x17>>

P2PStep == which = "P2P" /\ P2P!Next
           /\ UNCHANGED <<which, x10, x11, x12, x13, x14, x15, x16, x17>>

HistoryHStep == which = "HistoryH" /\ HistoryH!Next
                /\ UNCHANGED <<which, x16, x17>>

HistoryRStep == which = "HistoryR" /\ HistoryR!Next
                /\ UNCHANGED <<which, x16, x17>>

HistoryVStep == which = "HistoryV" /\ HistoryV!Next
                /\ UNCHANGED <<which, x16, x17>>

PrunerAStep == which = "PrunerA" /\ PrunerA!Next
               /\ UNCHANGED <<which, x10, x11, x12, x13, x14, x15, x16, x17>>

PrunerLStep == which = "PrunerL" /\ PrunerL!Next
               /\ UNCHANGED <<which, x10, x11, x12, x13, x14, x15, x16, x17>>

ReadsJStep == which = "ReadsJ" /\ ReadsJ!Next
              /\ UNCHANGED <<which, x7, x8, x9, x10, x11, x12, x13, x14, x15,
                            x16, x17>>

ReadsKStep == which = "ReadsK" /\ ReadsK!Next
              /\ UNCHANGED <<which, x7, x8, x9, x10, x11, x12, x13, x14, x15,
                            x16, x17>>

TracesStep == which = "Traces" /\ Traces!Next
              /\ UNCHANGED <<which, x10, x11, x12, x13, x14, x15, x16, x17>>

BitsStep == which = "Bits" /\ Bits!Next
            /\ UNCHANGED <<which, x3, x4, x5, x6, x7, x8, x9, x10, x11, x12,
                          x13, x14, x15, x16, x17>>

FlatStep == which = "Flat" /\ Flat!Next
            /\ UNCHANGED <<which, x5, x6, x7, x8, x9, x10, x11, x12, x13,
                          x14, x15, x16, x17>>

MerkleStep == which = "Merkle" /\ Merkle!Next
              /\ UNCHANGED <<which, x6, x7, x8, x9, x10, x11, x12, x13, x14,
                            x15, x16, x17>>

PathDStep == which = "PathD" /\ PathD!Next
             /\ UNCHANGED <<which, x7, x8, x9, x10, x11, x12, x13, x14, x15,
                           x16, x17>>

PathRStep == which = "PathR" /\ PathR!Next
             /\ UNCHANGED <<which, x7, x8, x9, x10, x11, x12, x13, x14, x15,
                           x16, x17>>

ArchiveStep == which = "Archive" /\ Archive!HashNext
               /\ UNCHANGED <<which, x12, x13, x14, x15, x16, x17>>

SequencerUStep == which = "SequencerU" /\ SequencerU!Next
                  /\ UNCHANGED <<which, x17>>

SequencerFStep == which = "SequencerF" /\ SequencerF!Next
                  /\ UNCHANGED <<which, x17>>

ProposerXStep == which = "ProposerX" /\ ProposerX!Next
                 /\ UNCHANGED <<which>>

StreamsAStep == which = "StreamsA" /\ StreamsA!Next
                /\ UNCHANGED <<which, x13, x14, x15, x16, x17>>

StreamsBStep == which = "StreamsB" /\ StreamsB!Next
                /\ UNCHANGED <<which, x13, x14, x15, x16, x17>>

StreamsCStep == which = "StreamsC" /\ StreamsC!Next
                /\ UNCHANGED <<which, x13, x14, x15, x16, x17>>

ShardsStep == which = "Shards" /\ Shards!Next
              /\ UNCHANGED <<which, x6, x7, x8, x9, x10, x11, x12, x13, x14,
                            x15, x16, x17>>

CacheStep == which = "Cache" /\ Cache!CacheNext
             /\ UNCHANGED <<which, x8, x9, x10, x11, x12, x13, x14, x15, x16,
                           x17>>

L1AStep == which = "L1A" /\ L1A!Next
           /\ UNCHANGED <<which>>

L1BStep == which = "L1B" /\ L1B!Next
           /\ UNCHANGED <<which>>

RingStep == which = "Ring" /\ Ring!Next
            /\ UNCHANGED <<which, x11, x12, x13, x14, x15, x16, x17>>

FeedsStep == which = "Feeds" /\ Feeds!FeedNext
             /\ UNCHANGED <<which, x10, x11, x12, x13, x14, x15, x16, x17>>

SubsHeadsStep == which = "SubsHeads" /\ SubsHeads!Next
                 /\ UNCHANGED <<which, x14, x15, x16, x17>>

SubsEventsStep == which = "SubsEvents" /\ SubsEvents!Next
                  /\ UNCHANGED <<which, x14, x15, x16, x17>>

SubsContentsStep == which = "SubsContents" /\ SubsContents!Next
                    /\ UNCHANGED <<which, x14, x15, x16, x17>>

SubsStatusStep == which = "SubsStatus" /\ SubsStatus!Next
                  /\ UNCHANGED <<which, x14, x15, x16, x17>>

Next == PruneNStep \/ PruneDStep \/ NewStateStep \/ NewTriesStep \/
        RewriteCStep \/ RunnerStep \/ RewriteTStep \/ RewriteLStep \/
        RewriteBStep \/ PreConfStep \/ StoreSStep \/ StoreFStep \/
        EventsEStep \/ EventsQStep \/ TransactionsStep \/ BlocksStep \/
        ClassesStep \/ P2PStep \/ HistoryHStep \/ HistoryRStep \/
        HistoryVStep \/ PrunerAStep \/ PrunerLStep \/ ReadsJStep \/
        ReadsKStep \/ TracesStep \/ BitsStep \/ FlatStep \/ MerkleStep \/
        PathDStep \/ PathRStep \/ ArchiveStep \/ SequencerUStep \/
        SequencerFStep \/ ProposerXStep \/ StreamsAStep \/ StreamsBStep \/
        StreamsCStep \/ ShardsStep \/ CacheStep \/ L1AStep \/ L1BStep \/
        RingStep \/ FeedsStep \/ SubsHeadsStep \/ SubsEventsStep \/
        SubsContentsStep \/ SubsStatusStep

Spec == Init /\ [][Next]_vars

-----------------------------------------------------------------------------
\* The type invariants of the components.
TypeOK ==
    /\ which = "PruneN" => PruneN!TypeOK
    /\ which = "PruneD" => PruneD!TypeOK
    /\ which = "NewState" => NewState!TypeOK
    /\ which = "NewTries" => NewTries!TrieTypeOK
    /\ which = "RewriteC" => RewriteC!RewriteTypeOK
    /\ which = "Runner" => Runner!TypeOK
    /\ which = "RewriteT" => RewriteT!RewriteTypeOK
    /\ which = "RewriteL" => RewriteL!RewriteTypeOK
    /\ which = "RewriteB" => RewriteB!RewriteTypeOK
    /\ which = "PreConf" => PreConf!TypeOK
    /\ which = "StoreS" => StoreS!TypeOK
    /\ which = "StoreF" => StoreF!TypeOK
    /\ which = "EventsE" => EventsE!TypeOK
    /\ which = "EventsQ" => EventsQ!TypeOK
    /\ which = "Transactions" => Transactions!TypeOK
    /\ which = "Shards" => Shards!TypeOK
    /\ which = "Cache" => Cache!CacheTypeOK
    /\ which = "L1A" => L1A!TypeOK
    /\ which = "L1B" => L1B!TypeOK
    /\ which = "Ring" => Ring!TypeOK
    /\ which = "Feeds" => Feeds!FeedTypeOK

\* Once the migration is applied, every read of the history at or above the
\* block below the cutoff returns what it returned before it, however often
\* the migration was stopped, and every kept block is found by its hash.
\* At no moment is an entry that reads above the cutoff need in neither the
\* history nor the scratch space.
\* A run that is resumed keeps the cutoff it was pinned to, so the blocks at
\* or above it still have their data.
\* Once the migration is applied every read of the new history at a block
\* with readable state returns the value after that block, however often the
\* migration was stopped, and every contract has its record.
\* At no moment has a contract lost its head fields or a track its history:
\* one of the two layouts is whole.
\* Once the old buckets are wiped, every trie is node by node the one that
\* the new layout builds, and every contract has the root of its storage.
\* A trie whose new root is in the database is there as a whole, which is
\* what lets the next run skip it.
\* No binary works on a database in which a migration that it knows is half
\* done, unless it is going to finish that migration; none works on a newer
\* schema than its own; a migration runs when everything of the target below
\* it is applied and never again once it is, the pruner only with an L1 head;
\* and a saved state belongs to a migration that was begun and not applied.
\* The rewrite of a block never leaves it unreadable in both layouts: its
\* transactions are never replaced by the empty list that ingestBlock reads
\* once the old rows are gone.
\* Once a rewrite is marked as applied, every block with something to migrate
\* has an entry of the new layout only; the block that an interrupted run saved is an exact
\* resume point, with everything before it migrated; and one failed write
\* never leaves a worker waiting for a permit that nobody can return.
Migrated ==
    /\ which = "PruneN" => PruneN!HistoryKept
    /\ which = "PruneN" => PruneN!NeverInNeither
    /\ which = "PruneN" => PruneN!CutoffPinned
    /\ which = "PruneD" => PruneD!HistoryKept
    /\ which = "PruneD" => PruneD!NeverInNeither
    /\ which = "PruneD" => PruneD!CutoffPinned
    /\ which = "NewState" => NewState!NewHistoryExact
    /\ which = "NewState" => NewState!OneLayoutWhole
    /\ which = "NewTries" => NewTries!TriesMigrated
    /\ which = "NewTries" => NewTries!RootMeansWhole
    /\ which = "Runner" => Runner!HalfDoneIsFinished
    /\ which = "RewriteC" => RewriteC!AllMigrated
    /\ which = "RewriteT" => RewriteT!NothingLost
    /\ which = "RewriteT" => RewriteT!AllMigrated
    /\ which = "RewriteL" => RewriteL!NothingLost
    /\ which = "RewriteL" => RewriteL!AllMigrated
    /\ which = "RewriteB" => RewriteB!NothingLost
    /\ which = "RewriteB" => RewriteB!AllMigrated

\* The rewrite of a block never leaves it unreadable in both layouts: its
\* transactions are never replaced by the empty list that ingestBlock reads
\* once the old rows are gone.
TransactionsKept == which = "RewriteC" => RewriteC!NothingLost

\* Every slot below the update is the block that the gateway closed, whole, with the
\* classes that it declares (backfill asks for the old tip again before it goes on), and
\* the update slot is a beginning of a round of its block: a delta is merged only into
\* the transactions it was computed for.
SlotsTrue == which = "PreConf" => PreConf!SlotsTrue

\* Whoever follows the feed, and drops what is above a block it receives, has the
\* transactions of the stored chain.
FollowerHasChain == which = "PreConf" => PreConf!FollowerHasChain

\* The three promises of the store.
ProposalsKept ==
    /\ which = "StoreS" => StoreS!ProposalsKept
    /\ which = "StoreF" => StoreF!ProposalsKept

\* The pages of a query have, together, every matching event of its range once and in
\* order, whatever is stored, pruned or restarted meanwhile; unless a block of the range
\* has ever been reverted, a write has failed, or the running filter moved to the next
\* window between the two reads of LoadWindow and FillCurrentBits.
QueryExact ==
    /\ which = "EventsE" => EventsE!QueryExact
    /\ which = "EventsQ" => EventsQ!QueryExact




\* The state after block h that StateAtBlockNumber opens for any h from the
\* retention floor to the head is the state that the diffs up to h produce,
\* however many blocks were reverted, stored again and pruned, and while the
\* pruner is between two batches; so is the one StateAtBlockHash opens as long
\* as it knows the hash.  The head can always be reverted.
\* Pruned blocks are below the L1 head and so are never reverted, reorganisations
\* and outdated events included (package comment of pruner).
HistoryExact ==
    /\ which = "HistoryH" => HistoryH!HistoryExact
    /\ which = "HistoryR" => HistoryR!HistoryExact
    /\ which = "HistoryV" => HistoryV!HistoryExact
    /\ which = "PrunerA" => PrunerA!PrunedAreFinal
    /\ which = "PrunerL" => PrunerL!PrunedAreFinal

\* A step prunes a block only if Retained blocks and the lower of the two heads are
\* above it, and it is older than MinAge when it is pruned, whatever events were
\* skipped or handled late (pruner.New, WithMinAge).
PrunedAreOld == [][which = "PrunerA" => PrunerA!PrunedAreOld]_vars

\* What the read handlers of the API answer is true of one block of the chain, or
\* of the transaction asked for, whatever the node does between their reads.
\* Every record of the trace cache, and every answer, is a prefix of what
\* executing the block from its start gives, however often it was extended by
\* requests for later transactions, dropped and built again; unless the block
\* was replaced between the reads of its header and its transactions.  A request
\* for a transaction gets a trace of that transaction even then.  Who waits for
\* a block waits for somebody who holds its lease (Cache.Acquire).
\* A transaction of the pre-confirmed chain is traced on the state left by all
\* the transactions before it, those of its own block included
\* (traceInPreConfirmedChain).
AnswersTrue ==
    /\ which = "ReadsJ" => ReadsJ!AnswersTrue
    /\ which = "ReadsK" => ReadsK!AnswersTrue
    /\ which = "Traces" => Traces!TracesTrue
    /\ which = "Traces" => Traces!PreConfirmedTraceTrue

\* A chain of cuts, shifts, concatenations and conversions of a bit array leaves
\* exactly the bits that the same operations on a sequence of bits leave, with
\* nothing above the length, at every length up to the largest; and what is read
\* of it (single bits, order, common prefix test) is what the sequence says.
\* After any sequence of writes, deletions, hashings and reopenings the root
\* Trie.Hash returns is the commitment of what was written: no inner node whose
\* leaves changed is left out of the dirty nodes, and no pooled value is hashed.
\* The leaves read back are those last written, and Put returns the value that
\* it replaces: the old values of the state's history come from there.
\* The storage holds the leaves and the points where two of them part, nothing
\* else, and a reader that opens it after a commit computes the same root.
\* A proof of several keys of a hashed trie, gathered in one traversal,
\* verifies for each of them to its value, and to zero for an absent key.
\* The proof of a range that ends in a stored key is accepted with exactly the
\* leaves of the range, and all leaves without a proof; whether more keys follow
\* is told correctly where the root is below an edge.
\* Whatever was read, written, deleted and hashed since the trie was opened, its
\* root is the commitment of the leaves, the same that the trie keyed by path
\* computes, and every key reads as last written.
\* After a commit the database holds exactly the nodes of the new trie: no node
\* that a later read needs is deleted or stale, and none is left behind.
\* A proof of several keys, taken from an open trie with whatever was written,
\* verifies for each of them to its value, and to zero for an absent key.
\* A reader opened on the last state added finds exactly its nodes, whatever was
\* flattened, flushed, cached or restarted since.  On any other root of the layer
\* tree it finds the nodes of that state too, unless states were reverted: then
\* it may end on a disk layer that was replaced, but never on a wrong node.
\* The buffer always follows the persisted state, so no flush is ever refused.
\* A node of any state that was added in this process, or committed in an earlier
\* one, is always found, although a commit moves it from one store to the other
\* while the read, which holds no lock, is between the two.
TriesExact ==
    /\ which = "Bits" => Bits!BitsExact
    /\ which = "Flat" => Flat!RootExact
    /\ which = "Flat" => Flat!LeavesExact
    /\ which = "Flat" => Flat!NoOrphans
    /\ which = "Flat" => Flat!ProofsVerify
    /\ which = "Flat" => Flat!RangesAccepted
    /\ which = "Merkle" => Merkle!TrieExact
    /\ which = "Merkle" => Merkle!DatabaseExact
    /\ which = "Merkle" => Merkle!ProofsVerify
    /\ which = "Merkle" => Merkle!RangesAccepted
    /\ which = "PathD" => PathD!LayersExact
    /\ which = "PathD" => PathD!FlushInOrder
    /\ which = "PathR" => PathR!LayersExact
    /\ which = "PathR" => PathR!FlushInOrder
    /\ which = "Archive" => Archive!ArchiveComplete


\* A proposal that reaches the state machine is the one its proposer made:
\* header, valid round and block, built on the block below it, and the block
\* is in the proposal store unless it is no longer needed (processMessages,
\* transition).
\* Only streams of the current height run, and every stream that waits for
\* this height has been started (stop, processCommit, onFirstMessage).
\* A running stream that has all its parts, in whatever order and however
\* often they came, completes the proposal, unless the head moved on below
\* it or the proposer does not agree (processMessages, getNextMessage).
\* A stream fails only when its proposer does not agree, or when the head
\* moved while it was running (transition).
\* The nodes agree on who is responsible for a shard although each was given
\* the committee in its own order (NewScheduler, PeerForShardIndex and its
\* inverse ShardIndexForPublisher): what the publisher or a responsible peer
\* sends to a node is what the node takes from it (ValidateShardOrigin).
\* As many peers as there are data shards may stay silent in a committee of
\* three or more (the comment of Scheduler calls them the faulty ones): the
\* others are enough to build a message and to have it received.
\* The proof of a unit verifies for its shard at its index, and whatever
\* verifies at an index below the padded size is the shard of that index,
\* equal shards included (merkle.New, Proof.Verify).
\* A message is built again from any units that are enough and that include
\* the first, byte for byte, whatever its length does to the varint and the
\* padding (PadMessage, UnpadMessage, ConstructMessageFromUnits).
\* Get finds exactly the values added less than expiry ago, through every
\* wrap and growth of the ring and every late clean-up: a unit of a finished
\* message is recognised for as long as it should be, and no longer.
\* The ring holds what the map holds, once each and in order of expiry:
\* nothing stays in the map for ever, and growing loses nothing.
StreamsTrue ==
    /\ which = "StreamsA" => StreamsA!ProposalsTrue
    /\ which = "StreamsA" => StreamsA!RunsAtHeight
    /\ which = "StreamsA" => StreamsA!StreamsComplete
    /\ which = "StreamsA" => StreamsA!FailsForAReason
    /\ which = "StreamsB" => StreamsB!ProposalsTrue
    /\ which = "StreamsB" => StreamsB!RunsAtHeight
    /\ which = "StreamsB" => StreamsB!StreamsComplete
    /\ which = "StreamsB" => StreamsB!FailsForAReason
    /\ which = "StreamsC" => StreamsC!ProposalsTrue
    /\ which = "StreamsC" => StreamsC!RunsAtHeight
    /\ which = "StreamsC" => StreamsC!StreamsComplete
    /\ which = "StreamsC" => StreamsC!FailsForAReason
    /\ which = "Shards" => Shards!OriginsAgree
    /\ which = "Shards" => Shards!ThresholdsReached
    /\ which = "Shards" => Shards!ProofsBind
    /\ which = "Shards" => Shards!MessageRebuilt
    /\ which = "Cache" => Cache!RemembersExactly
    /\ which = "Cache" => Cache!RingIsMap

\* A poll that finds every event of the L1 node applied stores exactly what
\* the contract has at the finalised height, over the end of the scan, its
\* overlap with the subscription, and a restart (setL1Head).
\* The head is of the L1 chain although logs of orphaned blocks were kept,
\* as long as the client was told of the removals: updates that it missed
\* make it lag and no more (applyStateUpdate, subscribeToUpdates).
\* A node on another network never gives a head (ensureChainID).
\* A reader gets every message once and in order, or is told of exactly the
\* ones that it does not get, and those were overwritten (Subscription.run).
\* Nobody sleeps through a message, a Close or an Unsubscribe: Close wakes one
\* slot only, and Unsubscribe reads the position without a lock.
\* A subscription that ends because the broadcast was closed has had every
\* message that was sent (the drain that its comment promises).
\* The second attempt always finds room, as the comment in Send says, and the
\* channel is not closed: otherwise a feed would wait for its slowest reader
\* with the mutex held, or panic.
\* A reader that keeps the last value has it or can take it, and sees values
\* in the order in which they were sent, through Tee as well.
\* What a subscriber is sent is sent once, whole and in order.
NotificationsTrue ==
    /\ which = "L1A" => L1A!HeadExact
    /\ which = "L1A" => L1A!HeadOnChain
    /\ which = "L1A" => L1A!WrongNetworkNoHead
    /\ which = "L1B" => L1B!HeadExact
    /\ which = "L1B" => L1B!HeadOnChain
    /\ which = "L1B" => L1B!WrongNetworkNoHead
    /\ which = "Ring" => Ring!DeliversInOrder
    /\ which = "Ring" => Ring!NobodySleepsOn
    /\ which = "Ring" => Ring!DrainsBeforeEnd
    /\ which = "Feeds" => Feeds!SendNeverWaits
    /\ which = "Feeds" => Feeds!LastIsKept
    /\ which = "SubsHeads" => SubsHeads!NotificationsTrue
    /\ which = "SubsEvents" => SubsEvents!NotificationsTrue
    /\ which = "SubsContents" => SubsContents!NotificationsTrue
    /\ which = "SubsStatus" => SubsStatus!NotificationsTrue
=============================================================================
