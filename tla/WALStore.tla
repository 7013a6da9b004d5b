----------------------------- MODULE WALStore -----------------------------
(***************************************************************************)
(* The consensus write-ahead log (consensus/walstore): numbered WAL files  *)
(* on disk, the prune watermark beside them, and the indexes in memory.    *)
(* Every step of a Flush at which a crash or an I/O error leaves a         *)
(* different disk is an action; the mutex keeps other calls out meanwhile. *)
(***************************************************************************)
EXTENDS Integers, Sequences, FiniteSets

CONSTANTS
    MaxHeight, MaxEntries,    \* entries are numbered, each one is set once
    MaxCrashes, MaxFailures,  \* crashes, and I/O errors
    CleanupInterval           \* cleanupPruneRecordInterval

ASSUME SizesAssumption == MaxHeight \in Nat /\ MaxEntries \in Nat

Heights == 1 .. MaxHeight
Entry == [h : Heights, n : 1 .. MaxEntries]

\* walRecordEnvelope: an entry, or a prune (n = 0).
Record == [h : Heights, n : 0 .. MaxEntries]
PruneRecord(h) == [h |-> h, n |-> 0]
IsPrune(rec) == rec.n = 0

VARIABLES
    \* Disk.
    files,             \* WAL number -> the records of its synced batches
    dirty,             \* bytes past the synced offset: file (0: none), records
    torn,              \* files that end in an invalid record
    unlinked,          \* removed files, until the directory is synced
    watermark,         \* the file prune-watermark
    \* tendermintWALStore and walWriter.
    mode,              \* which step of which call is next
    caller,            \* what a flush returns to: "up", or "closing" (Close)
    index,             \* entriesByHeight, walFilesByHeight, walHeightRefs, prunedUpToHeight
    pending,           \* pendingRecords
    pruneRecordsSinceCleanup,
    nextWALNum, currentWALNum,  \* 0: no writer
    repairRequired,
    queue,             \* the logs the manager has not handed out for deletion
    toDelete, rotateFailed,     \* locals of removeObsoleteWALFiles
    \* Counters.
    nextEntry, crashes, failures

disk == <<files, dirty, torn, unlinked, watermark>>
writer == <<nextWALNum, currentWALNum, repairRequired, queue>>
cleanup == <<pruneRecordsSinceCleanup, toDelete, rotateFailed>>
vars == <<disk, mode, caller, index, pending, writer, cleanup, nextEntry, crashes, failures>>

Clean == [file |-> 0, recs |-> <<>>]
Fresh(mark) == [entries |-> [h \in Heights |-> <<>>], byHeight |-> [h \in Heights |-> {}],
                refs |-> <<>>, pruned |-> mark]
Empty == Fresh(0)

-----------------------------------------------------------------------------
\* The indexes.

\* walHeightRefs[num]++, where the map has no key with the value 0.
Referred(refs, num) ==
    [k \in DOMAIN refs \union {num} |->
       IF k # num THEN refs[k] ELSE IF num \in DOMAIN refs THEN refs[num] + 1 ELSE 1]

addLiveEntry(ix, num, rec) ==
    [entries  |-> [ix.entries EXCEPT ![rec.h] = Append(@, rec)],
     byHeight |-> [ix.byHeight EXCEPT ![rec.h] = @ \union {num}],
     refs     |-> IF num \in ix.byHeight[rec.h] THEN ix.refs ELSE Referred(ix.refs, num),
     pruned   |-> ix.pruned]

\* pruneLiveEntriesUpTo, with deleteLiveHeight for the heights it covers.
pruneLiveEntriesUpTo(ix, h) ==
    LET left(num) == ix.refs[num] - Cardinality({k \in Heights : k <= h /\ num \in ix.byHeight[k]})
    IN  [entries  |-> [k \in Heights |-> IF k <= h THEN <<>> ELSE ix.entries[k]],
         byHeight |-> [k \in Heights |-> IF k <= h THEN {} ELSE ix.byHeight[k]],
         refs     |-> [num \in {k \in DOMAIN ix.refs : left(k) # 0} |-> left(num)],
         pruned   |-> h]

\* Op(x), with x evaluated once.
Once(x, Op(_)) == CHOOSE y \in {Op(z) : z \in {x}} : TRUE

\* updateIndexesFromCommittedRecords and applyEncodedRecord.
ApplyRecord(ix, num, rec) ==
    IF rec.h <= ix.pruned THEN ix
    ELSE IF IsPrune(rec) THEN pruneLiveEntriesUpTo(ix, rec.h)
    ELSE addLiveEntry(ix, num, rec)
ApplyRecords(ix, num, recs) ==
    LET after[i \in 0 .. Len(recs)] ==
            IF i = 0 THEN ix ELSE Once(after[i - 1], LAMBDA prev : ApplyRecord(prev, num, recs[i]))
    IN  after[Len(recs)]

\* loadExistingEntries: the files in order of their numbers.
Latest(fs) == CHOOSE k \in DOMAIN fs \union {0} : \A j \in DOMAIN fs : j <= k
Loaded(fs, mark) ==
    LET upTo[k \in 0 .. Latest(fs)] ==
            IF k = 0 THEN Fresh(mark)
            ELSE IF k \in DOMAIN fs THEN Once(upTo[k - 1], LAMBDA ix : ApplyRecords(ix, k, fs[k]))
            ELSE upTo[k - 1]
    IN  upTo[Latest(fs)]

-----------------------------------------------------------------------------
\* The calls that only buffer.

SetWALEntry(h) ==
    /\ mode = "up" /\ nextEntry <= MaxEntries
    /\ nextEntry' = nextEntry + 1
    /\ pending' = IF h <= index.pruned THEN pending ELSE Append(pending, [h |-> h, n |-> nextEntry])
    /\ UNCHANGED <<disk, mode, caller, index, writer, cleanup, crashes, failures>>

DeleteWALEntries(h) ==
    /\ mode = "up" /\ h > index.pruned
    /\ pending' = IF \E i \in DOMAIN pending : IsPrune(pending[i])
                  THEN [i \in DOMAIN pending |->
                          IF IsPrune(pending[i]) /\ pending[i].h < h THEN PruneRecord(h) ELSE pending[i]]
                  ELSE Append(pending, PruneRecord(h))
    /\ UNCHANGED <<disk, mode, caller, index, writer, cleanup, nextEntry, crashes, failures>>

-----------------------------------------------------------------------------
\* Flush, step by step.

\* An I/O error: at most MaxFailures of them.
Fails == failures < MaxFailures /\ failures' = failures + 1

\* ensureWriter and WriteRecord. Creating a file syncs the directory.
Flush(to) ==
    /\ mode = "up" /\ pending # <<>> /\ ~repairRequired
    /\ IF currentWALNum # 0
       THEN UNCHANGED <<files, unlinked, writer>>
       ELSE /\ files' = [k \in DOMAIN files \union {nextWALNum} |->
                           IF k = nextWALNum THEN <<>> ELSE files[k]]
            /\ currentWALNum' = nextWALNum /\ nextWALNum' = nextWALNum + 1
            /\ queue' = queue \union {nextWALNum}
            /\ unlinked' = <<>>
            /\ UNCHANGED repairRequired
    /\ dirty' = [file |-> currentWALNum', recs |-> pending]
    /\ mode' = "writing" /\ caller' = to
    /\ UNCHANGED <<torn, watermark, index, pending, cleanup, nextEntry, crashes, failures>>

\* The sync succeeds: the batch is committed and indexed.
Synced ==
    LET prunes == Cardinality({i \in DOMAIN pending : IsPrune(pending[i])})
        since  == pruneRecordsSinceCleanup + prunes
    IN  /\ mode = "writing"
        /\ files' = [files EXCEPT ![currentWALNum] = @ \o pending]
        /\ dirty' = Clean
        /\ index' = ApplyRecords(index, currentWALNum, pending)
        /\ pending' = <<>>
        /\ pruneRecordsSinceCleanup' = since
        /\ mode' = IF prunes > 0 /\ since >= CleanupInterval THEN "watermark" ELSE caller
        /\ UNCHANGED <<torn, unlinked, watermark, caller, writer, toDelete, rotateFailed,
                       nextEntry, crashes, failures>>

\* Mutant: the writer is closed after a failed sync, its tail is not repaired.
AbortUnrepaired ==
    /\ mode = "writing" /\ Fails
    /\ currentWALNum' = 0 /\ mode' = caller
    /\ torn' = torn \union {currentWALNum} /\ dirty' = Clean
    /\ UNCHANGED <<files, unlinked, watermark, caller, index, pending, nextWALNum, repairRequired,
                   queue, cleanup, nextEntry, crashes>>

\* abortUncommitted: the write or the sync failed; the tail is cut off, or no
\* writer is opened again.
abortUncommitted ==
    /\ mode = "writing" /\ Fails
    /\ currentWALNum' = 0 /\ mode' = caller
    /\ \/ dirty' = Clean /\ UNCHANGED repairRequired
       \/ repairRequired' = TRUE /\ UNCHANGED dirty
    /\ UNCHANGED <<files, torn, unlinked, watermark, caller, index, pending, nextWALNum, queue,
                   cleanup, nextEntry, crashes>>

\* Mutant: the watermark is left for the next cleanup.
SkipPruneWatermark ==
    /\ mode = "watermark" /\ mode' = "rotate"
    /\ UNCHANGED <<disk, caller, index, pending, writer, cleanup, nextEntry, crashes, failures>>

\* The rename replaces the old watermark or does not; a failed directory sync
\* leaves it open which.
writePruneWatermark ==
    /\ mode = "watermark"
    /\ \/ /\ watermark' = index.pruned /\ mode' = "rotate"
          /\ UNCHANGED failures
       \/ /\ Fails
          /\ watermark' \in {watermark, index.pruned} /\ mode' = caller
    /\ UNCHANGED <<files, dirty, torn, unlinked, caller, index, pending, writer, cleanup, nextEntry, crashes>>

\* rotateAfterSynced: with the writer closed, the files nothing refers to are
\* obsolete (cleanupObsoleteWALs, Obsolete).
Rotate ==
    /\ mode = "rotate"
    /\ currentWALNum' = 0
    /\ \/ rotateFailed' = FALSE /\ UNCHANGED <<repairRequired, dirty, failures>>
       \/ /\ Fails /\ rotateFailed' = TRUE
          /\ \/ UNCHANGED <<repairRequired, dirty>>
             \/ repairRequired' = TRUE /\ dirty' = [file |-> currentWALNum, recs |-> <<>>]
    /\ toDelete' = {k \in queue : k < nextWALNum /\ \A j \in DOMAIN index.refs : k < j}
    /\ queue' = queue \ toDelete'
    /\ mode' = "remove"
    /\ UNCHANGED <<files, torn, unlinked, watermark, caller, index, pending, nextWALNum,
                   pruneRecordsSinceCleanup, nextEntry, crashes>>

\* One obsolete file is removed. The manager does not hand it out again.
RemoveObsolete ==
    /\ mode = "remove" /\ toDelete # {}
    /\ \E k \in toDelete :
          /\ \A j \in toDelete : k <= j
          /\ \/ /\ files' = [j \in DOMAIN files \ {k} |-> files[j]]
                /\ unlinked' = [j \in DOMAIN unlinked \union {k} |-> IF j = k THEN files[k] ELSE unlinked[j]]
                /\ toDelete' = toDelete \ {k}
                /\ UNCHANGED <<mode, failures>>
             \/ /\ Fails
                /\ mode' = caller /\ toDelete' = {}
                /\ UNCHANGED <<files, unlinked>>
    /\ UNCHANGED <<dirty, torn, watermark, caller, index, pending, writer, pruneRecordsSinceCleanup,
                   rotateFailed, nextEntry, crashes>>

Removed ==
    /\ mode = "remove" /\ toDelete = {}
    /\ pruneRecordsSinceCleanup' = IF rotateFailed THEN pruneRecordsSinceCleanup ELSE 0
    /\ mode' = caller
    /\ UNCHANGED <<disk, caller, index, pending, writer, toDelete, rotateFailed, nextEntry, crashes, failures>>

-----------------------------------------------------------------------------
\* Stopping and starting.

\* What is on disk once the process, or the machine, has stopped: bytes that were
\* not synced are lost, torn or whole; removals that were not synced may be undone.
Fates == IF dirty.file = 0 THEN {"lost"} ELSE {"lost", "torn", "kept"}
Settle ==
    \E back \in SUBSET DOMAIN unlinked, fate \in Fates :
       /\ files' = [k \in DOMAIN files \union back |->
                      IF k \in back THEN unlinked[k]
                      ELSE IF k = dirty.file /\ fate = "kept" THEN files[k] \o dirty.recs
                      ELSE files[k]]
       /\ torn' = (IF fate = "torn" THEN torn \union {dirty.file} ELSE torn) \intersect DOMAIN files'
       /\ dirty' = Clean /\ unlinked' = <<>>

\* Nothing of the process survives.
Forget ==
    /\ mode' = "down" /\ caller' = "up" /\ index' = Empty /\ pending' = <<>>
    /\ pruneRecordsSinceCleanup' = 0 /\ toDelete' = {} /\ rotateFailed' = FALSE
    /\ nextWALNum' = 1 /\ currentWALNum' = 0 /\ repairRequired' = FALSE /\ queue' = {}

Crash ==
    /\ mode \notin {"down", "failed"} /\ crashes < MaxCrashes
    /\ crashes' = crashes + 1
    /\ Settle /\ Forget
    /\ UNCHANGED <<watermark, nextEntry, failures>>

\* Close: after the last flush, whether or not it succeeded.
Close ==
    /\ mode = "closing" \/ (mode = "up" /\ (pending = <<>> \/ repairRequired))
    /\ Settle /\ Forget
    /\ UNCHANGED <<watermark, nextEntry, crashes, failures>>

\* Mutant: the manager is not told of the files of an earlier process.
OpenWithoutLogs ==
    /\ mode = "down"
    /\ torn' = torn \ {Latest(files)}
    /\ mode' = IF torn' = {} THEN "up" ELSE "failed"
    /\ index' = IF torn' = {} THEN Loaded(files, watermark) ELSE index
    /\ nextWALNum' = Latest(files) + 1 /\ queue' = {}
    /\ UNCHANGED <<files, dirty, unlinked, watermark, caller, pending, currentWALNum, repairRequired,
                   cleanup, nextEntry, crashes, failures>>

\* NewTendermintWALStore: the tail of the latest file is repaired; an invalid
\* record in any other file is an error.
NewTendermintWALStore ==
    /\ mode = "down"
    /\ torn' = torn \ {Latest(files)}
    /\ mode' = IF torn' = {} THEN "up" ELSE "failed"
    /\ index' = IF torn' = {} THEN Loaded(files, watermark) ELSE index
    /\ nextWALNum' = Latest(files) + 1 /\ queue' = DOMAIN files
    /\ UNCHANGED <<files, dirty, unlinked, watermark, caller, pending, currentWALNum, repairRequired,
                   cleanup, nextEntry, crashes, failures>>

-----------------------------------------------------------------------------
Init ==
    /\ files = <<>> /\ dirty = Clean /\ torn = {} /\ unlinked = <<>> /\ watermark = 0
    /\ mode = "up" /\ caller = "up" /\ index = Empty /\ pending = <<>>
    /\ nextWALNum = 1 /\ currentWALNum = 0 /\ repairRequired = FALSE /\ queue = {}
    /\ pruneRecordsSinceCleanup = 0 /\ toDelete = {} /\ rotateFailed = FALSE
    /\ nextEntry = 1 /\ crashes = 0 /\ failures = 0

Next ==
    \/ \E h \in Heights : SetWALEntry(h) \/ DeleteWALEntries(h)
    \/ \E to \in {"up", "closing"} : Flush(to)
    \/ Synced \/ abortUncommitted \/ writePruneWatermark \/ Rotate \/ RemoveObsolete \/ Removed
    \/ Crash \/ Close \/ NewTendermintWALStore

Spec == Init /\ [][Next]_vars

-----------------------------------------------------------------------------
\* AlwaysOpens: whatever failed and wherever the process stopped, at most the
\* latest file ends in an invalid record, so loadLogicalLog (which tolerates no
\* other) lets the node start.
AlwaysOpens == mode # "failed"

\* CleanupComplete: a cleanup that met no error leaves no file older than the
\* oldest one with a live entry, files of earlier processes included.
CleanupComplete ==
    [][mode = "remove" /\ mode' \in {"up", "closing"} /\ failures' = 0 =>
          \A k \in DOMAIN files' : \E j \in DOMAIN index.refs : j <= k]_vars

\* The promise: DurableLog, with the entries as they would be loaded while the
\* store is down.
Contents == IF mode \in {"down", "failed"} THEN Loaded(files, watermark) ELSE index
\* The records that are in K, in order.
Kept(recs, K) ==
    LET kept[i \in 0 .. Len(recs)] ==
            IF i = 0 THEN <<>>
            ELSE IF recs[i] \in K THEN Append(kept[i - 1], recs[i]) ELSE kept[i - 1]
    IN  kept[Len(recs)]
Batch(recs) ==
    [entries |-> [h \in Heights |-> Kept(recs, {e \in Entry : e.h = h})],
     upTo    |-> IF \E i \in DOMAIN recs : IsPrune(recs[i])
                 THEN recs[CHOOSE i \in DOMAIN recs : IsPrune(recs[i])].h ELSE 0]
Promise == INSTANCE DurableLog WITH
    open     <- mode \notin {"down", "failed"},
    buffer   <- Batch(pending),
    inFlight <- Batch(dirty.recs),
    log      <- Contents.entries,
    pruned   <- Contents.pruned

\* Durable: the store keeps DurableLog's promise: no committed entry is lost, doubled
\* or reordered by a crash, a failed write or a cleanup; no pruned entry comes back.
Durable == Promise!Spec
=============================================================================
