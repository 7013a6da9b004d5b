----------------------------- MODULE Migrations -----------------------------
(***************************************************************************)
(* The runner of the schema migrations, and the migrations that rewrite    *)
(* what is stored of every block.                                          *)
(*                                                                         *)
(* The runner.  A binary knows the migrations below some index; the        *)
(* mandatory ones and the optional ones that are enabled are its target.   *)
(* The runner refuses databases it must not open, records its target, and  *)
(* applies what is pending in order, one migration at a time, keeping the  *)
(* state of one that is interrupted.  A schema version is a set of         *)
(* indices.                                                                *)
(*                                                                         *)
(* The rewrites: the transactions and receipts of a block into one entry   *)
(* ("txs"), the length of the state diff into the commitments ("lengths")  *)
(* and the headers without their bloom filter ("bloom").  All three hand   *)
(* ranges of blocks to workers, collect writes in batches, and are resumed *)
(* after they were cancelled, failed or crashed.  A block is "old" before  *)
(* its rewrite, "both" when the new entry is there and the old rows are    *)
(* too, "new" after it, "lost" when the new entry was replaced by an empty *)
(* one, and "none" when it has no rows and no new entry.                   *)
(***************************************************************************)
EXTENDS Integers, FiniteSets

CONSTANTS
    Optional,    \* the indices of the optional migrations
    Pruning,     \* the index of the history pruner
    Releases,    \* how many migrations a binary may know
    Downgrades,  \* whether an older binary may be started after a newer one
    MaxRuns,     \* bound on the starts of the process
    Kind,        \* "txs", "lengths" or "bloom"
    Height,      \* the chain height
    Oldest,      \* the oldest block that is kept
    Silent,      \* the blocks without transactions ("txs")
    batchSize,   \* the blocks of a range
    Ingestors,   \* the workers
    MaxCancels,  \* bound on the cancellations
    MaxFaults,   \* bound on the failures and the crashes
    None

VARIABLES
    legacy,      \* the deprecated schema version: "none", "old" or "last"
    current,     \* CurrentVersion: the migrations that are applied
    lastTarget,  \* LastTargetVersion
    inter,       \* the migrations with an intermediate state
    l1Stored,    \* an L1 head is stored
    known,       \* how many migrations the running binary knows
    target,      \* its target version
    pc,          \* "off", "new", "run" or "migrate"
    index,       \* the migration that runs
    begun,       \* the migrations that have changed the database
    runs         \* the starts so far

VARIABLES
    stored,      \* what the database holds of each block
    saved,       \* the intermediate state that the runner keeps
    phase,       \* "idle", "run" or "complete"
    next,        \* the position of the source
    ended,       \* the source: "open", "cancelled" or "done"
    batch,       \* per worker, its batch: the blocks written, and how
    at,          \* per worker: "free", "full", "wait" or "done"
    spare,       \* the permits of the semaphore that nobody holds
    failed,      \* some step of this run returned an error
    cancels, faults  \* the cancellations, and the failures and crashes, so far

vars == <<legacy, current, lastTarget, inter, l1Stored, known, target, pc,
          index, begun, runs>>
disk == <<legacy, current, lastTarget, inter, l1Stored>>

LeastOf(S) == CHOOSE n \in S : \A x \in S : n <= x
Indices == 0..(CHOOSE n \in Releases : \A x \in Releases : n >= x) - 1

TypeOK ==
    /\ legacy \in {"none", "old", "last"}
    /\ current \subseteq Indices /\ lastTarget \subseteq Indices
    /\ inter \subseteq Indices /\ target \subseteq Indices
    /\ begun \subseteq Indices /\ runs \in 0..MaxRuns
    /\ pc \in {"off", "new", "run", "migrate"}
    /\ known \in 0..Cardinality(Indices) /\ index \in Indices \cup {None}

Init ==
    /\ legacy \in {"none", "old", "last"} /\ l1Stored \in BOOLEAN
    /\ current = {} /\ lastTarget = {} /\ inter = {}
    /\ known = 0 /\ target = {} /\ pc = "off" /\ index = None
    /\ begun = {} /\ runs = 0

-----------------------------------------------------------------------------
\* The registry: every mandatory migration and the enabled optional ones.
registerMigrations(n, enabled) == ((0..n - 1) \ Optional) \cup enabled

validateNoPendingDeprecatedMigrations == legacy # "old"

\* The target must contain what is applied.
validateNoVersionDowngrade(t) == current \subseteq t

\* Bits beyond the registry are left to the check above.
validateNoOptOut(t, n) == {i \in lastTarget \ t : i < n} = {}

\* The process starts with some binary and some flags, and creates the
\* runner; a database that it must not open ends the process.
NewRunner ==
    /\ pc = "off" /\ runs < MaxRuns
    /\ \E n \in Releases : \E enabled \in SUBSET {i \in Optional : i < n} :
        LET t == registerMigrations(n, enabled)
        IN  /\ Downgrades \/ n >= known
            /\ validateNoPendingDeprecatedMigrations
            /\ validateNoOptOut(t, n) /\ validateNoVersionDowngrade(t)
            /\ known' = n /\ target' = t
    /\ pc' = "new" /\ runs' = runs + 1
    /\ UNCHANGED <<disk, index, begun>>

\* The pruning migration reads an L1 head, which is fetched first when there
\* is none.
fetchL1HeadIfMissing ==
    /\ pc = "new" /\ Pruning \in target /\ ~l1Stored
    /\ l1Stored' = TRUE
    /\ UNCHANGED <<legacy, current, lastTarget, inter, known, target, pc,
                   index, begun, runs>>

\* Run records the target before anything is migrated.
Run ==
    /\ pc = "new" /\ (Pruning \in target => l1Stored)
    /\ lastTarget' = target
    /\ pc' = IF target \ current = {} THEN "off" ELSE "run"
    /\ UNCHANGED <<legacy, current, inter, l1Stored, known, target, index,
                   begun, runs>>

\* The next pending migration is begun: Before gets the state that was saved.
runMigration ==
    /\ pc = "run" /\ target \ current # {}
    /\ index' = LeastOf(target \ current) /\ begun' = begun \cup {index'}
    /\ pc' = "migrate"
    /\ UNCHANGED <<disk, known, target, runs>>

\* It returns no state: one batch marks it as applied and deletes its state.
Applied ==
    /\ pc = "migrate"
    /\ current' = current \cup {index} /\ inter' = inter \ {index}
    /\ begun' = begun \ {index}
    /\ pc' = (IF target \ current' = {} THEN "off" ELSE "run")
    /\ index' = None
    /\ UNCHANGED <<legacy, lastTarget, l1Stored, known, target, runs>>

\* The context was cancelled: the state that it returns is saved and Run
\* returns.
Interrupted ==
    /\ pc = "migrate"
    /\ inter' = inter \cup {index}
    /\ pc' = "off" /\ index' = None
    /\ UNCHANGED <<legacy, current, lastTarget, l1Stored, known, target, begun,
                   runs>>

\* An error, or the end of the process: what is saved stays as it is.
Stopped ==
    /\ pc # "off"
    /\ pc' = "off" /\ index' = None
    /\ UNCHANGED <<disk, known, target, begun, runs>>

Next == \/ NewRunner \/ fetchL1HeadIfMissing \/ Run \/ runMigration
        \/ Applied \/ Interrupted \/ Stopped

Spec == Init /\ [][Next]_vars

-----------------------------------------------------------------------------
\* The rewrites of the blocks.
rewriteVars == <<stored, saved, phase, next, ended, batch, at, spare, failed,
                 cancels, faults>>
counts == <<cancels, faults>>

Blocks == Oldest..Height
Empty == [w \in Ingestors |-> {}]
Versions == {"both", "new", "lost"}

RewriteTypeOK ==
    /\ stored \in [Blocks -> Versions \cup {"old", "none"}]
    /\ saved \in {None} \cup (0..Height + 1)
    /\ phase \in {"idle", "run", "complete"}
    /\ next \in 0..Height + batchSize
    /\ ended \in {"open", "cancelled", "done"}
    /\ batch \in [Ingestors -> SUBSET (Blocks \X Versions)]
    /\ at \in [Ingestors -> {"free", "full", "wait", "done"}]
    /\ spare \in 0..Cardinality(Ingestors) + 1 /\ failed \in BOOLEAN
    /\ cancels \in 0..MaxCancels /\ faults \in 0..MaxFaults

\* A pipeline is set up: the source starts at a block, and the semaphore has
\* one permit more than there are workers that hold one.
migrateBlockRange(from) ==
    /\ next' = from /\ ended' = "open" /\ batch' = Empty
    /\ at' = [w \in Ingestors |-> "free"] /\ spare' = 1 /\ failed' = FALSE

RewriteInit ==
    /\ stored = [b \in Blocks |-> IF Kind = "txs" /\ b \in Silent THEN "none"
                                  ELSE "old"]
    /\ saved = None /\ phase = "idle" /\ next = 0 /\ ended = "open"
    /\ batch = Empty /\ at = [w \in Ingestors |-> "free"] /\ spare = 1
    /\ failed = FALSE /\ cancels = 0 /\ faults = 0

\* The blocks that still have rows of the old layout.
oldRows == {b \in Blocks : stored[b] \in {"old", "both"}}

\* Where a run starts: the first range with old rows, rounded down to a
\* whole range, or the saved block.
getFirstBlockToMigrate ==
    LET f == LeastOf(oldRows) IN f - (f % batchSize)

startBlock ==
    IF saved # None /\ saved > Oldest THEN saved ELSE Oldest

\* Nothing is left: the runner marks the migration as applied and forgets
\* the intermediate state.
Complete == phase' = "complete" /\ saved' = None /\ migrateBlockRange(0)

\* Before and the beginning of Migrate, and for "txs" every further round.
Migrate ==
    /\ phase = "idle"
    /\ LET left == IF Kind = "txs" THEN oldRows # {} ELSE startBlock <= Height
           from == IF Kind = "txs" THEN getFirstBlockToMigrate ELSE startBlock
       IN  \/ ~left /\ Complete
           \/ left /\ migrateBlockRange(from) /\ phase' = "run"
                   /\ UNCHANGED saved
    /\ UNCHANGED <<stored, counts>>

-----------------------------------------------------------------------------
\* What ingesting a block puts into the batch.  validateCount lets a block
\* pass that has no rows and was migrated before, and the empty list that
\* was read for it is put all the same.
ingestBlock(b) ==
    IF stored[b] \in {"new", "lost"} /\ b \notin Silent THEN "lost" ELSE "new"

\* The length is derived again from the state diff, and a header is encoded
\* again without its filter, whatever was there.
backfillBlock(b) == IF stored[b] = "old" THEN "new" ELSE stored[b]
stripHeaders(b) == IF stored[b] = "old" THEN "new" ELSE stored[b]

Rewritten(b) == CASE Kind = "txs" -> ingestBlock(b)
                  [] Kind = "lengths" -> backfillBlock(b)
                  [] Kind = "bloom" -> stripHeaders(b)

RangeFrom(from) == {b \in Blocks : b >= from /\ b < from + batchSize}

Takes(w) == phase = "run" /\ ended = "open" /\ next <= Height /\ at[w] = "free"

\* The source hands its next range to a worker that is free, which reads it
\* and fills its batch.  The rows of the old layout are deleted in the same
\* batch.  When the batch has reached its target size it is handed over.
Ingest(w) ==
    /\ Takes(w)
    /\ batch' = [batch EXCEPT
          ![w] = @ \cup {<<b, Rewritten(b)>> : b \in RangeFrom(next)}]
    /\ \E a \in {"free", "full"} : at' = [at EXCEPT ![w] = a]
    /\ next' = next + batchSize
    /\ UNCHANGED <<stored, saved, phase, ended, spare, failed, counts>>

\* A read or a decoding fails within a range, which cancels the pipeline.
\* The blocks before it are in the batch, the deletion of the old rows is
\* not.  The walk over the headers drops its batch and ends.
IngestFails(w) ==
    /\ Takes(w) /\ faults < MaxFaults
    /\ \E n \in 0..batchSize - 1 :
          batch' = [batch EXCEPT ![w] =
             IF Kind = "bloom" THEN {}
             ELSE @ \cup {<<b, IF stored[b] = "old" THEN "both"
                               ELSE Rewritten(b)>> :
                            b \in {c \in RangeFrom(next) : c < next + n}}]
    /\ next' = next + batchSize
    /\ ended' = IF Kind = "bloom" THEN "cancelled" ELSE ended
    /\ failed' = TRUE /\ faults' = faults + 1
    /\ UNCHANGED <<stored, saved, phase, at, spare, cancels>>

\* Writing the batch of a worker.
Write(w) ==
    stored' = [b \in Blocks |->
                 IF \E v \in Versions : <<b, v>> \in batch[w]
                 THEN CHOOSE v \in Versions : <<b, v>> \in batch[w]
                 ELSE stored[b]]

\* The committer writes a batch that was handed over and returns its permit;
\* when the write fails the pipeline is cancelled and the permit is kept.
Commit(w) ==
    /\ at[w] = "full" \/ (ended # "open" /\ at[w] = "free")
    /\ phase = "run"
    /\ \/ /\ Write(w) /\ spare' = spare + 1
          /\ UNCHANGED <<failed, faults>>
       \/ /\ faults < MaxFaults /\ faults' = faults + 1 /\ failed' = TRUE
          /\ UNCHANGED <<stored, spare>>
    /\ batch' = [batch EXCEPT ![w] = {}]
    /\ at' = [at EXCEPT ![w] = IF @ = "full" THEN "wait" ELSE "done"]
    /\ UNCHANGED <<saved, phase, next, ended, cancels>>

\* The worker that handed its batch over waits for a permit for a new one.
GetBlocking(w) ==
    /\ phase = "run" /\ at[w] = "wait" /\ spare > 0
    /\ at' = [at EXCEPT ![w] = "free"] /\ spare' = spare - 1
    /\ UNCHANGED <<stored, saved, phase, next, ended, batch, failed, counts>>

\* The source notices that the context is cancelled, from outside or by an
\* error, and stops where it is; or it is exhausted.
SourceEnds ==
    /\ phase = "run" /\ ended = "open"
    /\ \/ failed /\ next <= Height /\ ended' = "cancelled" /\ UNCHANGED cancels
       \/ /\ cancels < MaxCancels /\ next <= Height
          /\ ended' = "cancelled" /\ cancels' = cancels + 1
       \/ next > Height /\ ended' = "done" /\ UNCHANGED cancels
    /\ UNCHANGED <<stored, saved, phase, next, batch, at, spare, failed,
                   faults>>

\* The pipeline has ended: an error leaves the saved state alone, an
\* interruption saves the position of the source, and a whole pass either
\* completes the migration or, for "txs", looks for rows that are left.
SavesFailed ==
    /\ phase = "run" /\ \A w \in Ingestors : at[w] = "done"
    /\ \/ /\ failed \/ ended = "cancelled" \/ Kind = "txs"
          /\ phase' = "idle" /\ migrateBlockRange(0)
          /\ saved' = IF ended = "done" THEN saved
                      ELSE IF Kind = "txs" THEN 0 ELSE next
       \/ ~failed /\ ended = "done" /\ Kind # "txs" /\ Complete
    /\ UNCHANGED <<stored, counts>>

wait ==
    /\ phase = "run" /\ \A w \in Ingestors : at[w] = "done"
    /\ \/ /\ failed \/ ended = "cancelled" \/ Kind = "txs"
          /\ phase' = "idle" /\ migrateBlockRange(0)
          /\ saved' = IF failed \/ ended = "done" THEN saved
                      ELSE IF Kind = "txs" THEN 0 ELSE next
       \/ ~failed /\ ended = "done" /\ Kind # "txs" /\ Complete
    /\ UNCHANGED <<stored, counts>>

\* The process is killed: what was not written is gone.
Crash ==
    /\ phase = "run" /\ faults < MaxFaults
    /\ phase' = "idle" /\ migrateBlockRange(0)
    /\ faults' = faults + 1
    /\ UNCHANGED <<stored, saved, cancels>>

RewriteNext ==
    \/ Migrate \/ SourceEnds \/ wait \/ Crash
    \/ \E w \in Ingestors :
          Ingest(w) \/ IngestFails(w) \/ Commit(w) \/ GetBlocking(w)

RewriteSpec == RewriteInit /\ [][RewriteNext]_rewriteVars

-----------------------------------------------------------------------------
\* No binary works on a database in which a migration that it knows is half
\* done, unless it is going to finish that migration; none works on a newer
\* schema than its own; a migration runs when everything of the target below
\* it is applied and never again once it is, the pruner only with an L1 head;
\* and a saved state belongs to a migration that was begun and not applied.
HalfDoneIsFinished ==
    /\ pc \in {"run", "migrate"} =>
          /\ {i \in begun : i < known} \subseteq target
          /\ current \subseteq target
    /\ pc = "migrate" =>
          /\ {i \in target : i < index} \subseteq current
          /\ index \notin current
          /\ index = Pruning => l1Stored
    /\ inter \subseteq begun /\ inter \cap current = {}

\* The rewrite of a block never leaves it unreadable in both layouts: its
\* transactions are never replaced by the empty list that ingestBlock reads
\* once the old rows are gone.
NothingLost == \A b \in Blocks : stored[b] # "lost"

\* Once a rewrite is marked as applied, every block with something to migrate
\* has an entry of the new layout only; the block that an interrupted run saved is an exact
\* resume point, with everything before it migrated; and one failed write
\* never leaves a worker waiting for a permit that nobody can return.
AllMigrated ==
    /\ phase = "complete" => \A b \in Blocks \ Silent : stored[b] \in {"new", "lost"}
    /\ Kind # "txs" /\ saved # None =>
          \A b \in Blocks : b < saved => stored[b] = "new"
    /\ \A w \in Ingestors : at[w] = "wait" => spare > 0
=============================================================================
