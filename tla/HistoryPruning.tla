--------------------------- MODULE HistoryPruning ---------------------------
(***************************************************************************)
(* The migration that prunes the state history of an existing database:    *)
(* it pins the oldest block to keep, deletes the block data below it and   *)
(* the hash lookups, copies the history entries to keep to a scratch       *)
(* space, wipes the history, copies the entries back, rebuilds the lookups *)
(* and wipes the scratch space.  It may be cancelled, fail or crash at any *)
(* point and is resumed from the state that the runner saved.              *)
(*                                                                         *)
(* An entry is its position in the order of the database keys: the history *)
(* key k and the block b at k * Blocks + b.                                *)
(***************************************************************************)
EXTENDS Integers, FiniteSets

CONSTANTS
    Height,      \* the chain height
    Keys,        \* the number of history keys
    Written,     \* the history entries before the migration
    Layout,      \* "deprecated" or "new": how the history is stored
    L1Head,      \* the L1 head
    Retentions,  \* the values of the retention setting
    AgeFloors,   \* the oldest block that is young enough, as time passes
    BlockHashLag,
    MaxStops,    \* bound on the cancellations, failures and crashes
    None

VARIABLES
    hist, scratch,    \* the entries of the history and the scratch space
    data, headers,    \* the blocks with data, and with a header
    lookups,          \* the blocks that can be found by their hash
    saved,            \* the intermediate state that the runner keeps
    pc,               \* where the migration is
    m,                \* the state of the migrator
    pos,              \* the position of the scan
    held,             \* what was scanned and is not written yet
    age,              \* the age floor now
    stops,            \* the cancellations, failures and crashes so far
    floor0,           \* the highest cutoff that was ever worked to
    late              \* a crash hit after the last write and before the commit

vars == <<hist, scratch, data, headers, lookups, saved, pc, m, pos, held, age,
          stops, floor0, late>>
db == <<hist, scratch, data, headers, lookups>>

Blocks == Height + 1
At(k, b) == k * Blocks + b
KeyOf(e) == e \div Blocks
BlockOf(e) == e % Blocks
LeastOf(S) == CHOOSE n \in S : \A x \in S : n <= x
MostOf(S) == CHOOSE n \in S : \A x \in S : n >= x
LesserOf(x, y) == IF x < y THEN x ELSE y
Idle == [step |-> 0, floor |-> 0, rl |-> 0, rh |-> 0, lay |-> Layout]

TypeOK ==
    /\ hist \subseteq Written /\ scratch \subseteq Written
    /\ data \subseteq 0..Height /\ headers \subseteq 0..Height
    /\ lookups \subseteq 0..Height
    /\ pc \in {"idle", "stage", "staging", "restore", "lookups", "finish",
               "complete"}
    /\ m.step \in 0..2 /\ m.floor \in 0..Height

Init ==
    /\ hist = Written /\ scratch = {}
    /\ data = 0..Height /\ headers = 0..Height /\ lookups = 0..Height
    /\ saved = None /\ pc = "idle" /\ m = Idle /\ pos = 0 /\ held = {}
    /\ age \in AgeFloors /\ stops = 0 /\ floor0 = 0 /\ late = FALSE

-----------------------------------------------------------------------------
\* The cutoff for a retention setting; 0 when there is nothing to prune.  No
\* block is young enough when the age floor is beyond the pivot.
retentionFloorWithMinAge(pivot, retained) ==
    IF age > pivot THEN pivot - retained ELSE LesserOf(pivot - retained, age)

pinFloor(retained) ==
    LET pivot == LesserOf(L1Head, Height)
    IN  IF pivot < retained THEN 0
        ELSE retentionFloorWithMinAge(pivot, retained)

\* The layout on disk: staged entries count too.
hasEntries == hist \cup scratch # {}
detectLayout == IF Layout = "new" /\ hasEntries THEN "new" ELSE "deprecated"

\* The entries of a bucket that the migrator sees with the layout it found.
Seen(S) == IF m.lay = Layout THEN S ELSE {}

\* The process starts: Before restores the saved state, or a fresh run pins
\* its cutoff; then the steps begin.
Migrate ==
    /\ pc = "idle"
    /\ \E retained \in Retentions :
        IF saved = None /\ pinFloor(retained) <= 0
        THEN /\ pc' = "complete" /\ m' = Idle
             /\ UNCHANGED <<pos, floor0>>
        ELSE LET s == IF saved # None THEN saved
                      ELSE [Idle EXCEPT !.floor = pinFloor(retained)]
             IN /\ m' = [s EXCEPT !.lay = detectLayout]
                /\ pc' = <<"stage", "restore", "lookups">>[s.step + 1]
                /\ pos' = IF s.step = 2 THEN s.rl ELSE s.rh
                /\ floor0' = IF s.floor > floor0 THEN s.floor ELSE floor0
    /\ held' = {}
    /\ UNCHANGED <<db, saved, age, stops, late>>

-----------------------------------------------------------------------------
\* The first batch of the stage step: the block data below the cutoff and
\* all hash lookups.
runStage ==
    /\ pc = "stage"
    /\ data' = {b \in data : b >= m.floor}
    /\ headers' = {b \in headers : b >= m.floor - BlockHashLag}
    /\ lookups' = {}
    /\ pc' = "staging"
    /\ UNCHANGED <<hist, scratch, saved, m, pos, held, age, stops, floor0,
                   late>>

\* The entries of a key that reads at or above the cutoff reach.  A new
\* layout read at the block before the cutoff resolves to the latest entry
\* below it.
seekStart(k) ==
    LET E == {e \in Seen(hist) : KeyOf(e) = k}
        B == {e \in E : BlockOf(e) < m.floor}
    IN  (E \ B) \cup IF m.lay = "new" /\ B # {} THEN {MostOf(B)} ELSE {}

\* A worker takes the next key; a task handed out is always finished.
stagerRun ==
    /\ pc = "staging" /\ pos < At(Keys, 0)
    /\ held' = held \cup seekStart(KeyOf(pos))
    /\ pos' = At(KeyOf(pos) + 1, 0)
    /\ UNCHANGED <<db, saved, pc, m, age, stops, floor0, late>>

\* Some batch of the stage is written.
stagerFlush ==
    /\ pc = "staging" /\ held # {}
    /\ \E k \in {KeyOf(e) : e \in held} :
          LET S == {e \in held : KeyOf(e) = k}
          IN  scratch' = scratch \cup S /\ held' = held \ S
    /\ UNCHANGED <<hist, data, headers, lookups, saved, pc, m, pos, age, stops,
                   floor0, late>>

\* All keys are staged and written: one batch wipes the history and seeds the
\* lookup of the block below the cutoff.  It needs that block's header.
wipeHistory ==
    /\ pc = "staging" /\ pos >= At(Keys, 0) /\ held = {}
    /\ m.floor - 1 \in headers
    /\ hist' = hist \ Seen(hist)
    /\ lookups' = lookups \cup {m.floor - 1}
    /\ m' = [m EXCEPT !.step = 1, !.rh = 0]
    /\ pc' = "restore" /\ pos' = 0
    /\ UNCHANGED <<scratch, data, headers, saved, held, age, stops, floor0,
                   late>>

Staged == {e \in Seen(scratch) : e >= pos}

\* The staged entries are put back in the order of their keys.
restoreBucket ==
    /\ pc = "restore" /\ Staged # {}
    /\ held' = held \cup {LeastOf(Staged)} /\ pos' = LeastOf(Staged) + 1
    /\ UNCHANGED <<db, saved, pc, m, age, stops, floor0, late>>

batchWriterPut ==
    /\ pc = "restore" /\ held # {}
    /\ hist' = hist \cup held /\ held' = {}
    /\ UNCHANGED <<scratch, data, headers, lookups, saved, pc, m, pos, age,
                   stops, floor0, late>>

runRestoreHistory ==
    /\ pc = "restore" /\ Staged = {} /\ held = {}
    /\ m' = [m EXCEPT !.step = 2, !.rl = m.floor, !.rh = 0]
    /\ pc' = "lookups" /\ pos' = m.floor
    /\ UNCHANGED <<db, saved, held, age, stops, floor0, late>>

\* The lookups of a block are rebuilt from its header and its transactions.
restorerRun ==
    /\ pc = "lookups" /\ pos <= Height /\ pos \in headers \cap data
    /\ held' = held \cup {pos} /\ pos' = pos + 1
    /\ UNCHANGED <<db, saved, pc, m, age, stops, floor0, late>>

\* Some of the batches are written, in any order.
restorerFlush ==
    /\ pc = "lookups" /\ held # {}
    /\ \E b \in held : lookups' = lookups \cup {b} /\ held' = held \ {b}
    /\ UNCHANGED <<hist, scratch, data, headers, saved, pc, m, pos, age, stops,
                   floor0, late>>

\* All lookups are written: the scratch space is wiped.
wipeScratchSpace ==
    /\ pc = "lookups" /\ pos > Height /\ held = {}
    /\ scratch' = {} /\ pc' = "finish"
    /\ UNCHANGED <<hist, data, headers, lookups, saved, m, pos, held, age,
                   stops, floor0, late>>

\* The runner marks the migration as applied and deletes its state.
commit ==
    /\ pc = "finish"
    /\ saved' = None /\ pc' = "complete"
    /\ UNCHANGED <<db, m, pos, held, age, stops, floor0, late>>

-----------------------------------------------------------------------------
\* Time passes until the process is started again.
Stop ==
    /\ stops < MaxStops /\ stops' = stops + 1
    /\ pc' = "idle" /\ m' = Idle /\ pos' = 0 /\ held' = {}
    /\ \E a \in AgeFloors : a >= age /\ age' = a

\* The context is cancelled.  What was handed out is written, and the state
\* to resume from is saved.
Cancelled ==
    /\ \/ /\ pc = "staging" /\ pos < At(Keys, 0)
          /\ scratch' = scratch \cup held
          /\ saved' = [m EXCEPT !.rh = pos, !.lay = Layout]
          /\ UNCHANGED <<hist, lookups>>
       \/ /\ pc = "restore" /\ Staged # {}
          /\ hist' = hist \cup held
          /\ saved' = [m EXCEPT !.rh = LeastOf(Staged), !.lay = Layout]
          /\ UNCHANGED <<scratch, lookups>>
       \/ /\ pc = "lookups" /\ pos <= Height
          /\ lookups' = lookups \cup held
          /\ saved' = [m EXCEPT !.rl = pos, !.lay = Layout]
          /\ UNCHANGED <<hist, scratch>>
    /\ Stop
    /\ UNCHANGED <<data, headers, floor0, late>>

\* Everything is done, the scratch space is wiped and the state that was
\* saved when the stage was interrupted is not deleted yet.
Exposed == pc = "finish" /\ saved # None /\ saved.step = 0 /\ saved.rh > 0

\* The process is killed, or a step returns an error: the saved state stays
\* as it was.
Crash ==
    /\ pc \notin {"idle", "complete"}
    /\ Stop
    /\ late' = (late \/ Exposed)
    /\ UNCHANGED <<db, saved, floor0>>

Next ==
    \/ Migrate \/ runStage \/ stagerRun \/ stagerFlush \/ wipeHistory
    \/ restoreBucket \/ batchWriterPut \/ runRestoreHistory
    \/ restorerRun \/ restorerFlush \/ wipeScratchSpace \/ commit
    \/ Cancelled \/ Crash

Spec == Init /\ [][Next]_vars

-----------------------------------------------------------------------------
\* What a read of key k at height h finds in a set of entries.
ReadAt(S, k, h) ==
    LET E == {e \in S : KeyOf(e) = k}
        F == IF Layout = "new" THEN {e \in E : BlockOf(e) <= h}
             ELSE {e \in E : BlockOf(e) > h}
    IN  IF F = {} THEN None
        ELSE IF Layout = "new" THEN MostOf(F) ELSE LeastOf(F)

SameReads(S) ==
    \A k \in 0..Keys - 1 : \A h \in 0..Height :
        h >= floor0 - 1 => ReadAt(S, k, h) = ReadAt(Written, k, h)

\* Once the migration is applied, every read of the history at or above the
\* block below the cutoff returns what it returned before it, however often
\* the migration was stopped, and every kept block is found by its hash.
HistoryKept ==
    pc = "complete" /\ ~late =>
        /\ SameReads(hist) /\ scratch = {}
        /\ m.floor > 0 => lookups = {b \in 0..Height : b >= m.floor - 1}

\* At no moment is an entry that reads above the cutoff need in neither the
\* history nor the scratch space.
NeverInNeither == ~late => SameReads(hist \cup scratch)

\* A run that is resumed keeps the cutoff it was pinned to, so the blocks at
\* or above it still have their data.
CutoffPinned == saved # None => \A b \in saved.floor..Height : b \in data
=============================================================================
