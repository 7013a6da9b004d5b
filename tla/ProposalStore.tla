--------------------------- MODULE ProposalStore ---------------------------
(***************************************************************************)
(* consensus/proposal: the build results of the proposals a node has made, *)
(* received or synchronised, by height and hash, without a lock.  Streams  *)
(* of proposals, the proposer and the sync extractor store; the state      *)
(* machine and the commit listener look up; the commit listener finalizes. *)
(*                                                                         *)
(* Every atomic operation of the two levels of sync.Map and of the counter *)
(* of finalized heights is a step.  A bucket is an object of its own: a    *)
(* call may hold one that has been removed from the outer map.             *)
(***************************************************************************)
EXTENDS Naturals

CONSTANTS
    Storers,    \* the calls of Store; each makes a build result and at most one bucket
    Getters,    \* the calls of Get
    Finalizers, \* the calls of FinalizeHeight
    MaxHeight,  \* bound on heights
    Ids,        \* tells the blocks of a height apart
    None

\* A hash, of which a block's number is a part.
Heights == 1 .. MaxHeight
Keys == [height : Heights, id : Ids]
Calls == Storers \union Getters \union Finalizers

VARIABLES
    outer,      \* proposalsByHeight: a bucket or None
    bucket,     \* of each bucket, the build result of each key or None
    finalized,  \* finalizedHeight
    pc, key,    \* of each call: where it is, and its argument (a height for FinalizeHeight)
    held,       \* of a Store its bucket; of a Get what it has found; of a
                \* FinalizeHeight the counter it read, and then outer as its Range began
    visited,    \* of a FinalizeHeight: the heights Range has handed it
    promised    \* ghost: the Gets that must find something

vars == <<outer, bucket, finalized, pc, key, held, visited, promised>>

Init ==
    /\ outer = [h \in Heights |-> None]
    /\ bucket = [b \in Storers |-> [k \in Keys |-> None]]
    /\ finalized = 0
    /\ pc = [c \in Calls |-> "ready"]
    /\ key = [c \in Calls |-> None]
    /\ held = [c \in Calls |-> None]
    /\ visited = [c \in Finalizers |-> {}]
    /\ promised = {}

IsFinalized(h) == h <= finalized
Goto(c, label) == pc' = [pc EXCEPT ![c] = label]
Content(k) == IF outer[k.height] = None THEN None ELSE bucket[outer[k.height]][k]

-----------------------------------------------------------------------------
\* Store: the guard, proposalFor in two steps, LoadOrStore, and the second look.
Store(s) ==
    /\ pc[s] = "ready"
    /\ \E k \in Keys :
          /\ key' = [key EXCEPT ![s] = k]
          /\ Goto(s, IF IsFinalized(k.height) THEN "done" ELSE "load")
    /\ UNCHANGED <<outer, bucket, finalized, held, visited, promised>>

LoadBucket(s) ==
    /\ pc[s] = "load"
    /\ held' = [held EXCEPT ![s] = outer[key[s].height]]
    /\ Goto(s, IF outer[key[s].height] # None THEN "insert" ELSE "create")
    /\ UNCHANGED <<outer, bucket, finalized, key, visited, promised>>

\* Mutant of proposalFor: a plain store instead of LoadOrStore.
proposalForOverwrites(s) ==
    /\ pc[s] = "create"
    /\ outer' = [outer EXCEPT ![key[s].height] = s]
    /\ held' = [held EXCEPT ![s] = s]
    /\ Goto(s, "insert")
    /\ UNCHANGED <<bucket, finalized, key, visited, promised>>

proposalFor(s) ==
    /\ pc[s] = "create"
    /\ LET h == key[s].height
           actual == IF outer[h] = None THEN s ELSE outer[h]
       IN  /\ outer' = [outer EXCEPT ![h] = actual]
           /\ held' = [held EXCEPT ![s] = actual]
    /\ Goto(s, "insert")
    /\ UNCHANGED <<bucket, finalized, key, visited, promised>>

Insert(s) ==
    /\ pc[s] = "insert"
    /\ bucket' = [bucket EXCEPT ![held[s]][key[s]] = IF @ = None THEN s ELSE @]
    /\ Goto(s, "recheck")
    /\ UNCHANGED <<outer, finalized, key, held, visited, promised>>

Recheck(s) ==
    /\ pc[s] = "recheck"
    /\ Goto(s, IF IsFinalized(key[s].height) THEN "rollback" ELSE "done")
    /\ UNCHANGED <<outer, bucket, finalized, key, held, visited, promised>>

RollbackKey(s) ==
    /\ pc[s] = "rollback"
    /\ bucket' = [bucket EXCEPT ![held[s]][key[s]] = IF @ = s THEN None ELSE @]
    /\ Goto(s, "drop")
    /\ UNCHANGED <<outer, finalized, key, held, visited, promised>>

RollbackBucket(s) ==
    /\ pc[s] = "drop"
    /\ outer' = [outer EXCEPT ![key[s].height] = IF @ = held[s] THEN None ELSE @]
    /\ Goto(s, "done")
    /\ UNCHANGED <<bucket, finalized, key, held, visited, promised>>

-----------------------------------------------------------------------------
\* FinalizeHeight: the loop of CompareAndSwap, and the Range that deletes.
FinalizeHeight(f) ==
    /\ pc[f] = "ready"
    /\ \E h \in Heights : key' = [key EXCEPT ![f] = h]
    /\ Goto(f, "read")
    /\ UNCHANGED <<outer, bucket, finalized, held, visited, promised>>

\* Mutant of ReadFinalized: a height already finalized is finalized again.
ReadFinalizedOff(f) ==
    /\ pc[f] = "read"
    /\ held' = [held EXCEPT ![f] = finalized]
    /\ Goto(f, IF key[f] < finalized THEN "done" ELSE "swap")
    /\ UNCHANGED <<outer, bucket, finalized, key, visited, promised>>

ReadFinalized(f) ==
    /\ pc[f] = "read"
    /\ held' = [held EXCEPT ![f] = finalized]
    /\ Goto(f, IF key[f] <= finalized THEN "done" ELSE "swap")
    /\ UNCHANGED <<outer, bucket, finalized, key, visited, promised>>

Swap(f) ==
    /\ pc[f] = "swap"
    /\ IF finalized = held[f]
       THEN /\ finalized' = key[f] /\ Goto(f, "range")
            /\ held' = [held EXCEPT ![f] = outer]
       ELSE Goto(f, "read") /\ UNCHANGED <<finalized, held>>
    /\ UNCHANGED <<outer, bucket, key, visited, promised>>

\* Range hands over every key that was there when it began, in any order, and
\* may or may not hand over what is stored meanwhile.
Visit(f) ==
    /\ pc[f] = "range"
    /\ \E h \in {h \in Heights \ visited[f] : outer[h] # None} :
          /\ visited' = [visited EXCEPT ![f] = @ \union {h}]
          /\ outer' = [outer EXCEPT ![h] = IF h <= key[f] THEN None ELSE @]
    /\ UNCHANGED <<bucket, finalized, pc, key, held, promised>>

RangeDone(f) ==
    /\ pc[f] = "range"
    /\ \A h \in Heights \ visited[f] : outer[h] = None \/ outer[h] # held[f][h]
    /\ Goto(f, "done")
    /\ UNCHANGED <<outer, bucket, finalized, key, held, visited, promised>>

-----------------------------------------------------------------------------
\* Get: Range finds the bucket of the height, if it finds any, and the key in it.
Get(g) ==
    /\ pc[g] = "ready"
    /\ \E k \in Keys :
          /\ key' = [key EXCEPT ![g] = k]
          /\ promised' = IF Content(k) # None /\ ~IsFinalized(k.height)
                         THEN promised \union {g} ELSE promised
    /\ Goto(g, "load")
    /\ UNCHANGED <<outer, bucket, finalized, held, visited>>

Lookup(g) ==
    /\ pc[g] = "load"
    /\ held' = [held EXCEPT ![g] = Content(key[g])]
    /\ Goto(g, IF Content(key[g]) # None THEN "check" ELSE "done")
    /\ UNCHANGED <<outer, bucket, finalized, key, visited, promised>>

CheckFinalized(g) ==
    /\ pc[g] = "check"
    /\ held' = [held EXCEPT ![g] = IF IsFinalized(key[g].height) THEN None ELSE @]
    /\ Goto(g, "done")
    /\ UNCHANGED <<outer, bucket, finalized, key, visited, promised>>

Next ==
    \/ \E s \in Storers :
          \/ Store(s) \/ LoadBucket(s) \/ proposalFor(s) \/ Insert(s)
          \/ Recheck(s) \/ RollbackKey(s) \/ RollbackBucket(s)
    \/ \E f \in Finalizers :
          FinalizeHeight(f) \/ ReadFinalized(f) \/ Swap(f) \/ Visit(f) \/ RangeDone(f)
    \/ \E g \in Getters : Get(g) \/ Lookup(g) \/ CheckFinalized(g)

Spec == Init /\ [][Next]_vars
-----------------------------------------------------------------------------
TypeOK ==
    /\ outer \in [Heights -> Storers \union {None}]
    /\ bucket \in [Storers -> [Keys -> Storers \union {None}]]
    /\ finalized \in 0 .. MaxHeight
    /\ \A s \in Storers : pc[s] \in {"insert", "recheck", "rollback", "drop"} => held[s] \in Storers
    /\ \A f \in Finalizers : pc[f] = "swap" => held[f] < key[f]
    /\ promised \subseteq Getters

Resting(c) == pc[c] \in {"ready", "done"}

\* "we never leave a proposal at a finalized height" (proposal_store.go:41): once
\* the calls in progress have returned, no bucket of a finalized height is left.
NothingLeft ==
    (\A c \in Storers \union Finalizers : Resting(c)) =>
       \A h \in Heights : IsFinalized(h) => outer[h] = None

\* What Store has stored stays until its height is finalized, whatever buckets
\* other calls create, remove and roll back: the state machine holds the value
\* for valid, and OnCommit must find it.
StoredIsKept ==
    \A s \in Storers : pc[s] = "done" /\ ~IsFinalized(key[s].height) => Content(key[s]) # None

\* A Get that began when its hash was stored finds it, unless the height was
\* finalized meanwhile (Get reads the counter after the maps).
GetFinds ==
    \A g \in promised : pc[g] = "done" /\ key[g].height > finalized => held[g] # None

\* The three promises of the store.
ProposalsKept == NothingLeft /\ StoredIsKept /\ GetFinds
=============================================================================
