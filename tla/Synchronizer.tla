---------------------------- MODULE Synchronizer ----------------------------
(***************************************************************************)
(* sync: the synchronizer follows the chain of a data source that grows,   *)
(* reorganises and rolls back.  Fetchers run ahead and in parallel; their  *)
(* results are verified and stored, or lead to a revert, one at a time and *)
(* in the order of their heights.  A reset cancels the streams; when the   *)
(* tasks in flight have run out the synchronizer starts again at the head. *)
(*                                                                         *)
(* A block is identified with its hash, and a hash with the path to it     *)
(* from genesis: equal paths are equal hashes, and a block's parent is its *)
(* path without the last element.                                          *)
(***************************************************************************)
EXTENDS Integers, Sequences, FiniteSets

CONSTANTS
    Forks,             \* tells the children of a block apart
    StartLen,          \* length of the data source's chain when the node starts
    MaxLen,            \* bound on the length of chains
    MaxChanges,        \* bound on the changes of the data source's chain
    maxWorkers,        \* maxWorkers()
    MaxFaults,         \* bound on failed requests, verifications and stores
    MaxRevertFaults,   \* bound on failed RevertHead calls
    None

RevertTask == [last : Nat, at : Nat]
ReorgRange == [start : Nat, end : Nat]

\* The data source has a genesis block.
ASSUME Parameters ==
    /\ Forks # {}
    /\ MaxLen \in Nat /\ StartLen \in 1 .. MaxLen
    /\ None \notin RevertTask /\ None \notin ReorgRange /\ None \notin Nat

Paths == UNION {[1 .. n -> Forks] : n \in 1 .. MaxLen}
NoHeader == -1
\* What a subtraction below zero gives: above every height.
Wrapped == MaxLen + 1
Minus(n, k) == IF n >= k THEN n - k ELSE Wrapped

Number(b) == Len(b) - 1
Parent(b) == SubSeq(b, 1, Len(b) - 1)

VARIABLES
    remote, changes,   \* the data source's chain: the path to its head
    local,             \* the blocks of the blockchain
    tasks,             \* the tasks of the streams, in order
    nextHeight, workers, cancelled,
    catchUpMode,
    highest, polled,   \* highestBlockHeader; what pollLatest is about to store
    reverting,         \* the revertTask in progress, or None
    currReorg,         \* None, or the numbers of the first and last block
    view,              \* ghost: the chain as told by newHeads and reorgFeed
    faults, revertFaults

streams == <<tasks, nextHeight, workers>>
vars == <<remote, changes, local, streams, cancelled, catchUpMode, highest, polled,
          reverting, currReorg, view, faults, revertFaults>>

RemoteBlock(n) == SubSeq(remote, 1, n + 1)
Head_ == local[Len(local)]

Init ==
    /\ remote = [i \in 1 .. StartLen |-> CHOOSE fork \in Forks : TRUE]
    /\ changes = 0
    /\ local = <<RemoteBlock(0)>>
    /\ tasks = <<>> /\ nextHeight = 1 /\ workers = 1 /\ cancelled = FALSE
    /\ catchUpMode = FALSE
    /\ highest = NoHeader /\ polled = NoHeader
    /\ reverting = None
    /\ currReorg = None
    /\ view = local
    /\ faults = 0 /\ revertFaults = 0

-----------------------------------------------------------------------------
\* The data source (external): a new block, a fork from an earlier block, or a
\* roll-back.  Genesis is not among the blocks that change.
RemoteChange ==
    /\ changes < MaxChanges
    /\ \/ /\ Len(remote) < MaxLen
          /\ \E fork \in Forks : remote' = Append(remote, fork)
       \/ \E keep \in 1 .. Len(remote) - 1, fork \in Forks :
             remote' = Append(SubSeq(remote, 1, keep), fork)
       \/ \E keep \in 1 .. Len(remote) - 1 : remote' = SubSeq(remote, 1, keep)
    /\ changes' = changes + 1
    /\ UNCHANGED <<local, streams, cancelled, catchUpMode, highest, polled, reverting,
                   currReorg, view, faults, revertFaults>>

\* pollLatest: the request, and later the store of its answer.
PollRequest ==
    /\ polled = NoHeader
    /\ polled' = Len(remote) - 1
    /\ UNCHANGED <<remote, changes, local, streams, cancelled, catchUpMode, highest,
                   reverting, currReorg, view, faults, revertFaults>>

PollStore ==
    /\ polled # NoHeader
    /\ highest' = polled
    /\ polled' = NoHeader
    /\ UNCHANGED <<remote, changes, local, streams, cancelled, catchUpMode, reverting,
                   currReorg, view, faults, revertFaults>>

-----------------------------------------------------------------------------
Fetching == {i \in DOMAIN tasks : tasks[i].st \in {"fetching", "checking"}}

\* syncBlocks starts the fetch of the next height when a worker is free.
StartFetch ==
    /\ ~cancelled
    /\ Cardinality(Fetching) < workers
    /\ Len(tasks) <= workers
    /\ nextHeight <= MaxLen
    /\ tasks' = Append(tasks, [h |-> nextHeight, st |-> "fetching", block |-> <<>>,
                               last |-> None, at |-> None])
    /\ nextHeight' = nextHeight + 1
    /\ UNCHANGED <<remote, changes, local, workers, cancelled, catchUpMode, highest, polled,
                   reverting, currReorg, view, faults, revertFaults>>

\* isReverting, in two steps.  First the local height and the data source's head:
\* only the fetcher of the next height looks, and only when there is nothing newer.
\* Mutant: a data source behind the head is not looked at.
nothingNewerAtHead(h) == Len(local) = h /\ Len(remote) = Len(local)
nothingNewer(h) == Len(local) = h /\ Len(remote) <= Len(local)

Fetched(i) ==
    /\ tasks[i].st = "fetching"
    /\ tasks[i].h < Len(remote)
    /\ tasks' = [tasks EXCEPT ![i] = [h |-> tasks[i].h, st |-> "fetched",
                                      block |-> RemoteBlock(tasks[i].h), last |-> None, at |-> changes]]
    /\ UNCHANGED <<remote, changes, local, nextHeight, workers, cancelled, catchUpMode,
                   highest, polled, reverting, currReorg, view, faults, revertFaults>>

\* A failed request is repeated unless the chain has to be reverted.
CheckRemote(i) ==
    /\ tasks[i].st = "fetching"
    /\ ~cancelled
    /\ \/ tasks[i].h >= Len(remote) /\ UNCHANGED faults
       \/ faults < MaxFaults /\ faults' = faults + 1
    /\ nothingNewer(tasks[i].h)
    /\ tasks' = [tasks EXCEPT ![i] = [h |-> tasks[i].h, st |-> "checking", block |-> remote,
                                      last |-> None, at |-> changes]]
    /\ UNCHANGED <<remote, changes, local, nextHeight, workers, cancelled, catchUpMode,
                   highest, polled, reverting, currReorg, view, revertFaults>>

\* Then the local block of that height.
CheckLocal(i) ==
    /\ tasks[i].st = "checking"
    /\ tasks' = IF Len(tasks[i].block) <= Len(local) /\ local[Len(tasks[i].block)] # tasks[i].block
                THEN [tasks EXCEPT ![i] = [h |-> tasks[i].h, st |-> "revert", block |-> tasks[i].block,
                                           last |-> Minus(Number(tasks[i].block), 1),
                                           at |-> tasks[i].at]]
                ELSE [tasks EXCEPT ![i] = [h |-> tasks[i].h, st |-> "fetching", block |-> <<>>,
                                           last |-> None, at |-> None]]
    /\ UNCHANGED <<remote, changes, local, nextHeight, workers, cancelled, catchUpMode,
                   highest, polled, reverting, currReorg, view, faults, revertFaults>>

-----------------------------------------------------------------------------
\* The callbacks, in order.
Turn == tasks # <<>> /\ reverting = None
task == Head(tasks)

Dropped ==
    /\ Turn /\ cancelled /\ task.st \in {"fetching", "fetched"}
    /\ tasks' = Tail(tasks)
    /\ UNCHANGED <<remote, changes, local, nextHeight, workers, cancelled, catchUpMode,
                   highest, polled, reverting, currReorg, view, faults, revertFaults>>

\* verifierTask's failure, and storeTask's failures other than a wrong parent.
Rejected ==
    /\ Turn /\ ~cancelled /\ task.st = "fetched"
    /\ \/ faults < MaxFaults /\ faults' = faults + 1
       \/ Number(task.block) # Len(local) /\ UNCHANGED faults
    /\ tasks' = Tail(tasks)
    /\ cancelled' = TRUE
    /\ UNCHANGED <<remote, changes, local, nextHeight, workers, catchUpMode, highest, polled,
                   reverting, currReorg, view, revertFaults>>

\* Mutant of Mismatch: one block too many.
MismatchTooDeep ==
    /\ Turn /\ ~cancelled /\ task.st = "fetched"
    /\ Number(task.block) = Len(local)
    /\ local # <<>> /\ Parent(task.block) # Head_
    /\ tasks' = Tail(tasks)
    /\ reverting' = [last |-> Minus(Number(task.block), 3), at |-> task.at]
    /\ UNCHANGED <<remote, changes, local, nextHeight, workers, cancelled, catchUpMode,
                   highest, polled, currReorg, view, faults, revertFaults>>

Mismatch ==
    /\ Turn /\ ~cancelled /\ task.st = "fetched"
    /\ Number(task.block) = Len(local)
    /\ local # <<>> /\ Parent(task.block) # Head_
    /\ tasks' = Tail(tasks)
    /\ reverting' = [last |-> Minus(Number(task.block), 2), at |-> task.at]
    /\ UNCHANGED <<remote, changes, local, nextHeight, workers, cancelled, catchUpMode,
                   highest, polled, currReorg, view, faults, revertFaults>>

\* The first block after a revert is announced after the blocks it replaces.
Announce(b) ==
    /\ view' = Append(IF currReorg # None THEN SubSeq(view, 1, currReorg.start) ELSE view, b)
    /\ currReorg' = None

\* highestBlockHeader is raised with CompareAndSwap, which loses to pollLatest.
RaiseHighest(n) ==
    \/ highest >= n /\ UNCHANGED <<highest, polled>>
    \/ highest < n /\ highest' = n /\ UNCHANGED polled
    \/ highest < n /\ polled # NoHeader /\ highest' = polled /\ polled' = NoHeader

\* Mutant of storeTask: the parent is not compared.
storeUnlinked ==
    /\ Turn /\ ~cancelled /\ task.st = "fetched"
    /\ Number(task.block) = Len(local)
    /\ tasks' = Tail(tasks)
    /\ local' = Append(local, task.block)
    /\ LET isBehind == highest > Number(task.block) + maxWorkers
       IN  IF highest # NoHeader /\ catchUpMode # isBehind
           THEN cancelled' = TRUE /\ catchUpMode' = isBehind
           ELSE UNCHANGED <<cancelled, catchUpMode>>
    /\ RaiseHighest(Number(task.block))
    /\ Announce(task.block)
    /\ UNCHANGED <<remote, changes, nextHeight, workers, reverting, faults, revertFaults>>

storeTask ==
    /\ Turn /\ ~cancelled /\ task.st = "fetched"
    /\ Number(task.block) = Len(local)
    /\ local # <<>> => Parent(task.block) = Head_
    /\ tasks' = Tail(tasks)
    /\ local' = Append(local, task.block)
    /\ LET isBehind == highest > Number(task.block) + maxWorkers
       IN  IF highest # NoHeader /\ catchUpMode # isBehind
           THEN cancelled' = TRUE /\ catchUpMode' = isBehind
           ELSE UNCHANGED <<cancelled, catchUpMode>>
    /\ RaiseHighest(Number(task.block))
    /\ Announce(task.block)
    /\ UNCHANGED <<remote, changes, nextHeight, workers, reverting, faults, revertFaults>>

StartRevert ==
    /\ Turn /\ task.st = "revert"
    /\ tasks' = Tail(tasks)
    /\ reverting' = [last |-> task.last, at |-> task.at]
    /\ UNCHANGED <<remote, changes, local, nextHeight, workers, cancelled, catchUpMode,
                   highest, polled, currReorg, view, faults, revertFaults>>

-----------------------------------------------------------------------------
\* revertTask, one iteration per step.
EndRevert == reverting' = None /\ cancelled' = TRUE

\* Mutant of NoteReorg: the first block reverted is the whole range.
NoteFirst(n) == currReorg' = IF currReorg = None THEN [start |-> n, end |-> n] ELSE currReorg
NoteReorg(n) ==
    currReorg' = IF currReorg = None THEN [start |-> n, end |-> n]
                 ELSE [start |-> n, end |-> currReorg.end]

\* revertHead: the range is noted whether RevertHead succeeds or not.
revertHead ==
    /\ \/ local' = SubSeq(local, 1, Len(local) - 1) /\ UNCHANGED revertFaults
       \/ /\ revertFaults < MaxRevertFaults
          /\ revertFaults' = revertFaults + 1
          /\ UNCHANGED local
    /\ NoteReorg(Number(Head_))

\* Heads above lastPossiblyValidHeight go without a question.
Certain == local # <<>> /\ Number(Head_) > reverting.last

RevertCertain ==
    /\ reverting # None
    /\ Certain
    /\ revertHead
    /\ UNCHANGED <<remote, changes, streams, cancelled, catchUpMode, highest, polled,
                   reverting, view, faults>>

\* The others are compared with the data source's block of that height.
RevertChecked ==
    /\ reverting # None
    /\ local # <<>> /\ ~Certain
    /\ ~cancelled /\ Number(Head_) < Len(remote)
    /\ LET block == RemoteBlock(Number(Head_))
       IN  /\ block # Head_
           /\ revertHead
           /\ IF Parent(block) # Parent(Head_)
              THEN UNCHANGED <<reverting, cancelled>> ELSE EndRevert
    /\ UNCHANGED <<remote, changes, streams, catchUpMode, highest, polled, view, faults>>

\* An empty chain, an unanswered request, or a head that is the data source's.
RevertStop ==
    /\ reverting # None
    /\ ~Certain
    /\ \/ local = <<>> /\ UNCHANGED faults
       \/ local # <<>> /\ (cancelled \/ Number(Head_) >= Len(remote)) /\ UNCHANGED faults
       \/ local # <<>> /\ faults < MaxFaults /\ faults' = faults + 1
       \/ /\ local # <<>> /\ Number(Head_) < Len(remote)
          /\ RemoteBlock(Number(Head_)) = Head_
          /\ UNCHANGED faults
    /\ EndRevert
    /\ UNCHANGED <<remote, changes, local, streams, catchUpMode, highest, polled, currReorg,
                   view, revertFaults>>

\* syncBlocks after a reset, when all tasks have ended.
Restart ==
    /\ cancelled /\ tasks = <<>> /\ reverting = None
    /\ cancelled' = FALSE
    /\ nextHeight' = Len(local)
    /\ workers' = IF catchUpMode THEN maxWorkers ELSE 1
    /\ UNCHANGED <<remote, changes, local, tasks, catchUpMode, highest, polled, reverting,
                   currReorg, view, faults, revertFaults>>

FetchStep(i) == i \in DOMAIN tasks /\ (Fetched(i) \/ CheckRemote(i) \/ CheckLocal(i))
Fetch == \E i \in DOMAIN tasks : FetchStep(i)
Callback == Dropped \/ Rejected \/ Mismatch \/ storeTask \/ StartRevert
Revert == RevertCertain \/ RevertChecked \/ RevertStop

Next == RemoteChange \/ PollRequest \/ PollStore \/ StartFetch \/ Fetch \/ Callback \/ Revert
        \/ Restart
Spec == Init /\ [][Next]_vars

\* Requests are answered and callbacks run; faults are bounded.
FairSpec ==
    /\ Spec
    /\ WF_vars(StartFetch) /\ WF_vars(Callback) /\ WF_vars(Revert) /\ WF_vars(Restart)
    /\ \A i \in 1 .. maxWorkers + 1 : WF_vars(FetchStep(i))

-----------------------------------------------------------------------------
TypeOK ==
    /\ remote \in Paths
    /\ \A i \in DOMAIN local : local[i] \in Paths
    /\ Len(tasks) <= maxWorkers + 1
    /\ nextHeight \in 0 .. MaxLen + 1
    /\ workers \in {1, maxWorkers}
    /\ highest \in -1 .. MaxLen - 1
    /\ currReorg # None => currReorg.start <= currReorg.end

\* The blockchain is a chain: consecutive numbers, each block the parent of the
\* next, through parallel fetches, resets and reverts (verifyBlockSuccession).
ChainLinked ==
    \A i \in DOMAIN local : /\ Len(local[i]) = i
                            /\ i > 1 => Parent(local[i]) = local[i - 1]

\* Whoever follows newHeads and cuts its chain where reorgFeed says has the local
\* chain, up to the reverts that wait for the next block to be announced, as long as
\* no RevertHead has failed.
FollowersAgree ==
    revertFaults = 0 =>
    IF currReorg = None THEN view = local
    ELSE /\ local = SubSeq(view, 1, currReorg.start)
         /\ currReorg.end = Len(view) - 1

\* "Double check to avoid reverting the head if the hash is the same" (sync.go:478):
\* a block the data source still has is not reverted, unless the data source has
\* changed since the verdict.
RevertOrphan ==
    Len(local') < Len(local) /\ reverting.at = changes =>
      Number(Head_) >= Len(remote) \/ RemoteBlock(Number(Head_)) # Head_
RevertsOnlyOrphans == [][RevertOrphan]_vars

\* Once the data source has settled, its chain becomes the local one, or a part of
\* it if the data source has rolled back.
Converges == <>[](Len(local) >= Len(remote) /\ local[Len(remote)] = remote)
=============================================================================
