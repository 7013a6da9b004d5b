------------------------------- MODULE Pruner -------------------------------
(***************************************************************************)
(* When the pruner deletes blocks (pruner/pruner.go).  Its loop reacts to    *)
(* the last unread L2 head and L1 head of two feeds that keep one event and  *)
(* skip further ones, so both may be out of date when they are handled.  The *)
(* age of blocks is checked against a height sampled by a ticker.            *)
(***************************************************************************)
EXTENDS Integers, Sequences

CONSTANTS MaxHeight, MaxTime,  \* bounds on blocks and on the clock
          MaxReverts,          \* blocks reverted
          Retained,            \* numRetainedBlocks
          L2HeadsPerPrune, MinAge

VARIABLES stamps,              \* timestamps of blocks 0, 1, ...
          l1Head,              \* L1 head in the database
          now, headEv, l1Ev,   \* the clock; the buffers of the two subscriptions
          latestSampledHeight, pendingL2Heads,
          oldest,              \* oldest retained block
          reverts

node == <<stamps, l1Head, reverts>>
pruner == <<latestSampledHeight, pendingL2Heads, oldest>>
vars == <<node, now, headEv, l1Ev, pruner>>

Never == -1
NoBlock == [num |-> Never, time |-> 0]
Height == Len(stamps) - 1
Stamp(n) == stamps[n + 1]
Least(x, y) == IF x < y THEN x ELSE y
Most(x, y) == IF x > y THEN x ELSE y

-----------------------------------------------------------------------------
\* Feed.Send, to a subscription with a full buffer: the event is skipped.
Send(buf, empty, ev) == IF buf = empty THEN ev ELSE buf

\* A block is stored and announced; when the node catches up its timestamp
\* lies in the past, never before its parent's.
StoreBlock ==
  /\ Height < MaxHeight
  /\ \E t \in (IF stamps = <<>> THEN 0 ELSE Stamp(Height)) .. now :
       /\ stamps' = Append(stamps, t)
       /\ headEv' = Send(headEv, NoBlock, [num |-> Height + 1, time |-> t])
  /\ UNCHANGED <<l1Head, reverts, now, l1Ev, pruner>>

\* Blocks that L1 has not accepted may be reverted.
RevertBlock ==
  /\ Height > l1Head /\ Height >= 0 /\ reverts < MaxReverts
  /\ stamps' = SubSeq(stamps, 1, Height)
  /\ reverts' = reverts + 1
  /\ UNCHANGED <<l1Head, now, headEv, l1Ev, pruner>>

\* Blockchain.SetL1Head: the feed first, the database next.  L1 may be ahead.
SetL1Head ==
  /\ \E n \in l1Head + 1 .. MaxHeight : l1Ev' = Send(l1Ev, Never, n) /\ l1Head' = n
  /\ UNCHANGED <<stamps, reverts, now, headEv, pruner>>

Tick == now < MaxTime /\ now' = now + 1 /\ UNCHANGED <<node, headEv, l1Ev, pruner>>

-----------------------------------------------------------------------------
\* The loop of FindOldestBlockAtOrAfter.
search[low \in 0 .. MaxHeight + 1, high \in 0 .. MaxHeight + 1, cutoff \in -MinAge .. MaxTime] ==
  LET mid == low + (high - low) \div 2 IN
  IF low >= high THEN low
  ELSE IF Stamp(mid) < cutoff THEN search[mid + 1, high, cutoff] ELSE search[low, mid, cutoff]

\* Never stands for ErrNoBlockInWindow.
FindOldestBlockAtOrAfter(lower, upper, cutoff) ==
  LET low == search[lower, upper + 1, cutoff] IN
  IF lower > upper \/ low > upper THEN Never ELSE low

Sampled(lower) ==
  LET found == FindOldestBlockAtOrAfter(lower, Height, now - MinAge) IN
  IF stamps = <<>> THEN lower ELSE IF found = Never THEN Height ELSE found

sampleHeight ==
  /\ MinAge > 0
  /\ latestSampledHeight' = Sampled(latestSampledHeight)
  /\ UNCHANGED <<node, now, headEv, l1Ev, pendingL2Heads, oldest>>

\* The service starts again: seedFloor, with empty subscriptions.
seedFloor ==
  /\ latestSampledHeight' = IF MinAge = 0 \/ stamps = <<>> THEN 0 ELSE Sampled(oldest)
  /\ pendingL2Heads' = 0 /\ headEv' = NoBlock /\ l1Ev' = Never
  /\ UNCHANGED <<node, now, oldest>>

\* Mutant: the higher of the two floors.
HigherFloor(standardFloor) ==
  IF MinAge = 0 THEN standardFloor ELSE Most(latestSampledHeight, standardFloor)
applyTimeFloor(standardFloor) ==
  IF MinAge = 0 THEN standardFloor ELSE Least(latestSampledHeight, standardFloor)

withinTimeWindow(t) == t >= now - MinAge

\* PruneUpto fails at a block that the chain has lost and then writes nothing.
pruneUpto(oldestBlockToKeep) ==
  IF oldestBlockToKeep > Height + 1 THEN UNCHANGED <<oldest, latestSampledHeight>>
  ELSE /\ oldest' = Most(oldest, oldestBlockToKeep)
       /\ latestSampledHeight' = Most(latestSampledHeight, oldest')

onNewBlock ==
  LET block == headEv
      counts == l1Head > block.num /\ block.num >= Retained
      standardFloor == block.num - Retained IN
  /\ headEv # NoBlock /\ headEv' = NoBlock
  /\ IF counts /\ pendingL2Heads + 1 >= L2HeadsPerPrune
     THEN /\ pendingL2Heads' = 0
          /\ pruneUpto(IF MinAge > 0 /\ withinTimeWindow(block.time)
                       THEN applyTimeFloor(standardFloor) ELSE standardFloor)
     ELSE /\ pendingL2Heads' = IF counts THEN pendingL2Heads + 1 ELSE pendingL2Heads
          /\ UNCHANGED <<latestSampledHeight, oldest>>
  /\ UNCHANGED <<node, now, l1Ev>>

onNewL1Head ==
  /\ l1Ev # Never /\ l1Ev' = Never
  /\ IF stamps = <<>> \/ l1Ev >= Height \/ l1Ev < Retained
     THEN UNCHANGED pruner
     ELSE pendingL2Heads' = 0 /\ pruneUpto(applyTimeFloor(l1Ev - Retained))
  /\ UNCHANGED <<node, now, headEv>>

Init ==
  /\ stamps = <<>> /\ l1Head = Never /\ now = 0 /\ headEv = NoBlock /\ l1Ev = Never
  /\ latestSampledHeight = 0 /\ pendingL2Heads = 0 /\ oldest = 0 /\ reverts = 0

Next == StoreBlock \/ RevertBlock \/ SetL1Head \/ Tick \/ sampleHeight \/ seedFloor
        \/ onNewBlock \/ onNewL1Head
Spec == Init /\ [][Next]_vars

-----------------------------------------------------------------------------
\* A step prunes a block only if Retained blocks and the lower of the two heads are
\* above it, and it is older than MinAge when it is pruned, whatever events were
\* skipped or handled late (pruner.New, WithMinAge).
PrunedAreOld ==
  oldest' > oldest => /\ oldest' + Retained <= Least(l1Head, Height)
                      /\ \A n \in oldest .. oldest' - 1 : Stamp(n) < now - MinAge

\* Pruned blocks are below the L1 head and so are never reverted, reorganisations
\* and outdated events included (package comment of pruner).
PrunedAreFinal == oldest > 0 => oldest <= l1Head
=============================================================================
