---------------------------- MODULE PreConfirmed ----------------------------
(***************************************************************************)
(* sync/preconfirmed: the poller and the chain of pre-confirmed blocks it  *)
(* keeps above the local head.  One goroutine polls: it realigns the chain *)
(* with the head, asks the gateway for the latest block with a hint of     *)
(* what it has, fills the slots below the latest one, and applies it.      *)
(* Requests and updates are separate steps; blocks are stored and reverted *)
(* and the gateway moves on between any two of them.                       *)
(*                                                                         *)
(* A block is its identifier (one per block and round, or Blank for a      *)
(* placeholder) and its transactions; a transaction is <<identifier,       *)
(* index>>, and the class that the transactions with index in Declares     *)
(* declare has the transaction's name.                                     *)
(***************************************************************************)
EXTENDS Integers, Sequences, SequencesExt

CONSTANTS
    MaxNumber,      \* the last block number
    MaxRound,       \* rounds the gateway may open for a block
    MaxTxs,         \* transactions of a block
    Declares,       \* the indices of the transactions that declare a class
    MaxFaults,      \* bound on failed requests and reverted blocks
    None

Blank == 0

VARIABLES
    gateway,        \* gateway[n]: the block n of the gateway, for 1 .. latest
    latest, window, \* the numbers of the newest and of the oldest block it answers for
    height,         \* the number of the local head
    highest,        \* highestBlockHeader
    chain,          \* the stored chain: the slots, and the number of the oldest
    pc,             \* where poll is
    oldest,         \* oldestPreConf, read when the poll began
    tip, update,    \* mostRecent of that chain, and the update to the latest block
    fill,           \* the slot that backfill asks for next
    follower,       \* what a subscriber to the feed has: block number -> entry
    faults          \* failed requests and reverted blocks so far

server == <<gateway, latest, window>>
local == <<height, highest>>
polling == <<pc, oldest, tip, update, fill>>
vars == <<server, local, chain, polling, follower, faults>>

Txs(id, from, to) == [i \in 1 .. to - from |-> <<id, from + i>>]
Block(b) == [kind |-> "block", id |-> b.id, txs |-> Txs(b.id, 0, b.txs)]
Declared(txs) == {tx \in ToSet(txs) : tx[2] \in Declares}

\* The gateway's answer to a caller that has txCount transactions of the round id.
Answer(b, id, txCount) ==
    IF id # b.id THEN Block(b)
    ELSE IF txCount = b.txs THEN [kind |-> "noChange", id |-> id, txs |-> <<>>]
    ELSE [kind |-> "delta", id |-> id, txs |-> Txs(id, txCount, b.txs)]

-----------------------------------------------------------------------------
\* ChainReader
Empty == [low |-> 0, slots |-> <<>>]
TipNumber(c) == c.low + Len(c.slots) - 1
contains(c, n) == c.slots # <<>> /\ n \in c.low .. TipNumber(c)
SlotAt(c, n) == c.slots[n - c.low + 1]

SnapshotForBlock(c, n) ==
    IF contains(c, n) THEN [low |-> n, slots |-> SubSeq(c.slots, n - c.low + 1, Len(c.slots))]
    ELSE Empty

\* The classes that the state at slot n can look up.
PreConfirmedStateAt(c, n) == UNION {SlotAt(c, k).classes : k \in c.low .. n}

\* Mutant of AdvanceTo: the chain is not moved with the head.
AdvanceToNever(n) == chain

AdvanceTo(n) ==
    IF chain.slots = <<>> \/ n = chain.low THEN chain ELSE SnapshotForBlock(chain, n)

shouldPreserveSlot(existing, incoming) ==
    /\ incoming.id \in {existing.id, Blank}
    /\ Len(incoming.txs) <= Len(existing.txs)
    /\ incoming.classes \subseteq existing.classes

Entry(u, classes) == [id |-> u.id, txs |-> u.txs, classes |-> classes]

\* The chain c with e at slot n, and nothing above it.
WithSlot(c, n, e) == [c EXCEPT !.slots = Append(SubSeq(@, 1, n - c.low), e)]

\* Mutant of Merged: the delta takes the place of the block.
MergedAlone(old, u, classes) ==
    [id |-> old.id, txs |-> u.txs, classes |-> old.classes \union classes]

Merged(old, u, classes) ==
    [id |-> old.id, txs |-> old.txs \o u.txs, classes |-> old.classes \union classes]

\* replaceSlot: the new chain, or c itself when nothing is to be done.
replaceSlot(c, u, n, classes) ==
    LET old == SlotAt(c, n)
    IN  CASE u.kind = "block" ->
               IF shouldPreserveSlot(old, Entry(u, classes)) THEN c
               ELSE WithSlot(c, n, Entry(u, classes))
          [] u.kind = "delta" -> WithSlot(c, n, Merged(old, u, classes))
          [] OTHER -> WithSlot(c, n, [old EXCEPT !.classes = @ \union classes])

\* computeUpdate: None when the update is refused.
computeUpdate(c, u, n, base, first, classes) ==
    IF c.slots = <<>>
    THEN IF u.kind = "block" /\ n = first
         THEN [low |-> n, slots |-> <<Entry(u, classes)>>] ELSE None
    ELSE IF c.low # first \/ n \notin c.low .. TipNumber(c) + 1 THEN None
    ELSE IF n = TipNumber(c) + 1
         THEN IF u.kind = "block" THEN WithSlot(c, n, Entry(u, classes)) ELSE None
    ELSE IF \/ u.kind = "delta" /\ (n # TipNumber(c) \/ Len(SlotAt(c, n).txs) # base)
            \/ u.kind = "noChange" /\ classes # {} /\ n # TipNumber(c)
         THEN None
    ELSE replaceSlot(c, u, n, classes)

\* Mutant of Sent: only whole blocks are published.
SentBlocks(u, n, new) == u.kind = "block" /\ new # chain

Sent(u, n, new) == u.kind # "noChange" /\ new # chain

\* apply: the slots and the feed after an update that is not refused.
apply(u, n, base, classes) ==
    \E new \in {computeUpdate(chain, u, n, base, oldest, classes)} :
       /\ new # None
       /\ chain' = new
       /\ follower' = IF Sent(u, n, new)
                      THEN [k \in {j \in DOMAIN follower : j < n} \union {n} |->
                              IF k = n THEN [id |-> SlotAt(new, n).id, txs |-> SlotAt(new, n).txs]
                              ELSE follower[k]]
                      ELSE follower
refused(u, n, base, classes) == computeUpdate(chain, u, n, base, oldest, classes) = None

-----------------------------------------------------------------------------
Init ==
    /\ gateway = [n \in 1 .. 1 |-> [id |-> Blank, txs |-> 0]]
    /\ latest = 1 /\ window = 1
    /\ height = 0 /\ highest = 0
    /\ chain = Empty
    /\ pc = "idle" /\ oldest = 0 /\ tip = None /\ update = None /\ fill = 0
    /\ follower = [n \in {} |-> None]
    /\ faults = 0

\* The gateway (external): a round begins, a transaction is added, the next block is
\* opened, blocks leave the window.
BeginRound ==
    /\ gateway[latest].id < latest * MaxRound
    /\ gateway' = [gateway EXCEPT ![latest] =
          [id |-> (IF @.id = Blank THEN (latest - 1) * MaxRound ELSE @.id) + 1, txs |-> 0]]
    /\ UNCHANGED <<latest, window, local, chain, polling, follower, faults>>

AddTx ==
    /\ gateway[latest].id # Blank /\ gateway[latest].txs < MaxTxs
    /\ gateway' = [gateway EXCEPT ![latest].txs = @ + 1]
    /\ UNCHANGED <<latest, window, local, chain, polling, follower, faults>>

OpenBlock ==
    /\ latest < MaxNumber /\ gateway[latest].id # Blank
    /\ latest' = latest + 1
    /\ gateway' = Append(gateway, [id |-> Blank, txs |-> 0])
    /\ UNCHANGED <<window, local, chain, polling, follower, faults>>

LeaveWindow ==
    /\ window < latest /\ window <= highest
    /\ window' = window + 1
    /\ UNCHANGED <<gateway, latest, local, chain, polling, follower, faults>>

\* The synchroniser (module Synchronizer): a newer head is known, stored, reverted.
HearOfHead ==
    /\ highest < latest - 1
    /\ highest' = highest + 1
    /\ UNCHANGED <<server, height, chain, polling, follower, faults>>

StoreHead ==
    /\ height < highest
    /\ height' = height + 1
    /\ UNCHANGED <<server, highest, chain, polling, follower, faults>>

RevertHead ==
    /\ height > 0 /\ faults < MaxFaults
    /\ height' = height - 1
    /\ faults' = faults + 1
    /\ UNCHANGED <<server, highest, chain, polling, follower>>

-----------------------------------------------------------------------------
\* poll, up to the request for the latest block; nothing is asked for away from the tip.
PollStart ==
    /\ pc = "idle"
    /\ chain' = AdvanceTo(height + 1)
    /\ IF highest > height THEN UNCHANGED polling
       ELSE /\ pc' = "latest"
            /\ oldest' = height + 1
            /\ tip' = IF chain'.slots = <<>> THEN None
                      ELSE [number |-> TipNumber(chain'), block |-> Last(chain'.slots)]
            /\ UNCHANGED <<update, fill>>
    /\ UNCHANGED <<server, local, follower, faults>>

FromBlock == IF tip = None THEN oldest ELSE tip.number
HintId == IF tip = None THEN Blank ELSE tip.block.id
HintTxs == IF tip = None THEN 0 ELSE Len(tip.block.txs)

PollLatest ==
    /\ pc = "latest"
    /\ \E answer \in {Answer(gateway[latest], HintId, HintTxs)} :
          LET n == IF answer.kind = "block" THEN latest ELSE FromBlock
          IN  /\ update' = [answer |-> answer, number |-> n]
              /\ pc' = IF n > FromBlock THEN "backfill" ELSE "apply"
    /\ fill' = FromBlock
    /\ UNCHANGED <<server, local, chain, oldest, tip, follower, faults>>

\* fetchDeclaredClasses
DeclaredClasses(old, u) ==
    Declared(u.txs) \union
       IF old = None \/ u.kind = "block" THEN {} ELSE Declared(old.block.txs)

Ask(n) == IF n = FromBlock THEN Answer(gateway[n], HintId, HintTxs)
          ELSE Answer(gateway[n], Blank, 0)

\* Mutant of Backfill: the stored tip is taken to be complete.
BackfillAbove ==
    /\ pc = "backfill" /\ fill >= window
    /\ \E u \in {Ask(fill)} :
          IF tip # None /\ fill = FromBlock THEN UNCHANGED <<chain, follower>>
          ELSE apply(u, fill, 0, DeclaredClasses(None, u))
    /\ fill' = fill + 1
    /\ pc' = IF fill' < update.number THEN "backfill" ELSE "apply"
    /\ UNCHANGED <<server, local, oldest, tip, update, faults>>

\* backfill: one slot, requested and applied with the classes it declares
\* (an update that is refused would end the poll; none is).
Backfill ==
    /\ pc = "backfill" /\ fill >= window
    /\ \E u \in {Ask(fill)} :
          apply(u, fill, IF fill = FromBlock THEN HintTxs ELSE 0,
                DeclaredClasses(IF fill = FromBlock THEN tip ELSE None, u))
    /\ fill' = fill + 1
    /\ pc' = IF fill' < update.number THEN "backfill" ELSE "apply"
    /\ UNCHANGED <<server, local, oldest, tip, update, faults>>

\* The poll is over; its variables mean nothing any more.
Done == pc' = "idle" /\ oldest' = 0 /\ tip' = None /\ update' = None /\ fill' = 0

\* The latest block is applied without its classes.
PollApply ==
    /\ pc = "apply"
    /\ apply(update.answer, update.number, HintTxs, {})
    /\ Done
    /\ UNCHANGED <<server, local, faults>>

PollRefused ==
    /\ pc = "apply"
    /\ refused(update.answer, update.number, HintTxs, {})
    /\ Done
    /\ UNCHANGED <<server, local, chain, follower, faults>>

\* A block has left the window, or a request fails; the next tick starts anew.
PollGone ==
    /\ pc = "backfill" /\ fill < window
    /\ Done
    /\ UNCHANGED <<server, local, chain, follower, faults>>

PollFails ==
    /\ pc \in {"latest", "backfill"}
    /\ faults < MaxFaults /\ faults' = faults + 1
    /\ Done
    /\ UNCHANGED <<server, local, chain, follower>>

Poll == PollStart \/ PollLatest \/ Backfill \/ PollApply \/ PollRefused \/ PollGone
Next == \/ BeginRound \/ AddTx \/ OpenBlock \/ LeaveWindow
        \/ HearOfHead \/ StoreHead \/ RevertHead
        \/ Poll \/ PollFails
Spec == Init /\ [][Next]_vars
\* The ticker fires again and again, and the synchroniser stores the blocks it knows of.
FairSpec == Spec /\ WF_vars(Poll) /\ WF_vars(StoreHead)

-----------------------------------------------------------------------------
Numbers == 1 .. MaxNumber
TypeOK ==
    /\ pc \in {"idle", "latest", "backfill", "apply"}
    /\ chain.slots # <<>> => chain.low \in Numbers /\ TipNumber(chain) \in 1 .. latest
    /\ window <= latest /\ highest < latest /\ height <= highest
    /\ pc # "idle" => oldest \in Numbers
    /\ pc = "backfill" => fill \in oldest .. update.number - 1
    /\ \A n \in DOMAIN follower : n \in Numbers

\* Every slot below the update is the block that the gateway closed, whole, with the
\* classes that it declares (backfill asks for the old tip again before it goes on), and
\* the update slot is a beginning of a round of its block: a delta is merged only into
\* the transactions it was computed for.
SlotsTrue ==
    /\ \A n \in chain.low .. TipNumber(chain) - 1 :
          SlotAt(chain, n) = Entry(Block(gateway[n]), Declared(Txs(gateway[n].id, 0, gateway[n].txs)))
    /\ chain.slots # <<>> =>
          LET e == Last(chain.slots) IN e.txs = Txs(e.id, 0, Len(e.txs))

\* Whoever follows the feed, and drops what is above a block it receives, has the
\* transactions of the stored chain.
FollowerHasChain ==
    \A n \in chain.low .. TipNumber(chain) :
       /\ n \in DOMAIN follower
       /\ follower[n].id = SlotAt(chain, n).id /\ follower[n].txs = SlotAt(chain, n).txs

\* The gateway's latest block can be had, and it has been.
Reachable == height = highest /\ height + 1 >= window /\ gateway[latest].id # Blank
Caught ==
    /\ chain.low = height + 1 /\ TipNumber(chain) = latest
    /\ Last(chain.slots).txs = Txs(gateway[latest].id, 0, gateway[latest].txs)

\* When the gateway and the head come to rest, and the gateway still has the blocks
\* above the head, the chain becomes the gateway's.  A chain cannot begin with a blank
\* block: the hint of an empty chain is the blank identifier, so the answer is that
\* nothing has changed.
Converges == <>[](Reachable => chain.slots # <<>> /\ Caught)
=============================================================================
