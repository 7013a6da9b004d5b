--------------------------- MODULE Subscriptions ---------------------------
(***************************************************************************)
(* One websocket subscription (rpc/v10/subscription*.go, rpc/v9 likewise)  *)
(* and the way to it: the synchronizer and the poller of pre-confirmed     *)
(* blocks send to their feeds, Tee carries each of them over to a feed of  *)
(* the handler, and the goroutine of the subscription takes from these at  *)
(* random.  Both hops lose events: the first keeps what it has when it is  *)
(* full, the second what comes last.                                       *)
(***************************************************************************)
EXTENDS Integers, Sequences, FiniteSets, SequencesExt

CONSTANTS
    Kinds,       \* the subscriptions that are explored
    Keys,        \* transactions (or events) of a pre-confirmed block; 0 is the one
                 \* whose status is asked for
    MaxHeight, MaxReverts, MaxRounds, MaxL1

VARIABLES
    chain,       \* forks of the stored blocks: number n is chain[n + 1]
    reverts,
    reorg,       \* currReorg: a reorganisation has yet to be announced
    announce,    \* what storeTask has yet to send
    at,          \* number of the block with transaction 0, or -1
    pre,         \* the stored pre-confirmed tip
    l1,          \* blocks under the L1 head that was sent, and under the stored one
    submitted,   \* what the gateway knows of transaction 0: 0 nothing, 1 RECEIVED, 2 CANDIDATE
    hop1, hop2,  \* the events on their way, for every feed
    sub,         \* the subscription
    told,        \* ghost: what was sent since the last notice of a reorganisation
    again        \* ghost: what was sent twice

node == <<chain, reverts, reorg, announce, at, pre, l1, submitted>>
ghosts == <<told, again>>
vars == <<node, hop1, hop2, sub, told, again>>

Height == Len(chain) - 1

Feeds == {"reorg", "head", "pre", "l1"}

----------------------------------------------------------------------------
(* The subscribers: what they do at the start and with each kind of event.  *)

newHeadsSubscriber ==
    [start |-> "headers", reorg |-> "notice", head |-> "header", pre |-> "none", l1 |-> "none"]

newEventSubscriber ==
    [start |-> "events", reorg |-> "clear", head |-> "block", pre |-> "dedupe", l1 |-> "none"]

newReceiptsSubscriber ==
    [start |-> "none", reorg |-> "clear", head |-> "block", pre |-> "dedupe", l1 |-> "none"]

newTransactionsSubscriber ==
    [start |-> "none", reorg |-> "clear", head |-> "block", pre |-> "dedupe", l1 |-> "none"]

newTxStatusSubscriber ==
    [start |-> "status", reorg |-> "notice", head |-> "pending", pre |-> "pending",
     l1 |-> "status"]

newHeadsSubscriberV9 ==
    [start |-> "headers", reorg |-> "notice", head |-> "block", pre |-> "none", l1 |-> "none"]

newEventSubscriberV9 ==
    [start |-> "events", reorg |-> "clear", head |-> "block", pre |-> "dedupe", l1 |-> "none"]

newReceiptsSubscriberV9 ==
    [start |-> "none", reorg |-> "clear", head |-> "block", pre |-> "dedupe", l1 |-> "none"]

newTransactionsSubscriberV9 ==
    [start |-> "none", reorg |-> "clear", head |-> "block", pre |-> "dedupe", l1 |-> "none"]

newTxStatusSubscriberV9 ==
    [start |-> "status", reorg |-> "notice", head |-> "pending", pre |-> "pending",
     l1 |-> "status"]

Subscriber(kind) ==
    CASE kind = "heads"    -> {newHeadsSubscriber, newHeadsSubscriberV9}
      [] kind = "events"   -> {newEventSubscriber, newEventSubscriberV9}
      [] kind = "contents" -> {newReceiptsSubscriber, newReceiptsSubscriberV9,
                               newTransactionsSubscriber, newTransactionsSubscriberV9}
      [] kind = "status"   -> {newTxStatusSubscriber, newTxStatusSubscriberV9}

\* The feeds in the order in which subscribe subscribes to them.
Wanted(s) == SelectSeq(<<"reorg", "head", "pre", "l1">>, LAMBDA f : s[f] # "none")

NoDeduper == [round |-> 0, seen |-> {}]

----------------------------------------------------------------------------
(* Feeds.                                                                    *)

\* Send to a subscription that skips an event when it is full.  Tee takes one
\* out of its buffer before it hands it on, so that up to two are on their way.
Send(f, v) ==
    \/ /\ Len(hop1[f]) < 2
       /\ hop1' = [hop1 EXCEPT ![f] = Append(@, v)]
    \/ /\ Len(hop1[f]) > 0
       /\ hop1' = hop1

\* Send to a subscription that keeps the last event.
SendKeepLast(f, v) == [hop2 EXCEPT ![f] = IF f \in sub.feeds THEN <<v>> ELSE <<>>]

Tee ==
    /\ \E f \in Feeds :
          /\ hop1[f] # <<>>
          /\ hop2' = SendKeepLast(f, Head(hop1[f]))
          /\ hop1' = [hop1 EXCEPT ![f] = Tail(@)]
    /\ UNCHANGED <<node, sub, ghosts>>

----------------------------------------------------------------------------
(* The node.                                                                 *)

\* storeTask: the block is in the database before anything is announced.
Store ==
    /\ announce = <<>>
    /\ Len(chain) <= MaxHeight
    /\ chain' = Append(chain, reverts)
    /\ \/ at' = at
       \/ at = -1 /\ 0 \in Keys /\ at' = Len(chain)
    /\ at = -1 /\ pre.num = Len(chain) /\ 0 \in pre.txs => at' = Len(chain)
    /\ announce' = (IF reorg THEN <<"reorg">> ELSE <<>>) \o <<"head">>
    /\ reorg' = FALSE
    /\ UNCHANGED <<reverts, pre, l1, submitted, hop1, hop2, sub, ghosts>>

Announce ==
    /\ announce # <<>>
    /\ Send(Head(announce), IF Head(announce) = "head" THEN <<Height, Last(chain)>> ELSE <<>>)
    /\ announce' = Tail(announce)
    /\ UNCHANGED <<chain, reverts, reorg, at, pre, l1, submitted, hop2, sub, ghosts>>

Disturb == sub' = [sub EXCEPT !.disturbed = TRUE]

RevertHead ==
    /\ announce = <<>>
    /\ reverts < MaxReverts
    /\ Len(chain) > 1
    /\ chain' = Front(chain)
    /\ reverts' = reverts + 1
    /\ reorg' = TRUE
    /\ at' = IF at = Height THEN -1 ELSE at
    /\ Disturb
    /\ UNCHANGED <<announce, pre, l1, submitted, hop1, hop2, ghosts>>

\* The poller stores the tip and publishes it whole.
Publish(p) ==
    /\ pre' = p
    /\ Send("pre", [round |-> p.round, txs |-> p.txs])
    /\ UNCHANGED <<chain, reverts, reorg, announce, at, l1, submitted, hop2, ghosts>>

Fresh(txs) == at # -1 => 0 \notin txs

NewRound ==
    /\ pre.round < MaxRounds
    /\ \E txs \in SUBSET Keys :
          /\ Fresh(txs)
          /\ Publish([num |-> Len(chain), round |-> pre.round + 1, txs |-> txs])
    /\ IF 0 \in pre.txs /\ at = -1 THEN Disturb ELSE UNCHANGED sub

Grow ==
    /\ pre.num = Len(chain)
    /\ \E k \in Keys \ pre.txs : Fresh({k}) /\ Publish([pre EXCEPT !.txs = @ \cup {k}])
    /\ UNCHANGED sub

\* Blocks that are stored leave the pre-confirmed chain some time later.
AdvanceTo ==
    /\ pre.num \in 1 .. Height
    /\ pre' = [pre EXCEPT !.num = 0, !.txs = {}]
    /\ UNCHANGED <<chain, reverts, reorg, announce, at, l1, submitted, hop1, hop2, sub, ghosts>>

\* The feed is served before the database is written.
SetL1Head ==
    /\ l1.sent = l1.stored
    /\ \E n \in l1.sent + 1 .. MaxL1 :
          /\ n <= Len(chain)
          /\ l1' = [l1 EXCEPT !.sent = n]
    /\ Send("l1", <<>>)
    /\ UNCHANGED <<chain, reverts, reorg, announce, at, pre, submitted, hop2, sub, ghosts>>

WriteL1Head ==
    /\ l1.sent # l1.stored
    /\ l1' = [l1 EXCEPT !.stored = l1.sent]
    /\ UNCHANGED <<chain, reverts, reorg, announce, at, pre, submitted, hop1, hop2, sub, ghosts>>

AddTransaction ==
    /\ submitted < 2 /\ 0 \in Keys
    /\ submitted' = submitted + 1
    /\ UNCHANGED <<chain, reverts, reorg, announce, at, pre, l1, hop1, hop2, sub, ghosts>>

----------------------------------------------------------------------------
(* The subscription.                                                         *)

NoSub == [phase |-> "none", feeds |-> {}, disturbed |-> FALSE]

\* resolveBlockRange, for a start that is stored.
resolveBlockRange ==
    /\ sub.phase = "none"
    /\ \E kind \in Kinds : \E s \in Subscriber(kind) :
       \E start \in IF s.start \in {"headers", "events"} THEN 0 .. Height ELSE {0} :
          sub' = [ phase |-> "subscribe", s |-> s, feeds |-> {}, todo |-> Wanted(s),
                   next |-> start, latest |-> Height, commitments |-> <<>>,
                   deduper |-> NoDeduper, last |-> 0, number |-> -1, disturbed |-> FALSE ]
    /\ UNCHANGED <<node, hop1, hop2, ghosts>>

\* One feed after the other; what is sent in between reaches only the first ones.
subscribe ==
    /\ sub.phase = "subscribe"
    /\ sub' = IF sub.todo = <<>> THEN [sub EXCEPT !.phase = "start"]
              ELSE [sub EXCEPT !.feeds = @ \cup {Head(sub.todo)}, !.todo = Tail(@)]
    /\ UNCHANGED <<node, hop1, hop2, ghosts>>

Tell(x) ==
    /\ told' = told \cup x
    /\ again' = again \cup (told \cap x)

Silent == UNCHANGED ghosts

\* The goroutine returns and gives up its subscriptions to the feeds.
End(s) == [s EXCEPT !.phase = "ended", !.feeds = {}, !.deduper = NoDeduper]

Run(s) == [s EXCEPT !.phase = "run", !.next = 0, !.number = -1]

Block(n) == <<"head", n, chain[n + 1]>>

TellBlock(b, s) ==
    /\ Tell({b})
    /\ sub' = [s EXCEPT !.number = b[2]]

\* sendHistoricalHeaders reads the commitments and the header of a number.
sendHistoricalHeaders ==
    /\ sub.phase = "start" /\ sub.s.start = "headers"
    /\ \/ /\ sub.next > sub.latest
          /\ sub' = Run(sub) /\ Silent
       \/ /\ sub.next \in Height + 1 .. sub.latest
          /\ sub' = End(sub) /\ Silent
       \/ /\ sub.next <= sub.latest /\ sub.next <= Height
          /\ sub.commitments = <<>>
          /\ sub' = [sub EXCEPT !.commitments = <<chain[sub.next + 1]>>]
          /\ Silent
       \/ /\ sub.next <= sub.latest /\ sub.next <= Height
          /\ sub.commitments # <<>>
          /\ TellBlock(Block(sub.next), [sub EXCEPT !.next = @ + 1, !.commitments = <<>>])
    /\ UNCHANGED <<node, hop1, hop2>>

\* processHistoricalEvents asks for the range; the query itself is EventIndex.
processHistoricalEvents ==
    /\ sub.phase = "start" /\ sub.s.start = "events"
    /\ \/ /\ sub.next > sub.latest \/ sub.next > Height
          /\ sub' = Run(sub) /\ Silent
       \/ /\ sub.next <= sub.latest /\ sub.next <= Height
          /\ TellBlock(Block(sub.next), [sub EXCEPT !.next = @ + 1])
    /\ UNCHANGED <<node, hop1, hop2>>

\* Handler.TransactionStatus: 3 PRE_CONFIRMED, 4 ACCEPTED_ON_L2, 5 ACCEPTED_ON_L1,
\* else what the gateway says; 0 when the transaction is not found.
TransactionStatus ==
    IF 0 \in pre.txs THEN 3
    ELSE IF at = -1 THEN submitted
    ELSE IF at < l1.stored THEN 5 ELSE 4

Told(s, status) ==
    IF status = 5 THEN End([s EXCEPT !.last = 5]) ELSE [s EXCEPT !.last = status]

\* checkTxStatus: nothing is sent when the status is the one that was sent last;
\* a transaction that is not found ends the subscription.
checkTxStatus(s) ==
    IF TransactionStatus = 0 THEN sub' = End(s) /\ Silent
    ELSE IF TransactionStatus = s.last THEN sub' = s /\ Silent
    ELSE sub' = Told(s, TransactionStatus) /\ Tell({<<"status", TransactionStatus>>})

checkTxStatusIfPending(s) ==
    IF s.last < 4 THEN checkTxStatus(s) ELSE sub' = s /\ Silent

\* getInitialTxStatus: asked again at every tick until found or out of time.
getInitialTxStatus ==
    /\ sub.phase = "start" /\ sub.s.start = "status"
    /\ checkTxStatus(Run(sub))
    /\ UNCHANGED <<node, hop1, hop2>>

NoStart ==
    /\ sub.phase = "start" /\ sub.s.start = "none"
    /\ sub' = Run(sub)
    /\ UNCHANGED <<node, hop1, hop2, ghosts>>

\* The goroutine takes an event of any feed that has one.
Recv(f) ==
    /\ sub.phase = "run"
    /\ hop2[f] # <<>>
    /\ hop2' = [hop2 EXCEPT ![f] = <<>>]
    /\ UNCHANGED <<node, hop1>>

\* A notice of the reorganisation is sent, and the deduper starts over.
onReorg ==
    /\ Recv("reorg")
    /\ sub' = IF sub.s.reorg = "clear" THEN [sub EXCEPT !.deduper = NoDeduper] ELSE sub
    /\ told' = {}
    /\ UNCHANGED again

\* Headers have their commitments read by number: without them the subscription ends.
onNewHead ==
    /\ Recv("head")
    /\ LET b == Head(hop2["head"]) IN
       \/ /\ sub.s.head = "header" /\ b[1] > Height
          /\ sub' = End(sub) /\ Silent
       \/ /\ sub.s.head = "header" => b[1] <= Height
          /\ sub.s.head \in {"header", "block"}
          /\ TellBlock(<<"head">> \o b, sub)
       \/ /\ sub.s.head = "pending"
          /\ checkTxStatusIfPending(sub)

\* The deduper forgets when the tip is of another round.
MarkSent(d, round, txs) ==
    [round |-> round, seen |-> (IF round = d.round THEN d.seen ELSE {}) \cup txs]

UnsentByKey(d, round, txs) == txs \ d.seen

Unsent(d, round, txs) == txs \ (IF round = d.round THEN d.seen ELSE {})

onPreConfirmed ==
    /\ Recv("pre")
    /\ LET p == Head(hop2["pre"]) IN
       \/ /\ sub.s.pre = "dedupe"
          /\ Tell({<<"pre", p.round, k>> : k \in Unsent(sub.deduper, p.round, p.txs)})
          /\ sub' = [sub EXCEPT !.deduper = MarkSent(@, p.round, p.txs)]
       \/ /\ sub.s.pre = "pending"
          /\ checkTxStatusIfPending(sub)

onL1Head ==
    /\ Recv("l1")
    /\ checkTxStatus(sub)

\* The context is cancelled, at any time after the start.
Unsubscribe ==
    /\ sub.phase \in {"start", "run"}
    /\ sub' = End(sub)
    /\ UNCHANGED <<node, hop1, hop2, ghosts>>

----------------------------------------------------------------------------
Init ==
    /\ chain = <<0>> /\ reverts = 0 /\ reorg = FALSE /\ announce = <<>> /\ at = -1
    /\ pre = [num |-> 0, round |-> 0, txs |-> {}]
    /\ l1 = [sent |-> 0, stored |-> 0] /\ submitted = 0
    /\ hop1 = [f \in Feeds |-> <<>>] /\ hop2 = hop1
    /\ sub = NoSub /\ told = {} /\ again = {}

\* Nothing is left to observe once the subscription has ended.
Next ==
  /\ sub.phase # "ended"
  /\ \/ Tee \/ Store \/ Announce \/ RevertHead \/ NewRound \/ Grow \/ AdvanceTo
     \/ SetL1Head \/ WriteL1Head \/ AddTransaction
     \/ resolveBlockRange \/ subscribe \/ NoStart \/ Unsubscribe
     \/ sendHistoricalHeaders \/ processHistoricalEvents \/ getInitialTxStatus
     \/ onReorg \/ onNewHead \/ onPreConfirmed \/ onL1Head

Spec == Init /\ [][Next]_vars

----------------------------------------------------------------------------
\* "Canonical blocks are published exactly once, so they bypass the deduper" and
\* "the tip is re-published in full on every delta; skip already-sent": nothing is
\* sent twice between two notices of a reorganisation, except that a block of the
\* replay at the start may still be on its way through the feeds.
SentOnce ==
    \A x \in again :
       \/ x[1] = "head" /\ sub.s.start \in {"headers", "events"} /\ x[2] <= sub.latest
       \/ x[1] = "status" /\ sub.disturbed

\* Whatever is lost between the feeds, a subscriber that has taken a pre-confirmed
\* tip has been sent all of it since the last notice of a reorganisation ("a
\* same-height round replacement changes BlockIdentifier and re-emits").
SentWhole ==
    sub.phase = "run" /\ sub.s.pre = "dedupe" =>
       {<<"pre", sub.deduper.round, k>> : k \in sub.deduper.seen} \subseteq told

\* New blocks are told in ascending order, and the status of a transaction only
\* goes up, as long as nothing is reverted and no round that held it is replaced.
OnlyForward ==
    sub.phase # "none" /\ ~sub.disturbed => \A x \in told :
       /\ x[1] = "status" => x[2] <= sub.last
       /\ x[1] = "head" /\ x[2] > sub.latest => x[2] <= sub.number

\* What a subscriber is sent is sent once, whole and in order.
NotificationsTrue == SentOnce /\ SentWhole /\ OnlyForward
=============================================================================
