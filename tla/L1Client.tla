------------------------------ MODULE L1Client ------------------------------
(***************************************************************************)
(* The client that follows the Starknet contract on Ethereum (l1/l1.go,    *)
(* l1/geth_l1_state_provider.go): it checks the network, scans backwards   *)
(* for the last state updates, subscribes to new ones, and every now and   *)
(* then writes the newest update at or below the finalised L1 block as the *)
(* L1 head.  The L1 chain grows, finalises and reorganises meanwhile; the  *)
(* subscription fails, calls fail, and the node restarts.                  *)
(*                                                                         *)
(* An L1 block carries at most one update, which is identified by its L1   *)
(* height and the fork it was mined on.  `missed' and `polled' only say    *)
(* what the client could know.                                             *)
(***************************************************************************)
EXTENDS Integers, Sequences, SequencesExt, FiniteSetsExt

CONSTANTS
    catchUpChunkSize,
    BufferSize,     \* of the channel of updates
    MaxHeight,      \* L1 blocks
    MaxReorgs, MaxFailures, MaxRestarts,  \* bounds
    None

VARIABLES
    chain,          \* the updates of the L1 blocks from height 0, None if empty
    finalised,      \* the finalised L1 height
    forks,          \* reorganisations so far
    network,        \* whether the L1 node is on the expected network
    once,           \* whether only the head is to be caught up (CatchUpL1Head)
    phase,
    to,             \* the scan: where the next chunk ends
    target,         \* the scan: the finalised height it has read
    nonFinalisedLogs,
    gethEvents,     \* what the L1 node has sent and is not forwarded
    updateCh,
    fed, l1Head,    \* the last head sent to the feed and the one in the database
    failures, restarts,
    missed,         \* updates since the scan, and removals, that the client did not hear in time
    polled          \* the last poll: finalised height and what was missed then

l1 == <<chain, finalised, forks>>
client == <<to, target, nonFinalisedLogs, updateCh>>
heads == <<fed, l1Head, polled>>
vars == <<chain, finalised, forks, network, once, phase, to, target, nonFinalisedLogs, gethEvents,
          updateCh, fed, l1Head, failures, restarts, missed, polled>>

latest == Len(chain) - 1

Subscribed == phase = "live"

\* Before the scan, and after the client has stopped, nothing can be missed.
Concerned ==
    phase \notin {"check", "stopped", "done"} /\ (phase = "scan" => to # -1)

NoPoll == [height |-> -1, missed |-> {}]

Init ==
    /\ chain = <<None>> /\ finalised = 0 /\ forks = 0
    /\ network \in BOOLEAN /\ once \in BOOLEAN
    /\ phase = "check" /\ to = -1 /\ target = -1
    /\ nonFinalisedLogs = [h \in 0..MaxHeight |-> None]
    /\ gethEvents = <<>> /\ updateCh = <<>>
    /\ fed = None /\ l1Head = None
    /\ failures = 0 /\ restarts = 0 /\ missed = {} /\ polled = NoPoll

----------------------------------------------------------------------------
(* The L1 node.                                                             *)

Kinds(events) == {IF e.removed THEN "removal" ELSE "update" : e \in ToSet(events)}

\* What a subscriber is told, in order; without one it is missed.
Emit(events) ==
    IF Subscribed THEN gethEvents' = gethEvents \o events /\ UNCHANGED missed
    ELSE /\ missed' = missed \union (IF Concerned THEN Kinds(events) ELSE {})
         /\ UNCHANGED gethEvents

Log(h, u, r) == [height |-> h, update |-> u, removed |-> r]

Mine ==
    /\ latest < MaxHeight
    /\ \E u \in {None, [height |-> latest + 1, fork |-> forks]} :
        /\ chain' = Append(chain, u)
        /\ Emit(IF u = None THEN <<>> ELSE <<Log(latest + 1, u, FALSE)>>)
    /\ UNCHANGED <<finalised, forks, network, once, phase, client, heads, failures, restarts>>

\* Blocks above the finalised one are dropped, newest first.
Reorg ==
    /\ forks < MaxReorgs
    /\ \E h \in finalised + 1..latest :
        /\ chain' = SubSeq(chain, 1, h)
        /\ Emit(SelectSeq([i \in 1..latest - h + 1 |-> Log(latest + 1 - i, chain[latest + 2 - i], TRUE)],
                          LAMBDA e : e.update # None))
    /\ forks' = forks + 1
    /\ UNCHANGED <<finalised, network, once, phase, client, heads, failures, restarts>>

Finalise ==
    /\ \E h \in finalised + 1..latest : finalised' = h
    /\ UNCHANGED <<chain, forks, network, once, phase, client, gethEvents, heads, failures, restarts, missed>>

----------------------------------------------------------------------------
(* The client.                                                              *)

Failing == failures < MaxFailures /\ failures' = failures + 1

\* A wrong network is final.  A call that fails is tried again, except when
\* only catching up.
checkChainID ==
    /\ phase = "check"
    /\ \/ phase' = (IF network THEN "scan" ELSE "stopped") /\ UNCHANGED failures
       \/ once /\ Failing /\ phase' = "stopped"
    /\ UNCHANGED <<l1, network, once, client, gethEvents, heads, restarts, missed>>

\* What a failed scan does: only the live client goes on.
GiveUp ==
    /\ phase' = (IF once THEN "stopped" ELSE "subscribe")
    /\ missed' = missed \union {"update"}
    /\ to' = -1 /\ target' = -1
    /\ UNCHANGED <<nonFinalisedLogs, updateCh>>

LatestHeight ==
    /\ phase = "scan" /\ to = -1
    /\ \/ to' = latest /\ missed' = missed \ {"update"} /\ UNCHANGED <<target, nonFinalisedLogs, updateCh, phase, failures>>
       \/ Failing /\ GiveUp
    /\ UNCHANGED <<l1, network, once, gethEvents, heads, restarts>>

FinalisedHeight ==
    /\ phase = "scan" /\ to # -1 /\ target = -1
    /\ \/ target' = finalised /\ UNCHANGED <<to, nonFinalisedLogs, updateCh, phase, failures, missed>>
       \/ Failing /\ GiveUp
    /\ UNCHANGED <<l1, network, once, gethEvents, heads, restarts>>

\* The logs with one more event.
applyStateUpdate(logs, e) ==
    [h \in DOMAIN logs |-> IF e.removed THEN (IF h >= e.height THEN None ELSE logs[h])
                           ELSE IF h = e.height THEN e.update ELSE logs[h]]

\* The events of the blocks from..end; a height that is gone has none.
FilterStateUpdate(from, end) ==
    {h \in from..end : h <= latest /\ chain[h + 1] # None}

\* One chunk of the scan.  It ends with a poll once a finalised event was
\* among those found, or at genesis.
catchUpL1HeadUpdates ==
    LET from == IF to + 1 > catchUpChunkSize THEN to + 1 - catchUpChunkSize ELSE 0
        events == FilterStateUpdate(from, to)
    IN
    /\ phase = "scan" /\ target # -1
    /\ \/ /\ nonFinalisedLogs' = [h \in DOMAIN nonFinalisedLogs |->
                                    IF h \in events THEN chain[h + 1] ELSE nonFinalisedLogs[h]]
          /\ IF (\E h \in events : h <= target) \/ from = 0
             THEN to' = -1 /\ target' = -1 /\ phase' = "set"
             ELSE to' = from - 1 /\ UNCHANGED <<target, phase>>
          /\ UNCHANGED <<updateCh, failures, missed>>
       \/ Failing /\ GiveUp
    /\ UNCHANGED <<l1, network, once, gethEvents, heads, restarts>>

\* The newest log at or below height f.
maxFinalisedHead(f) ==
    LET hs == {h \in DOMAIN nonFinalisedLogs : h <= f /\ nonFinalisedLogs[h] # None} IN
    IF hs = {} THEN None ELSE nonFinalisedLogs[Max(hs)]

\* What events the client has not applied.
Undelivered ==
    missed \union Kinds(gethEvents \o updateCh)

\* The poll, at the end of the scan and from the ticker; FinalisedHeight is
\* asked until it answers.  The head goes to the feed before it is stored; if
\* storing fails its log is gone all the same.
setL1Head(next) ==
    LET head == maxFinalisedHead(finalised) IN
    /\ nonFinalisedLogs' = [h \in DOMAIN nonFinalisedLogs |->
                                IF h <= finalised THEN None ELSE nonFinalisedLogs[h]]
    /\ \/ /\ l1Head' = (IF head = None THEN l1Head ELSE head) /\ phase' = next
          /\ polled' = [height |-> finalised, missed |-> Undelivered]
          /\ missed' = missed \union (Undelivered \intersect {"removal"})
          /\ UNCHANGED failures
       \/ /\ head # None /\ Failing
          /\ phase' = (IF once \/ phase = "live" THEN "stopped" ELSE "subscribe")
          /\ polled' = NoPoll /\ missed' = missed \union {"update"}
          /\ UNCHANGED l1Head
    /\ fed' = (IF head = None THEN fed ELSE head)

SetCaughtUp ==
    /\ phase = "set" /\ setL1Head(IF once THEN "done" ELSE "subscribe")
    /\ UNCHANGED <<l1, network, once, to, target, updateCh, gethEvents, restarts>>

Ticker ==
    /\ phase = "live" /\ setL1Head("live")
    /\ UNCHANGED <<l1, network, once, to, target, updateCh, gethEvents, restarts>>

\* Tried until it succeeds.
subscribeToUpdates ==
    /\ phase = "subscribe" /\ phase' = "live"
    /\ UNCHANGED <<l1, network, once, client, gethEvents, heads, failures, restarts, missed>>

forwardStateUpdates ==
    /\ gethEvents # <<>> /\ Len(updateCh) < BufferSize
    /\ updateCh' = Append(updateCh, Head(gethEvents)) /\ gethEvents' = Tail(gethEvents)
    /\ UNCHANGED <<l1, network, once, phase, to, target, nonFinalisedLogs, heads, failures, restarts, missed>>

receiveL1StateUpdates ==
    /\ phase = "live" /\ updateCh # <<>>
    /\ nonFinalisedLogs' = applyStateUpdate(nonFinalisedLogs, Head(updateCh))
    /\ updateCh' = Tail(updateCh)
    /\ UNCHANGED <<l1, network, once, phase, to, target, gethEvents, heads, failures, restarts, missed>>

\* What was not forwarded is lost with the subscription.
SubscriptionFails ==
    /\ phase = "live" /\ Failing
    /\ phase' = "subscribe" /\ gethEvents' = <<>>
    /\ missed' = missed \union Kinds(gethEvents)
    /\ UNCHANGED <<l1, network, once, client, heads, restarts>>

\* Only the database survives; a node that stopped is started again.
Restart ==
    /\ restarts < MaxRestarts /\ restarts' = restarts + 1
    /\ phase' = "check" /\ to' = -1 /\ target' = -1
    /\ nonFinalisedLogs' = [h \in 0..MaxHeight |-> None]
    /\ gethEvents' = <<>> /\ updateCh' = <<>> /\ polled' = NoPoll
    /\ UNCHANGED <<l1, network, once, fed, l1Head, failures, missed>>

Next ==
    \/ Mine \/ Reorg \/ Finalise
    \/ checkChainID \/ LatestHeight \/ FinalisedHeight \/ catchUpL1HeadUpdates \/ SetCaughtUp
    \/ subscribeToUpdates \/ forwardStateUpdates \/ receiveL1StateUpdates \/ Ticker
    \/ SubscriptionFails \/ Restart

Spec == Init /\ [][Next]_vars

----------------------------------------------------------------------------
TypeOK ==
    /\ phase \in {"check", "scan", "set", "subscribe", "live", "stopped", "done"}
    /\ finalised \in 0..latest /\ to \in -1..MaxHeight /\ target \in -1..MaxHeight
    /\ missed \subseteq {"removal", "update"} /\ Len(updateCh) <= BufferSize

\* The update that the contract has at L1 height f.
LastUpdate(f) ==
    LET hs == {h \in 0..f : chain[h + 1] # None} IN IF hs = {} THEN None ELSE chain[Max(hs) + 1]

\* A poll that finds every event of the L1 node applied stores exactly what
\* the contract has at the finalised height, over the end of the scan, its
\* overlap with the subscription, and a restart (setL1Head).
HeadExact ==
    polled.height >= 0 /\ polled.missed = {} => l1Head = LastUpdate(polled.height)

\* The head is of the L1 chain although logs of orphaned blocks were kept,
\* as long as the client was told of the removals: updates that it missed
\* make it lag and no more (applyStateUpdate, subscribeToUpdates).
HeadOnChain ==
    polled.height >= 0 /\ "removal" \notin polled.missed =>
        l1Head = None \/ (l1Head # None /\ \E h \in 0..polled.height : l1Head = chain[h + 1])

\* A node on another network never gives a head (ensureChainID).
WrongNetworkNoHead == ~ network => l1Head = None /\ fed = None
=============================================================================
