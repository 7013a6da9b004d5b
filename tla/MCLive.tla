------------------------------- MODULE MCLive -------------------------------
(***************************************************************************)
(* Components checked for liveness.                                        *)
(***************************************************************************)
EXTENDS Integers, Sequences, FiniteSets

CONSTANTS None, Requesters, Channels, Entering, Nil, b, o, s, v1, v2

VARIABLES
    which,          \* the component that this behaviour is about
    P_gateway, P_latest, P_window, P_height, P_highest, P_chain, P_pc,
    P_oldest, P_tip, P_update, P_fill, P_follower, P_faults,
    R_available, R_fresh, R_requestCh, R_responseCh, R_open, R_work,
    R_waits, R_running,
    D_height, D_round, D_step, D_locked, D_valid, D_once, D_votes,
    D_proposals, D_lastTriggerSync, D_lastQuorum, D_pc, D_recent,
    D_timeouts, D_decided, D_sentVotes, D_sentProposals, D_actions, D_next,
    D_inbox, D_stage, D_replaying, D_todo, D_futureQuorum, D_fetching,
    D_wal, D_unflushed, D_store, D_chain, D_net, D_crashes, D_syncErrors,
    Y_remote, Y_changes, Y_local, Y_tasks, Y_nextHeight, Y_workers,
    Y_cancelled, Y_catchUpMode, Y_highest, Y_polled, Y_reverting,
    Y_currReorg, Y_view, Y_faults, Y_revertFaults

\* The validators of the driver: b, the others o (with the power of a quorum), and s,
\* who stands for the sync protocol.  o has decided height 2.
DriverPower == [h \in 0 .. 2 |-> [S \in SUBSET {b, o, s} |->
                  IF s \in S THEN 4 ELSE (IF b \in S THEN 1 ELSE 0) + (IF o \in S THEN 3 ELSE 0)]]
DriverProposer == [h \in 0 .. 2 |-> [r \in 0 .. 1 |-> IF (h + r) % 2 = 0 THEN o ELSE b]]
FarBehind == {[type |-> "precommit", h |-> 2, r |-> 0, from |-> o, id |-> v1]}

P == INSTANCE PreConfirmed WITH MaxNumber <- 3, MaxRound <- 1, MaxTxs <- 1,
    Declares <- {1}, MaxFaults <- 1, gateway <- P_gateway,
    latest <- P_latest, window <- P_window, height <- P_height,
    highest <- P_highest, chain <- P_chain, pc <- P_pc, oldest <- P_oldest,
    tip <- P_tip, update <- P_update, fill <- P_fill,
    follower <- P_follower, faults <- P_faults
P_vars == <<P_gateway, P_latest, P_window, P_height, P_highest, P_chain,
    P_pc, P_oldest, P_tip, P_update, P_fill, P_follower, P_faults>>

R == INSTANCE RequestSync WITH available <- R_available, fresh <- R_fresh,
    requestCh <- R_requestCh, responseCh <- R_responseCh, open <- R_open,
    work <- R_work, waits <- R_waits, running <- R_running
R_vars == <<R_available, R_fresh, R_requestCh, R_responseCh, R_open, R_work,
    R_waits, R_running>>

D == INSTANCE Driver WITH Addr <- {b, o, s}, Hash <- {v1, v2},
    MaxHeight <- 2, MaxRound <- 1, Power <- DriverPower,
    Proposer <- DriverProposer, Self <- b, Values <- {v2},
    InVotes <- FarBehind, InProposals <- {},
    SyncedFrom <- [h \in 0 .. 2 |-> o],
    SyncedValue <- [h \in 0 .. 2 |-> v1], SyncSender <- s, MaxCrashes <- 0,
    MaxSyncErrors <- 1, height <- D_height, round <- D_round,
    step <- D_step, locked <- D_locked, valid <- D_valid, once <- D_once,
    votes <- D_votes, proposals <- D_proposals,
    lastTriggerSync <- D_lastTriggerSync, lastQuorum <- D_lastQuorum,
    pc <- D_pc, recent <- D_recent, timeouts <- D_timeouts,
    decided <- D_decided, sentVotes <- D_sentVotes,
    sentProposals <- D_sentProposals, actions <- D_actions, next <- D_next,
    inbox <- D_inbox, stage <- D_stage, replaying <- D_replaying,
    todo <- D_todo, futureQuorum <- D_futureQuorum, fetching <- D_fetching,
    wal <- D_wal, unflushed <- D_unflushed, store <- D_store,
    chain <- D_chain, net <- D_net, crashes <- D_crashes,
    syncErrors <- D_syncErrors
D_vars == <<D_height, D_round, D_step, D_locked, D_valid, D_once, D_votes,
    D_proposals, D_lastTriggerSync, D_lastQuorum, D_pc, D_recent,
    D_timeouts, D_decided, D_sentVotes, D_sentProposals, D_actions, D_next,
    D_inbox, D_stage, D_replaying, D_todo, D_futureQuorum, D_fetching,
    D_wal, D_unflushed, D_store, D_chain, D_net, D_crashes, D_syncErrors>>

Y == INSTANCE Synchronizer WITH Forks <- {1, 2}, StartLen <- 4, MaxLen <- 4,
    MaxChanges <- 2, maxWorkers <- 2, MaxFaults <- 1, MaxRevertFaults <- 1,
    remote <- Y_remote, changes <- Y_changes, local <- Y_local,
    tasks <- Y_tasks, nextHeight <- Y_nextHeight, workers <- Y_workers,
    cancelled <- Y_cancelled, catchUpMode <- Y_catchUpMode,
    highest <- Y_highest, polled <- Y_polled, reverting <- Y_reverting,
    currReorg <- Y_currReorg, view <- Y_view, faults <- Y_faults,
    revertFaults <- Y_revertFaults
Y_vars == <<Y_remote, Y_changes, Y_local, Y_tasks, Y_nextHeight, Y_workers,
    Y_cancelled, Y_catchUpMode, Y_highest, Y_polled, Y_reverting,
    Y_currReorg, Y_view, Y_faults, Y_revertFaults>>

vars == <<which, P_vars, R_vars, D_vars, Y_vars>>

-----------------------------------------------------------------------------
Init ==
    /\ which \in {"P", "R", "D", "Y"}
    /\ P!Init
    /\ R!Init
    /\ D!Init
    /\ Y!Init

PStep == /\ which = "P" /\ P!Next
         /\ UNCHANGED <<which, R_vars, D_vars, Y_vars>>

RStep == /\ which = "R" /\ R!Next
         /\ UNCHANGED <<which, P_vars, D_vars, Y_vars>>

DStep == /\ which = "D" /\ D!Next
         /\ UNCHANGED <<which, P_vars, R_vars, Y_vars>>

YStep == /\ which = "Y" /\ Y!Next
         /\ UNCHANGED <<which, P_vars, R_vars, D_vars>>

Next == PStep \/ RStep \/ DStep \/ YStep

Spec == Init /\ [][Next]_vars
\* The fairness of every component, for the behaviours that are about it.
FairSpec ==
    /\ Spec
    /\ WF_P_vars(which = "P" /\ P!Poll) /\ WF_P_vars(which = "P" /\ P!StoreHead)
    /\ WF_R_vars(which = "R" /\ R!Worker)
    /\ \A p \in Requesters : /\ WF_R_vars(which = "R" /\ (R!Leave(p) \/ R!Join(p) \/ R!Ask(p)))
                             /\ WF_R_vars(which = "R" /\ R!Released(p))
    /\ WF_D_vars(which = "D" /\ (D!Loop \/ D!Start \/ D!SyncPrecommit \/ D!Execute \/ D!Recover))
    /\ WF_D_vars(which = "D" /\ \E tm \in D_timeouts[b] : D!TimeoutFires(tm))
    /\ \A h \in 0 .. 2 : WF_D_vars(which = "D" /\ D!SyncBlock(h))
    /\ WF_Y_vars(which = "Y" /\ Y!StartFetch) /\ WF_Y_vars(which = "Y" /\ Y!Callback)
    /\ WF_Y_vars(which = "Y" /\ Y!Revert) /\ WF_Y_vars(which = "Y" /\ Y!Restart)
    /\ \A i \in 1 .. 3 : WF_Y_vars(which = "Y" /\ Y!FetchStep(i))

-----------------------------------------------------------------------------
\* When the gateway and the head come to rest, and the gateway still has the blocks
\* above the head, the chain becomes the gateway's.  A chain cannot begin with a blank
\* block: the hint of an empty chain is the blank identifier, so the answer is that
\* nothing has changed.
PreConfirmedConverges == which = "P" => P!Converges

\* A request sent under the lock finds room in requestCh, so the lock is released;
\* and the worker closes only what is open (closing twice would panic).
SendsAndClosesSafe == which = "R" => R!SendsAndClosesSafe

\* Without giving up, everybody who waits is released, whether the worker polls or stops.
RequestersReturn == which = "R" => R!RequestersReturn

\* A validator that knows it lags behind gets to the next height, unless it restarts.
CatchesUp == which = "D" => D!CatchesUp

\* Once the data source has settled, its chain becomes the local one, or a part of
\* it if the data source has rolled back.
Converges == which = "Y" => Y!Converges
=============================================================================
