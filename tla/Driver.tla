------------------------------- MODULE Driver -------------------------------
(***************************************************************************)
(* consensus/driver: one validator, from its inputs to its broadcasts and  *)
(* commits, with crashes and restarts.  The driver hands inputs to the     *)
(* Tendermint state machine (module Tendermint), executes the actions that *)
(* the handler returned, one by one, and on a start replays the WAL.       *)
(*                                                                         *)
(* The other validators are an environment that may send InVotes and       *)
(* InProposals at any time.  The WAL is what DurableLog promises: Flush    *)
(* makes all buffered entries durable or none.  The proposal store is kept *)
(* in memory only, and Application.Valid asks it.                          *)
(*                                                                         *)
(* Power is capped at the total: the sender of the precommits made up for  *)
(* synced blocks has the total for itself, besides the validators, and     *)
(* thresholds lie below the total.  Powers that overlap like this are not  *)
(* additive, so neither Votes!PowerAssumption nor FaultyAssumption holds   *)
(* here, and no theorem that rests on them is used.                        *)
(***************************************************************************)
EXTENDS Integers, Sequences

CONSTANTS
    Addr, Hash, Nil, MaxHeight, MaxRound, Power, Proposer,  \* as in module Votes
    Self,           \* this validator
    Values,         \* the values Application.Value() may make
    InVotes,        \* the votes of the others
    InProposals,    \* the proposals of the others; their values can be executed
    SyncedFrom,     \* SyncedFrom[h]: who built the block of height h the network has
    SyncedValue,    \* SyncedValue[h]: that block
    SyncSender,     \* SyncProtocolPrecommitSender: an address with the power of a quorum
    MaxCrashes,     \* bound on crashes and stops
    MaxSyncErrors,  \* bound on failed requests for blocks
    None

V == INSTANCE Votes
Heights == 0 .. MaxHeight
Rounds == 0 .. MaxRound
Prevote == "prevote"
Precommit == "precommit"

ASSUME SelfAssumption == Self \in Addr /\ SyncSender \in Addr \ {Self}
ASSUME SyncAssumption == \A h \in Heights : V!IsQuorum(h, {SyncSender})
ASSUME InputAssumption ==
    /\ MaxHeight \in Nat /\ Nil \notin Hash
    /\ InVotes \subseteq V!Vote /\ InProposals \subseteq V!Proposal
    /\ \A h \in Heights : Power[h][{}] = 0 /\ Power[h][Addr] \in Nat \ {0}

VARIABLES
    \* the state machine
    height, round, step, locked, valid, once, votes, proposals, lastTriggerSync, lastQuorum,
    pc, recent, timeouts, decided, sentVotes, sentProposals,
    \* the driver
    actions, next,      \* what the last handler returned, and which to execute next
    inbox,              \* the precommit ProcessSync has yet to process, or None
    stage,              \* "run", or where a commit is: "commit", "persisted", "failed"
    replaying, todo,    \* the entries left to replay
    futureQuorum,       \* lastQuorum of the driver
    fetching,           \* heights of which a block was requested
    \* its surroundings
    wal, unflushed,     \* entries in the log, and entries buffered
    store,              \* the proposal store
    chain,              \* the number of blocks persisted, and so the height to decide
    net,                \* everything broadcast
    crashes, syncErrors

machine == <<height, round, step, locked, valid, once, votes, proposals, lastTriggerSync,
             lastQuorum, pc, recent, timeouts, decided, sentVotes, sentProposals>>
execution == <<actions, next>>
syncing == <<futureQuorum, fetching>>
bounds == <<crashes, syncErrors>>
vars == <<machine, execution, inbox, stage, replaying, todo, syncing, wal, unflushed, store,
          chain, net, bounds>>

\* The state machine while the values in F[Self] are valid.
SM(F) == INSTANCE Tendermint WITH
    Faulty <- Addr \ {Self}, FaultyVotes <- InVotes, FaultyProposals <- InProposals,
    ValueOf <- [p \in {Self} |-> Values], ValidFor <- F
Valid == {e.value : e \in store}
ValidNow == [p \in {Self} |-> Valid]

\* New, at the height after the last block.
NewMachine(h) ==
    /\ height' = [p \in {Self} |-> h]
    /\ round' = [p \in {Self} |-> 0]
    /\ step' = [p \in {Self} |-> "propose"]
    /\ locked' = [p \in {Self} |-> [value |-> Nil, round |-> -1]]
    /\ valid' = [p \in {Self} |-> [value |-> Nil, round |-> -1]]
    /\ once' = [p \in {Self} |-> {}]
    /\ votes' = [p \in {Self} |-> {}]
    /\ proposals' = [p \in {Self} |-> {}]
    /\ lastTriggerSync' = [p \in {Self} |-> 0]
    /\ lastQuorum' = [p \in {Self} |-> 0]
    /\ pc' = [p \in {Self} |-> "start"]
    /\ recent' = [p \in {Self} |-> -1]
    /\ timeouts' = [p \in {Self} |-> {}]
    /\ decided' = [p \in {Self} |-> [k \in Heights |-> Nil]]
    /\ sentVotes' = {}
    /\ sentProposals' = {}

Init ==
    /\ SM(ValidNow)!Init
    /\ actions = <<>> /\ next = 1
    /\ inbox = None
    /\ stage = "run"
    /\ replaying = TRUE /\ todo = <<>>
    /\ futureQuorum = 0 /\ fetching = {}
    /\ wal = <<>> /\ unflushed = <<>>
    /\ store = {}
    /\ chain = 0
    /\ net = {}
    /\ crashes = 0 /\ syncErrors = 0

-----------------------------------------------------------------------------
\* What a step of the state machine adds to the actions of its handler.
Emitted ==
    LET new == (sentVotes' \ sentVotes) \union (sentProposals' \ sentProposals)
    IN  IF height' # height
        THEN <<[kind |-> "commit", h |-> height[Self], value |-> decided'[Self][height[Self]]]>>
        ELSE IF new # {} THEN <<[kind |-> "broadcast", msg |-> CHOOSE m \in new : TRUE]>>
        ELSE IF lastTriggerSync' # lastTriggerSync
        THEN <<[kind |-> "triggerSync", end |-> lastQuorum'[Self]]>>
        ELSE <<>>

Entry(kind, h, msg) == [kind |-> kind, h |-> h, msg |-> msg]
Write(entry) == <<[kind |-> "write", entry |-> entry]>>

\* A handler begins, and its entry for the WAL is the first of its actions.
Returns(first) == actions' = first \o Emitted /\ next' = 1

\* The proposer stores what it builds.
Builds == store' = store \union {[h |-> m.h, value |-> m.value] : m \in sentProposals' \ sentProposals}

Resting == /\ stage = "run" /\ inbox = None
           /\ pc[Self] # "loop" /\ next > Len(actions)
Listening == Resting /\ ~replaying /\ pc[Self] = "idle"

driven == <<inbox, stage, replaying, todo, syncing, wal, unflushed, chain, net, bounds>>

\* processLoop goes on; nothing is executed before it has ended.
Loop ==
    /\ \E F \in {ValidNow} : SM(F)!Process(Self)
    /\ actions' = actions \o Emitted
    /\ Builds
    /\ UNCHANGED <<next, driven>>

\* listen: the height is started before anything else is handed on.
Start ==
    /\ Resting /\ ~replaying
    /\ \E F \in {ValidNow} : SM(F)!ProcessStart(Self)
    /\ Returns(Write(Entry("start", None, None)))
    /\ Builds
    /\ UNCHANGED driven

\* A proposal is handed on after its stream has been executed and stored.
ReceiveProposal(m) ==
    /\ Listening
    /\ [h |-> m.h, value |-> m.value] \in store
    /\ \E F \in {ValidNow} : SM(F)!ProcessProposal(Self, m)
    /\ Returns(Write(Entry("proposal", m.h, m)))
    /\ UNCHANGED <<driven, store>>

\* A precommit that triggers a sync does not go into the WAL.
Logged(kind, m) == IF lastTriggerSync' # lastTriggerSync THEN <<>> ELSE Write(Entry(kind, m.h, m))

ReceiveVote(m) ==
    /\ Listening
    /\ \E F \in {ValidNow} : SM(F)!ProcessPrevote(Self, m) \/ SM(F)!ProcessPrecommit(Self, m)
    /\ Returns(Logged(m.type, m))
    /\ UNCHANGED <<driven, store>>

\* A message that is refused returns no actions.
ReceiveAgain ==
    /\ Listening
    /\ actions # <<>> /\ votes[Self] \intersect InVotes # {}
    /\ actions' = <<>> /\ next' = 1
    /\ UNCHANGED <<machine, driven, store>>

TimeoutFires(tm) ==
    /\ Listening
    /\ \E F \in {ValidNow} :
          /\ SM(F)!ProcessTimeout(Self, tm)
          /\ Returns(IF SM(F)!TimeoutActs(Self, tm) THEN Write(Entry("timeout", tm.h, tm)) ELSE <<>>)
    /\ Builds
    /\ UNCHANGED driven

\* The validator's p2p service executes the proposals of the height to decide.
Learn(m) ==
    /\ m.h = chain
    /\ [h |-> m.h, value |-> m.value] \notin store
    /\ store' = store \union {[h |-> m.h, value |-> m.value]}
    /\ UNCHANGED <<machine, execution, driven>>

-----------------------------------------------------------------------------
\* syncCurrentHeight, with the last quorum heard of at height k and height h to decide.
Requests(k, h) ==
    fetching' = IF k > h /\ h \in Heights THEN fetching \union {h} ELSE fetching

\* findRound: the first round in which the block's builder proposes.
findRound(h) ==
    CHOOSE r \in Rounds : /\ Proposer[h][r] = SyncedFrom[h]
                          /\ \A k \in 0 .. r - 1 : Proposer[h][k] # SyncedFrom[h]

\* Extract and the first half of ProcessSync.
SyncBlock(h) ==
    /\ Listening
    /\ h \in fetching
    /\ fetching' = fetching \ {h}
    /\ LET r == findRound(h)
           m == [h |-> h, r |-> r, from |-> SyncedFrom[h], value |-> SyncedValue[h], vr |-> -1]
       IN  /\ store' = IF h < chain THEN store
                       ELSE store \union {[h |-> h, value |-> SyncedValue[h]]}
           /\ inbox' = [type |-> Precommit, h |-> h, r |-> r, from |-> SyncSender,
                        id |-> SyncedValue[h]]
           /\ \E F \in {ValidNow} :
                 IF SM(F)!AcceptsProposal(Self, m)
                 THEN SM(F)!ProcessProposal(Self, m) /\ Returns(Write(Entry("proposal", h, m)))
                 ELSE actions' = <<>> /\ next' = 1 /\ UNCHANGED machine
    /\ UNCHANGED <<stage, replaying, todo, futureQuorum, wal, unflushed, chain, net, bounds>>

\* The second half of ProcessSync.
SyncPrecommit ==
    /\ inbox # None
    /\ pc[Self] # "loop"
    /\ inbox' = None
    /\ \E F \in {ValidNow} :
          IF pc[Self] = "idle" /\ SM(F)!AcceptsVote(Self, inbox)
          THEN /\ SM(F)!ProcessPrecommit(Self, inbox)
               /\ actions' = actions \o Logged(Precommit, inbox) \o Emitted
          ELSE UNCHANGED <<machine, actions>>
    /\ UNCHANGED <<next, stage, replaying, todo, syncing, wal, unflushed, store, chain, net, bounds>>

\* A failed request is repeated, and the actions of the handler before are executed
\* again, for nothing has replaced them.
SyncError(h) ==
    /\ Listening
    /\ h \in fetching
    /\ syncErrors < MaxSyncErrors /\ syncErrors' = syncErrors + 1
    /\ fetching' = (fetching \ {h}) \union
                      IF futureQuorum > height[Self] THEN {height[Self]} ELSE {}
    /\ next' = 1
    /\ UNCHANGED <<machine, actions, inbox, stage, replaying, todo, futureQuorum, wal, unflushed,
                   store, chain, net, crashes>>

-----------------------------------------------------------------------------
\* execute
action == actions[next]
Executing(kind) == /\ stage = "run" /\ inbox = None /\ pc[Self] # "loop"
                   /\ next <= Len(actions)
                   /\ action.kind = kind

Flush == IF replaying THEN UNCHANGED <<wal, unflushed>>
         ELSE wal' = wal \o unflushed /\ unflushed' = <<>>

\* A start entry points at the machine's height, read only now.
Resolved(entry) == IF entry.kind = "start" THEN [entry EXCEPT !.h = height[Self]] ELSE entry

ExecuteWrite ==
    /\ Executing("write")
    /\ unflushed' = IF replaying THEN unflushed ELSE Append(unflushed, Resolved(action.entry))
    /\ next' = next + 1
    /\ UNCHANGED <<machine, actions, inbox, stage, replaying, todo, syncing, wal, store, chain,
                   net, bounds>>


ExecuteBroadcast ==
    /\ Executing("broadcast")
    /\ Flush
    /\ net' = net \union {action.msg}
    /\ next' = next + 1
    /\ UNCHANGED <<machine, actions, inbox, stage, replaying, todo, syncing, store, chain, bounds>>

ExecuteTriggerSync ==
    /\ Executing("triggerSync")
    /\ futureQuorum' = IF action.end > futureQuorum THEN action.end ELSE futureQuorum
    /\ IF futureQuorum > height[Self] THEN UNCHANGED fetching
       ELSE Requests(futureQuorum', height[Self])
    /\ next' = next + 1
    /\ UNCHANGED <<machine, actions, inbox, stage, replaying, todo, wal, unflushed, store, chain,
                   net, bounds>>

\* commit: OnCommit finds the build result or the driver gives up; the block is
\* persisted; the height is finalized and pruned from the WAL.
ExecuteCommit ==
    /\ Executing("commit")
    /\ Flush
    /\ stage' = IF action.value \in Valid THEN "commit" ELSE "failed"
    /\ UNCHANGED <<machine, execution, inbox, replaying, todo, syncing, store, chain, net, bounds>>

OnCommit ==
    /\ stage = "commit"
    /\ chain' = action.h + 1
    /\ stage' = "persisted"
    /\ UNCHANGED <<machine, execution, inbox, replaying, todo, syncing, wal, unflushed, store, net,
                   bounds>>

\* Mutant of Committed: the next height is not requested.
CommittedAlone ==
    /\ stage = "persisted"
    /\ store' = {e \in store : e.h > action.h}
    /\ wal' = SelectSeq(wal, LAMBDA e : e.h > action.h)
    /\ stage' = "run"
    /\ next' = Len(actions) + 1
    /\ UNCHANGED <<machine, actions, inbox, replaying, todo, syncing, unflushed, chain, net, bounds>>

Committed ==
    /\ stage = "persisted"
    /\ store' = {e \in store : e.h > action.h}
    /\ wal' = SelectSeq(wal, LAMBDA e : e.h > action.h)
    /\ stage' = "run"
    /\ next' = Len(actions) + 1
    /\ IF replaying THEN UNCHANGED fetching ELSE Requests(futureQuorum, height[Self])
    /\ UNCHANGED <<machine, actions, inbox, replaying, todo, futureQuorum, unflushed, chain, net,
                   bounds>>

-----------------------------------------------------------------------------
\* LoadAllEntries: by height, and in the order written within a height.
ByHeight(w) ==
    LET upTo[h \in 0 .. MaxHeight + 1] ==
           (IF h = 0 THEN <<>> ELSE upTo[h - 1]) \o SelectSeq(w, LAMBDA e : e.h = h)
    IN  upTo[MaxHeight + 1]

\* The process ends, and starts with what w the log holds.
Restart(w) ==
    /\ crashes < MaxCrashes /\ crashes' = crashes + 1
    /\ NewMachine(chain)
    /\ actions' = <<>> /\ next' = 1
    /\ inbox' = None /\ stage' = "run"
    /\ replaying' = TRUE /\ todo' = ByHeight(w)
    /\ futureQuorum' = 0 /\ fetching' = {}
    /\ wal' = w /\ unflushed' = <<>>
    /\ store' = {}
    /\ UNCHANGED <<chain, net, syncErrors>>

Crash == Restart(wal)
\* Run returns, and Close flushes.
Stop == (Listening \/ stage = "failed") /\ Restart(wal \o unflushed)

\* replay: entries of heights that are over are skipped; those of a height that has
\* not been started are only counted; broadcasts and timeouts happen again.
entry == Head(todo)
Accepted(F) ==
    CASE entry.kind = "start" -> pc[Self] = "start"
      [] entry.kind = "proposal" -> SM(F)!AcceptsProposal(Self, entry.msg)
      [] entry.kind = "timeout" -> TRUE
      [] OTHER -> SM(F)!AcceptsVote(Self, entry.msg)

Replay ==
    /\ Resting /\ replaying /\ todo # <<>>
    /\ todo' = Tail(todo)
    /\ entry.h >= height[Self] /\ Accepted(ValidNow)
    /\ pc[Self] = "idle" \/ entry.kind = "start"
    /\ \E F \in {ValidNow} :
          CASE entry.kind = "start" -> SM(F)!ProcessStart(Self)
            [] entry.kind = "proposal" -> SM(F)!ProcessProposal(Self, entry.msg)
            [] entry.kind = Prevote -> SM(F)!ProcessPrevote(Self, entry.msg)
            [] entry.kind = Precommit -> SM(F)!ProcessPrecommit(Self, entry.msg)
            [] OTHER -> SM(F)!OnTimeout(Self, entry.msg, timeouts[Self])
    /\ Returns(<<>>)
    /\ Builds
    /\ UNCHANGED <<inbox, stage, replaying, syncing, wal, unflushed, chain, net, bounds>>

ReplayCounted ==
    /\ Resting /\ replaying /\ todo # <<>>
    /\ todo' = Tail(todo)
    /\ entry.h >= height[Self] /\ Accepted(ValidNow)
    /\ pc[Self] = "start" /\ entry.kind \in {"proposal", Prevote, Precommit}
    /\ IF entry.kind = "proposal"
       THEN proposals' = [proposals EXCEPT ![Self] = @ \union {entry.msg}] /\ UNCHANGED votes
       ELSE votes' = [votes EXCEPT ![Self] = @ \union {entry.msg}] /\ UNCHANGED proposals
    /\ UNCHANGED <<height, round, step, locked, valid, once, lastTriggerSync, lastQuorum, pc,
                   recent, timeouts, decided, sentVotes, sentProposals, execution, inbox, stage,
                   replaying, syncing, wal, unflushed, store, chain, net, bounds>>

ReplaySkipped ==
    /\ Resting /\ replaying /\ todo # <<>>
    /\ todo' = Tail(todo)
    /\ entry.h < height[Self] \/ ~Accepted(ValidNow)
    /\ UNCHANGED <<machine, execution, inbox, stage, replaying, syncing, wal, unflushed, store,
                   chain, net, bounds>>

\* Mutant of Replayed: what the replay scheduled is forgotten.
ReplayedTimeless ==
    /\ Resting /\ replaying /\ todo = <<>>
    /\ replaying' = FALSE
    /\ actions' = <<>> /\ next' = 1
    /\ timeouts' = [p \in {Self} |-> {}]
    /\ UNCHANGED <<height, round, step, locked, valid, once, votes, proposals, lastTriggerSync,
                   lastQuorum, pc, recent, decided, sentVotes, sentProposals, inbox, stage, todo,
                   syncing, wal, unflushed, store, chain, net, bounds>>

Replayed ==
    /\ Resting /\ replaying /\ todo = <<>>
    /\ replaying' = FALSE
    /\ actions' = <<>> /\ next' = 1
    /\ UNCHANGED <<machine, inbox, stage, todo, syncing, wal, unflushed, store, chain, net, bounds>>

-----------------------------------------------------------------------------
Execute == ExecuteWrite \/ ExecuteBroadcast \/ ExecuteTriggerSync \/ ExecuteCommit \/ OnCommit \/ Committed
Recover == Replay \/ ReplayCounted \/ ReplaySkipped \/ Replayed
Receive ==
    \/ \E m \in InProposals : ReceiveProposal(m) \/ Learn(m)
    \/ \E m \in InVotes : ReceiveVote(m)
    \/ ReceiveAgain
    \/ \E tm \in timeouts[Self] : TimeoutFires(tm)
Sync == SyncPrecommit \/ \E h \in Heights : SyncBlock(h) \/ SyncError(h)

Next == Loop \/ Start \/ Receive \/ Sync \/ Execute \/ Recover \/ Crash \/ Stop
Spec == Init /\ [][Next]_vars

\* Handlers end, the driver executes what they return, timers fire, and a request
\* for a block is answered by the p2p network.
FairSpec ==
    /\ Spec
    /\ WF_vars(Loop \/ Start \/ SyncPrecommit \/ Execute \/ Recover)
    /\ WF_vars(\E tm \in timeouts[Self] : TimeoutFires(tm))
    /\ \A h \in Heights : WF_vars(SyncBlock(h))

-----------------------------------------------------------------------------
TypeOK ==
    /\ SM([p \in {Self} |-> Hash])!TypeOK
    /\ stage \in {"run", "commit", "persisted", "failed"}
    /\ chain \in 0 .. MaxHeight + 1
    /\ fetching \in SUBSET Heights /\ futureQuorum \in Heights
    /\ next \in 1 .. Len(actions) + 1
    /\ net \subseteq {m \in V!Vote \union V!Proposal : m.from = Self}


\* The decided value can be found when it is committed, and it is the next block:
\* rule 49 asks Valid, and the store keeps a height until it is persisted.
CommitsGoThrough ==
    /\ stage # "failed"
    /\ stage = "commit" => action.h = chain
    /\ pc[Self] # "loop" /\ next > Len(actions) => height[Self] = chain

\* A listening validator is never stuck: while it waits for a proposal, and once it
\* has a quorum of prevotes or of precommits, the timeout that moves it on is pending,
\* also after a restart (replay schedules timeouts anew).
Pending(s) == [step |-> s, h |-> height[Self], r |-> round[Self]] \in timeouts[Self]
Heard(t) == V!IsQuorum(height[Self], V!AnyVoters(votes[Self], t, height[Self], round[Self]))
TimersKept ==
    Listening =>
       /\ step[Self] = "propose" => Proposer[height[Self]][round[Self]] = Self \/ Pending("propose")
       /\ step[Self] = "prevote" /\ Heard(Prevote) => Pending("prevote")
       /\ Heard(Precommit) => Pending("precommit")

\* A listening validator that holds a precommit quorum of a later height knows that it
\* lags, whatever it was doing when the quorum was completed.  Only until it restarts: a
\* quorum that comes back with the WAL before the height is started is merely counted,
\* since ProcessPrecommit returns before it asks hasFuturePrecommitQuorum.
FutureQuorumNoticed ==
    Listening /\ crashes = 0 => \A h \in Heights, r \in Rounds, v \in Hash :
       h > height[Self] /\ V!IsQuorum(h, V!Voters(votes[Self], Precommit, h, r, v))
          => futureQuorum >= h

\* A validator that precommitted a value is locked on it in that round or a later
\* one, also after a restart ("ReplayWAL: non proposer crashes right before
\* commit", tendermint/wal_test.go:68, expects the locked value back).
LocksKept ==
    Listening => \A m \in net :
       m.h = height[Self] /\ "type" \in DOMAIN m /\ "id" \in DOMAIN m =>
          (m.type = Precommit /\ m.id # Nil => locked[Self].round >= m.r)

\* A validator that knows it lags behind gets to the next height, unless it restarts.
CatchesUp ==
    \A h \in Heights :
       height[Self] = h /\ futureQuorum > h ~> height[Self] # h \/ replaying
=============================================================================
