----------------------------- MODULE Tendermint -----------------------------
(***************************************************************************)
(* consensus/tendermint: the state machines of the correct validators and  *)
(* the network between them.                                               *)
(*                                                                         *)
(* A handler of the code (ProcessStart, ProcessProposal, ProcessPrevote,   *)
(* ProcessPrecommit, ProcessTimeout) updates the state and then runs       *)
(* processLoop, which applies the first rule whose condition holds until   *)
(* none does.  Here the handler is one action and every rule application   *)
(* another; a validator is at "loop" in between, and takes no input then.  *)
(* The vote counter is represented by the messages it accepted: the        *)
(* theorems of VoteCounterProofs say that its answers are theirs.          *)
(*                                                                         *)
(* The network may lose, delay, duplicate and reorder: a message once sent *)
(* may be received by anyone at any later time, or never.  Faulty          *)
(* validators may send whatever FaultyVotes and FaultyProposals contain.   *)
(***************************************************************************)
EXTENDS Votes

CONSTANTS
    Faulty,           \* the faulty validators
    FaultyVotes,      \* the votes they may send
    FaultyProposals,  \* the proposals they may send
    ValueOf,          \* ValueOf[p]: the values Application.Value() may make for p
    ValidFor          \* ValidFor[p]: the values Application.Valid(v) holds for at p

Correct == Addr \ Faulty

ASSUME FaultyAssumption ==
    /\ Faulty \subseteq Addr
    /\ \A h \in Heights : Power[h][Faulty] <= f(TotalVotingPower(h))
    /\ FaultyVotes \subseteq {m \in Vote : m.from \in Faulty}
    /\ FaultyProposals \subseteq {m \in Proposal : m.from \in Faulty}
ASSUME ApplicationAssumption ==
    ValueOf \in [Correct -> SUBSET Hash] /\ ValidFor \in [Correct -> SUBSET Hash]

StepPropose == "propose"
StepPrevote == "prevote"
StepPrecommit == "precommit"
Step == {StepPropose, StepPrevote, StepPrecommit}
Timeout == [step : Step, h : Heights, r : Rounds]

\* lockedValue and lockedRound, or validValue and validRound, with their initial values.
Marked == [value : Ids, round : Rounds \union {-1}]
Unset == [value |-> Nil, round |-> -1]

\* The rules that apply once per round: their flags of the state struct.
PrevoteTimeout == "timeoutPrevoteScheduled"
PrecommitTimeout == "timeoutPrecommitScheduled"
ValueSet == "lockedValueAndOrValidValueSet"
Once == {PrevoteTimeout, PrecommitTimeout, ValueSet}

VARIABLES
    height, round, step,        \* of each correct validator: state.height, ...
    locked, valid, once,
    votes, proposals,           \* what its vote counter holds
    lastTriggerSync, lastQuorum,
    pc,                         \* "start": the height has yet to be started;
                                \* "loop": inside processLoop; "idle": between handlers
    recent,                     \* recentlyReceivedRound, -1 for nil
    timeouts,                   \* scheduled, and not yet fired
    decided,                    \* what it committed, height by height
    sentVotes, sentProposals    \* everything correct validators broadcast

node == <<height, round, step, locked, valid, once>>
counter == <<votes, proposals>>
sync == <<lastTriggerSync, lastQuorum>>
control == <<pc, recent>>
sent == <<sentVotes, sentProposals>>
vars == <<node, counter, sync, control, timeouts, decided, sent>>

Init ==
    /\ height = [p \in Correct |-> 0]
    /\ round = [p \in Correct |-> 0]
    /\ step = [p \in Correct |-> StepPropose]
    /\ locked = [p \in Correct |-> Unset]
    /\ valid = [p \in Correct |-> Unset]
    /\ once = [p \in Correct |-> {}]
    /\ votes = [p \in Correct |-> {}]
    /\ proposals = [p \in Correct |-> {}]
    /\ lastTriggerSync = [p \in Correct |-> 0]
    /\ lastQuorum = [p \in Correct |-> 0]
    /\ pc = [p \in Correct |-> "start"]
    /\ recent = [p \in Correct |-> -1]
    /\ timeouts = [p \in Correct |-> {}]
    /\ decided = [p \in Correct |-> [h \in Heights |-> Nil]]
    /\ sentVotes = {}
    /\ sentProposals = {}

-----------------------------------------------------------------------------
\* The vote counter of p, asked about p's height.
CachedProposal(p, r) == {m \in proposals[p] : m.h = height[p] /\ m.r = r}
\* Mutant of HasQuorumForVote: whatever the votes are for.
HasQuorumWhateverVote(p, r, t, id) == IsQuorum(height[p], AnyVoters(votes[p], t, height[p], r))
HasQuorumForVote(p, r, t, id) == IsQuorum(height[p], Voters(votes[p], t, height[p], r, id))
HasQuorumForAny(p, r, t) == IsQuorum(height[p], AnyVoters(votes[p], t, height[p], r))
\* Mutant of HasNonFaultyFutureMessage: the faulty power suffices.
FaultyFutureMessage(p, r) ==
    Power[height[p]][Senders(votes[p], proposals[p], height[p], r)] >= f(TotalVotingPower(height[p]))
HasNonFaultyFutureMessage(p, r) ==
    HasNonFaulty(height[p], Senders(votes[p], proposals[p], height[p], r))

\* broadcast.go: the message goes to the own vote counter and to the network.
SetStepAndSend(p, t, id, nextStep) ==
    LET vote == [type |-> t, h |-> height[p], r |-> round[p], from |-> p, id |-> id]
    IN  /\ votes' = [votes EXCEPT ![p] = @ \union {vote}]
        /\ sentVotes' = sentVotes \union {vote}
        /\ step' = [step EXCEPT ![p] = nextStep]
SetStepAndSendPrevote(p, id) == SetStepAndSend(p, Prevote, id, StepPrevote)
SetStepAndSendPrecommit(p, id) == SetStepAndSend(p, Precommit, id, StepPrecommit)

SendProposal(p, r, value) ==
    LET m == [h |-> height[p], r |-> r, from |-> p, value |-> value, vr |-> valid[p].round]
    IN  /\ proposals' = [proposals EXCEPT ![p] =
                            IF CachedProposal(p, r) = {} THEN @ \union {m} ELSE @]
        /\ sentProposals' = sentProposals \union {m}

ScheduleTimeout(p, pending, s, r) ==
    timeouts' = [timeouts EXCEPT ![p] = pending \union {[step |-> s, h |-> height[p], r |-> r]}]

\* startRound: the proposer proposes its valid value, or one its application makes.
StartRound(p, r, pending) ==
    /\ round' = [round EXCEPT ![p] = r]
    /\ step' = [step EXCEPT ![p] = StepPropose]
    /\ once' = [once EXCEPT ![p] = {}]
    /\ IF Proposer[height[p]][r] = p
       THEN /\ \E value \in IF valid[p].value # Nil THEN {valid[p].value} ELSE ValueOf[p] :
                  SendProposal(p, r, value)
            /\ timeouts' = [timeouts EXCEPT ![p] = pending]
       ELSE /\ ScheduleTimeout(p, pending, StepPropose, r)
            /\ UNCHANGED <<proposals, sentProposals>>
    /\ UNCHANGED <<height, locked, valid, votes, sync, decided, sentVotes>>

\* Every handler that runs processLoop leaves it to the rules below.
EnterLoop(p, r) == /\ pc' = [pc EXCEPT ![p] = "loop"]
                   /\ recent' = [recent EXCEPT ![p] = r]

-----------------------------------------------------------------------------
\* process.go and timeout.go: the handlers.  Driver.listen starts every height
\* before it hands on anything else, so the inputs find the height started.
ProcessStart(p) ==
    /\ pc[p] = "start"
    /\ height[p] \in Heights
    /\ StartRound(p, 0, timeouts[p])
    /\ EnterLoop(p, -1)

\* processMessage: rules run only for messages of the current height.
ProcessMessage(p, m) ==
    IF m.h = height[p] THEN EnterLoop(p, m.r) ELSE UNCHANGED control

AcceptsProposal(p, m) ==
    /\ m.h >= height[p]
    /\ m.from = Proposer[m.h][m.r]
    /\ \A n \in proposals[p] : ~(n.h = m.h /\ n.r = m.r)

ProcessProposal(p, m) ==
    /\ pc[p] = "idle"
    /\ AcceptsProposal(p, m)
    /\ proposals' = [proposals EXCEPT ![p] = @ \union {m}]
    /\ ProcessMessage(p, m)
    /\ UNCHANGED <<node, votes, sync, timeouts, decided, sent>>

AcceptsVote(p, m) == m.h >= height[p] /\ m \notin votes[p]

ProcessPrevote(p, m) ==
    /\ pc[p] = "idle"
    /\ m.type = Prevote
    /\ AcceptsVote(p, m)
    /\ votes' = [votes EXCEPT ![p] = @ \union {m}]
    /\ ProcessMessage(p, m)
    /\ UNCHANGED <<node, proposals, sync, timeouts, decided, sent>>

\* Mutant of HasFuturePrecommitQuorum: asked before the vote is added.
HadFuturePrecommitQuorum(p, m) ==
    /\ m.id # Nil
    /\ m.h > height[p]
    /\ m.h > lastTriggerSync[p]
    /\ Power[m.h][Voters(votes[p], Precommit, m.h, m.r, m.id)] >= q(TotalVotingPower(height[p]))

\* Counted with the quorum of the current height, the vote m included.
HasFuturePrecommitQuorum(p, m) ==
    /\ m.id # Nil
    /\ m.h > height[p]
    /\ m.h > lastTriggerSync[p]
    /\ Power[m.h][Voters(votes[p] \union {m}, Precommit, m.h, m.r, m.id)]
          >= q(TotalVotingPower(height[p]))

TriggerSync(p, m) ==
    LET end == IF lastQuorum[p] > m.h THEN lastQuorum[p] ELSE m.h
    IN  /\ lastQuorum' = [lastQuorum EXCEPT ![p] = end]
        /\ lastTriggerSync' = [lastTriggerSync EXCEPT ![p] = end]

ProcessPrecommit(p, m) ==
    /\ pc[p] = "idle"
    /\ m.type = Precommit
    /\ AcceptsVote(p, m)
    /\ votes' = [votes EXCEPT ![p] = @ \union {m}]
    /\ IF HasFuturePrecommitQuorum(p, m)
       THEN TriggerSync(p, m) /\ UNCHANGED control
       ELSE ProcessMessage(p, m) /\ UNCHANGED sync
    /\ UNCHANGED <<node, proposals, timeouts, decided, sent>>

\* ProcessTimeout: a timeout acts only in the height, round and step it was
\* scheduled for, but processLoop runs in any case.
IsSameHeightAndRound(p, tm) == tm.h = height[p] /\ tm.r = round[p]

\* Mutant of TimeoutActs: the step has moved on.
TimeoutActsLate(p, tm) == IsSameHeightAndRound(p, tm)

TimeoutActs(p, tm) ==
    /\ IsSameHeightAndRound(p, tm)
    /\ \/ tm.step = StepPrecommit
       \/ tm.step = step[p]

\* The timeout tm of p, with which other timeouts remain scheduled.
OnTimeout(p, tm, pending) ==
    /\ EnterLoop(p, -1)
    /\ \/ /\ TimeoutActs(p, tm) /\ tm.step = StepPropose
          /\ SetStepAndSendPrevote(p, Nil)
          /\ timeouts' = [timeouts EXCEPT ![p] = pending]
          /\ UNCHANGED <<height, round, locked, valid, once, proposals, sync, decided, sentProposals>>
       \/ /\ TimeoutActs(p, tm) /\ tm.step = StepPrevote
          /\ SetStepAndSendPrecommit(p, Nil)
          /\ timeouts' = [timeouts EXCEPT ![p] = pending]
          /\ UNCHANGED <<height, round, locked, valid, once, proposals, sync, decided, sentProposals>>
       \/ /\ TimeoutActs(p, tm) /\ tm.step = StepPrecommit
          /\ tm.r < MaxRound
          /\ StartRound(p, tm.r + 1, pending)
       \/ /\ ~TimeoutActs(p, tm)
          /\ timeouts' = [timeouts EXCEPT ![p] = pending]
          /\ UNCHANGED <<node, counter, sync, decided, sent>>

ProcessTimeout(p, tm) ==
    /\ pc[p] = "idle"
    /\ tm \in timeouts[p]
    /\ OnTimeout(p, tm, timeouts[p] \ {tm})

-----------------------------------------------------------------------------
\* The rules, named for the lines of the paper's pseudocode as in process.go.
\* m is the proposal of the current round, or of the round just heard of.
UponFirstProposal(p, m) == m.vr = -1 /\ step[p] = StepPropose

UponProposalAndPolkaPrevious(p, m) ==
    /\ m.vr >= 0 /\ m.vr < round[p]
    /\ step[p] = StepPropose
    /\ HasQuorumForVote(p, m.vr, Prevote, m.value)

UponPolkaAny(p) ==
    /\ step[p] = StepPrevote
    /\ PrevoteTimeout \notin once[p]
    /\ HasQuorumForAny(p, round[p], Prevote)

\* Mutant of UponProposalAndPolkaCurrent: prevotes for anything count.
UponProposalAndPolkaAny(p, m) ==
    /\ m.value \in ValidFor[p]
    /\ step[p] # StepPropose
    /\ ValueSet \notin once[p]
    /\ HasQuorumForAny(p, round[p], Prevote)

UponProposalAndPolkaCurrent(p, m) ==
    /\ m.value \in ValidFor[p]
    /\ step[p] # StepPropose
    /\ ValueSet \notin once[p]
    /\ HasQuorumForVote(p, round[p], Prevote, m.value)

UponPolkaNil(p) == step[p] = StepPrevote /\ HasQuorumForVote(p, round[p], Prevote, Nil)

UponPrecommitAny(p) ==
    PrecommitTimeout \notin once[p] /\ HasQuorumForAny(p, round[p], Precommit)

\* Mutant of UponCommitValue: the application is not asked.
UponCommitUnchecked(p, m) == HasQuorumForVote(p, m.r, Precommit, m.value)

UponCommitValue(p, m) ==
    m.value \in ValidFor[p] /\ HasQuorumForVote(p, m.r, Precommit, m.value)

UponSkipRound(p, r) == r > round[p] /\ HasNonFaultyFutureMessage(p, r)

\* process: the first rule that applies, and "done" when none does.
\* Mutant of RoundCachedProposal: the proposal of the current round only.
CurrentCachedProposal(p) == CachedProposal(p, round[p])
RoundCachedProposal(p) == CachedProposal(p, IF recent[p] = -1 THEN round[p] ELSE recent[p])

Rule(p) ==
    IF \E m \in CachedProposal(p, round[p]) : UponFirstProposal(p, m) THEN "line22"
    ELSE IF \E m \in CachedProposal(p, round[p]) : UponProposalAndPolkaPrevious(p, m) THEN "line28"
    ELSE IF UponPolkaAny(p) THEN "line34"
    ELSE IF \E m \in CachedProposal(p, round[p]) : UponProposalAndPolkaCurrent(p, m) THEN "line36"
    ELSE IF UponPolkaNil(p) THEN "line44"
    ELSE IF UponPrecommitAny(p) THEN "line47"
    ELSE IF \E m \in RoundCachedProposal(p) : UponCommitValue(p, m) THEN "line49"
    ELSE IF UponSkipRound(p, recent[p]) THEN "line55"
    ELSE "done"

\* Mutant of DoFirstProposal: whatever the lock.
DoFirstProposalUnlocked(p, m) ==
    /\ UponFirstProposal(p, m)
    /\ SetStepAndSendPrevote(p, IF m.value \in ValidFor[p] THEN m.value ELSE Nil)
    /\ UNCHANGED <<height, round, locked, valid, once, proposals, sync, control, timeouts, decided, sentProposals>>

DoFirstProposal(p, m) ==
    /\ UponFirstProposal(p, m)
    /\ SetStepAndSendPrevote(p,
          IF m.value \in ValidFor[p] /\ (locked[p].round = -1 \/ locked[p].value = m.value)
          THEN m.value ELSE Nil)
    /\ UNCHANGED <<height, round, locked, valid, once, proposals, sync, control, timeouts, decided, sentProposals>>

DoProposalAndPolkaPrevious(p, m) ==
    /\ UponProposalAndPolkaPrevious(p, m)
    /\ SetStepAndSendPrevote(p,
          IF m.value \in ValidFor[p] /\ (locked[p].round <= m.vr \/ locked[p].value = m.value)
          THEN m.value ELSE Nil)
    /\ UNCHANGED <<height, round, locked, valid, once, proposals, sync, control, timeouts, decided, sentProposals>>

DoPolkaAny(p) ==
    /\ once' = [once EXCEPT ![p] = @ \union {PrevoteTimeout}]
    /\ ScheduleTimeout(p, timeouts[p], StepPrevote, round[p])
    /\ UNCHANGED <<height, round, step, locked, valid, counter, sync, control, decided, sent>>

DoProposalAndPolkaCurrent(p, m) ==
    /\ UponProposalAndPolkaCurrent(p, m)
    /\ IF step[p] = StepPrevote
       THEN /\ locked' = [locked EXCEPT ![p] = [value |-> m.value, round |-> round[p]]]
            /\ SetStepAndSendPrecommit(p, m.value)
       ELSE UNCHANGED <<locked, step, votes, sentVotes>>
    /\ valid' = [valid EXCEPT ![p] = [value |-> m.value, round |-> round[p]]]
    /\ once' = [once EXCEPT ![p] = @ \union {ValueSet}]
    /\ UNCHANGED <<height, round, proposals, sync, control, timeouts, decided, sentProposals>>

DoPolkaNil(p) ==
    /\ SetStepAndSendPrecommit(p, Nil)
    /\ UNCHANGED <<height, round, locked, valid, once, proposals, sync, control, timeouts, decided, sentProposals>>

DoPrecommitAny(p) ==
    /\ once' = [once EXCEPT ![p] = @ \union {PrecommitTimeout}]
    /\ ScheduleTimeout(p, timeouts[p], StepPrecommit, round[p])
    /\ UNCHANGED <<height, round, step, locked, valid, counter, sync, control, decided, sent>>

\* doCommitValue, StartNewHeight of the vote counter included.
DoCommitValue(p, m) ==
    /\ UponCommitValue(p, m)
    /\ decided' = [decided EXCEPT ![p][height[p]] = m.value]
    /\ height' = [height EXCEPT ![p] = @ + 1]
    /\ votes' = [votes EXCEPT ![p] = {n \in @ : n.h > height[p]}]
    /\ proposals' = [proposals EXCEPT ![p] = {n \in @ : n.h > height[p]}]
    /\ locked' = [locked EXCEPT ![p] = Unset]
    /\ valid' = [valid EXCEPT ![p] = Unset]
    /\ round' = [round EXCEPT ![p] = 0]
    /\ step' = [step EXCEPT ![p] = StepPropose]
    /\ once' = [once EXCEPT ![p] = {}]
    /\ pc' = [pc EXCEPT ![p] = "start"]
    /\ UNCHANGED <<sync, recent, timeouts, sent>>

DoSkipRound(p) == StartRound(p, recent[p], timeouts[p]) /\ UNCHANGED control

DoNothing(p) ==
    /\ pc' = [pc EXCEPT ![p] = "idle"]
    /\ recent' = [recent EXCEPT ![p] = -1]
    /\ UNCHANGED <<node, counter, sync, timeouts, decided, sent>>

\* One iteration of processLoop.
Process(p) ==
    /\ pc[p] = "loop"
    /\ \E rule \in {Rule(p)}, current \in {CachedProposal(p, round[p])} :
          \/ rule = "line22" /\ \E m \in current : DoFirstProposal(p, m)
          \/ rule = "line28" /\ \E m \in current : DoProposalAndPolkaPrevious(p, m)
          \/ rule = "line34" /\ DoPolkaAny(p)
          \/ rule = "line36" /\ \E m \in current : DoProposalAndPolkaCurrent(p, m)
          \/ rule = "line44" /\ DoPolkaNil(p)
          \/ rule = "line47" /\ DoPrecommitAny(p)
          \/ rule = "line49" /\ \E m \in RoundCachedProposal(p) : DoCommitValue(p, m)
          \/ rule = "line55" /\ DoSkipRound(p)
          \/ rule = "done" /\ DoNothing(p)

\* An input to p: a message of another validator, or a timeout.
Input(p) ==
    \/ \E m \in sentProposals \union FaultyProposals : ProcessProposal(p, m)
    \/ \E m \in sentVotes \union FaultyVotes : ProcessPrevote(p, m)
    \/ \E m \in sentVotes \union FaultyVotes : ProcessPrecommit(p, m)
    \/ \E tm \in timeouts[p] : ProcessTimeout(p, tm)

Next == \E p \in Correct : ProcessStart(p) \/ Process(p) \/ Input(p)

Spec == Init /\ [][Next]_vars

\* A step of p commutes with the steps of others: nobody sees what p does before
\* its handler has finished, and what a validator was sent it may receive later.
\* Runs therefore let a handler finish before the next one begins.
Busy == {p \in Correct : pc[p] # "idle" /\ height[p] \in Heights}
AtomicNext ==
    \/ \E p \in Busy : ProcessStart(p) \/ Process(p)
    \/ Busy = {} /\ \E p \in Correct : Input(p)
AtomicSpec == Init /\ [][AtomicNext]_vars

\* Driver.listen never stops taking inputs, timers fire, and the gossip network
\* delivers what a correct validator keeps waiting for.
FairSpec ==
    /\ AtomicSpec
    /\ WF_vars(\E p \in Busy : ProcessStart(p) \/ Process(p))
    /\ \A p \in Correct : WF_vars(Busy = {} /\ Input(p))

-----------------------------------------------------------------------------
TypeOK ==
    /\ height \in [Correct -> 0 .. MaxHeight + 1]
    /\ round \in [Correct -> Rounds]
    /\ step \in [Correct -> Step]
    /\ locked \in [Correct -> Marked]
    /\ valid \in [Correct -> Marked]
    /\ once \in [Correct -> SUBSET Once]
    /\ votes \in [Correct -> SUBSET Vote]
    /\ proposals \in [Correct -> SUBSET Proposal]
    /\ lastTriggerSync \in [Correct -> Heights]
    /\ lastQuorum \in [Correct -> Heights]
    /\ pc \in [Correct -> {"start", "idle", "loop"}]
    /\ recent \in [Correct -> Rounds \union {-1}]
    /\ timeouts \in [Correct -> SUBSET Timeout]
    /\ decided \in [Correct -> [Heights -> Ids]]
    /\ sentVotes \in SUBSET {m \in Vote : m.from \in Correct}
    /\ sentProposals \in SUBSET {m \in Proposal : m.from \in Correct}

\* No two correct validators commit different values at a height, whatever the
\* network and the faulty validators do: the point of the locks of rules 22, 28
\* and 36.
Agreement ==
    \A p1, p2 \in Correct, h \in Heights :
       decided[p1][h] # Nil /\ decided[p2][h] # Nil => decided[p1][h] = decided[p2][h]

\* A correct validator never contradicts itself: rules and timeouts between them
\* send one prevote, one precommit and one proposal per round.
NoEquivocation ==
    /\ \A m1, m2 \in sentVotes :
          m1.type = m2.type /\ m1.h = m2.h /\ m1.r = m2.r /\ m1.from = m2.from => m1 = m2
    /\ \A m1, m2 \in sentProposals :
          m1.h = m2.h /\ m1.r = m2.r /\ m1.from = m2.from => m1 = m2

\* Everything anybody may have said.
AllVotes == sentVotes \union FaultyVotes

\* What a correct validator claims has support: it precommits a value only on a
\* polka (quorum of prevotes) of that round, and re-proposes a valid value only
\* with the polka of its valid round, else nobody could follow rule 28.
ClaimsJustified ==
    /\ \A m \in sentVotes : m.type = Precommit /\ m.id # Nil =>
          IsQuorum(m.h, Voters(AllVotes, Prevote, m.h, m.r, m.id))
    /\ \A m \in sentProposals : m.vr # -1 =>
          m.vr < m.r /\ IsQuorum(m.h, Voters(AllVotes, Prevote, m.h, m.vr, m.value))

\* "Line 36 and 44 for a round are mutually exclusive" (rule_polka_nil.go:16).
PolkasExclusive ==
    \A p \in Correct : height[p] \in Heights =>
       \A r \in Rounds : HasQuorumForVote(p, r, Prevote, Nil) =>
          \A v \in Hash : ~HasQuorumForVote(p, r, Prevote, v)

\* "If there are f + 1 messages from a newer round, there is at least an honest
\* node in that round" (rule_skip_round.go:14): faulty validators cannot drag a
\* correct one into a round no correct validator has reached.
SkipsFollowCorrect ==
    [][\A p \in Correct :
          height'[p] = height[p] /\ round'[p] > round[p] /\ pc[p] = "loop" =>
             \E p2 \in Correct \ {p} :
                \/ height[p2] > height[p]
                \/ height[p2] = height[p] /\ round[p2] >= round'[p]
      ]_vars

\* Once a correct validator has committed a height, all do: rule 49 looks at the
\* round of every message received, not at the current round only.
DecisionsSpread ==
    \A h \in Heights :
       (\E p \in Correct : decided[p][h] # Nil) ~> (\A p \in Correct : decided[p][h] # Nil)
=============================================================================
