---------------------------- MODULE DriverProofs ----------------------------
(***************************************************************************)
(* What holds of the driver for every network: a decided value is always   *)
(* committed as the next block, a listening validator always has a timer   *)
(* that moves it on, and a quorum of a later height does not go unnoticed. *)
(*                                                                         *)
(* The driver executes the actions of a handler one by one, and the state  *)
(* machine runs ahead of them.  The invariant therefore speaks of what the *)
(* actions that are left will do: a commit is the last of them, and while  *)
(* it is left the machine is one height ahead of the chain; a quorum that  *)
(* the driver has not heard of is in an action that it will execute.       *)
(***************************************************************************)
EXTENDS Driver, TLAPS

Elements(s) == {s[i] : i \in 1 .. Len(s)}
IsSequence(s) == s \in Seq(Elements(s))

\* The functions of the state machine are those of one validator.
Alone(f) == f = [p \in {Self} |-> f[Self]]

OneMachine ==
    /\ Alone(height) /\ Alone(round) /\ Alone(step) /\ Alone(locked) /\ Alone(valid)
    /\ Alone(once) /\ Alone(votes) /\ Alone(proposals) /\ Alone(lastTriggerSync)
    /\ Alone(lastQuorum) /\ Alone(pc) /\ Alone(recent) /\ Alone(timeouts) /\ Alone(decided)
    /\ DOMAIN decided[Self] = Heights
    /\ pc[Self] \in {"start", "loop", "idle"}
    /\ height[Self] \in Nat
    /\ pc[Self] # "start" => height[Self] \in Heights

Shapes ==
    /\ OneMachine
    /\ IsSequence(actions)
    /\ next \in Nat /\ next >= 1 /\ next <= Len(actions) + 1

\* The decision that has not been executed: the last action, by which the machine
\* has left the height.
Committing == next <= Len(actions) /\ actions[Len(actions)].kind = "commit"
Decision == actions[Len(actions)]

Commits ==
    /\ \A i \in 1 .. Len(actions) :
          actions[i].kind = "commit" => i = Len(actions) /\ pc[Self] = "start"
    /\ stage \in {"run", "commit", "persisted"} /\ chain \in Nat
    /\ stage # "run" => inbox = None /\ next = Len(actions) /\ Committing
    /\ IF Committing /\ stage # "persisted"
       THEN height[Self] = chain + 1 /\ Decision.h = chain /\ Decision.value \in Valid
       ELSE height[Self] = chain
    /\ Committing => height[Self] = Decision.h + 1

\* The flags stand for timers, and when the loop has ended the flags are set.
Timers ==
    pc[Self] # "start" =>
       /\ step[Self] = "propose" => Proposer[height[Self]][round[Self]] = Self \/ Pending("propose")
       /\ "timeoutPrevoteScheduled" \in once[Self] =>
             step[Self] # "propose" /\ (step[Self] = "prevote" => Pending("prevote"))
       /\ "timeoutPrecommitScheduled" \in once[Self] => Pending("precommit")
       /\ pc[Self] = "idle" =>
             /\ step[Self] = "prevote" /\ Heard(Prevote) => "timeoutPrevoteScheduled" \in once[Self]
             /\ Heard(Precommit) => "timeoutPrecommitScheduled" \in once[Self]

\* A quorum of a later height has been noticed by the machine, and by the driver unless
\* it has yet to execute the action that tells it.
FutureQuorum(h, r, v) == V!IsQuorum(h, V!Voters(votes[Self], Precommit, h, r, v))

MachineNotices ==
    /\ lastTriggerSync[Self] \in Nat /\ lastQuorum[Self] = lastTriggerSync[Self]
    /\ \A h \in Heights, r \in Rounds, v \in Hash :
          h > height[Self] /\ FutureQuorum(h, r, v) => lastTriggerSync[Self] >= h
Syncs(s) == \A i \in 1 .. Len(s) : s[i].kind = "triggerSync" => s[i].end \in Nat
DriverNotices ==
    /\ Syncs(actions)
    /\ \/ lastTriggerSync[Self] <= futureQuorum
       \/ \E i \in next .. Len(actions) :
             actions[i].kind = "triggerSync" /\ actions[i].end = lastTriggerSync[Self]

\* What has been requested of the network, and the block that came.
Requested ==
    /\ \A h \in fetching : h \in Heights /\ h <= height[Self]
    /\ inbox # None => inbox.type = Precommit /\ inbox.h \in Heights /\ inbox.h <= height[Self]

\* The machine counts a quorum of a later height against the total power of the current
\* one, and a restart forgets the heights it has noticed before the replay reaches them.
SamePower == \A h, k \in Heights : V!TotalVotingPower(h) = V!TotalVotingPower(k)

Noticed ==
    /\ crashes \in Nat
    /\ SamePower /\ crashes = 0 => todo = <<>> /\ futureQuorum \in Nat /\ MachineNotices /\ DriverNotices

IInv == Shapes /\ Commits /\ Timers /\ Requested /\ Noticed
-----------------------------------------------------------------------------
\* What the handlers and the rules of the state machine do to its shape, to its height,
\* and to where it is between handlers.
Stays == height' = height /\ decided' = decided /\ pc'[Self] \in {"loop", "idle"}
Decides(F) ==
    /\ height'[Self] = height[Self] + 1 /\ pc'[Self] = "start"
    /\ decided'[Self][height[Self]] \in F[Self]

\* A step that leaves votes of later heights, and what is known of their quorums.
VoteOf(t, h, r, a, id) == [type |-> t, h |-> h, r |-> r, from |-> a, id |-> id]
LaterVotesKept ==
    /\ lastTriggerSync' = lastTriggerSync /\ lastQuorum' = lastQuorum
    /\ \A h \in Nat : \A t, r, a, id :
          h > height'[Self] => (VoteOf(t, h, r, a, id) \in votes'[Self] <=> VoteOf(t, h, r, a, id) \in votes[Self])

\* setStepAndSend adds a vote of the current height.
LEMMA VoteSent ==
    ASSUME NEW F, OneMachine, NEW t, NEW v, NEW s, SM(F)!SetStepAndSend(Self, t, v, s)
    PROVE  /\ Alone(votes') /\ Alone(step')
           /\ \A h \in Nat : \A k, r, a, id : h > height[Self] =>
                 (VoteOf(k, h, r, a, id) \in votes'[Self] <=> VoteOf(k, h, r, a, id) \in votes[Self])
  <1>1. votes'[Self] = votes[Self] \union {VoteOf(t, height[Self], round[Self], Self, v)}
    BY Zenon DEF VoteOf, Alone, OneMachine, SM!SetStepAndSend
  <1>2. ASSUME NEW h \in Nat, NEW k, NEW r, NEW a, NEW id, h > height[Self]
        PROVE  VoteOf(k, h, r, a, id) # VoteOf(t, height[Self], round[Self], Self, v)
    BY <1>2 DEF VoteOf, OneMachine
  <1>3. Alone(votes') /\ Alone(step')
    BY Zenon DEF OneMachine, Alone, SM!SetStepAndSend
  <1> QED
    BY Zenon, <1>1, <1>2, <1>3

\* One iteration of processLoop.
LEMMA RuleShapes ==
    ASSUME NEW F, OneMachine, SM(F)!Process(Self)
    PROVE  OneMachine' /\ (Stays \/ Decides(F)) /\ LaterVotesKept
  <1> USE DEF OneMachine, Stays, LaterVotesKept, SM!SetStepAndSendPrevote,
          SM!SetStepAndSendPrecommit, SM!node, SM!control, SM!counter, SM!sync, SM!sent
  <1>0. pc[Self] = "loop"
    BY Zenon DEF SM!Process
  <1>1. ASSUME NEW m, SM(F)!DoFirstProposal(Self, m)
        PROVE  OneMachine' /\ Stays /\ LaterVotesKept
    BY Zenon, <1>0, <1>1, VoteSent DEF SM!DoFirstProposal
  <1>2. ASSUME NEW m, SM(F)!DoProposalAndPolkaPrevious(Self, m)
        PROVE  OneMachine' /\ Stays /\ LaterVotesKept
    BY Zenon, <1>0, <1>2, VoteSent DEF SM!DoProposalAndPolkaPrevious
  <1>3. ASSUME SM(F)!DoPolkaAny(Self)
        PROVE  OneMachine' /\ Stays /\ LaterVotesKept
    BY Zenon, <1>0, <1>3 DEF SM!DoPolkaAny, Alone, SM!ScheduleTimeout
  <1>4. ASSUME NEW m, SM(F)!DoProposalAndPolkaCurrent(Self, m)
        PROVE  OneMachine' /\ Stays /\ LaterVotesKept
    <2>1. Alone(locked') /\ Alone(valid') /\ Alone(once')
      BY Zenon, <1>4 DEF SM!DoProposalAndPolkaCurrent, Alone
    <2>2. CASE step[Self] = SM(F)!StepPrevote
      BY Zenon, <1>0, <1>4, <2>1, <2>2, VoteSent DEF SM!DoProposalAndPolkaCurrent
    <2>3. CASE step[Self] # SM(F)!StepPrevote
      BY Zenon, <1>0, <1>4, <2>1, <2>3 DEF SM!DoProposalAndPolkaCurrent
    <2> QED
      BY Zenon, <2>2, <2>3
  <1>5. ASSUME SM(F)!DoPolkaNil(Self)
        PROVE  OneMachine' /\ Stays /\ LaterVotesKept
    BY Zenon, <1>0, <1>5, VoteSent DEF SM!DoPolkaNil
  <1>6. ASSUME SM(F)!DoPrecommitAny(Self)
        PROVE  OneMachine' /\ Stays /\ LaterVotesKept
    BY Zenon, <1>0, <1>6 DEF SM!DoPrecommitAny, Alone, SM!ScheduleTimeout
  <1>7. ASSUME NEW m, SM(F)!DoCommitValue(Self, m)
        PROVE  OneMachine' /\ Decides(F) /\ LaterVotesKept
    <2>1. OneMachine'
      <3>1. /\ Alone(height') /\ Alone(round') /\ Alone(step') /\ Alone(locked') /\ Alone(valid')
            /\ Alone(once') /\ Alone(votes') /\ Alone(proposals')
        BY Zenon, <1>7 DEF SM!DoCommitValue, Alone
      <3>2. /\ Alone(lastTriggerSync') /\ Alone(lastQuorum') /\ Alone(recent') /\ Alone(timeouts')
            /\ Alone(pc') /\ pc'[Self] = "start" /\ height'[Self] = height[Self] + 1
        BY Zenon, <1>7 DEF SM!DoCommitValue, Alone
      <3>3. Alone(decided') /\ DOMAIN decided'[Self] = Heights
        BY Zenon, <1>7 DEF SM!DoCommitValue, Alone
      <3> QED
        BY <3>1, <3>2, <3>3
    <2>2. m.value \in F[Self]
      BY Zenon, <1>7 DEF SM!DoCommitValue, SM!UponCommitValue
    <2>3. Decides(F)
      BY Zenon, <1>0, <1>7, <2>2 DEF SM!DoCommitValue, Decides, Alone
    <2>4. LaterVotesKept
      <3>1. /\ height'[Self] = height[Self] + 1
            /\ votes'[Self] = {n \in votes[Self] : n.h > height[Self]}
        BY Zenon, <1>7 DEF SM!DoCommitValue, Alone
      <3>2. ASSUME NEW h \in Nat, NEW k, NEW r, NEW a, NEW id, h > height'[Self]
            PROVE  VoteOf(k, h, r, a, id) \in votes'[Self] <=> VoteOf(k, h, r, a, id) \in votes[Self]
        <4>1. VoteOf(k, h, r, a, id).h > height[Self]
          BY <3>1, <3>2 DEF VoteOf
        <4> QED
          BY Zenon, <3>1, <4>1
      <3> QED
        BY Zenon, <1>7, <3>2 DEF SM!DoCommitValue
    <2> QED
      BY Zenon, <2>1, <2>3, <2>4
  <1>8. ASSUME SM(F)!DoSkipRound(Self)
        PROVE  OneMachine' /\ Stays /\ LaterVotesKept
    BY Zenon, <1>0, <1>8 DEF SM!DoSkipRound, SM!StartRound, SM!SendProposal, Alone, SM!ScheduleTimeout
  <1>9. ASSUME SM(F)!DoNothing(Self)
        PROVE  OneMachine' /\ Stays /\ LaterVotesKept
    BY Zenon, <1>0, <1>9 DEF SM!DoNothing, Alone
  <1> HIDE DEF OneMachine, Stays, LaterVotesKept
  <1> QED
    BY Zenon, <1>1, <1>2, <1>3, <1>4, <1>5, <1>6, <1>7, <1>8, <1>9 DEF SM!Process

\* The handlers.
LEMMA StartShapes ==
    ASSUME NEW F, OneMachine, SM(F)!ProcessStart(Self)
    PROVE  OneMachine' /\ Stays /\ LaterVotesKept
  BY Zenon DEF Alone, OneMachine, Stays, LaterVotesKept, SM!ProcessStart, SM!StartRound,
         SM!SendProposal, SM!EnterLoop, SM!sync, SM!ScheduleTimeout, SM!Heights, Heights

LEMMA ProposalShapes ==
    ASSUME NEW F, NEW m, OneMachine, SM(F)!ProcessProposal(Self, m)
    PROVE  OneMachine' /\ Stays /\ LaterVotesKept
  BY Zenon DEF Alone, OneMachine, Stays, LaterVotesKept, SM!ProcessProposal, SM!ProcessMessage,
         SM!EnterLoop, SM!node, SM!sync, SM!control

LEMMA PrevoteShapes ==
    ASSUME NEW F, NEW m, OneMachine, SM(F)!ProcessPrevote(Self, m)
    PROVE  OneMachine' /\ Stays /\ lastTriggerSync' = lastTriggerSync /\ lastQuorum' = lastQuorum
  BY Zenon DEF Alone, OneMachine, Stays, SM!ProcessPrevote, SM!ProcessMessage,
         SM!EnterLoop, SM!node, SM!sync, SM!control

LEMMA PrecommitShapes ==
    ASSUME NEW F, NEW m, OneMachine, SM(F)!ProcessPrecommit(Self, m)
    PROVE  OneMachine' /\ Stays
  BY Zenon DEF Alone, OneMachine, Stays, SM!ProcessPrecommit, SM!ProcessMessage, SM!TriggerSync,
         SM!EnterLoop, SM!node, SM!sync, SM!control

LEMMA TimeoutShapes ==
    ASSUME NEW F, NEW tm, NEW pending, OneMachine, pc[Self] = "idle",
           SM(F)!OnTimeout(Self, tm, pending)
    PROVE  OneMachine' /\ Stays /\ LaterVotesKept
  <1> USE DEF OneMachine, Stays, LaterVotesKept, SM!EnterLoop, SM!node, SM!counter, SM!sync,
          SM!sent
  <1>0. Alone(pc') /\ Alone(recent') /\ pc'[Self] = "loop"
    BY Zenon DEF Alone, SM!OnTimeout
  <1>1. ASSUME NEW t, SM(F)!SetStepAndSend(Self, t, Nil, t), timeouts' = [timeouts EXCEPT ![Self] = pending],
               UNCHANGED <<height, round, locked, valid, once, proposals, SM(F)!sync, decided, sentProposals>>
        PROVE  OneMachine' /\ Stays /\ LaterVotesKept
    <2>1. Alone(timeouts')
      BY Zenon, <1>1 DEF Alone
    <2> QED
      BY Zenon, <1>0, <1>1, <2>1, VoteSent
  <1>2. ASSUME SM(F)!StartRound(Self, tm.r + 1, pending)
        PROVE  OneMachine' /\ Stays /\ LaterVotesKept
    BY Zenon, <1>0, <1>2 DEF SM!StartRound, SM!SendProposal, Alone, SM!ScheduleTimeout
  <1>3. ASSUME timeouts' = [timeouts EXCEPT ![Self] = pending],
               UNCHANGED <<SM(F)!node, SM(F)!counter, SM(F)!sync, decided, SM(F)!sent>>
        PROVE  OneMachine' /\ Stays /\ LaterVotesKept
    <2>1. Alone(timeouts')
      BY Zenon, <1>3 DEF Alone
    <2> QED
      BY Zenon, <1>0, <1>3, <2>1
  <1> HIDE DEF OneMachine, Stays, LaterVotesKept
  <1> QED
    BY Zenon, <1>1, <1>2, <1>3 DEF SM!OnTimeout, SM!SetStepAndSendPrevote, SM!SetStepAndSendPrecommit,
       SM!StepPrevote, SM!StepPrecommit, SM!Prevote, SM!Precommit

-----------------------------------------------------------------------------
\* The timers.  The counters of the machine and of this module are the same.
LEMMA SameQuorums ==
    ASSUME NEW F
    PROVE  /\ \A h, X : SM(F)!IsQuorum(h, X) <=> V!IsQuorum(h, X)
           /\ \A X, t, h, r : SM(F)!AnyVoters(X, t, h, r) = V!AnyVoters(X, t, h, r)
           /\ \A t : SM(F)!HasQuorumForAny(Self, round[Self], t) <=> Heard(t)
  <1>1. ASSUME NEW h, NEW X PROVE SM(F)!IsQuorum(h, X) <=> V!IsQuorum(h, X)
    BY Zenon DEF SM!IsQuorum, V!IsQuorum, SM!q, V!q, SM!TotalVotingPower, V!TotalVotingPower
  <1>2. ASSUME NEW X, NEW t, NEW h, NEW r
        PROVE  SM(F)!AnyVoters(X, t, h, r) = V!AnyVoters(X, t, h, r)
    BY Zenon DEF SM!AnyVoters, V!AnyVoters, SM!Voters, V!Voters, SM!Ids, V!Ids
  <1> QED
    BY Zenon, <1>1, <1>2 DEF SM!HasQuorumForAny, Heard

LEMMA RuleTimers ==
    ASSUME NEW F, OneMachine, Timers, SM(F)!Process(Self)
    PROVE  Timers'
  <1> USE DEF SM!node, SM!control, SM!counter, SM!sync, SM!sent, SM!StepPropose,
          SM!StepPrevote, SM!StepPrecommit, SM!PrevoteTimeout, SM!PrecommitTimeout, SM!ValueSet
  <1>0. pc[Self] = "loop"
    BY Zenon DEF SM!Process
  <1>1. ASSUME NEW t, NEW v, SM(F)!SetStepAndSend(Self, t, v, "prevote"), step[Self] = "propose",
               UNCHANGED <<height, round, once, pc, timeouts>>
        PROVE  Timers'
    BY Zenon, <1>0, <1>1 DEF SM!SetStepAndSend, Timers, Pending, OneMachine, Alone
  <1>2. ASSUME NEW t, NEW v, SM(F)!SetStepAndSend(Self, t, v, "precommit"),
               UNCHANGED <<height, round, once, pc, timeouts>>
        PROVE  Timers'
    BY Zenon, <1>0, <1>2 DEF SM!SetStepAndSend, Timers, Pending, OneMachine, Alone
  <1>3. ASSUME NEW m, SM(F)!DoFirstProposal(Self, m)
        PROVE  Timers'
    BY Zenon, <1>1, <1>3 DEF SM!DoFirstProposal, SM!UponFirstProposal, SM!SetStepAndSendPrevote
  <1>4. ASSUME NEW m, SM(F)!DoProposalAndPolkaPrevious(Self, m)
        PROVE  Timers'
    BY Zenon, <1>1, <1>4 DEF SM!DoProposalAndPolkaPrevious, SM!UponProposalAndPolkaPrevious,
       SM!SetStepAndSendPrevote
  <1>5. ASSUME SM(F)!UponPolkaAny(Self), SM(F)!DoPolkaAny(Self)
        PROVE  Timers'
    BY Zenon, <1>0, <1>5 DEF SM!UponPolkaAny, SM!DoPolkaAny, SM!ScheduleTimeout, Timers, Pending,
       OneMachine, Alone
  <1>6. ASSUME NEW m, SM(F)!DoProposalAndPolkaCurrent(Self, m)
        PROVE  Timers'
    <2>1. CASE step[Self] = "prevote"
      BY Zenon, <1>0, <1>6, <2>1 DEF SM!DoProposalAndPolkaCurrent, SM!SetStepAndSendPrecommit,
         SM!SetStepAndSend, Timers, Pending, OneMachine, Alone
    <2>2. CASE step[Self] # "prevote"
      BY Zenon, <1>0, <1>6, <2>2 DEF SM!DoProposalAndPolkaCurrent, Timers, Pending, OneMachine, Alone
    <2> QED
      BY Zenon, <2>1, <2>2
  <1>7. ASSUME SM(F)!DoPolkaNil(Self)
        PROVE  Timers'
    BY Zenon, <1>2, <1>7 DEF SM!DoPolkaNil, SM!SetStepAndSendPrecommit
  <1>8. ASSUME SM(F)!DoPrecommitAny(Self)
        PROVE  Timers'
    BY Zenon, <1>0, <1>8 DEF SM!DoPrecommitAny, SM!ScheduleTimeout, Timers, Pending, OneMachine, Alone
  <1>9. ASSUME NEW m, SM(F)!DoCommitValue(Self, m)
        PROVE  Timers'
    BY Zenon, <1>0, <1>9 DEF SM!DoCommitValue, Timers, OneMachine, Alone
  <1>10. ASSUME SM(F)!DoSkipRound(Self)
         PROVE  Timers'
    <2>1. /\ height' = height /\ round'[Self] = recent[Self] /\ step'[Self] = "propose"
          /\ once'[Self] = {} /\ pc'[Self] = "loop"
      BY Zenon, <1>0, <1>10 DEF SM!DoSkipRound, SM!StartRound, OneMachine, Alone
    <2>2. Proposer[height'[Self]][round'[Self]] = Self \/ Pending("propose")'
      BY <1>10, <2>1 DEF SM!DoSkipRound, SM!StartRound, SM!ScheduleTimeout, Pending, OneMachine, Alone
    <2> QED
      BY Zenon, <2>1, <2>2 DEF Timers
  <1>11. ASSUME ~SM(F)!UponPolkaAny(Self), ~SM(F)!UponPrecommitAny(Self), SM(F)!DoNothing(Self)
         PROVE  Timers'
    <2>1. Heard(Prevote)' = Heard(Prevote) /\ Heard(Precommit)' = Heard(Precommit)
      BY Zenon, <1>11 DEF SM!DoNothing, Heard
    <2>2. /\ step[Self] = "prevote" /\ Heard(Prevote) => "timeoutPrevoteScheduled" \in once[Self]
          /\ Heard(Precommit) => "timeoutPrecommitScheduled" \in once[Self]
      BY Zenon, <1>11, SameQuorums DEF SM!UponPolkaAny, SM!UponPrecommitAny, SM!Prevote, SM!Precommit,
         Prevote, Precommit
    <2> QED
      BY Zenon, <1>0, <1>11, <2>1, <2>2 DEF SM!DoNothing, Timers, Pending, OneMachine, Alone
  <1>12. /\ SM(F)!Rule(Self) = "line34" => SM(F)!UponPolkaAny(Self)
         /\ SM(F)!Rule(Self) = "done" => ~SM(F)!UponPolkaAny(Self) /\ ~SM(F)!UponPrecommitAny(Self)
    BY Zenon DEF SM!Rule
  <1> QED
    BY Zenon, <1>3, <1>4, <1>5, <1>6, <1>7, <1>8, <1>9, <1>10, <1>11, <1>12 DEF SM!Process

LEMMA StartTimers ==
    ASSUME NEW F, OneMachine, SM(F)!ProcessStart(Self)
    PROVE  Timers'
  BY DEF SM!ProcessStart, SM!EnterLoop, SM!StartRound, SM!ScheduleTimeout, SM!StepPropose,
         Timers, Pending, OneMachine, Alone

\* A message of another height leaves the counts of this one.
LEMMA OtherHeight ==
    ASSUME NEW m, NEW t, m.h # height[Self], height' = height, round' = round,
           votes'[Self] = votes[Self] \union {m}
    PROVE  Heard(t)' <=> Heard(t)
  <1>1. ASSUME NEW a, NEW id
        PROVE  [type |-> t, h |-> height[Self], r |-> round[Self], from |-> a, id |-> id] # m
    OBVIOUS
  <1>2. V!AnyVoters(votes[Self], t, height[Self], round[Self])'
          = V!AnyVoters(votes[Self], t, height[Self], round[Self])
    BY Zenon, <1>1 DEF V!AnyVoters, V!Voters
  <1> QED
    BY Zenon, <1>2 DEF Heard

LEMMA MessageTimers ==
    ASSUME NEW F, NEW m, OneMachine, Timers,
           \/ SM(F)!ProcessProposal(Self, m)
           \/ SM(F)!ProcessPrevote(Self, m)
           \/ SM(F)!ProcessPrecommit(Self, m)
    PROVE  Timers'
  <1> USE DEF SM!node, SM!control, SM!EnterLoop
  <1>0. /\ UNCHANGED <<height, round, step, once, timeouts>>
        /\ pc[Self] = "idle"
        /\ \/ pc'[Self] = "loop"
           \/ pc' = pc /\ votes' = votes
           \/ pc' = pc /\ votes'[Self] = votes[Self] \union {m} /\ m.h # height[Self]
    <2>1. CASE SM(F)!ProcessProposal(Self, m)
      BY Zenon, <2>1 DEF SM!ProcessProposal, SM!ProcessMessage, OneMachine, Alone
    <2>2. CASE SM(F)!ProcessPrevote(Self, m)
      BY Zenon, <2>2 DEF SM!ProcessPrevote, SM!ProcessMessage, OneMachine, Alone
    <2>3. CASE SM(F)!ProcessPrecommit(Self, m)
      <3>1. CASE SM(F)!HasFuturePrecommitQuorum(Self, m)
        <4>1. m.h > height[Self]
          BY Zenon, <3>1 DEF SM!HasFuturePrecommitQuorum
        <4>2. m.h # height[Self]
          BY <4>1 DEF OneMachine
        <4> QED
          BY Zenon, <2>3, <3>1, <4>2 DEF SM!ProcessPrecommit, OneMachine, Alone
      <3>2. CASE ~SM(F)!HasFuturePrecommitQuorum(Self, m)
        BY Zenon, <2>3, <3>2 DEF SM!ProcessPrecommit, SM!ProcessMessage, OneMachine, Alone
      <3> QED
        BY Zenon, <3>1, <3>2
    <2> QED
      BY Zenon, <2>1, <2>2, <2>3
  <1>1. CASE pc'[Self] = "loop"
    BY Zenon, <1>0, <1>1 DEF Timers, Pending
  <1>2. CASE pc' = pc /\ votes' = votes
    BY Zenon, <1>0, <1>2 DEF Timers, Pending, Heard
  <1>3. CASE pc' = pc /\ votes'[Self] = votes[Self] \union {m} /\ m.h # height[Self]
    <2>1. \A t : Heard(t)' <=> Heard(t)
      BY Zenon, <1>0, <1>3, OtherHeight
    <2>2. (Heard(Prevote)' <=> Heard(Prevote)) /\ (Heard(Precommit)' <=> Heard(Precommit))
      BY Zenon, <2>1 DEF Prevote, Precommit
    <2> QED
      BY Zenon, <1>0, <1>3, <2>2 DEF Timers, Pending
  <1> QED
    BY Zenon, <1>0, <1>1, <1>2, <1>3

\* A timer that fires does what it was for, or was for something that is over.
LEMMA TimeoutTimers ==
    ASSUME NEW F, NEW tm, NEW pending, OneMachine, Timers, pc[Self] = "idle",
           timeouts[Self] \ {tm} \subseteq pending,
           SM(F)!OnTimeout(Self, tm, pending)
    PROVE  Timers'
  <1> USE DEF SM!node, SM!counter, SM!EnterLoop, SM!StepPropose, SM!StepPrevote, SM!StepPrecommit,
          SM!SetStepAndSendPrevote, SM!SetStepAndSendPrecommit, SM!SetStepAndSend
  <1>0. pc'[Self] = "loop"
    BY Zenon DEF SM!OnTimeout, OneMachine, Alone
  <1> DEFINE Timer(s) == [step |-> s, h |-> height[Self], r |-> round[Self]]
  <1>1. CASE tm.step = "propose" /\ SM(F)!TimeoutActs(Self, tm) /\ SM(F)!SetStepAndSendPrevote(Self, Nil)
             /\ timeouts' = [timeouts EXCEPT ![Self] = pending] /\ UNCHANGED <<height, round, once>>
    <2>1. step[Self] = "propose" /\ step'[Self] = "prevote"
      BY Zenon, <1>1 DEF SM!TimeoutActs, OneMachine, Alone
    <2>2. tm # Timer("precommit")
      BY <1>1
    <2> QED
      BY Zenon, <1>0, <1>1, <2>1, <2>2 DEF Timers, Pending, OneMachine, Alone
  <1>2. CASE tm.step = "prevote" /\ SM(F)!SetStepAndSendPrecommit(Self, Nil)
             /\ timeouts' = [timeouts EXCEPT ![Self] = pending] /\ UNCHANGED <<height, round, once>>
    <2>1. step'[Self] = "precommit" /\ tm # Timer("precommit")
      BY <1>2 DEF OneMachine, Alone
    <2> QED
      BY Zenon, <1>0, <1>2, <2>1 DEF Timers, Pending, OneMachine, Alone
  <1>3. CASE SM(F)!StartRound(Self, tm.r + 1, pending)
    BY <1>0, <1>3 DEF SM!StartRound, SM!ScheduleTimeout, Timers, Pending, OneMachine, Alone
  <1>4. CASE ~SM(F)!TimeoutActs(Self, tm) /\ timeouts' = [timeouts EXCEPT ![Self] = pending]
             /\ UNCHANGED <<height, round, step, once>>
    <2>1. /\ tm # Timer("precommit")
          /\ step[Self] = "propose" => tm # Timer("propose")
          /\ step[Self] = "prevote" => tm # Timer("prevote")
      BY <1>4 DEF SM!TimeoutActs, SM!IsSameHeightAndRound
    <2> QED
      BY Zenon, <1>0, <1>4, <2>1 DEF Timers, Pending, OneMachine, Alone
  <1> QED
    BY Zenon, <1>1, <1>2, <1>3, <1>4 DEF SM!OnTimeout

-----------------------------------------------------------------------------
LEMMA LaterQuorums ==
    ASSUME OneMachine, OneMachine', LaterVotesKept, MachineNotices,
           height'[Self] >= height[Self]
    PROVE  MachineNotices'
  <1>1. ASSUME NEW h \in Heights, NEW r, NEW v, h > height'[Self], FutureQuorum(h, r, v)'
        PROVE  h > height[Self] /\ FutureQuorum(h, r, v)
    <2>1. h \in Nat /\ h > height[Self]
      BY <1>1, InputAssumption DEF Heights, OneMachine
    <2>2. V!Voters(votes[Self], Precommit, h, r, v)' = V!Voters(votes[Self], Precommit, h, r, v)
      BY Zenon, <1>1, <2>1 DEF V!Voters, LaterVotesKept, VoteOf, Precommit
    <2> QED
      BY Zenon, <1>1, <2>1, <2>2 DEF FutureQuorum
  <1> QED
    BY Zenon, <1>1 DEF MachineNotices, LaterVotesKept

LEMMA PrevoteNotices ==
    ASSUME NEW F, NEW m, OneMachine, MachineNotices, SM(F)!ProcessPrevote(Self, m)
    PROVE  MachineNotices'
  <1>1. /\ height' = height /\ lastTriggerSync' = lastTriggerSync /\ lastQuorum' = lastQuorum
        /\ votes'[Self] = votes[Self] \union {m} /\ m.type = "prevote"
    BY Zenon DEF SM!ProcessPrevote, SM!node, SM!sync, SM!Prevote, OneMachine, Alone
  <1>2. ASSUME NEW h, NEW r, NEW v
        PROVE  FutureQuorum(h, r, v)' <=> FutureQuorum(h, r, v)
    <2>1. \A a : [type |-> Precommit, h |-> h, r |-> r, from |-> a, id |-> v] # m
      BY <1>1 DEF Precommit
    <2>2. V!Voters(votes[Self], Precommit, h, r, v)' = V!Voters(votes[Self], Precommit, h, r, v)
      BY Zenon, <1>1, <2>1 DEF V!Voters, Precommit
    <2> QED
      BY Zenon, <2>2 DEF FutureQuorum
  <1> QED
    BY Zenon, <1>1, <1>2 DEF MachineNotices

LEMMA PrecommitNotices ==
    ASSUME SamePower, NEW F, NEW m, OneMachine, MachineNotices, m.h \in Nat,
           SM(F)!ProcessPrecommit(Self, m)
    PROVE  /\ MachineNotices'
           /\ \/ lastTriggerSync' = lastTriggerSync
              \/ lastTriggerSync' # lastTriggerSync /\ m.h > height[Self]
           /\ UNCHANGED <<sentVotes, sentProposals>>
  <1>0. /\ height' = height /\ pc[Self] = "idle" /\ m.type = Precommit
        /\ votes'[Self] = votes[Self] \union {m}
        /\ UNCHANGED <<sentVotes, sentProposals>>
        /\ height[Self] \in Heights /\ height[Self] \in Nat
    BY Zenon DEF SM!ProcessPrecommit, SM!node, SM!sent, SM!Precommit, Precommit, OneMachine, Alone
  <1>1. ASSUME NEW h, NEW r, NEW v, m # VoteOf(Precommit, h, r, m.from, v)
        PROVE  FutureQuorum(h, r, v)' <=> FutureQuorum(h, r, v)
    <2>1. \A a : [type |-> Precommit, h |-> h, r |-> r, from |-> a, id |-> v] # m
      BY <1>1 DEF VoteOf
    <2>2. V!Voters(votes[Self], Precommit, h, r, v)' = V!Voters(votes[Self], Precommit, h, r, v)
      BY Zenon, <1>0, <2>1 DEF V!Voters, Precommit
    <2> QED
      BY Zenon, <2>2 DEF FutureQuorum
  <1>2. CASE SM(F)!HasFuturePrecommitQuorum(Self, m)
    <2>1. m.h > height[Self] /\ m.h > lastTriggerSync[Self]
      BY Zenon, <1>2 DEF SM!HasFuturePrecommitQuorum
    <2>2. lastTriggerSync'[Self] = m.h /\ lastQuorum'[Self] = m.h
      BY <1>0, <1>2, <2>1 DEF SM!ProcessPrecommit, SM!TriggerSync, OneMachine, Alone, MachineNotices
    <2>3. ASSUME NEW h \in Heights, NEW r \in Rounds, NEW v \in Hash,
                 h > height'[Self], FutureQuorum(h, r, v)'
          PROVE  lastTriggerSync'[Self] >= h
      <3>1. CASE m = VoteOf(Precommit, h, r, m.from, v)
        <4>1. m.h = h
          BY <3>1 DEF VoteOf
        <4> QED
          BY <2>2, <4>1
      <3>2. CASE m # VoteOf(Precommit, h, r, m.from, v)
        BY <1>0, <1>1, <2>1, <2>2, <2>3, <3>2, InputAssumption DEF MachineNotices, Heights
      <3> QED
        BY Zenon, <3>1, <3>2
    <2> QED
      BY Zenon, <1>0, <2>1, <2>2, <2>3 DEF MachineNotices
  <1>3. CASE ~SM(F)!HasFuturePrecommitQuorum(Self, m)
    <2>1. lastTriggerSync' = lastTriggerSync /\ lastQuorum' = lastQuorum
      BY Zenon, <1>3 DEF SM!ProcessPrecommit, SM!sync
    <2>2. ASSUME NEW h \in Heights, NEW r \in Rounds, NEW v \in Hash,
                 h > height'[Self], FutureQuorum(h, r, v)'
          PROVE  lastTriggerSync[Self] >= h
      <3>1. CASE m = VoteOf(Precommit, h, r, m.from, v)
        <4>1. m.h = h /\ m.r = r /\ m.id = v
          BY <3>1 DEF VoteOf
        <4>2. V!Voters(votes[Self], Precommit, h, r, v)'
                = SM(F)!Voters(votes[Self] \union {m}, SM(F)!Precommit, m.h, m.r, m.id)
          BY Zenon, <1>0, <4>1 DEF V!Voters, SM!Voters, SM!Precommit, Precommit
        <4>3. V!q(V!TotalVotingPower(h)) = SM(F)!q(SM(F)!TotalVotingPower(height[Self]))
          <5>1. V!TotalVotingPower(h) = V!TotalVotingPower(height[Self])
            BY Zenon, <1>0 DEF SamePower
          <5> QED
            BY Zenon, <5>1 DEF V!q, SM!q, V!TotalVotingPower, SM!TotalVotingPower
        <4>4. Power[m.h][SM(F)!Voters(votes[Self] \union {m}, SM(F)!Precommit, m.h, m.r, m.id)]
                 >= SM(F)!q(SM(F)!TotalVotingPower(height[Self]))
          BY Zenon, <2>2, <4>1, <4>2, <4>3 DEF FutureQuorum, V!IsQuorum
        <4>5. m.id # Nil /\ m.h > height[Self]
          BY Zenon, <1>0, <2>2, <4>1, InputAssumption
        <4>6. ~(m.h > lastTriggerSync[Self])
          BY Zenon, <1>3, <4>4, <4>5 DEF SM!HasFuturePrecommitQuorum
        <4> QED
          BY <4>1, <4>6 DEF MachineNotices
      <3>2. CASE m # VoteOf(Precommit, h, r, m.from, v)
        BY Zenon, <1>0, <1>1, <2>2, <3>2 DEF MachineNotices
      <3> QED
        BY Zenon, <3>1, <3>2
    <2> QED
      BY Zenon, <1>0, <2>1, <2>2 DEF MachineNotices
  <1> QED
    BY Zenon, <1>2, <1>3

-----------------------------------------------------------------------------
\* Sequences of actions.
NoCommit(s) == \A i \in 1 .. Len(s) : s[i].kind # "commit"

LEMMA NoActions == IsSequence(<<>>) /\ Len(<<>>) = 0
  BY DEF IsSequence, Elements

\* The empty list of actions, which a handler returns when no rule fires, has no index.
LEMMA NoIndex == \A i : i \notin 1 .. 0
  OBVIOUS

LEMMA NothingReturned == IsSequence(<<>>) /\ NoCommit(<<>>) /\ Syncs(<<>>)
  BY Zenon, NoIndex, NoActions DEF NoCommit, Syncs

LEMMA OneAction ==
    ASSUME NEW x
    PROVE  IsSequence(<<x>>) /\ Len(<<x>>) = 1 /\ <<x>>[1] = x
  BY DEF IsSequence, Elements

LEMMA SequenceOf ==
    ASSUME NEW E, NEW X, NEW s \in Seq(E), \A i \in 1 .. Len(s) : s[i] \in X
    PROVE  s \in Seq(X)
  OBVIOUS

LEMMA MoreActions ==
    ASSUME NEW s, NEW u, IsSequence(s), IsSequence(u)
    PROVE  /\ IsSequence(s \o u)
           /\ Len(s \o u) = Len(s) + Len(u) /\ Len(s) \in Nat /\ Len(u) \in Nat
           /\ \A i \in 1 .. Len(s) : (s \o u)[i] = s[i]
           /\ \A i \in 1 .. Len(u) : (s \o u)[Len(s) + i] = u[i]
           /\ NoCommit(s) /\ NoCommit(u) => NoCommit(s \o u)
           /\ Syncs(s) /\ Syncs(u) => Syncs(s \o u)
  <1> DEFINE E == Elements(s) \union Elements(u)
  <1>1. s \in Seq(E) /\ u \in Seq(E)
    <2>1. (\A i \in 1 .. Len(s) : s[i] \in E) /\ (\A i \in 1 .. Len(u) : u[i] \in E)
      BY Zenon DEF Elements
    <2> QED
      BY Zenon, <2>1, SequenceOf DEF IsSequence
  <1> HIDE DEF E
  <1>2. /\ s \o u \in Seq(E)
        /\ Len(s \o u) = Len(s) + Len(u) /\ Len(s) \in Nat /\ Len(u) \in Nat
        /\ \A i \in 1 .. Len(s) : (s \o u)[i] = s[i]
        /\ \A i \in 1 .. Len(u) : (s \o u)[Len(s) + i] = u[i]
    BY <1>1
  <1>3. IsSequence(s \o u)
    <2>1. \A i \in 1 .. Len(s \o u) : (s \o u)[i] \in Elements(s \o u)
      BY Zenon DEF Elements
    <2> QED
      BY Zenon, <1>2, <2>1, SequenceOf DEF IsSequence
  <1>4. ASSUME NoCommit(s), NoCommit(u), NEW i \in 1 .. Len(s \o u)
        PROVE  (s \o u)[i].kind # "commit"
    <2>1. CASE i <= Len(s)
      BY <1>2, <1>4, <2>1 DEF NoCommit
    <2>2. CASE i > Len(s)
      <3>1. i - Len(s) \in 1 .. Len(u) /\ i = Len(s) + (i - Len(s))
        BY <1>2, <2>2
      <3> QED
        BY Zenon, <1>2, <1>4, <3>1 DEF NoCommit
    <2> QED
      BY <1>2, <2>1, <2>2
  <1>5. ASSUME Syncs(s), Syncs(u), NEW i \in 1 .. Len(s \o u), (s \o u)[i].kind = "triggerSync"
        PROVE  (s \o u)[i].end \in Nat
    <2>1. CASE i <= Len(s)
      BY <1>2, <1>5, <2>1 DEF Syncs
    <2>2. CASE i > Len(s)
      <3>1. i - Len(s) \in 1 .. Len(u) /\ i = Len(s) + (i - Len(s))
        BY <1>2, <2>2
      <3> QED
        BY Zenon, <1>2, <1>5, <3>1 DEF Syncs
    <2> QED
      BY <1>2, <2>1, <2>2
  <1> QED
    BY Zenon, <1>2, <1>3, <1>4, <1>5 DEF NoCommit, Syncs

\* A handler or a rule adds one action at most, and the commit when it decides.
LEMMA EmittedActions ==
    /\ IsSequence(Emitted)
    /\ height' = height => NoCommit(Emitted)
    /\ lastQuorum'[Self] \in Nat => Syncs(Emitted)
    /\ height' # height =>
          Emitted = <<[kind |-> "commit", h |-> height[Self], value |-> decided'[Self][height[Self]]]>>
    /\ height' = height /\ UNCHANGED <<sentVotes, sentProposals>> /\ lastTriggerSync' # lastTriggerSync =>
          Emitted = <<[kind |-> "triggerSync", end |-> lastQuorum'[Self]]>>
  <1> DEFINE new == (sentVotes' \ sentVotes) \union (sentProposals' \ sentProposals)
             c == [kind |-> "commit", h |-> height[Self], value |-> decided'[Self][height[Self]]]
             b == [kind |-> "broadcast", msg |-> CHOOSE m \in new : TRUE]
             s == [kind |-> "triggerSync", end |-> lastQuorum'[Self]]
  <1>1. /\ height' # height => Emitted = <<c>>
        /\ height' = height => Emitted = <<b>> \/ Emitted = <<s>> \/ Emitted = <<>>
        /\ height' = height /\ UNCHANGED <<sentVotes, sentProposals>> /\ lastTriggerSync' # lastTriggerSync =>
              Emitted = <<s>>
    BY Zenon DEF Emitted
  <1>2. /\ c.kind = "commit" /\ b.kind = "broadcast" /\ s.kind = "triggerSync"
        /\ s.end = lastQuorum'[Self]
    BY Zenon
  <1> HIDE DEF c, b, s
  <1>3. IsSequence(<<c>>) /\ IsSequence(<<b>>) /\ IsSequence(<<s>>) /\ IsSequence(<<>>)
    BY Zenon, NoActions, OneAction
  <1>4. NoCommit(<<b>>) /\ NoCommit(<<s>>) /\ NoCommit(<<>>)
    BY <1>2 DEF NoCommit
  <1>5. lastQuorum'[Self] \in Nat => Syncs(<<c>>) /\ Syncs(<<b>>) /\ Syncs(<<s>>) /\ Syncs(<<>>)
    BY <1>2 DEF Syncs
  <1> QED
    BY Zenon, <1>1, <1>3, <1>4, <1>5 DEF c, s

LEMMA WriteAction ==
    ASSUME NEW e
    PROVE  IsSequence(Write(e)) /\ NoCommit(Write(e)) /\ Syncs(Write(e))
  <1> DEFINE w == [kind |-> "write", entry |-> e]
  <1>1. w.kind = "write" /\ Write(e) = <<w>>
    BY Zenon DEF Write
  <1> HIDE DEF w
  <1> QED
    BY <1>1, OneAction DEF NoCommit, Syncs

-----------------------------------------------------------------------------
\* Between handlers, or in a handler that has not decided, no decision is left.
LEMMA NothingDecided ==
    ASSUME Shapes, Commits, pc[Self] # "start" \/ next > Len(actions)
    PROVE  /\ ~Committing /\ stage = "run" /\ height[Self] = chain
           /\ pc[Self] # "start" => NoCommit(actions)
  <1>1. Len(actions) \in Nat /\ next \in Nat /\ next >= 1
    BY DEF Shapes, IsSequence
  <1>2. pc[Self] # "start" => NoCommit(actions)
    BY Zenon DEF Commits, NoCommit
  <1>3. ~Committing
    BY <1>1, <1>2 DEF Committing, NoCommit
  <1> QED
    BY Zenon, <1>2, <1>3 DEF Commits

\* A step that decides nothing, when nothing had been decided.
LEMMA Uncommitted ==
    ASSUME Shapes, Commits, pc[Self] # "start" \/ next > Len(actions), OneMachine',
           height' = height, stage' = stage, chain' = chain, IsSequence(actions'), NoCommit(actions'),
           next' \in Nat, next' >= 1, next' <= Len(actions') + 1
    PROVE  Shapes' /\ Commits'
  <1>1. stage = "run" /\ height[Self] = chain
    BY Zenon, NothingDecided
  <1>2. Len(actions') \in Nat
    BY DEF IsSequence
  <1>3. Shapes'
    BY Zenon DEF Shapes
  <1>4. ~Committing'
    BY <1>2 DEF Committing, NoCommit
  <1> QED
    BY Zenon, <1>1, <1>3, <1>4 DEF Commits, NoCommit

\* What the driver has to notice is still to be executed, or is added.
LEMMA NoticesKept ==
    ASSUME Shapes, DriverNotices, IsSequence(actions'), Syncs(actions'),
           Len(actions') >= Len(actions), \A i \in 1 .. Len(actions) : actions'[i] = actions[i],
           next' = next, UNCHANGED <<lastTriggerSync, futureQuorum>>
    PROVE  DriverNotices'
  <1>1. Len(actions') \in Nat /\ Len(actions) \in Nat
    BY DEF Shapes, IsSequence
  <1>2. next \in Nat /\ next >= 1
    BY Zenon DEF Shapes
  <1>3. CASE lastTriggerSync[Self] <= futureQuorum
    BY Zenon, <1>3 DEF DriverNotices
  <1>4. ASSUME NEW i \in next .. Len(actions), actions[i].kind = "triggerSync",
               actions[i].end = lastTriggerSync[Self]
        PROVE  DriverNotices'
    <2>1. i \in next' .. Len(actions') /\ actions'[i] = actions[i]
      BY <1>1, <1>2
    <2> QED
      BY Zenon, <1>4, <2>1 DEF DriverNotices
  <1> QED
    BY Zenon, <1>3, <1>4 DEF DriverNotices

LEMMA NoticesAdded ==
    ASSUME Shapes, DriverNotices, next > Len(actions), futureQuorum' = futureQuorum, height' = height,
           NEW u, IsSequence(u), Syncs(u), lastQuorum'[Self] \in Nat,
           actions' = u \o Emitted, next' = 1,
           \/ lastTriggerSync' = lastTriggerSync
           \/ UNCHANGED <<sentVotes, sentProposals>> /\ lastQuorum'[Self] = lastTriggerSync'[Self]
    PROVE  DriverNotices'
  <1>1. lastTriggerSync[Self] <= futureQuorum
    BY DEF DriverNotices, Shapes, IsSequence
  <1>0. Syncs(actions')
    BY Zenon, EmittedActions, MoreActions
  <1>2. CASE lastTriggerSync' = lastTriggerSync
    BY Zenon, <1>0, <1>1, <1>2 DEF DriverNotices
  <1>3. CASE lastTriggerSync' # lastTriggerSync
    <2> DEFINE s == [kind |-> "triggerSync", end |-> lastQuorum'[Self]]
    <2>1. Emitted = <<s>> /\ s.kind = "triggerSync" /\ s.end = lastTriggerSync'[Self]
      BY Zenon, <1>3, EmittedActions
    <2> HIDE DEF s
    <2>2. /\ Len(actions') = Len(u) + 1 /\ Len(u) \in Nat
          /\ actions'[Len(u) + 1] = s
      BY <2>1, MoreActions, OneAction
    <2> QED
      BY <1>0, <2>1, <2>2 DEF DriverNotices
  <1> QED
    BY Zenon, <1>2, <1>3

LEMMA MachineKept ==
    ASSUME UNCHANGED machine
    PROVE  /\ OneMachine => OneMachine'
           /\ Timers => Timers'
           /\ MachineNotices => MachineNotices'
  BY Zenon DEF machine, OneMachine, Alone, Timers, Pending, Heard, MachineNotices, FutureQuorum

-----------------------------------------------------------------------------
\* The steps of the driver preserve the invariant.
LEMMA LoopKeeps ==
    ASSUME IInv, Loop
    PROVE  IInv'
  <1>1. PICK F \in {ValidNow} :
           /\ SM(F)!Process(Self) /\ actions' = actions \o Emitted /\ Builds /\ next' = next
           /\ UNCHANGED <<inbox, stage, todo, futureQuorum, fetching, chain, crashes>>
    BY Zenon DEF Loop, driven, syncing, bounds
  <1>2. pc[Self] = "loop"
    BY Zenon, <1>1 DEF SM!Process
  <1>3. OneMachine' /\ (Stays \/ Decides(F)) /\ LaterVotesKept /\ Timers'
    BY Zenon, <1>1, RuleShapes, RuleTimers DEF IInv, Shapes
  <1>4. ~Committing /\ stage = "run" /\ height[Self] = chain /\ NoCommit(actions)
    BY Zenon, <1>2, NothingDecided DEF IInv
  <1>5. /\ IsSequence(actions) /\ IsSequence(Emitted) /\ next \in Nat /\ next >= 1
        /\ next <= Len(actions) + 1 /\ Len(actions) \in Nat /\ Len(Emitted) \in Nat
        /\ Len(actions') = Len(actions) + Len(Emitted) /\ IsSequence(actions')
        /\ height[Self] \in Nat
    BY Zenon, <1>1, EmittedActions, MoreActions DEF IInv, Shapes, OneMachine
  <1>6. ASSUME Stays PROVE Shapes' /\ Commits'
    <2>1. NoCommit(actions')
      BY Zenon, <1>1, <1>4, <1>5, <1>6, EmittedActions, MoreActions DEF Stays
    <2> QED
      BY <1>1, <1>2, <1>3, <1>5, <1>6, <2>1, Uncommitted DEF IInv, Stays
  <1>7. ASSUME Decides(F) PROVE Shapes' /\ Commits'
    <2> DEFINE c == [kind |-> "commit", h |-> height[Self], value |-> decided'[Self][height[Self]]]
    <2>1. height' # height /\ pc'[Self] = "start" /\ height'[Self] = height[Self] + 1
      BY <1>5, <1>7 DEF Decides
    <2>2. /\ Emitted = <<c>> /\ c.kind = "commit" /\ c.h = height[Self]
          /\ c.value = decided'[Self][height[Self]]
      BY Zenon, <2>1, EmittedActions
    <2>3. c.value \in Valid'
      <3>1. F[Self] = Valid
        BY Zenon, <1>1 DEF ValidNow
      <3> QED
        BY Zenon, <1>1, <1>7, <2>2, <3>1 DEF Decides, Valid, Builds
    <2> HIDE DEF c
    <2>4. /\ Len(actions') = Len(actions) + 1 /\ actions'[Len(actions) + 1] = c
          /\ \A i \in 1 .. Len(actions) : actions'[i] = actions[i]
      BY <1>1, <1>5, <2>2, MoreActions, OneAction
    <2>5. Shapes'
      BY <1>1, <1>3, <1>5, <2>4 DEF Shapes
    <2>6. Committing' /\ Decision' = c
      BY Zenon, <1>1, <1>5, <2>2, <2>4 DEF Committing, Decision
    <2>7. ASSUME NEW i \in 1 .. Len(actions'), actions'[i].kind = "commit"
          PROVE  i = Len(actions')
      BY <1>4, <1>5, <2>4, <2>7 DEF NoCommit
    <2> QED
      BY Zenon, <1>1, <1>4, <1>5, <2>1, <2>2, <2>3, <2>5, <2>6, <2>7 DEF Commits
  <1>8. height'[Self] >= height[Self]
    BY <1>3, <1>5 DEF Stays, Decides
  <1>9. Requested'
    BY <1>1, <1>3, <1>5, <1>8, InputAssumption DEF IInv, Requested, Heights, OneMachine
  <1>10. ASSUME SamePower, crashes = 0 PROVE MachineNotices' /\ DriverNotices'
    <2>1. MachineNotices /\ DriverNotices
      BY Zenon, <1>10 DEF IInv, Noticed
    <2>2. MachineNotices'
      BY Zenon, <1>3, <1>8, <2>1, LaterQuorums DEF IInv, Shapes
    <2>3. Syncs(actions')
      BY Zenon, <1>1, <1>5, <2>1, <2>2, EmittedActions, MoreActions DEF MachineNotices, DriverNotices
    <2>4. \A i \in 1 .. Len(actions) : actions'[i] = actions[i]
      BY Zenon, <1>1, <1>5, MoreActions
    <2>5. Len(actions') >= Len(actions)
      BY <1>5
    <2>6. DriverNotices'
      BY Zenon, <1>1, <1>3, <1>5, <2>1, <2>3, <2>4, <2>5, NoticesKept DEF IInv, LaterVotesKept
    <2> QED
      BY Zenon, <2>2, <2>6
  <1>11. Noticed'
    BY Zenon, <1>1, <1>10 DEF IInv, Noticed, SamePower
  <1> QED
    BY Zenon, <1>3, <1>6, <1>7, <1>9, <1>11 DEF IInv

\* A handler, run when the actions of the one before have been executed.
LEMMA HandlerKeeps ==
    ASSUME IInv, pc[Self] # "loop", next > Len(actions),
           OneMachine', height' = height, Timers', Requested',
           NEW u, IsSequence(u), NoCommit(u), Syncs(u), Returns(u),
           UNCHANGED <<stage, futureQuorum, chain, crashes>>,
           SamePower /\ crashes = 0 =>
              /\ todo' = <<>> /\ MachineNotices'
              /\ \/ lastTriggerSync' = lastTriggerSync
                 \/ UNCHANGED <<sentVotes, sentProposals>>
    PROVE  IInv'
  <1>1. actions' = u \o Emitted /\ next' = 1
    BY Zenon DEF Returns
  <1>2. IsSequence(actions') /\ NoCommit(actions') /\ Len(actions') \in Nat
    BY Zenon, <1>1, EmittedActions, MoreActions
  <1>3. Shapes' /\ Commits'
    BY <1>1, <1>2, Uncommitted DEF IInv
  <1>4. ASSUME SamePower, crashes = 0 PROVE DriverNotices'
    BY Zenon, <1>1, <1>4, NoticesAdded DEF IInv, Noticed, MachineNotices
  <1>5. Noticed'
    BY Zenon, <1>4 DEF IInv, Noticed, SamePower
  <1> QED
    BY Zenon, <1>3, <1>5 DEF IInv

LEMMA RequestedKept ==
    ASSUME Requested, UNCHANGED <<inbox, fetching, height>>
    PROVE  Requested'
  BY Zenon DEF Requested

\* A handler that is no vote.
LEMMA QuietHandlerKeeps ==
    ASSUME IInv, pc[Self] # "loop", next > Len(actions),
           OneMachine', Stays, LaterVotesKept, Timers', Requested',
           NEW u, IsSequence(u), NoCommit(u), Syncs(u), Returns(u),
           UNCHANGED <<stage, todo, futureQuorum, chain, crashes>>
    PROVE  IInv'
  <1>1. height' = height /\ height'[Self] >= height[Self]
    <2>1. height' = height /\ height[Self] \in Nat
      BY Zenon DEF IInv, Shapes, OneMachine, Stays
    <2>2. \A n \in Nat : n >= n
      OBVIOUS
    <2> QED
      BY Zenon, <2>1, <2>2
  <1>2. SamePower /\ crashes = 0 => todo' = <<>> /\ MachineNotices' /\ lastTriggerSync' = lastTriggerSync
    BY Zenon, <1>1, LaterQuorums DEF IInv, Shapes, Noticed, LaterVotesKept
  <1> QED
    BY Zenon, <1>1, <1>2, HandlerKeeps

LEMMA StartKeeps ==
    ASSUME IInv, Start
    PROVE  IInv'
  <1>1. PICK F \in {ValidNow} :
           /\ SM(F)!ProcessStart(Self) /\ Returns(Write(Entry("start", None, None)))
           /\ pc[Self] # "loop" /\ next > Len(actions)
           /\ UNCHANGED <<inbox, stage, todo, futureQuorum, fetching, chain, crashes>>
    BY Zenon DEF Start, Resting, driven, syncing, bounds
  <1>2. OneMachine' /\ Stays /\ LaterVotesKept /\ Timers'
    BY Zenon, <1>1, StartShapes, StartTimers DEF IInv, Shapes
  <1>3. Requested'
    BY Zenon, <1>1, <1>2, RequestedKept DEF IInv, Stays
  <1> QED
    BY Zenon, <1>1, <1>2, <1>3, WriteAction, QuietHandlerKeeps

LEMMA ReceiveProposalKeeps ==
    ASSUME IInv, NEW m, ReceiveProposal(m)
    PROVE  IInv'
  <1>1. PICK F \in {ValidNow} :
           /\ SM(F)!ProcessProposal(Self, m) /\ Returns(Write(Entry("proposal", m.h, m)))
           /\ pc[Self] # "loop" /\ next > Len(actions)
           /\ UNCHANGED <<inbox, stage, todo, futureQuorum, fetching, chain, crashes>>
    BY Zenon DEF ReceiveProposal, Listening, Resting, driven, syncing, bounds
  <1>2. OneMachine' /\ Stays /\ LaterVotesKept /\ Timers'
    BY Zenon, <1>1, ProposalShapes, MessageTimers DEF IInv, Shapes
  <1>3. Requested'
    BY Zenon, <1>1, <1>2, RequestedKept DEF IInv, Stays
  <1> QED
    BY Zenon, <1>1, <1>2, <1>3, WriteAction, QuietHandlerKeeps

LEMMA LoggedAction ==
    ASSUME NEW k, NEW m
    PROVE  IsSequence(Logged(k, m)) /\ NoCommit(Logged(k, m)) /\ Syncs(Logged(k, m))
  BY Zenon, WriteAction, NothingReturned DEF Logged

LEMMA ReceiveVoteKeeps ==
    ASSUME IInv, NEW m \in InVotes, ReceiveVote(m)
    PROVE  IInv'
  <1>1. PICK F \in {ValidNow} :
           /\ SM(F)!ProcessPrevote(Self, m) \/ SM(F)!ProcessPrecommit(Self, m)
           /\ Returns(Logged(m.type, m))
           /\ pc[Self] # "loop" /\ next > Len(actions)
           /\ UNCHANGED <<inbox, stage, todo, futureQuorum, fetching, chain, crashes>>
    BY Zenon DEF ReceiveVote, Listening, Resting, driven, syncing, bounds
  <1>2. OneMachine' /\ height' = height /\ Timers'
    BY Zenon, <1>1, PrevoteShapes, PrecommitShapes, MessageTimers DEF IInv, Shapes, Stays
  <1>3. Requested'
    BY Zenon, <1>1, <1>2, RequestedKept DEF IInv
  <1>4. m.h \in Nat
    BY InputAssumption DEF V!Vote, V!Heights
  <1>5. ASSUME SamePower, crashes = 0
        PROVE  /\ todo' = <<>> /\ MachineNotices'
               /\ lastTriggerSync' = lastTriggerSync \/ UNCHANGED <<sentVotes, sentProposals>>
    BY Zenon, <1>1, <1>4, <1>5, PrevoteShapes, PrevoteNotices, PrecommitNotices DEF IInv, Shapes, Noticed
  <1> QED
    BY Zenon, <1>1, <1>2, <1>3, <1>5, LoggedAction, HandlerKeeps

LEMMA TimeoutFiresKeeps ==
    ASSUME IInv, NEW tm, TimeoutFires(tm)
    PROVE  IInv'
  <1>0. PICK F \in {ValidNow} :
           /\ SM(F)!ProcessTimeout(Self, tm)
           /\ Returns(IF SM(F)!TimeoutActs(Self, tm) THEN Write(Entry("timeout", tm.h, tm)) ELSE <<>>)
    BY Zenon DEF TimeoutFires
  <1> DEFINE u == IF SM(F)!TimeoutActs(Self, tm) THEN Write(Entry("timeout", tm.h, tm)) ELSE <<>>
  <1>1. /\ SM(F)!OnTimeout(Self, tm, timeouts[Self] \ {tm}) /\ Returns(u)
        /\ pc[Self] = "idle" /\ next > Len(actions)
        /\ UNCHANGED <<inbox, stage, todo, futureQuorum, fetching, chain, crashes>>
    BY Zenon, <1>0 DEF TimeoutFires, Listening, Resting, driven, syncing, bounds, SM!ProcessTimeout
  <1>2. IsSequence(u) /\ NoCommit(u) /\ Syncs(u)
    BY Zenon, WriteAction, NothingReturned
  <1> HIDE DEF u
  <1>3. OneMachine' /\ Stays /\ LaterVotesKept /\ Timers'
    BY Zenon, <1>1, TimeoutShapes, TimeoutTimers DEF IInv, Shapes
  <1>4. Requested'
    BY Zenon, <1>1, <1>3, RequestedKept DEF IInv, Stays
  <1> QED
    BY Zenon, <1>1, <1>2, <1>3, <1>4, QuietHandlerKeeps

\* A handler that refuses its message.
LEMMA RefusalKeeps ==
    ASSUME IInv, pc[Self] # "loop", next > Len(actions), UNCHANGED machine, Requested',
           actions' = <<>>, next' = 1, UNCHANGED <<stage, todo, futureQuorum, chain, crashes>>
    PROVE  IInv'
  <1>1. OneMachine' /\ Timers' /\ (MachineNotices => MachineNotices')
    BY Zenon, MachineKept DEF IInv, Shapes
  <1>2. UNCHANGED <<height, lastTriggerSync, lastQuorum, sentVotes, sentProposals>>
    BY Zenon DEF machine
  <1>3. Emitted = <<>>
    BY Zenon, <1>2 DEF Emitted
  <1>4. Returns(<<>>)
    BY <1>3 DEF Returns
  <1>5. IsSequence(<<>>) /\ NoCommit(<<>>) /\ Syncs(<<>>)
    BY Zenon, NothingReturned
  <1>6. SamePower /\ crashes = 0 => todo' = <<>> /\ MachineNotices'
    BY Zenon, <1>1 DEF IInv, Noticed
  <1> QED
    BY Zenon, <1>1, <1>2, <1>4, <1>5, <1>6, HandlerKeeps

LEMMA ReceiveAgainKeeps ==
    ASSUME IInv, ReceiveAgain
    PROVE  IInv'
  <1>1. /\ pc[Self] # "loop" /\ next > Len(actions) /\ UNCHANGED machine
        /\ actions' = <<>> /\ next' = 1
        /\ UNCHANGED <<inbox, stage, todo, futureQuorum, fetching, chain, crashes>>
    BY Zenon DEF ReceiveAgain, Listening, Resting, driven, syncing, bounds
  <1>2. Requested'
    BY Zenon, <1>1, RequestedKept DEF IInv, machine
  <1> QED
    BY Zenon, <1>1, <1>2, RefusalKeeps

\* A block that was requested comes, and its proposal is handed on.
LEMMA SyncBlockKeeps ==
    ASSUME IInv, NEW h, SyncBlock(h)
    PROVE  IInv'
  <1> DEFINE m == [h |-> h, r |-> findRound(h), from |-> SyncedFrom[h], value |-> SyncedValue[h], vr |-> -1]
             i == [type |-> Precommit, h |-> h, r |-> findRound(h), from |-> SyncSender,
                   id |-> SyncedValue[h]]
  <1>1. PICK F \in {ValidNow} :
           /\ pc[Self] # "loop" /\ next > Len(actions) /\ h \in fetching /\ fetching' = fetching \ {h}
           /\ inbox' = i /\ UNCHANGED <<stage, todo, futureQuorum, chain, crashes>>
           /\ \/ SM(F)!ProcessProposal(Self, m) /\ Returns(Write(Entry("proposal", h, m)))
              \/ actions' = <<>> /\ next' = 1 /\ UNCHANGED machine
    BY Zenon DEF SyncBlock, Listening, Resting, bounds
  <1>2. i.type = Precommit /\ i.h = h
    BY Zenon
  <1> HIDE DEF m, i
  <1>3. ASSUME height' = height PROVE Requested'
    BY Zenon, <1>1, <1>2, <1>3 DEF IInv, Requested
  <1>4. CASE SM(F)!ProcessProposal(Self, m) /\ Returns(Write(Entry("proposal", h, m)))
    <2>1. OneMachine' /\ Stays /\ LaterVotesKept /\ Timers'
      BY Zenon, <1>4, ProposalShapes, MessageTimers DEF IInv, Shapes
    <2> QED
      BY Zenon, <1>1, <1>3, <1>4, <2>1, WriteAction, QuietHandlerKeeps DEF Stays
  <1>5. CASE actions' = <<>> /\ next' = 1 /\ UNCHANGED machine
    BY Zenon, <1>1, <1>3, <1>5, RefusalKeeps DEF machine
  <1> QED
    BY Zenon, <1>1, <1>4, <1>5

\* Its precommit is of a height that is not a later one.
LEMMA SyncPrecommitKeeps ==
    ASSUME IInv, SyncPrecommit
    PROVE  IInv'
  <1>1. PICK F \in {ValidNow} :
           /\ inbox # None /\ pc[Self] # "loop" /\ inbox' = None
           /\ UNCHANGED <<next, stage, todo, futureQuorum, fetching, store, chain, crashes>>
           /\ \/ /\ SM(F)!ProcessPrecommit(Self, inbox)
                 /\ actions' = actions \o Logged(Precommit, inbox) \o Emitted
              \/ UNCHANGED <<machine, actions>>
    BY Zenon DEF SyncPrecommit, syncing, bounds
  <1>2. CASE UNCHANGED <<machine, actions>>
    <2>1. OneMachine' /\ Timers' /\ (MachineNotices => MachineNotices')
      BY Zenon, <1>2, MachineKept DEF IInv, Shapes
    <2>2. UNCHANGED <<height, pc, lastTriggerSync>>
      BY Zenon, <1>2 DEF machine
    <2>3. Shapes' /\ Commits'
      BY Zenon, <1>1, <1>2, <2>1, <2>2 DEF IInv, Shapes, Commits, Committing, Decision, Valid
    <2>4. Requested'
      BY Zenon, <1>1, <2>2 DEF IInv, Requested
    <2>5. Noticed'
      BY Zenon, <1>1, <1>2, <2>1, <2>2 DEF IInv, Noticed, SamePower, DriverNotices
    <2> QED
      BY Zenon, <2>1, <2>3, <2>4, <2>5 DEF IInv
  <1>3. CASE /\ SM(F)!ProcessPrecommit(Self, inbox)
             /\ actions' = actions \o Logged(Precommit, inbox) \o Emitted
    <2>1. OneMachine' /\ height' = height /\ Timers' /\ pc[Self] = "idle"
      <3>1. pc[Self] = "idle"
        BY Zenon, <1>3 DEF SM!ProcessPrecommit
      <3> QED
        BY Zenon, <1>3, <3>1, PrecommitShapes, MessageTimers DEF IInv, Shapes, Stays
    <2>2. inbox.h \in Heights /\ inbox.h <= height[Self] /\ height[Self] \in Nat
      BY Zenon, <1>1 DEF IInv, Requested, Shapes, OneMachine
    <2>3. NoCommit(actions) /\ IsSequence(actions)
      BY Zenon, <2>1, NothingDecided DEF IInv, Shapes
    <2> DEFINE s == actions \o Logged(Precommit, inbox)
    <2>4. /\ IsSequence(s) /\ NoCommit(s) /\ Len(s) \in Nat /\ Len(actions) \in Nat
          /\ Len(s) >= Len(actions) /\ \A i \in 1 .. Len(actions) : s[i] = actions[i]
          /\ Syncs(actions) => Syncs(s)
      BY <2>3, LoggedAction, MoreActions
    <2>5. actions' = s \o Emitted
      BY Zenon, <1>3
    <2> HIDE DEF s
    <2>6. /\ IsSequence(actions') /\ NoCommit(actions') /\ Len(actions') \in Nat
          /\ Len(actions') >= Len(actions) /\ \A i \in 1 .. Len(actions) : actions'[i] = actions[i]
          /\ Syncs(actions) /\ lastQuorum'[Self] \in Nat => Syncs(actions')
      BY <2>1, <2>4, <2>5, EmittedActions, MoreActions
    <2>7. Shapes' /\ Commits'
      <3>1. next' \in Nat /\ next' >= 1 /\ next' <= Len(actions') + 1
        BY <1>1, <2>4, <2>6 DEF IInv, Shapes
      <3> QED
        BY Zenon, <1>1, <2>1, <2>6, <3>1, Uncommitted DEF IInv
    <2>8. Requested'
      BY Zenon, <1>1, <2>1 DEF IInv, Requested
    <2>9. ASSUME SamePower, crashes = 0 PROVE MachineNotices' /\ DriverNotices'
      <3>1. MachineNotices /\ DriverNotices
        BY Zenon, <2>9 DEF IInv, Noticed
      <3>2. inbox.h \in Nat /\ ~(inbox.h > height[Self])
        BY <2>2, InputAssumption DEF Heights
      <3>3. MachineNotices' /\ lastTriggerSync' = lastTriggerSync
        BY Zenon, <1>3, <2>9, <3>1, <3>2, PrecommitNotices DEF IInv, Shapes
      <3> QED
        BY Zenon, <1>1, <2>6, <3>1, <3>3, NoticesKept DEF IInv, MachineNotices, DriverNotices
    <2>10. Noticed'
      BY Zenon, <1>1, <2>9 DEF IInv, Noticed, SamePower
    <2> QED
      BY Zenon, <2>1, <2>7, <2>8, <2>10 DEF IInv
  <1> QED
    BY Zenon, <1>1, <1>2, <1>3

\* The machine and what its commit needs are left alone, and all has been executed.
LEMMA RestingKeeps ==
    ASSUME IInv, next > Len(actions), UNCHANGED machine, actions' = actions,
           next' \in {1, next}, NoCommit(actions) \/ next' = next, Requested',
           UNCHANGED <<stage, inbox, futureQuorum, chain, crashes>>,
           todo # <<>> \/ todo' = todo
    PROVE  IInv'
  <1>1. OneMachine' /\ Timers' /\ (MachineNotices => MachineNotices')
    BY Zenon, MachineKept DEF IInv, Shapes
  <1>2. UNCHANGED <<height, pc, lastTriggerSync>>
    BY Zenon DEF machine
  <1>3. Len(actions) \in Nat /\ next \in Nat
    BY DEF IInv, Shapes, IsSequence
  <1>4. Shapes'
    BY <1>1, <1>3 DEF IInv, Shapes
  <1>5. ~Committing /\ ~Committing' /\ stage = "run" /\ height[Self] = chain
    BY <1>3, NothingDecided DEF IInv, Committing, NoCommit
  <1>6. Commits'
    BY Zenon, <1>2, <1>5 DEF IInv, Commits
  <1>7. Noticed'
    <2>1. ASSUME SamePower, crashes = 0 PROVE todo' = <<>> /\ MachineNotices' /\ DriverNotices'
      <3>1. todo = <<>> /\ MachineNotices /\ DriverNotices
        BY Zenon, <2>1 DEF IInv, Noticed
      <3>2. lastTriggerSync[Self] <= futureQuorum
        BY <1>3, <3>1 DEF DriverNotices
      <3> QED
        BY Zenon, <1>1, <1>2, <3>1, <3>2 DEF DriverNotices
    <2> QED
      BY Zenon, <2>1 DEF IInv, Noticed, SamePower
  <1> QED
    BY Zenon, <1>1, <1>4, <1>6, <1>7 DEF IInv

LEMMA SyncErrorKeeps ==
    ASSUME IInv, NEW h, SyncError(h)
    PROVE  IInv'
  <1>1. /\ pc[Self] = "idle" /\ next > Len(actions) /\ next' = 1
        /\ UNCHANGED <<machine, actions, inbox, stage, todo, futureQuorum, chain, crashes>>
        /\ fetching' \subseteq fetching \union {height[Self]}
    BY Zenon DEF SyncError, Listening, Resting
  <1>2. NoCommit(actions)
    BY Zenon, <1>1, NothingDecided DEF IInv
  <1>3. Requested'
    <2>1. height[Self] \in Heights /\ height[Self] <= height[Self]
      BY <1>1 DEF IInv, Shapes, OneMachine
    <2> QED
      BY Zenon, <1>1, <2>1 DEF IInv, Requested, machine
  <1> QED
    BY Zenon, <1>1, <1>2, <1>3, RestingKeeps

LEMMA LearnKeeps ==
    ASSUME IInv, NEW m, Learn(m)
    PROVE  IInv'
  <1>1. /\ UNCHANGED <<machine, actions, next, inbox, stage, todo, futureQuorum, fetching, chain, crashes>>
        /\ Valid \subseteq Valid'
    BY Zenon DEF Learn, execution, driven, syncing, bounds, Valid
  <1>2. OneMachine' /\ Timers' /\ (MachineNotices => MachineNotices')
    BY Zenon, <1>1, MachineKept DEF IInv, Shapes
  <1>3. UNCHANGED <<height, pc, lastTriggerSync>>
    BY Zenon, <1>1 DEF machine
  <1>4. Shapes' /\ Commits'
    BY Zenon, <1>1, <1>2, <1>3 DEF IInv, Shapes, Commits, Committing, Decision
  <1>5. Requested' /\ Noticed'
    BY Zenon, <1>1, <1>2, <1>3 DEF IInv, Requested, Noticed, SamePower, DriverNotices
  <1> QED
    BY Zenon, <1>2, <1>4, <1>5 DEF IInv

\* The execution of an action that is no commit.
LEMMA ExecutionKeeps ==
    ASSUME IInv, stage = "run", next <= Len(actions), action.kind # "commit",
           UNCHANGED <<machine, actions, inbox, stage, todo, store, chain, crashes>>, next' = next + 1,
           Requested',
           SamePower /\ crashes = 0 =>
              /\ futureQuorum' \in Nat /\ futureQuorum' >= futureQuorum
              /\ action.kind = "triggerSync" => futureQuorum' >= action.end
    PROVE  IInv'
  <1>1. OneMachine' /\ Timers' /\ (MachineNotices => MachineNotices')
    BY Zenon, MachineKept DEF IInv, Shapes
  <1>2. UNCHANGED <<height, pc, lastTriggerSync>>
    BY Zenon DEF machine
  <1>3. Len(actions) \in Nat /\ next \in Nat /\ next >= 1
    BY DEF IInv, Shapes, IsSequence
  <1>4. Shapes'
    BY <1>1, <1>3 DEF IInv, Shapes
  <1>5. (Committing' <=> Committing) /\ Decision' = Decision /\ Valid' = Valid
    BY <1>3 DEF Committing, Decision, Valid, action
  <1>6. Commits'
    BY Zenon, <1>2, <1>5 DEF IInv, Commits
  <1>7. ASSUME SamePower, crashes = 0 PROVE MachineNotices' /\ DriverNotices'
    <2>1. MachineNotices /\ DriverNotices /\ futureQuorum \in Nat /\ lastTriggerSync[Self] \in Nat
      BY Zenon, <1>7 DEF IInv, Noticed, MachineNotices
    <2>2. CASE lastTriggerSync[Self] <= futureQuorum
      BY <1>1, <1>2, <1>7, <2>1, <2>2 DEF DriverNotices
    <2>3. ASSUME NEW i \in next .. Len(actions), actions[i].kind = "triggerSync",
                 actions[i].end = lastTriggerSync[Self]
          PROVE  MachineNotices' /\ DriverNotices'
      <3>1. CASE i = next
        BY Zenon, <1>1, <1>2, <1>7, <2>1, <2>3, <3>1 DEF DriverNotices, action
      <3>2. CASE i # next
        <4>1. i \in next' .. Len(actions')
          BY <1>3, <3>2
        <4> QED
          BY Zenon, <1>1, <1>2, <2>1, <2>3, <4>1 DEF DriverNotices
      <3> QED
        BY Zenon, <3>1, <3>2
    <2> QED
      BY Zenon, <2>1, <2>2, <2>3 DEF DriverNotices
  <1>8. Noticed'
    BY Zenon, <1>7 DEF IInv, Noticed, SamePower
  <1> QED
    BY Zenon, <1>1, <1>4, <1>6, <1>8 DEF IInv

LEMMA ExecuteKeeps ==
    ASSUME IInv, ExecuteWrite \/ ExecuteBroadcast
    PROVE  IInv'
  <1>1. /\ stage = "run" /\ next <= Len(actions) /\ action.kind \in {"write", "broadcast"}
        /\ UNCHANGED <<machine, actions, inbox, stage, todo, futureQuorum, fetching, store, chain, crashes>>
        /\ next' = next + 1
    BY Zenon DEF ExecuteWrite, ExecuteBroadcast, Executing, syncing, bounds
  <1>2. Requested'
    BY Zenon, <1>1, RequestedKept DEF IInv, machine
  <1>3. ASSUME SamePower, crashes = 0 PROVE futureQuorum' \in Nat /\ futureQuorum' >= futureQuorum
    BY <1>1, <1>3 DEF IInv, Noticed
  <1> QED
    BY Zenon, <1>1, <1>2, <1>3, ExecutionKeeps

LEMMA ExecuteTriggerSyncKeeps ==
    ASSUME IInv, ExecuteTriggerSync
    PROVE  IInv'
  <1>1. /\ stage = "run" /\ next <= Len(actions) /\ action.kind = "triggerSync"
        /\ UNCHANGED <<machine, actions, inbox, stage, todo, store, chain, crashes>>
        /\ next' = next + 1
        /\ futureQuorum' = IF action.end > futureQuorum THEN action.end ELSE futureQuorum
        /\ fetching' = fetching \/ Requests(futureQuorum', height[Self])
    BY Zenon DEF ExecuteTriggerSync, Executing, bounds
  <1>2. height' = height /\ height[Self] \in Nat
    BY Zenon, <1>1 DEF machine, IInv, Shapes, OneMachine
  <1>3. Requested'
    BY <1>1, <1>2 DEF IInv, Requested, Requests
  <1>4. Len(actions) \in Nat /\ next \in Nat /\ next >= 1
    BY DEF IInv, Shapes, IsSequence
  <1>5. ASSUME SamePower, crashes = 0
        PROVE  /\ futureQuorum' \in Nat /\ futureQuorum' >= futureQuorum
               /\ futureQuorum' >= action.end
    <2>1. futureQuorum \in Nat /\ action.end \in Nat
      BY <1>1, <1>4, <1>5 DEF IInv, Noticed, DriverNotices, Syncs, action
    <2> QED
      BY <1>1, <2>1
  <1> QED
    BY Zenon, <1>1, <1>3, <1>5, ExecutionKeeps

\* A commit is the last action, and its value is in the store.
LEMMA ExecuteCommitKeeps ==
    ASSUME IInv, ExecuteCommit
    PROVE  IInv'
  <1>1. /\ stage = "run" /\ inbox = None /\ next <= Len(actions) /\ action.kind = "commit"
        /\ stage' = IF action.value \in Valid THEN "commit" ELSE "failed"
        /\ UNCHANGED <<machine, actions, next, inbox, todo, futureQuorum, fetching, store, chain, crashes>>
    BY Zenon DEF ExecuteCommit, Executing, execution, syncing, bounds
  <1>2. OneMachine' /\ Timers' /\ (MachineNotices => MachineNotices')
    BY Zenon, <1>1, MachineKept DEF IInv, Shapes
  <1>3. UNCHANGED <<height, pc, lastTriggerSync>>
    BY Zenon, <1>1 DEF machine
  <1>4. next = Len(actions) /\ Committing /\ Decision = action
    BY <1>1 DEF IInv, Shapes, IsSequence, Commits, Committing, Decision, action
  <1>5. Decision.value \in Valid /\ stage' = "commit"
    BY Zenon, <1>1, <1>4 DEF IInv, Commits
  <1>6. Committing' /\ Decision' = Decision /\ Valid' = Valid
    BY Zenon, <1>1, <1>4 DEF Committing, Decision, Valid
  <1>7. Shapes' /\ Commits'
    BY <1>1, <1>2, <1>3, <1>4, <1>5, <1>6 DEF IInv, Shapes, Commits
  <1>8. Requested' /\ Noticed'
    BY Zenon, <1>1, <1>2, <1>3 DEF IInv, Requested, Noticed, SamePower, DriverNotices
  <1> QED
    BY Zenon, <1>2, <1>7, <1>8 DEF IInv

LEMMA OnCommitKeeps ==
    ASSUME IInv, OnCommit
    PROVE  IInv'
  <1>1. /\ stage = "commit" /\ stage' = "persisted" /\ chain' = action.h + 1
        /\ UNCHANGED <<machine, actions, next, inbox, todo, futureQuorum, fetching, store, crashes>>
    BY Zenon DEF OnCommit, execution, syncing, bounds
  <1>2. OneMachine' /\ Timers' /\ (MachineNotices => MachineNotices')
    BY Zenon, <1>1, MachineKept DEF IInv, Shapes
  <1>3. UNCHANGED <<height, pc, lastTriggerSync>>
    BY Zenon, <1>1 DEF machine
  <1>4. /\ next = Len(actions) /\ Committing /\ Decision = action /\ inbox = None
        /\ height[Self] = chain + 1 /\ Decision.h = chain /\ chain \in Nat
    BY Zenon, <1>1 DEF IInv, Commits, Decision, action
  <1>5. Committing' /\ Decision' = Decision
    BY Zenon, <1>1, <1>4 DEF Committing, Decision
  <1>6. chain' = height[Self] /\ chain' \in Nat
    BY <1>1, <1>4
  <1>7. Shapes' /\ Commits'
    BY Zenon, <1>1, <1>2, <1>3, <1>4, <1>5, <1>6 DEF IInv, Shapes, Commits
  <1>8. Requested' /\ Noticed'
    BY Zenon, <1>1, <1>2, <1>3 DEF IInv, Requested, Noticed, SamePower, DriverNotices
  <1> QED
    BY Zenon, <1>2, <1>7, <1>8 DEF IInv

LEMMA CommittedKeeps ==
    ASSUME IInv, Committed
    PROVE  IInv'
  <1>1. /\ stage = "persisted" /\ stage' = "run" /\ next' = Len(actions) + 1
        /\ UNCHANGED <<machine, actions, inbox, todo, futureQuorum, chain, crashes>>
        /\ fetching' = fetching \/ Requests(futureQuorum, height[Self])
    BY Zenon DEF Committed, bounds
  <1>2. OneMachine' /\ Timers' /\ (MachineNotices => MachineNotices')
    BY Zenon, <1>1, MachineKept DEF IInv, Shapes
  <1>3. UNCHANGED <<height, pc, lastTriggerSync>> /\ height[Self] \in Nat
    BY Zenon, <1>1 DEF machine, IInv, Shapes, OneMachine
  <1>4. /\ next = Len(actions) /\ Committing /\ height[Self] = chain /\ Len(actions) \in Nat
        /\ actions[Len(actions)].kind = "commit"
    BY Zenon, <1>1 DEF IInv, Commits, Committing, Shapes, IsSequence
  <1>5. ~Committing'
    BY <1>1, <1>4 DEF Committing
  <1>6. Shapes' /\ Commits'
    BY <1>1, <1>2, <1>3, <1>4, <1>5 DEF IInv, Shapes, Commits
  <1>7. Requested'
    BY <1>1, <1>3 DEF IInv, Requested, Requests
  <1>8. ASSUME SamePower, crashes = 0 PROVE DriverNotices'
    BY <1>1, <1>3, <1>4, <1>8 DEF IInv, Noticed, DriverNotices
  <1>9. Noticed'
    BY Zenon, <1>1, <1>2, <1>8 DEF IInv, Noticed, SamePower
  <1> QED
    BY Zenon, <1>2, <1>6, <1>7, <1>9 DEF IInv

\* The process starts anew, at the height after the last block.
LEMMA RestartKeeps ==
    ASSUME IInv, NEW w, Restart(w)
    PROVE  IInv'
  <1>1. /\ crashes' = crashes + 1 /\ actions' = <<>> /\ next' = 1 /\ inbox' = None /\ stage' = "run"
        /\ fetching' = {} /\ chain' = chain /\ NewMachine(chain)
    BY Zenon DEF Restart
  <1>2. chain \in Nat /\ crashes \in Nat
    BY Zenon DEF IInv, Commits, Noticed
  <1>3. OneMachine' /\ pc'[Self] = "start" /\ height'[Self] = chain
    BY Zenon, <1>1, <1>2 DEF NewMachine, OneMachine, Alone
  <1>4. Shapes'
    BY <1>1, <1>3, NoActions DEF Shapes
  <1>5. Commits'
    BY <1>1, <1>2, <1>3, NoActions DEF Commits, Committing
  <1>6. Timers' /\ Requested'
    BY Zenon, <1>1, <1>3 DEF Timers, Requested
  <1>7. Noticed'
    BY <1>1, <1>2 DEF Noticed
  <1> QED
    BY Zenon, <1>4, <1>5, <1>6, <1>7 DEF IInv

\* An entry of the WAL is handled as it was before, with its message or timeout.
LEMMA ReplayKeeps ==
    ASSUME IInv, Replay
    PROVE  IInv'
  <1>1. /\ pc[Self] # "loop" /\ next > Len(actions) /\ todo # <<>> /\ Returns(<<>>)
        /\ pc[Self] = "idle" \/ entry.kind = "start"
        /\ UNCHANGED <<inbox, stage, futureQuorum, fetching, chain, crashes>>
    BY Zenon DEF Replay, Resting, syncing, bounds
  <1>2. PICK F \in {ValidNow} :
           \/ SM(F)!ProcessStart(Self)
           \/ \E m : \/ SM(F)!ProcessProposal(Self, m) \/ SM(F)!ProcessPrevote(Self, m)
                     \/ SM(F)!ProcessPrecommit(Self, m)
           \/ pc[Self] = "idle" /\ \E tm : SM(F)!OnTimeout(Self, tm, timeouts[Self])
    BY Zenon DEF Replay
  <1>3. OneMachine' /\ height' = height /\ Timers'
    <2>1. CASE SM(F)!ProcessStart(Self)
      BY Zenon, <2>1, StartShapes, StartTimers DEF IInv, Shapes, Stays
    <2>2. ASSUME NEW m, \/ SM(F)!ProcessProposal(Self, m) \/ SM(F)!ProcessPrevote(Self, m)
                        \/ SM(F)!ProcessPrecommit(Self, m)
          PROVE  OneMachine' /\ height' = height /\ Timers'
      BY Zenon, <2>2, ProposalShapes, PrevoteShapes, PrecommitShapes, MessageTimers DEF IInv, Shapes, Stays
    <2>3. ASSUME NEW tm, pc[Self] = "idle", SM(F)!OnTimeout(Self, tm, timeouts[Self])
          PROVE  OneMachine' /\ height' = height /\ Timers'
      BY Zenon, <2>3, TimeoutShapes, TimeoutTimers DEF IInv, Shapes, Stays
    <2> QED
      BY Zenon, <1>2, <2>1, <2>2, <2>3
  <1>4. Requested'
    BY Zenon, <1>1, <1>3, RequestedKept DEF IInv
  <1>5. IsSequence(<<>>) /\ NoCommit(<<>>) /\ Syncs(<<>>)
    BY Zenon, NothingReturned
  <1>6. ~(SamePower /\ crashes = 0)
    BY Zenon, <1>1 DEF IInv, Noticed
  <1> QED
    BY Zenon, <1>1, <1>3, <1>4, <1>5, <1>6, HandlerKeeps

LEMMA ReplayCountedKeeps ==
    ASSUME IInv, ReplayCounted
    PROVE  IInv'
  <1>1. /\ next > Len(actions) /\ todo # <<>> /\ pc[Self] = "start"
        /\ Alone(votes) /\ Alone(proposals) => Alone(votes') /\ Alone(proposals')
        /\ UNCHANGED <<height, round, step, locked, valid, once, lastTriggerSync, lastQuorum, pc,
                       recent, timeouts, decided, actions, next, inbox, stage, futureQuorum,
                       fetching, store, chain, crashes>>
    BY Zenon DEF ReplayCounted, Resting, execution, syncing, bounds, Alone
  <1>2. OneMachine'
    BY Zenon, <1>1 DEF IInv, Shapes, OneMachine, Alone
  <1>3. Shapes' /\ Commits'
    BY Zenon, <1>1, <1>2 DEF IInv, Shapes, Commits, Committing, Decision, Valid
  <1>4. Timers'
    BY Zenon, <1>1 DEF Timers
  <1>5. Requested'
    BY Zenon, <1>1, RequestedKept DEF IInv
  <1>6. Noticed'
    BY Zenon, <1>1 DEF IInv, Noticed, SamePower
  <1> QED
    BY Zenon, <1>3, <1>4, <1>5, <1>6 DEF IInv

LEMMA ReplaySkippedKeeps ==
    ASSUME IInv, ReplaySkipped
    PROVE  IInv'
  <1>1. /\ next > Len(actions) /\ todo # <<>>
        /\ UNCHANGED <<machine, actions, next, inbox, stage, futureQuorum, fetching, chain, crashes>>
    BY Zenon DEF ReplaySkipped, Resting, execution, syncing, bounds
  <1>2. Requested'
    BY Zenon, <1>1, RequestedKept DEF IInv, machine
  <1> QED
    BY Zenon, <1>1, <1>2, RestingKeeps

LEMMA ReplayedKeeps ==
    ASSUME IInv, Replayed
    PROVE  IInv'
  <1>1. /\ pc[Self] # "loop" /\ next > Len(actions) /\ actions' = <<>> /\ next' = 1
        /\ UNCHANGED <<machine, inbox, stage, todo, futureQuorum, fetching, chain, crashes>>
    BY Zenon DEF Replayed, Resting, syncing, bounds
  <1>2. Requested'
    BY Zenon, <1>1, RequestedKept DEF IInv, machine
  <1> QED
    BY Zenon, <1>1, <1>2, RefusalKeeps

LEMMA InitHolds ==
    ASSUME Init
    PROVE  IInv
  <1>1. SM(ValidNow)!Correct = {Self}
    BY Zenon, SelfAssumption DEF SM!Correct
  <1>2. OneMachine /\ pc[Self] = "start" /\ height[Self] = 0
    BY Zenon, <1>1 DEF Init, SM!Init, SM!Heights, Heights, OneMachine, Alone
  <1>3. Shapes /\ Commits
    BY <1>2, NoActions DEF Init, Shapes, Commits, Committing
  <1>4. Timers /\ Requested
    BY Zenon, <1>2 DEF Init, Timers, Requested
  <1>5. MachineNotices
    <2>1. lastTriggerSync[Self] = 0 /\ lastQuorum[Self] = 0 /\ votes[Self] = {}
      BY Zenon, <1>1 DEF Init, SM!Init
    <2>2. ASSUME NEW h \in Heights, NEW r, NEW v, FutureQuorum(h, r, v) PROVE FALSE
      <3>1. V!Voters(votes[Self], Precommit, h, r, v) = {}
        BY Zenon, <2>1 DEF V!Voters
      <3>2. Power[h][{}] = 0 /\ V!q(Power[h][Addr]) \in Nat /\ V!q(Power[h][Addr]) >= 1
        BY InputAssumption DEF V!q
      <3> QED
        BY <2>2, <3>1, <3>2 DEF FutureQuorum, V!IsQuorum, V!TotalVotingPower
    <2> QED
      BY <2>1, <2>2 DEF MachineNotices
  <1>6. DriverNotices
    BY <1>1, NoActions DEF Init, SM!Init, DriverNotices, Syncs
  <1> QED
    BY Zenon, <1>3, <1>4, <1>5, <1>6 DEF IInv, Noticed, Init

LEMMA NextKeeps ==
    ASSUME IInv, [Next]_vars
    PROVE  IInv'
  <1>1. CASE UNCHANGED vars
    <2>1. /\ UNCHANGED <<machine, actions, next, inbox, stage, todo, futureQuorum, fetching, store,
                         chain, crashes>>
      BY Zenon, <1>1 DEF vars, execution, syncing, bounds
    <2>2. OneMachine' /\ Timers' /\ (MachineNotices => MachineNotices')
      BY Zenon, <2>1, MachineKept DEF IInv, Shapes
    <2>3. UNCHANGED <<height, pc, lastTriggerSync>>
      BY Zenon, <2>1 DEF machine
    <2>4. Shapes' /\ Commits'
      BY Zenon, <2>1, <2>2, <2>3 DEF IInv, Shapes, Commits, Committing, Decision, Valid
    <2>5. Requested' /\ Noticed'
      BY Zenon, <2>1, <2>2, <2>3 DEF IInv, Requested, Noticed, SamePower, DriverNotices
    <2> QED
      BY Zenon, <2>2, <2>4, <2>5 DEF IInv
  <1>2. CASE Loop \/ Start
    BY Zenon, <1>2, LoopKeeps, StartKeeps
  <1>3. CASE Receive
    BY Zenon, <1>3, ReceiveProposalKeeps, LearnKeeps, ReceiveVoteKeeps, ReceiveAgainKeeps, TimeoutFiresKeeps
       DEF Receive
  <1>4. CASE Sync
    BY Zenon, <1>4, SyncPrecommitKeeps, SyncBlockKeeps, SyncErrorKeeps DEF Sync
  <1>5. CASE Execute
    BY Zenon, <1>5, ExecuteKeeps, ExecuteTriggerSyncKeeps, ExecuteCommitKeeps, OnCommitKeeps, CommittedKeeps
       DEF Execute
  <1>6. CASE Recover
    BY Zenon, <1>6, ReplayKeeps, ReplayCountedKeeps, ReplaySkippedKeeps, ReplayedKeeps DEF Recover
  <1>7. CASE Crash \/ Stop
    BY Zenon, <1>7, RestartKeeps DEF Crash, Stop
  <1> QED
    BY Zenon, <1>1, <1>2, <1>3, <1>4, <1>5, <1>6, <1>7 DEF Next

\* The invariant of the driver holds, whatever the others send and whenever it crashes.
THEOREM InvariantHolds == Spec => []IInv
  <1>1. Init => IInv
    BY Zenon, InitHolds
  <1>2. IInv /\ [Next]_vars => IInv'
    BY Zenon, NextKeeps
  <1> QED
    BY <1>1, <1>2, PTL DEF Spec

-----------------------------------------------------------------------------
\* A decision is never lost: the driver finds the block of the value it commits, it is
\* the next block, and a machine at rest is at the height after the last block (commit
\* in driver.go, and the crash between OnCommit and the pruning of the WAL).
THEOREM DecisionsCommitted == Spec => []CommitsGoThrough
  <1>1. IInv => CommitsGoThrough
    <2> SUFFICES ASSUME IInv PROVE CommitsGoThrough
      OBVIOUS
    <2>1. stage # "failed" /\ (stage = "commit" => action.h = chain)
      BY Zenon DEF IInv, Commits, Decision, action
    <2>2. pc[Self] # "loop" /\ next > Len(actions) => height[Self] = chain
      BY Zenon, NothingDecided DEF IInv
    <2> QED
      BY Zenon, <2>1, <2>2 DEF CommitsGoThrough
  <1> QED
    BY <1>1, InvariantHolds, PTL

\* A listening validator always has the timer that moves it on (scheduleTimeout, the
\* once flags of the rules of lines 34 and 47, and replay scheduling timeouts again).
THEOREM NeverWithoutTimer == Spec => []TimersKept
  <1>1. IInv => TimersKept
    BY Zenon DEF IInv, Timers, TimersKept, Listening
  <1> QED
    BY <1>1, InvariantHolds, PTL

\* A validator that has not restarted has noticed every quorum of a later height that
\* it holds (hasFuturePrecommitQuorum, TriggerSync and its execution by the driver),
\* provided that the total voting power does not change from height to height.
THEOREM LagNoticed ==
    ASSUME SamePower
    PROVE  Spec => []FutureQuorumNoticed
  <1>1. IInv => FutureQuorumNoticed
    <2>1. SUFFICES ASSUME IInv, Listening, crashes = 0, NEW h \in Heights, NEW r \in Rounds, NEW v \in Hash,
                          h > height[Self], FutureQuorum(h, r, v)
                   PROVE  futureQuorum >= h
      BY Zenon DEF FutureQuorumNoticed, FutureQuorum
    <2>2. MachineNotices /\ DriverNotices /\ futureQuorum \in Nat
      BY Zenon, <2>1 DEF IInv, Noticed
    <2>3. lastTriggerSync[Self] \in Nat /\ lastTriggerSync[Self] >= h
      BY Zenon, <2>1, <2>2 DEF MachineNotices
    <2>4. lastTriggerSync[Self] <= futureQuorum
      BY <2>1, <2>2 DEF DriverNotices, Listening, Resting, IInv, Shapes, IsSequence
    <2> QED
      BY <2>2, <2>3, <2>4, InputAssumption DEF Heights
  <1> QED
    BY <1>1, InvariantHolds, PTL
=============================================================================
