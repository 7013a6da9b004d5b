------------------------- MODULE VoteCounterProofs -------------------------
(* The incremental counters are exact, for every validator set, assignment  *)
(* of power, and order of messages.                                         *)
EXTENDS VoteCounter, TLAPS

IInv == TypeOK /\ CountersExact

-----------------------------------------------------------------------------
\* A member brings its power.
LEMMA PowerOfMember ==
    ASSUME NEW h \in Heights, NEW S \in SUBSET Addr, NEW a \in Addr, a \notin S
    PROVE  Power[h][S \union {a}] = Power[h][S] + Power[h][{a}]
  <1>1. {a} \in SUBSET Addr /\ S \intersect {a} = {}
    BY Zenon
  <1> QED
    BY <1>1, PowerAssumption

\* An empty ballot set has empty totals.
LEMMA NewTotals ==
    ASSUME NEW h \in Heights
    PROVE  NewBallotSet \in BallotSet /\ TotalsExact(NewBallotSet, h)
  <1>1. NewBallotSet \in BallotSet
    BY Zenon DEF NewBallotSet, BallotSet
  <1>2. /\ \A t \in VoteType : {a \in Addr : t \in NewBallotSet.ballots[a]} = {}
        /\ {a \in Addr : NewBallotSet.ballots[a] # {}} = {}
    BY Zenon DEF NewBallotSet
  <1>3. Power[h][{}] = 0
    BY Zenon, PowerAssumption
  <1> QED
    BY Zenon, <1>1, <1>2, <1>3 DEF NewBallotSet, TotalsExact

\* add keeps the totals exact, whether or not the validator already voted.
LEMMA AddTotals ==
    ASSUME NEW h \in Heights, NEW b \in BallotSet, TotalsExact(b, h),
           NEW addr \in Addr, NEW t \in VoteType
    PROVE  LET c == Add(b, addr, Power[h][{addr}], t)
           IN  /\ c \in BallotSet
               /\ c.ballots = [b.ballots EXCEPT ![addr] = @ \union {t}]
               /\ TotalsExact(c, h)
  <1> DEFINE c == Add(b, addr, Power[h][{addr}], t)
             W(bb, s) == {a \in Addr : s \in bb.ballots[a]}
             A(bb) == {a \in Addr : bb.ballots[a] # {}}
             p == Power[h][{addr}]
  <1>0. /\ b.ballots \in [Addr -> SUBSET VoteType]
        /\ b.perVoteType \in [VoteType -> Nat]
        /\ b.total \in Nat
        /\ p \in Nat
    BY PowerAssumption DEF BallotSet
  <1>1. /\ c.ballots = [b.ballots EXCEPT ![addr] = @ \union {t}]
        /\ c.perVoteType = [b.perVoteType EXCEPT
                              ![t] = @ + IF t \notin b.ballots[addr] THEN p ELSE 0]
        /\ c.total = b.total + IF b.ballots[addr] = {} THEN p ELSE 0
    BY Zenon DEF Add, IsNewBallot
  <1>2. c \in BallotSet
    BY <1>0 DEF Add, IsNewBallot, BallotSet
  <1>3. /\ \A s \in VoteType : s # t => W(c, s) = W(b, s)
        /\ W(c, t) = W(b, t) \union {addr}
        /\ A(c) = A(b) \union {addr}
    BY <1>0, <1>1
  <1>4. ASSUME NEW S \in SUBSET Addr
        PROVE  Power[h][S \union {addr}] = Power[h][S] + IF addr \notin S THEN p ELSE 0
    <2>1. CASE addr \in S
      <3>1. S \union {addr} = S
        BY Zenon, <2>1
      <3> QED
        BY <2>1, <3>1, PowerAssumption
    <2>2. CASE addr \notin S
      <3>1. S \intersect {addr} = {} /\ {addr} \in SUBSET Addr
        BY Zenon, <2>2
      <3> QED
        BY Zenon, <2>2, <3>1, PowerAssumption
    <2> QED
      BY Zenon, <2>1, <2>2
  <1>5. \A s \in VoteType : c.perVoteType[s] = Power[h][W(c, s)]
    <2>1. Power[h][W(b, t) \union {addr}] = Power[h][W(b, t)] + IF addr \notin W(b, t) THEN p ELSE 0
      BY Zenon, <1>4
    <2>2. \A s \in VoteType : b.perVoteType[s] = Power[h][W(b, s)]
      BY Zenon DEF TotalsExact
    <2>3. c.perVoteType[t] = b.perVoteType[t] + IF t \notin b.ballots[addr] THEN p ELSE 0
      BY Zenon, <1>0, <1>1
    <2>4. addr \notin W(b, t) <=> t \notin b.ballots[addr]
      BY Zenon
    <2>5. c.perVoteType[t] = Power[h][W(c, t)]
      BY Zenon, <2>1, <2>2, <2>3, <2>4, <1>3
    <2>6. ASSUME NEW s \in VoteType, s # t
          PROVE  c.perVoteType[s] = Power[h][W(c, s)]
      <3>1. c.perVoteType[s] = b.perVoteType[s]
        BY Zenon, <2>6, <1>0, <1>1
      <3>2. W(c, s) = W(b, s)
        BY Zenon, <2>6, <1>3
      <3>3. b.perVoteType[s] = Power[h][W(b, s)]
        BY Zenon, <2>2
      <3> HIDE DEF W, c
      <3> QED
        BY Zenon, <3>1, <3>2, <3>3
    <2> QED
      BY Zenon, <2>5, <2>6
  <1>6. c.total = Power[h][A(c)]
    <2>1. Power[h][A(b) \union {addr}] = Power[h][A(b)] + IF addr \notin A(b) THEN p ELSE 0
      BY Zenon, <1>4
    <2>2. b.total = Power[h][A(b)]
      BY Zenon DEF TotalsExact
    <2> QED
      BY Zenon, <2>1, <2>2, <1>0, <1>1, <1>3
  <1> QED
    BY Zenon, <1>1, <1>2, <1>5, <1>6 DEF TotalsExact

\* A new round has nothing to count.
LEMMA NewRound ==
    ASSUME NEW h \in Heights
    PROVE  /\ NewRoundData \in RoundData
           /\ NewRoundData.proposal = NoProposal
           /\ NewRoundData.uncountedProposerPower = 0
           /\ \A id \in Ids : NewRoundData.perID[id] = NewBallotSet
           /\ NewRoundData.allVotes = NewBallotSet
           /\ NewBallotSet.ballots = [a \in Addr |-> {}]
           /\ CountFutureMessageSenders(NewRoundData) = 0
  <1>1. NewBallotSet \in BallotSet /\ NewBallotSet.total = 0
    BY Zenon, NewTotals DEF NewBallotSet
  <1>2. NewRoundData \in RoundData
    BY Zenon, <1>1 DEF NewRoundData, RoundData, NoProposal, HeldProposal
  <1> QED
    BY <1>1, <1>2 DEF NewRoundData, NewBallotSet, CountFutureMessageSenders

-----------------------------------------------------------------------------
\* The senders counted by countFutureMessageSenders are those of the votes and,
\* until it votes, that of the proposal.
LEMMA SendersCounted ==
    ASSUME NEW h \in Heights, NEW r \in Rounds, NEW rd \in RoundData,
           NEW V \in SUBSET Vote, NEW P \in SUBSET Proposal, RoundExact(rd, V, P, h, r)
    PROVE  CountFutureMessageSenders(rd) = Power[h][Senders(V, P, h, r)]
  <1> DEFINE A == {a \in Addr : rd.allVotes.ballots[a] # {}}
             T == Senders(V, P, h, r)
             from == rd.proposal.from
  <1>1. /\ rd.allVotes.total = Power[h][A]
        /\ A \in SUBSET Addr
    BY Zenon DEF RoundExact, TotalsExact
  <1>2. /\ rd.allVotes.ballots = [a \in Addr |-> {t \in VoteType : a \in AnyVoters(V, t, h, r)}]
        /\ \A m \in P : m.h = h /\ m.r = r =>
              rd.proposal.from = m.from /\ rd.proposal.value = m.value
        /\ \A m \in P : m.from \in Addr /\ m.value \in Hash
    BY Zenon DEF RoundExact, AllBallots, Proposal
  <1>3. T = A \union {a \in Addr : \E m \in P : m.h = h /\ m.r = r /\ m.from = a}
    BY Zenon, <1>2 DEF Senders
  <1>4. CASE rd.proposal = NoProposal
    <2>1. ASSUME NEW m \in P, m.h = h, m.r = r
          PROVE  FALSE
      <3>1. rd.proposal.value = m.value
        BY Zenon, <1>2, <2>1
      <3>2. rd.proposal.value = Nil
        BY <1>4 DEF NoProposal
      <3> QED
        BY Zenon, <3>1, <3>2, <1>2, NilAssumption
    <2>2. rd.uncountedProposerPower = 0
      BY Zenon, <1>4 DEF RoundExact
    <2>3. T = A
      BY Zenon, <2>1, <1>3
    <2> QED
      BY <2>2, <2>3, <1>1, PowerAssumption DEF CountFutureMessageSenders
  <1>5. CASE rd.proposal # NoProposal
    <2>1. PICK n \in P : n.h = h /\ n.r = r
      BY Zenon, <1>5 DEF RoundExact
    <2>2. \A m \in P : m.h = h /\ m.r = r => m.from = from
      BY Zenon, <1>2
    <2>3. from \in Addr
      BY Zenon, <1>2, <2>1, <2>2
    <2>4. T = A \union {from}
      BY Zenon, <1>3, <2>1, <2>2, <2>3
    <2>5. CASE from \in A
      <3>1. T = A
        BY Zenon, <2>4, <2>5
      <3>2. rd.uncountedProposerPower = 0
        BY Zenon, <2>5 DEF RoundExact
      <3> QED
        BY <3>1, <3>2, <1>1, PowerAssumption DEF CountFutureMessageSenders
    <2>6. CASE from \notin A
      <3>1. rd.uncountedProposerPower = Power[h][{from}]
        BY Zenon, <2>3, <2>6, <1>5 DEF RoundExact
      <3>2. Power[h][A \union {from}] = Power[h][A] + Power[h][{from}]
        BY ZenonT(40), <2>3, <2>6, <1>1, PowerOfMember
      <3> QED
        BY Zenon, <3>1, <3>2, <2>4, <1>1 DEF CountFutureMessageSenders
    <2> QED
      BY Zenon, <2>5, <2>6
  <1> QED
    BY Zenon, <1>4, <1>5

-----------------------------------------------------------------------------
\* One more vote adds its sender to the voters for its id, and to no others.
LEMMA VoteAdded ==
    ASSUME NEW V \in SUBSET Vote, NEW m \in Vote, NEW h \in Heights, NEW r \in Rounds,
           NEW t \in VoteType, NEW a \in Addr, NEW id \in Ids
    PROVE  a \in Voters(V \union {m}, t, h, r, id) <=>
              \/ a \in Voters(V, t, h, r, id)
              \/ m.h = h /\ m.r = r /\ m.id = id /\ m.type = t /\ m.from = a
  <1>1. m = [type |-> m.type, h |-> m.h, r |-> m.r, from |-> m.from, id |-> m.id]
    BY Zenon DEF Vote
  <1> QED
    BY <1>1 DEF Voters

LEMMA AnyVoteAdded ==
    ASSUME NEW V \in SUBSET Vote, NEW m \in Vote, NEW h \in Heights, NEW r \in Rounds,
           NEW t \in VoteType, NEW a \in Addr
    PROVE  a \in AnyVoters(V \union {m}, t, h, r) <=>
              \/ a \in AnyVoters(V, t, h, r)
              \/ m.h = h /\ m.r = r /\ m.type = t /\ m.from = a
  <1> DEFINE W == V \union {m}
  <1>1. m.id \in Ids
    BY Zenon DEF Vote
  <1>2. \A id \in Ids : a \in Voters(W, t, h, r, id) <=>
              \/ a \in Voters(V, t, h, r, id)
              \/ m.h = h /\ m.r = r /\ m.id = id /\ m.type = t /\ m.from = a
    BY VoteAdded
  <1> HIDE DEF W
  <1>3. a \in AnyVoters(W, t, h, r) <=>
              \/ a \in AnyVoters(V, t, h, r)
              \/ m.h = h /\ m.r = r /\ m.type = t /\ m.from = a
    BY Zenon, <1>1, <1>2 DEF AnyVoters
  <1> QED
    BY Zenon, <1>3 DEF W

LEMMA VoteElsewhere ==
    ASSUME NEW V \in SUBSET Vote, NEW m \in Vote, NEW h \in Heights, NEW r \in Rounds,
           ~(m.h = h /\ m.r = r)
    PROVE  /\ \A id \in Ids : BallotsFor(V \union {m}, h, r, id) = BallotsFor(V, h, r, id)
           /\ AllBallots(V \union {m}, h, r) = AllBallots(V, h, r)
  <1> DEFINE W == V \union {m}
  <1>1. ASSUME NEW t \in VoteType, NEW a \in Addr
        PROVE  /\ \A id \in Ids : a \in Voters(W, t, h, r, id) <=> a \in Voters(V, t, h, r, id)
               /\ a \in AnyVoters(W, t, h, r) <=> a \in AnyVoters(V, t, h, r)
    BY VoteAdded, AnyVoteAdded
  <1> HIDE DEF W
  <1>2. \A id \in Ids : BallotsFor(W, h, r, id) = BallotsFor(V, h, r, id)
    BY Zenon, <1>1 DEF BallotsFor
  <1>3. AllBallots(W, h, r) = AllBallots(V, h, r)
    BY Zenon, <1>1 DEF AllBallots
  <1> QED
    BY Zenon, <1>2, <1>3 DEF W

LEMMA OneMoreVote ==
    ASSUME NEW V \in SUBSET Vote, NEW m \in Vote
    PROVE  /\ BallotsFor(V \union {m}, m.h, m.r, m.id) =
                  [BallotsFor(V, m.h, m.r, m.id) EXCEPT ![m.from] = @ \union {m.type}]
           /\ \A id \in Ids : id # m.id =>
                  BallotsFor(V \union {m}, m.h, m.r, id) = BallotsFor(V, m.h, m.r, id)
           /\ AllBallots(V \union {m}, m.h, m.r) =
                  [AllBallots(V, m.h, m.r) EXCEPT ![m.from] = @ \union {m.type}]
  <1> DEFINE W == V \union {m}
             h == m.h
             r == m.r
  <1>0. /\ m.type \in VoteType /\ m.from \in Addr /\ m.id \in Ids
        /\ h \in Heights /\ r \in Rounds
    BY Zenon DEF Vote
  <1>1. \A id \in Ids : id # m.id => BallotsFor(W, h, r, id) = BallotsFor(V, h, r, id)
    BY <1>0, VoteAdded DEF BallotsFor
  <1>2. ASSUME NEW a \in Addr
        PROVE  {t \in VoteType : a \in Voters(W, t, h, r, m.id)} =
                  IF a = m.from THEN {t \in VoteType : a \in Voters(V, t, h, r, m.id)} \union {m.type}
                                ELSE {t \in VoteType : a \in Voters(V, t, h, r, m.id)}
    BY <1>0, VoteAdded
  <1>3. ASSUME NEW a \in Addr
        PROVE  {t \in VoteType : a \in AnyVoters(W, t, h, r)} =
                  IF a = m.from THEN {t \in VoteType : a \in AnyVoters(V, t, h, r)} \union {m.type}
                                ELSE {t \in VoteType : a \in AnyVoters(V, t, h, r)}
    <2>1. \A t \in VoteType : a \in AnyVoters(W, t, h, r) <=>
             a \in AnyVoters(V, t, h, r) \/ (m.type = t /\ m.from = a)
      <3>1. \A t \in VoteType : a \in AnyVoters(W, t, h, r) <=>
               \/ a \in AnyVoters(V, t, h, r)
               \/ m.h = h /\ m.r = r /\ m.type = t /\ m.from = a
        BY <1>0, AnyVoteAdded
      <3> QED
        BY Zenon, <3>1
    <2> QED
      BY Zenon, <1>0, <2>1
  <1>4. BallotsFor(W, h, r, m.id) = [BallotsFor(V, h, r, m.id) EXCEPT ![m.from] = @ \union {m.type}]
    BY ZenonT(40), <1>0, <1>2 DEF BallotsFor
  <1>5. AllBallots(W, h, r) = [AllBallots(V, h, r) EXCEPT ![m.from] = @ \union {m.type}]
    BY ZenonT(40), <1>0, <1>3 DEF AllBallots
  <1> QED
    BY Zenon, <1>1, <1>4, <1>5

\* addVote keeps the data of a round exact.
LEMMA AddVoteExact ==
    ASSUME NEW V \in SUBSET Vote, NEW P \in SUBSET Proposal, NEW m \in Vote, NEW rd \in RoundData,
           RoundExact(rd, V, P, m.h, m.r)
    PROVE  LET rd2 == AddVoteTo(rd, m.from, m.id, Power[m.h][{m.from}], m.type)
           IN  rd2 \in RoundData /\ RoundExact(rd2, V \union {m}, P, m.h, m.r)
  <1> DEFINE h == m.h
             r == m.r
             p == Power[h][{m.from}]
             rd2 == AddVoteTo(rd, m.from, m.id, p, m.type)
             W == V \union {m}
  <1>0. /\ h \in Heights /\ r \in Rounds /\ m.from \in Addr /\ m.id \in Ids /\ m.type \in VoteType
        /\ rd.allVotes \in BallotSet
        /\ rd.perID \in [Ids -> BallotSet]
        /\ rd.uncountedProposerPower \in Nat
        /\ rd.proposal \in HeldProposal
    BY Zenon DEF Vote, RoundData
  <1>1. /\ rd2.proposal = rd.proposal
        /\ rd2.uncountedProposerPower =
              IF rd.proposal.from = m.from THEN 0 ELSE rd.uncountedProposerPower
        /\ rd2.allVotes = Add(rd.allVotes, m.from, p, m.type)
        /\ rd2.perID = [rd.perID EXCEPT ![m.id] = Add(@, m.from, p, m.type)]
    BY Zenon DEF AddVoteTo, RoundData
  <1>2. /\ Add(rd.allVotes, m.from, p, m.type) \in BallotSet
        /\ Add(rd.allVotes, m.from, p, m.type).ballots =
              [rd.allVotes.ballots EXCEPT ![m.from] = @ \union {m.type}]
        /\ TotalsExact(Add(rd.allVotes, m.from, p, m.type), h)
    BY Zenon, <1>0, AddTotals DEF RoundExact
  <1>3. /\ Add(rd.perID[m.id], m.from, p, m.type) \in BallotSet
        /\ Add(rd.perID[m.id], m.from, p, m.type).ballots =
              [rd.perID[m.id].ballots EXCEPT ![m.from] = @ \union {m.type}]
        /\ TotalsExact(Add(rd.perID[m.id], m.from, p, m.type), h)
    BY Zenon, <1>0, AddTotals DEF RoundExact
  <1>4. rd2 \in RoundData
    <2>1. rd2 = [proposal |-> rd2.proposal, uncountedProposerPower |-> rd2.uncountedProposerPower,
                 perID |-> rd2.perID, allVotes |-> rd2.allVotes]
      BY Zenon DEF AddVoteTo
    <2> HIDE DEF rd2
    <2>2. /\ rd2.proposal \in HeldProposal
          /\ rd2.uncountedProposerPower \in Nat
          /\ rd2.perID \in [Ids -> BallotSet]
          /\ rd2.allVotes \in BallotSet
      BY <1>0, <1>1, <1>2, <1>3
    <2> QED
      BY Zenon, <2>1, <2>2 DEF RoundData
  <1>5. /\ BallotsFor(W, h, r, m.id) = [BallotsFor(V, h, r, m.id) EXCEPT ![m.from] = @ \union {m.type}]
        /\ \A id \in Ids : id # m.id => BallotsFor(W, h, r, id) = BallotsFor(V, h, r, id)
        /\ AllBallots(W, h, r) = [AllBallots(V, h, r) EXCEPT ![m.from] = @ \union {m.type}]
    BY Zenon, OneMoreVote
  <1> HIDE DEF rd2, W, p
  <1>6. /\ rd2.allVotes.ballots = AllBallots(W, h, r)
        /\ TotalsExact(rd2.allVotes, h)
    BY Zenon, <1>1, <1>2, <1>5 DEF RoundExact
  <1>7. ASSUME NEW id \in Ids
        PROVE  /\ rd2.perID[id].ballots = BallotsFor(W, h, r, id)
               /\ TotalsExact(rd2.perID[id], h)
    <2>1. CASE id = m.id
      <3>1. rd2.perID[id] = Add(rd.perID[m.id], m.from, p, m.type)
        BY Zenon, <1>0, <1>1, <2>1
      <3> QED
        BY Zenon, <2>1, <3>1, <1>3, <1>5 DEF RoundExact
    <2>2. CASE id # m.id
      <3>1. rd2.perID[id] = rd.perID[id]
        BY Zenon, <1>0, <1>1, <2>2
      <3> QED
        BY Zenon, <2>2, <3>1, <1>5 DEF RoundExact
    <2> QED
      BY Zenon, <2>1, <2>2
  <1>8. rd2.uncountedProposerPower =
           IF rd2.proposal # NoProposal /\ rd2.allVotes.ballots[rd2.proposal.from] = {}
           THEN Power[h][{rd2.proposal.from}] ELSE 0
    <2>1. rd.uncountedProposerPower =
             IF rd.proposal # NoProposal /\ rd.allVotes.ballots[rd.proposal.from] = {}
             THEN Power[h][{rd.proposal.from}] ELSE 0
      BY Zenon DEF RoundExact
    <2>2. /\ rd2.allVotes.ballots[m.from] # {}
          /\ \A a \in Addr : a # m.from => rd2.allVotes.ballots[a] = rd.allVotes.ballots[a]
      <3>1. rd2.allVotes.ballots = [rd.allVotes.ballots EXCEPT ![m.from] = @ \union {m.type}]
        BY Zenon, <1>1, <1>2
      <3>2. rd.allVotes.ballots \in [Addr -> SUBSET VoteType]
        BY Zenon, <1>0 DEF BallotSet
      <3> QED
        BY Zenon, <3>1, <3>2, <1>0
    <2>3. rd.proposal # NoProposal => rd.proposal.from \in Addr
      <3> SUFFICES ASSUME rd.proposal # NoProposal
                   PROVE  rd.proposal.from \in Addr
        BY Zenon
      <3>1. PICK n \in P : n.h = h /\ n.r = r
        BY Zenon DEF RoundExact
      <3>2. n.from \in Addr
        BY Zenon DEF Proposal
      <3> QED
        BY Zenon, <3>1, <3>2 DEF RoundExact
    <2> QED
      BY Zenon, <1>1, <2>1, <2>2, <2>3
  <1>9. /\ \A n \in P : n.h = h /\ n.r = r =>
              rd2.proposal.from = n.from /\ rd2.proposal.value = n.value
        /\ rd2.proposal # NoProposal => \E n \in P : n.h = h /\ n.r = r
    BY Zenon, <1>1 DEF RoundExact
  <1>10. RoundExact(rd2, W, P, h, r)
    BY Zenon, <1>6, <1>7, <1>8, <1>9 DEF RoundExact
  <1> QED
    BY Zenon, <1>4, <1>10 DEF rd2, W, p

\* setProposal keeps the data of a round exact.
LEMMA SetProposalExact ==
    ASSUME NEW V \in SUBSET Vote, NEW P \in SUBSET Proposal, NEW m \in Proposal,
           NEW rd \in RoundData, RoundExact(rd, V, P, m.h, m.r), rd.proposal = NoProposal
    PROVE  LET rd2 == SetProposal(rd, m.from, m.value, m.vr, Power[m.h][{m.from}])
           IN  rd2 \in RoundData /\ RoundExact(rd2, V, P \union {m}, m.h, m.r)
  <1> DEFINE h == m.h
             r == m.r
             p == Power[h][{m.from}]
             rd2 == SetProposal(rd, m.from, m.value, m.vr, p)
  <1>0. /\ h \in Heights /\ r \in Rounds /\ m.from \in Addr /\ m.value \in Hash
        /\ rd.allVotes \in BallotSet
        /\ rd.perID \in [Ids -> BallotSet]
        /\ p \in Nat
    BY PowerAssumption DEF Proposal, RoundData
  <1>1. /\ rd2.proposal = [from |-> m.from, value |-> m.value, vr |-> m.vr]
        /\ rd2.uncountedProposerPower = IF rd.allVotes.ballots[m.from] = {} THEN p ELSE 0
        /\ rd2.perID = rd.perID
        /\ rd2.allVotes = rd.allVotes
    <2>1. rd.uncountedProposerPower = 0
      BY Zenon DEF RoundExact
    <2> QED
      BY Zenon, <2>1 DEF SetProposal
  <1>2. rd2 \in RoundData
    <2>1. rd.uncountedProposerPower \in Nat
      BY Zenon DEF RoundData
    <2>2. m.vr \in Rounds \union {-1}
      BY Zenon DEF Proposal
    <2>3. [from |-> m.from, value |-> m.value, vr |-> m.vr] \in HeldProposal
      BY Zenon, <1>0, <2>2 DEF HeldProposal
    <2> QED
      BY Zenon, <1>0, <2>1, <2>3 DEF SetProposal, RoundData
  <1> HIDE DEF rd2
  <1>3. rd2.proposal # NoProposal
    <2>1. rd2.proposal.value = m.value
      BY <1>1
    <2>2. NoProposal.value = Nil
      BY Zenon DEF NoProposal
    <2> QED
      BY Zenon, <2>1, <2>2, <1>0, NilAssumption
  <1>4. ASSUME NEW n \in P, n.h = h, n.r = r
        PROVE  FALSE
    <2>1. rd.proposal.value = n.value /\ n.value \in Hash
      BY Zenon, <1>4 DEF RoundExact, Proposal
    <2>2. rd.proposal.value = Nil
      BY DEF NoProposal
    <2> QED
      BY Zenon, <2>1, <2>2, NilAssumption
  <1>5. \A n \in P \union {m} : n.h = h /\ n.r = r =>
              rd2.proposal.from = n.from /\ rd2.proposal.value = n.value
    BY <1>1, <1>4
  <1>6. rd2.uncountedProposerPower =
           IF rd2.proposal # NoProposal /\ rd2.allVotes.ballots[rd2.proposal.from] = {}
           THEN Power[h][{rd2.proposal.from}] ELSE 0
    BY SMTT(40), <1>1, <1>3
  <1>7. RoundExact(rd2, V, P \union {m}, h, r)
    BY Zenon, <1>1, <1>5, <1>6 DEF RoundExact
  <1> QED
    BY Zenon, <1>2, <1>7 DEF rd2

\* A round nothing was received for has exact, empty data.
LEMMA NewRoundExact ==
    ASSUME NEW V \in SUBSET Vote, NEW P \in SUBSET Proposal, NEW h \in Heights, NEW r \in Rounds,
           \A m \in V \union P : ~(m.h = h /\ m.r = r)
    PROVE  NewRoundData \in RoundData /\ RoundExact(NewRoundData, V, P, h, r)
  <1>1. ASSUME NEW t \in VoteType, NEW id \in Ids
        PROVE  Voters(V, t, h, r, id) = {}
    <2> SUFFICES ASSUME NEW a \in Addr,
                        [type |-> t, h |-> h, r |-> r, from |-> a, id |-> id] \in V
                 PROVE  FALSE
      BY Zenon DEF Voters
    <2> DEFINE m == [type |-> t, h |-> h, r |-> r, from |-> a, id |-> id]
    <2>1. m.h = h /\ m.r = r
      BY Zenon
    <2> QED
      BY Zenon, <2>1
  <1>2. \A t \in VoteType : AnyVoters(V, t, h, r) = {}
    BY Zenon, <1>1 DEF AnyVoters
  <1>3. /\ \A id \in Ids : BallotsFor(V, h, r, id) = [a \in Addr |-> {}]
        /\ AllBallots(V, h, r) = [a \in Addr |-> {}]
    BY Zenon, <1>1, <1>2 DEF BallotsFor, AllBallots
  <1> QED
    BY Zenon, <1>3, NewRound, NewTotals DEF RoundExact

-----------------------------------------------------------------------------
LEMMA InitIInv == Init => IInv
  <1> SUFFICES ASSUME Init
               PROVE  IInv
    BY Zenon
  <1>1. /\ currentHeight \in Heights
        /\ received.votes = {} /\ received.proposals = {}
        /\ \A h \in Heights, r \in Rounds : roundData[h][r] = NewRoundData
    BY BoundsAssumption DEF Init, Heights
  <1>2. \A h \in Heights, r \in Rounds :
           NewRoundData \in RoundData /\ RoundExact(NewRoundData, {}, {}, h, r)
    BY Zenon, NewRoundExact
  <1>3. TypeOK
    BY Zenon, <1>1, <1>2 DEF TypeOK, Init
  <1> QED
    BY Zenon, <1>1, <1>2, <1>3 DEF IInv, CountersExact

\* What IInv says, in the form the steps below use.
LEMMA IInvUnfolded ==
    ASSUME IInv
    PROVE  /\ TypeOK
           /\ received.votes \in SUBSET Vote /\ received.proposals \in SUBSET Proposal
           /\ \A m \in received.votes \union received.proposals : m.h >= currentHeight
           /\ \A h \in Heights, r \in Rounds :
                 /\ roundData[h][r] \in RoundData
                 /\ RoundExact(roundData[h][r], received.votes, received.proposals, h, r)
  BY Zenon DEF IInv, TypeOK, CountersExact

LEMMA IInvStutter == IInv /\ UNCHANGED vars => IInv'
  BY Zenon DEF IInv, vars, TypeOK, CountersExact

LEMMA AddVoteIInv ==
    ASSUME IInv, NEW m \in Vote, AddVote(m)
    PROVE  IInv'
  <1> DEFINE V == received.votes
             P == received.proposals
             rd2 == AddVoteTo(roundData[m.h][m.r], m.from, m.id, Power[m.h][{m.from}], m.type)
  <1>0. m.h \in Heights /\ m.r \in Rounds
    BY Zenon DEF Vote
  <1>1. CASE m.h >= currentHeight
    <2>1. /\ currentHeight' = currentHeight
          /\ received' = [received EXCEPT !.votes = @ \union {m}]
          /\ roundData' = [roundData EXCEPT ![m.h][m.r] = rd2]
      BY Zenon, <1>1 DEF AddVote
    <2>2. /\ received'.votes = V \union {m} /\ received'.proposals = P
          /\ received' \in [votes : SUBSET Vote, proposals : SUBSET Proposal]
      BY Zenon, <2>1, IInvUnfolded DEF TypeOK
    <2>3. rd2 \in RoundData /\ RoundExact(rd2, V \union {m}, P, m.h, m.r)
      BY Zenon, <1>0, IInvUnfolded, AddVoteExact
    <2>4. /\ roundData' \in [Heights -> [Rounds -> RoundData]]
          /\ \A h \in Heights, r \in Rounds :
                roundData'[h][r] = IF h = m.h /\ r = m.r THEN rd2 ELSE roundData[h][r]
      <3> HIDE DEF rd2
      <3> QED
        BY Zenon, <1>0, <2>1, <2>3, IInvUnfolded DEF TypeOK
    <2>5. ASSUME NEW h \in Heights, NEW r \in Rounds
          PROVE  RoundExact(roundData'[h][r], V \union {m}, P, h, r)
      <3>1. CASE h = m.h /\ r = m.r
        BY Zenon, <3>1, <2>3, <2>4
      <3>2. CASE ~(h = m.h /\ r = m.r)
        <4>1. roundData'[h][r] = roundData[h][r]
          BY Zenon, <3>2, <2>4
        <4>2. /\ \A id \in Ids : BallotsFor(V \union {m}, h, r, id) = BallotsFor(V, h, r, id)
              /\ AllBallots(V \union {m}, h, r) = AllBallots(V, h, r)
          BY Zenon, <3>2, IInvUnfolded, VoteElsewhere
        <4>3. RoundExact(roundData[h][r], V, P, h, r)
          BY Zenon, IInvUnfolded
        <4> QED
          BY Zenon, <4>1, <4>2, <4>3 DEF RoundExact
      <3> QED
        BY Zenon, <3>1, <3>2
    <2>6. TypeOK'
      BY Zenon, <2>1, <2>2, <2>4 DEF IInv, TypeOK
    <2>7. \A n \in received'.votes \union received'.proposals : n.h >= currentHeight'
      BY Zenon, <1>1, <2>1, <2>2, IInvUnfolded
    <2> QED
      BY Zenon, <2>2, <2>5, <2>6, <2>7 DEF IInv, CountersExact
  <1>2. CASE ~(m.h >= currentHeight)
    BY Zenon, <1>2, IInvStutter DEF AddVote, vars
  <1> QED
    BY Zenon, <1>1, <1>2

LEMMA AddProposalIInv ==
    ASSUME IInv, NEW m \in Proposal, AddProposal(m)
    PROVE  IInv'
  <1> DEFINE V == received.votes
             P == received.proposals
             rd2 == SetProposal(roundData[m.h][m.r], m.from, m.value, m.vr, Power[m.h][{m.from}])
  <1>0. m.h \in Heights /\ m.r \in Rounds
    BY Zenon DEF Proposal
  <1>1. CASE AcceptsProposal(m)
    <2>1. /\ m.h >= currentHeight
          /\ roundData[m.h][m.r].proposal = NoProposal
          /\ currentHeight' = currentHeight
          /\ received' = [received EXCEPT !.proposals = @ \union {m}]
          /\ roundData' = [roundData EXCEPT ![m.h][m.r] = rd2]
      BY Zenon, <1>1 DEF AddProposal, AcceptsProposal
    <2>2. /\ received'.votes = V /\ received'.proposals = P \union {m}
          /\ received' \in [votes : SUBSET Vote, proposals : SUBSET Proposal]
      BY Zenon, <2>1, IInvUnfolded DEF TypeOK
    <2>3. rd2 \in RoundData /\ RoundExact(rd2, V, P \union {m}, m.h, m.r)
      BY Zenon, <1>0, <2>1, IInvUnfolded, SetProposalExact
    <2>4. /\ roundData' \in [Heights -> [Rounds -> RoundData]]
          /\ \A h \in Heights, r \in Rounds :
                roundData'[h][r] = IF h = m.h /\ r = m.r THEN rd2 ELSE roundData[h][r]
      <3> HIDE DEF rd2
      <3> QED
        BY Zenon, <1>0, <2>1, <2>3, IInvUnfolded DEF TypeOK
    <2>5. ASSUME NEW h \in Heights, NEW r \in Rounds
          PROVE  RoundExact(roundData'[h][r], V, P \union {m}, h, r)
      <3>1. CASE h = m.h /\ r = m.r
        BY Zenon, <3>1, <2>3, <2>4
      <3>2. CASE ~(h = m.h /\ r = m.r)
        <4>1. roundData'[h][r] = roundData[h][r]
          BY Zenon, <3>2, <2>4
        <4>2. RoundExact(roundData[h][r], V, P, h, r)
          BY Zenon, IInvUnfolded
        <4> QED
          BY Zenon, <3>2, <4>1, <4>2 DEF RoundExact
      <3> QED
        BY Zenon, <3>1, <3>2
    <2>6. TypeOK'
      BY Zenon, <2>1, <2>2, <2>4 DEF IInv, TypeOK
    <2>7. \A n \in received'.votes \union received'.proposals : n.h >= currentHeight'
      BY Zenon, <2>1, <2>2, IInvUnfolded
    <2> QED
      BY Zenon, <2>2, <2>5, <2>6, <2>7 DEF IInv, CountersExact
  <1>2. CASE ~AcceptsProposal(m)
    BY Zenon, <1>2, IInvStutter DEF AddProposal, vars
  <1> QED
    BY Zenon, <1>1, <1>2

LEMMA StartNewHeightIInv ==
    ASSUME IInv, StartNewHeight
    PROVE  IInv'
  <1> DEFINE V == {m \in received.votes : m.h > currentHeight}
             P == {m \in received.proposals : m.h > currentHeight}
  <1>0. /\ currentHeight \in Heights /\ currentHeight + 1 \in Heights
        /\ roundData \in [Heights -> [Rounds -> RoundData]]
        /\ \A h \in Heights : h \in Int
        /\ \A m \in received.votes \union received.proposals : m.h \in Heights
    BY BoundsAssumption DEF StartNewHeight, IInv, TypeOK, Heights, Vote, Proposal
  <1>1. /\ currentHeight' = currentHeight + 1
        /\ roundData' = [roundData EXCEPT ![currentHeight] = [r \in Rounds |-> NewRoundData]]
        /\ received' = [votes |-> V, proposals |-> P]
    BY Zenon DEF StartNewHeight
  <1>2. /\ V \in SUBSET Vote /\ P \in SUBSET Proposal
        /\ received'.votes = V /\ received'.proposals = P
    BY Zenon, <1>1, IInvUnfolded
  <1>3. \A m \in V \union P : m.h >= currentHeight'
    BY <1>0, <1>1
  <1>4. \A h \in Heights, r \in Rounds :
           roundData'[h][r] = IF h = currentHeight THEN NewRoundData ELSE roundData[h][r]
    BY Zenon, <1>0, <1>1
  <1>5. ASSUME NEW h \in Heights, NEW r \in Rounds
        PROVE  RoundExact(roundData'[h][r], V, P, h, r)
    <2>1. CASE h = currentHeight
      <3>1. \A m \in V \union P : ~(m.h = h /\ m.r = r)
        BY <1>0, <2>1
      <3> QED
        BY <1>2, <1>4, <2>1, <3>1, NewRoundExact
    <2>2. CASE h # currentHeight
      <3>1. RoundExact(roundData[h][r], received.votes, received.proposals, h, r)
        BY Zenon, IInvUnfolded
      <3>2. ASSUME NEW t \in VoteType, NEW id \in Ids
            PROVE  Voters(V, t, h, r, id) = Voters(received.votes, t, h, r, id)
        <4> SUFFICES ASSUME NEW a \in Addr,
                            [type |-> t, h |-> h, r |-> r, from |-> a, id |-> id] \in received.votes
                     PROVE  [type |-> t, h |-> h, r |-> r, from |-> a, id |-> id].h > currentHeight
          BY Zenon DEF Voters
        <4> DEFINE m == [type |-> t, h |-> h, r |-> r, from |-> a, id |-> id]
        <4>1. m.h = h
          BY Zenon
        <4>2. m.h >= currentHeight
          BY Zenon, IInvUnfolded
        <4> QED
          BY <1>0, <2>2, <4>1, <4>2
      <3>3. \A t \in VoteType : AnyVoters(V, t, h, r) = AnyVoters(received.votes, t, h, r)
        BY Zenon, <3>2 DEF AnyVoters
      <3>4. /\ \A id \in Ids : BallotsFor(V, h, r, id) = BallotsFor(received.votes, h, r, id)
            /\ AllBallots(V, h, r) = AllBallots(received.votes, h, r)
        BY Zenon, <3>2, <3>3 DEF BallotsFor, AllBallots
      <3>5. \A m \in received.proposals : m.h = h => m \in P
        BY <1>0, <2>2, IInvUnfolded
      <3>6. roundData'[h][r] = roundData[h][r]
        BY Zenon, <1>4, <2>2
      <3>7. RoundExact(roundData[h][r], V, P, h, r)
        BY Zenon, <3>1, <3>4, <3>5 DEF RoundExact
      <3> QED
        BY Zenon, <3>6, <3>7
    <2> QED
      BY Zenon, <2>1, <2>2
  <1>6. TypeOK'
    <2>1. [r \in Rounds |-> NewRoundData] \in [Rounds -> RoundData]
      BY Zenon, <1>0, NewRound
    <2> QED
      BY Zenon, <1>0, <1>1, <1>2, <2>1 DEF TypeOK
  <1> QED
    BY ZenonT(40), <1>2, <1>3, <1>5, <1>6 DEF IInv, CountersExact

LEMMA NextIInv == IInv /\ [Next]_vars => IInv'
  <1> SUFFICES ASSUME IInv, [Next]_vars
               PROVE  IInv'
    BY Zenon
  <1>1. ASSUME NEW m \in Proposal, AddProposal(m) PROVE IInv'
    BY Zenon, <1>1, AddProposalIInv
  <1>2. ASSUME NEW m \in Vote, AddVote(m) PROVE IInv'
    BY Zenon, <1>2, AddVoteIInv
  <1>3. CASE StartNewHeight
    BY Zenon, <1>3, StartNewHeightIInv
  <1>4. CASE UNCHANGED vars
    BY Zenon, <1>4, IInvStutter
  <1> QED
    BY Zenon, <1>1, <1>2, <1>3, <1>4 DEF Next

-----------------------------------------------------------------------------
\* The variables of the vote counter keep their types.
THEOREM TypeCorrect == Spec => []TypeOK
  <1>1. IInv => TypeOK
    BY Zenon DEF IInv
  <1> QED
    BY <1>1, InitIInv, NextIInv, PTL DEF Spec

\* The incremental bookkeeping of add, addVote, setProposal and StartNewHeight
\* equals a recount of the received messages, whatever their order.
THEOREM CountersAreExact == Spec => []CountersExact
  <1>1. IInv => CountersExact
    BY Zenon DEF IInv
  <1> QED
    BY <1>1, InitIInv, NextIInv, PTL DEF Spec

\* Hence the counter's answers to the state machine are the truth about what was
\* received: quorums for an id and for any id, "more than f senders", the proposal
\* of a round, and whether a vote is new.
THEOREM AnswersAreExact == Spec => []AnswersExact
  <1>1. ASSUME IInv PROVE AnswersExact
    <2> DEFINE V == received.votes
               P == received.proposals
               h == currentHeight
    <2>0. h \in Heights
      BY Zenon, <1>1 DEF IInv, TypeOK
    <2>1. ASSUME NEW m \in Vote, m.h >= h
          PROVE  m.type \notin roundData[m.h][m.r].perID[m.id].ballots[m.from] <=> m \notin V
      <3>1. /\ m.h \in Heights /\ m.r \in Rounds /\ m.id \in Ids /\ m.from \in Addr
            /\ m.type \in VoteType
        BY Zenon DEF Vote
      <3>2. roundData[m.h][m.r].perID[m.id].ballots = BallotsFor(V, m.h, m.r, m.id)
        <4>1. RoundExact(roundData[m.h][m.r], V, P, m.h, m.r)
          BY Zenon, <1>1, <3>1, IInvUnfolded
        <4> QED
          BY Zenon, <3>1, <4>1 DEF RoundExact
      <3>3. m.type \in BallotsFor(V, m.h, m.r, m.id)[m.from] <=>
               m.from \in Voters(V, m.type, m.h, m.r, m.id)
        BY Zenon, <3>1 DEF BallotsFor
      <3>4. m.from \in Voters(V, m.type, m.h, m.r, m.id) <=> m \in V
        <4>1. m = [type |-> m.type, h |-> m.h, r |-> m.r, from |-> m.from, id |-> m.id]
          BY Zenon DEF Vote
        <4> QED
          BY Zenon, <3>1, <4>1 DEF Voters
      <3> QED
        BY Zenon, <3>2, <3>3, <3>4
    <2>2. \A m \in Vote : AcceptsVote(m) <=> m.h >= h /\ m \notin V
      BY Zenon, <2>1 DEF AcceptsVote, IsNewBallot
    <2>3. ASSUME NEW r \in Rounds
          PROVE  /\ \A t \in VoteType :
                       /\ HasQuorumForAny(r, t) <=> IsQuorum(h, AnyVoters(V, t, h, r))
                       /\ \A id \in Ids :
                             HasQuorumForVote(r, t, id) <=> IsQuorum(h, Voters(V, t, h, r, id))
                 /\ HasNonFaultyFutureMessage(r) <=> HasNonFaulty(h, Senders(V, P, h, r))
                 /\ GetProposal(r) # NoProposal <=> \E m \in P : m.h = h /\ m.r = r
      <3> DEFINE rd == roundData[h][r]
      <3>0. RoundExact(rd, V, P, h, r) /\ rd \in RoundData
        BY Zenon, <1>1, <2>0, IInvUnfolded
      <3>1. ASSUME NEW t \in VoteType
            PROVE  CountAny(rd, t) = Power[h][AnyVoters(V, t, h, r)]
        <4>1. {a \in Addr : t \in rd.allVotes.ballots[a]} = AnyVoters(V, t, h, r)
          <5>1. rd.allVotes.ballots = [a \in Addr |-> {s \in VoteType : a \in AnyVoters(V, s, h, r)}]
            BY Zenon, <3>0 DEF RoundExact, AllBallots
          <5>2. AnyVoters(V, t, h, r) \subseteq Addr
            BY Zenon DEF AnyVoters
          <5> QED
            BY Zenon, <5>1, <5>2
        <4> QED
          BY Zenon, <3>0, <4>1 DEF RoundExact, TotalsExact, CountAny
      <3>2. ASSUME NEW t \in VoteType, NEW id \in Ids
            PROVE  CountVote(rd, t, id) = Power[h][Voters(V, t, h, r, id)]
        <4>1. {a \in Addr : t \in rd.perID[id].ballots[a]} = Voters(V, t, h, r, id)
          <5>1. rd.perID[id].ballots = [a \in Addr |-> {s \in VoteType : a \in Voters(V, s, h, r, id)}]
            BY Zenon, <3>0 DEF RoundExact, BallotsFor
          <5>2. Voters(V, t, h, r, id) \subseteq Addr
            BY Zenon DEF Voters
          <5> QED
            BY Zenon, <5>1, <5>2
        <4> QED
          BY ZenonT(40), <3>0, <4>1 DEF RoundExact, TotalsExact, CountVote
      <3>3. CountFutureMessageSenders(rd) = Power[h][Senders(V, P, h, r)]
        BY Zenon, <1>1, <2>0, <3>0, IInvUnfolded, SendersCounted
      <3>4. rd.proposal # NoProposal <=> \E m \in P : m.h = h /\ m.r = r
        <4>1. ASSUME NEW m \in P, m.h = h, m.r = r, rd.proposal = NoProposal
              PROVE  FALSE
          <5>1. rd.proposal.value = m.value
            BY Zenon, <3>0, <4>1 DEF RoundExact
          <5>2. m.value \in Hash /\ rd.proposal.value = Nil
            BY <1>1, <4>1, IInvUnfolded DEF Proposal, NoProposal
          <5> QED
            BY Zenon, <5>1, <5>2, NilAssumption
        <4> QED
          BY Zenon, <3>0, <4>1 DEF RoundExact
      <3> HIDE DEF V, P
      <3> QED
        BY Zenon, <3>1, <3>2, <3>3, <3>4 DEF HasQuorumForAny, HasQuorumForVote, IsQuorum,
           HasNonFaultyFutureMessage, HasNonFaulty, GetProposal
    <2> QED
      BY Zenon, <2>2, <2>3 DEF AnswersExact
  <1> QED
    BY <1>1, InitIInv, NextIInv, PTL DEF Spec

\* A round's proposal is never replaced while its height lasts.
THEOREM ProposalsNeverReplaced == Spec => ProposalsStick
  <1> DEFINE Stick == \A h \in Heights, r \in Rounds :
                (h >= currentHeight' /\ roundData[h][r].proposal # NoProposal)
                   => roundData'[h][r].proposal = roundData[h][r].proposal
  <1>1. IInv /\ [Next]_vars => [Stick]_vars
    <2> SUFFICES ASSUME IInv, Next, NEW h \in Heights, NEW r \in Rounds,
                        h >= currentHeight', roundData[h][r].proposal # NoProposal
                 PROVE  roundData'[h][r].proposal = roundData[h][r].proposal
      BY Zenon DEF vars
    <2>0. roundData \in [Heights -> [Rounds -> RoundData]] /\ currentHeight \in Heights
      BY Zenon DEF IInv, TypeOK
    <2>1. ASSUME NEW m \in Proposal, AddProposal(m)
          PROVE  roundData'[h][r].proposal = roundData[h][r].proposal
      BY <2>0, <2>1 DEF AddProposal, AcceptsProposal, Proposal
    <2>2. ASSUME NEW m \in Vote, AddVote(m)
          PROVE  roundData'[h][r].proposal = roundData[h][r].proposal
      BY SMTT(40), <2>0, <2>2 DEF AddVote, AddVoteTo, Vote
    <2>3. CASE StartNewHeight
      <3>1. h # currentHeight
        BY <2>0, <2>3, BoundsAssumption DEF StartNewHeight, Heights
      <3> QED
        BY Zenon, <2>0, <2>3, <3>1 DEF StartNewHeight
    <2> QED
      BY Zenon, <2>1, <2>2, <2>3 DEF Next
  <1> QED
    BY <1>1, InitIInv, NextIInv, PTL DEF Spec, ProposalsStick
=============================================================================
