---------------------------- MODULE VoteCounter ----------------------------
(***************************************************************************)
(* consensus/votecounter: the incremental counters a validator keeps of    *)
(* the proposals and votes it received, for its current height and for     *)
(* heights it has not reached yet.                                         *)
(*                                                                         *)
(* roundData[h][r] is v.roundData[r] for the current height and            *)
(* v.futureMessages[h][r] above it; an entry that was never created equals *)
(* NewRoundData.  The code creates entries lazily, which no query can      *)
(* tell from an empty one, because a quorum has positive power.            *)
(***************************************************************************)
EXTENDS Votes

VARIABLES
    currentHeight,
    roundData,
    received    \* ghost: every message at a height >= currentHeight ever offered
                \* and not refused (wrong proposer, second proposal)
vars == <<currentHeight, roundData, received>>

NoProposal == [from |-> Nil, value |-> Nil, vr |-> -1]
HeldProposal == [from : Addr \union {Nil}, value : Hash \union {Nil}, vr : Rounds \union {-1}]

-----------------------------------------------------------------------------
\* ballot.go
BallotSet == [ballots : [Addr -> SUBSET VoteType],
              perVoteType : [VoteType -> Nat],
              total : Nat]

NewBallotSet == [ballots |-> [a \in Addr |-> {}],
                 perVoteType |-> [t \in VoteType |-> 0],
                 total |-> 0]

IsNewBallot(b, addr, t) == t \notin b.ballots[addr]

\* Mutant of Add: the "already voted" test is missing.
AddTwice(b, addr, addrPower, t) ==
    [ballots |-> [b.ballots EXCEPT ![addr] = @ \union {t}],
     perVoteType |-> [b.perVoteType EXCEPT ![t] = @ + addrPower],
     total |-> b.total + IF b.ballots[addr] = {} THEN addrPower ELSE 0]

Add(b, addr, addrPower, t) ==
    [ballots |-> [b.ballots EXCEPT ![addr] = @ \union {t}],
     perVoteType |-> [b.perVoteType EXCEPT
                        ![t] = @ + IF IsNewBallot(b, addr, t) THEN addrPower ELSE 0],
     total |-> b.total + IF b.ballots[addr] = {} THEN addrPower ELSE 0]

-----------------------------------------------------------------------------
\* round_data.go
RoundData == [proposal : HeldProposal,
              uncountedProposerPower : Nat,
              perID : [Ids -> BallotSet],     \* perIDVotes, and nilVotes at Nil
              allVotes : BallotSet]

NewRoundData == [proposal |-> NoProposal,
                 uncountedProposerPower |-> 0,
                 perID |-> [id \in Ids |-> NewBallotSet],
                 allVotes |-> NewBallotSet]

SetProposal(rd, from, value, vr, votingPower) ==
    [proposal |-> [from |-> from, value |-> value, vr |-> vr],
     uncountedProposerPower |->
        IF rd.allVotes.ballots[from] = {} THEN votingPower ELSE rd.uncountedProposerPower,
     perID |-> rd.perID,
     allVotes |-> rd.allVotes]

AddVoteTo(rd, from, id, votingPower, t) ==
    [proposal |-> rd.proposal,
     uncountedProposerPower |-> IF rd.proposal.from = from THEN 0 ELSE rd.uncountedProposerPower,
     perID |-> [rd.perID EXCEPT ![id] = Add(@, from, votingPower, t)],
     allVotes |-> Add(rd.allVotes, from, votingPower, t)]

CountVote(rd, t, id) == rd.perID[id].perVoteType[t]
CountAny(rd, t) == rd.allVotes.perVoteType[t]
CountFutureMessageSenders(rd) == rd.allVotes.total + rd.uncountedProposerPower

-----------------------------------------------------------------------------
\* vote_counter.go
Init ==
    /\ currentHeight = 0
    /\ roundData = [h \in Heights |-> [r \in Rounds |-> NewRoundData]]
    /\ received = [votes |-> {}, proposals |-> {}]

\* Mutant of AcceptsProposal: a later proposal replaces the first.
AcceptsAnyProposal(m) == m.h >= currentHeight /\ m.from = Proposer[m.h][m.r]

\* AddProposal refuses a past height, somebody else's round, and a second
\* proposal for the round.
AcceptsProposal(m) ==
    /\ m.h >= currentHeight
    /\ m.from = Proposer[m.h][m.r]
    /\ roundData[m.h][m.r].proposal = NoProposal

AddProposal(m) ==
    /\ IF AcceptsProposal(m)
       THEN /\ roundData' = [roundData EXCEPT ![m.h][m.r] =
                                SetProposal(@, m.from, m.value, m.vr, Power[m.h][{m.from}])]
            /\ received' = [received EXCEPT !.proposals = @ \union {m}]
       ELSE UNCHANGED <<roundData, received>>
    /\ UNCHANGED currentHeight

\* Mutant of AcceptsVote: a second vote of the type is refused whatever its id.
AcceptsFirstVote(m) ==
    m.h >= currentHeight /\ IsNewBallot(roundData[m.h][m.r].allVotes, m.from, m.type)

\* What AddPrevote and AddPrecommit return.
AcceptsVote(m) ==
    m.h >= currentHeight /\ IsNewBallot(roundData[m.h][m.r].perID[m.id], m.from, m.type)

\* AddPrevote and AddPrecommit: the bookkeeping is updated whatever they return.
AddVote(m) ==
    /\ IF m.h >= currentHeight
       THEN /\ roundData' = [roundData EXCEPT ![m.h][m.r] =
                  AddVoteTo(@, m.from, m.id, Power[m.h][{m.from}], m.type)]
            /\ received' = [received EXCEPT !.votes = @ \union {m}]
       ELSE UNCHANGED <<roundData, received>>
    /\ UNCHANGED currentHeight

StartNewHeight ==
    /\ currentHeight < MaxHeight
    /\ currentHeight' = currentHeight + 1
    /\ roundData' = [roundData EXCEPT ![currentHeight] = [r \in Rounds |-> NewRoundData]]
    /\ received' = [votes |-> {m \in received.votes : m.h > currentHeight},
                    proposals |-> {m \in received.proposals : m.h > currentHeight}]

\* The queries, of the current height unless they name one.
GetProposal(r) == roundData[currentHeight][r].proposal
HasQuorumForVote(r, t, id) ==
    CountVote(roundData[currentHeight][r], t, id) >= q(TotalVotingPower(currentHeight))
HasQuorumForAny(r, t) ==
    CountAny(roundData[currentHeight][r], t) >= q(TotalVotingPower(currentHeight))
HasFuturePrecommitQuorum(h, r, id) ==
    CountVote(roundData[h][r], Precommit, id) >= q(TotalVotingPower(currentHeight))
HasNonFaultyFutureMessage(r) ==
    CountFutureMessageSenders(roundData[currentHeight][r]) > f(TotalVotingPower(currentHeight))

Next ==
    \/ \E m \in Proposal : AddProposal(m)
    \/ \E m \in Vote : AddVote(m)
    \/ StartNewHeight

Spec == Init /\ [][Next]_vars

-----------------------------------------------------------------------------
TypeOK ==
    /\ currentHeight \in Heights
    /\ roundData \in [Heights -> [Rounds -> RoundData]]
    /\ received \in [votes : SUBSET Vote, proposals : SUBSET Proposal]

\* The ballots cast for id, or for any id, in round r of height h.
BallotsFor(V, h, r, id) == [a \in Addr |-> {t \in VoteType : a \in Voters(V, t, h, r, id)}]
AllBallots(V, h, r) == [a \in Addr |-> {t \in VoteType : a \in AnyVoters(V, t, h, r)}]

\* The totals of b are the powers, at height h, of those who cast its ballots.
TotalsExact(b, h) ==
    /\ \A t \in VoteType : b.perVoteType[t] = Power[h][{a \in Addr : t \in b.ballots[a]}]
    /\ b.total = Power[h][{a \in Addr : b.ballots[a] # {}}]

\* The data rd of round r of height h is what recounting the messages V and P
\* would give; the power of the proposer is uncounted until it votes.
RoundExact(rd, V, P, h, r) ==
    /\ \A id \in Ids : /\ rd.perID[id].ballots = BallotsFor(V, h, r, id)
                        /\ TotalsExact(rd.perID[id], h)
    /\ rd.allVotes.ballots = AllBallots(V, h, r)
    /\ TotalsExact(rd.allVotes, h)
    /\ \A m \in P : m.h = h /\ m.r = r =>
              rd.proposal.from = m.from /\ rd.proposal.value = m.value
    /\ rd.proposal # NoProposal => \E m \in P : m.h = h /\ m.r = r
    /\ rd.uncountedProposerPower =
          IF rd.proposal # NoProposal /\ rd.allVotes.ballots[rd.proposal.from] = {}
          THEN Power[h][{rd.proposal.from}] ELSE 0

\* The running totals of add, setProposal and addVote are exact at every height:
\* however votes are repeated, equivocated or received before their height
\* starts, each validator's power enters each total once, and nothing is kept of
\* the heights StartNewHeight has left.
CountersExact ==
    /\ \A m \in received.votes \union received.proposals : m.h >= currentHeight
    /\ \A h \in Heights, r \in Rounds :
          RoundExact(roundData[h][r], received.votes, received.proposals, h, r)

\* What the state machine is told about its height is true of the messages it
\* received for it, those that came before the height started included: the
\* answers of HasQuorumForVote, HasQuorumForAny, HasNonFaultyFutureMessage and
\* GetProposal, and that AddPrevote and AddPrecommit return true exactly for a
\* vote not seen before, so that no vote is processed twice.
AnswersExact ==
    /\ \A m \in Vote : AcceptsVote(m) <=> m.h >= currentHeight /\ m \notin received.votes
    /\ \A r \in Rounds :
       LET V == received.votes
           P == received.proposals
           h == currentHeight
       IN  /\ \A t \in VoteType :
                 /\ HasQuorumForAny(r, t) <=> IsQuorum(h, AnyVoters(V, t, h, r))
                 /\ \A id \in Ids :
                       HasQuorumForVote(r, t, id) <=> IsQuorum(h, Voters(V, t, h, r, id))
           /\ HasNonFaultyFutureMessage(r) <=> HasNonFaulty(h, Senders(V, P, h, r))
           /\ GetProposal(r) # NoProposal <=> \E m \in P : m.h = h /\ m.r = r

\* setProposal never replaces a proposal: while the height lasts, the proposal
\* the rules read for a round stays the first one accepted.
ProposalsStick ==
    [][\A h \in Heights, r \in Rounds :
          (h >= currentHeight' /\ roundData[h][r].proposal # NoProposal)
             => roundData'[h][r].proposal = roundData[h][r].proposal]_vars
=============================================================================
