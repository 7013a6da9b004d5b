-------------------------- MODULE TendermintProofs --------------------------
(***************************************************************************)
(* Agreement of the Tendermint state machines, for every set of            *)
(* validators, distribution of power, number of heights and rounds, network*)
(* and behaviour of faulty validators within FaultyAssumption.  First the  *)
(* inductive invariant and the votes, valid values, rounds and commits that*)
(* preserve it; then why it implies agreement, and why f + 1 messages of a *)
(* round include one of a correct validator in it.                         *)
(***************************************************************************)
EXTENDS Tendermint, TLAPS, WellFoundedInduction

Polka(h, r, v) == IsQuorum(h, Voters(AllVotes, Prevote, h, r, v))
CommitQuorum(h, r, v) == IsQuorum(h, Voters(AllVotes, Precommit, h, r, v))

\* Where a validator is bounds what it has sent: one vote of a type per round,
\* and nothing of a round it has yet to reach.
Placed ==
    /\ \A m \in sentVotes :
          /\ m.h <= height[m.from]
          /\ m.h = height[m.from] =>
                /\ pc[m.from] # "start"
                /\ m.r <= round[m.from]
                /\ m.r = round[m.from] /\ m.type = Prevote => step[m.from] # StepPropose
                /\ m.r = round[m.from] /\ m.type = Precommit => step[m.from] = StepPrecommit
    /\ \A m \in sentProposals :
          /\ m.h <= height[m.from]
          /\ m.h = height[m.from] => pc[m.from] # "start" /\ m.r <= round[m.from]

\* Rules run inside a height.
Running == \A p \in Correct : /\ pc[p] # "start" => height[p] \in Heights
                              /\ pc[p] = "start" => locked[p] = Unset /\ valid[p] = Unset

\* Votes are not forged on the way.
Heard == \A p \in Correct : votes[p] \subseteq AllVotes

\* A locked or valid value has had a polka in its round; the lock of the current
\* round comes with the precommit.
MarkJustified(p, mark) ==
    /\ mark.round <= round[p]
    /\ mark.value # Nil <=> mark.round # -1
    /\ mark.round # -1 => Polka(height[p], mark.round, mark.value)
LocksJustified ==
    \A p \in Correct :
       /\ MarkJustified(p, locked[p])
       /\ MarkJustified(p, valid[p])
       /\ locked[p].round = round[p] => step[p] = StepPrecommit

\* Who precommitted a value is still locked on it, or on a later one.
Held ==
    \A m \in sentVotes : m.type = Precommit /\ m.id # Nil /\ m.h = height[m.from] =>
       /\ locked[m.from].round >= m.r
       /\ locked[m.from].round = m.r => locked[m.from].value = m.id

\* Who precommitted a value prevotes another only after a polka for that one, in
\* the round of the precommit or later.
ReleasedBy(m, n) == \E r \in Rounds : m.r <= r /\ r < n.r /\ Polka(m.h, r, n.id)
Released ==
    \A m, n \in sentVotes :
       /\ m.from = n.from /\ m.h = n.h /\ m.r < n.r
       /\ m.type = Precommit /\ m.id # Nil
       /\ n.type = Prevote /\ n.id # Nil /\ n.id # m.id
       => ReleasedBy(m, n)

\* Rule 49 commits on a quorum of precommits of one round.
DecisionsJustified ==
    \A p \in Correct, h \in Heights : decided[p][h] # Nil =>
       \E r \in Rounds : CommitQuorum(h, r, decided[p][h])

IInv ==
    /\ TypeOK /\ Running /\ Placed /\ NoEquivocation /\ Heard /\ ClaimsJustified
    /\ LocksJustified /\ Held /\ Released /\ DecisionsJustified

-----------------------------------------------------------------------------
\* Quorums.

\* Two sets of power q(n) share more than f(n); validators without the faulty
\* ones are a quorum.  n is the total voting power, of which TotalVotingPower
\* promises nothing but that it is positive.
LEMMA Thresholds ==
    ASSUME NEW n \in Nat, n > 0
    PROVE  /\ f(n) \in Nat /\ q(n) \in Nat
           /\ q(n) > 0 /\ q(n) <= n
           /\ 2 * q(n) - n > f(n)
           /\ n - f(n) >= q(n)
  BY DEF f, q

\* Power is monotone.
LEMMA PowerMonotone ==
    ASSUME NEW h \in Heights, NEW S \in SUBSET Addr, NEW T \in SUBSET Addr, S \subseteq T
    PROVE  /\ Power[h][S] \in Nat /\ Power[h][T] \in Nat
           /\ Power[h][S] <= Power[h][T]
  <1>1. S \union (T \ S) = T /\ S \intersect (T \ S) = {} /\ T \ S \in SUBSET Addr
    BY Zenon
  <1>2. Power[h][T] = Power[h][S] + Power[h][T \ S]
    BY <1>1, PowerAssumption
  <1>3. Power[h][S] \in Nat /\ Power[h][T] \in Nat /\ Power[h][T \ S] \in Nat
    BY <1>1, PowerAssumption
  <1> QED
    BY <1>2, <1>3

\* Any two quorums of a height have more than the faulty power in common.
LEMMA QuorumsIntersect ==
    ASSUME NEW h \in Heights, NEW S \in SUBSET Addr, NEW T \in SUBSET Addr,
           IsQuorum(h, S), IsQuorum(h, T)
    PROVE  HasNonFaulty(h, S \intersect T)
  <1> DEFINE I == S \intersect T
             n == TotalVotingPower(h)
  <1>1. /\ Power[h][S] \in Nat /\ Power[h][T] \in Nat /\ Power[h][I] \in Nat
        /\ Power[h][S \ I] \in Nat /\ n \in Nat /\ n > 0
    BY Zenon, PowerAssumption DEF TotalVotingPower
  <1>2. Power[h][S] = Power[h][I] + Power[h][S \ I]
    <2>1. S = I \union (S \ I) /\ I \intersect (S \ I) = {}
      BY Zenon
    <2> QED
      BY <2>1, PowerAssumption
  <1>3. Power[h][(S \ I) \union T] = Power[h][S \ I] + Power[h][T]
    <2>1. (S \ I) \intersect T = {}
      BY Zenon
    <2> QED
      BY Zenon, <2>1, PowerAssumption
  <1>4. Power[h][(S \ I) \union T] \in Nat /\ Power[h][(S \ I) \union T] <= n
    BY Zenon, PowerMonotone, (S \ I) \union T \in SUBSET Addr, Addr \in SUBSET Addr
       DEF TotalVotingPower
  <1>5. 2 * q(n) - n > f(n) /\ q(n) \in Nat /\ f(n) \in Nat
    BY Zenon, <1>1, Thresholds
  <1> QED
    BY <1>1, <1>2, <1>3, <1>4, <1>5 DEF IsQuorum, HasNonFaulty
\* More votes make no quorum disappear.
LEMMA QuorumGrows ==
    ASSUME NEW V, NEW W, V \subseteq W, NEW t, NEW h \in Heights, NEW r, NEW id,
           IsQuorum(h, Voters(V, t, h, r, id))
    PROVE  IsQuorum(h, Voters(W, t, h, r, id))
  <1> DEFINE A == Voters(V, t, h, r, id)
             B == Voters(W, t, h, r, id)
  <1>1. A \in SUBSET Addr /\ B \in SUBSET Addr /\ A \subseteq B
    BY Zenon DEF Voters
  <1>2. Power[h][A] \in Nat /\ Power[h][B] \in Nat /\ Power[h][A] <= Power[h][B]
    BY Zenon, <1>1, PowerMonotone
  <1>3. q(TotalVotingPower(h)) \in Nat
    BY Thresholds, PowerAssumption, Addr \in SUBSET Addr DEF TotalVotingPower
  <1> QED
    BY <1>2, <1>3 DEF IsQuorum

\* The record of a vote is what is known of it.
VoteOf(t, h, r, p, id) == [type |-> t, h |-> h, r |-> r, from |-> p, id |-> id]

LEMMA VoterSent ==
    ASSUME NEW t, NEW h, NEW r, NEW id, NEW p \in Correct,
           p \in Voters(AllVotes, t, h, r, id)
    PROVE  VoteOf(t, h, r, p, id) \in sentVotes
  <1>1. VoteOf(t, h, r, p, id) \in sentVotes \union FaultyVotes
    BY Zenon DEF Voters, AllVotes, VoteOf
  <1>2. VoteOf(t, h, r, p, id).from = p
    BY Zenon DEF VoteOf
  <1> QED
    BY Zenon, <1>1, <1>2, FaultyAssumption DEF Correct

LEMMA VoteFields ==
    ASSUME NEW t, NEW h, NEW r, NEW p, NEW id
    PROVE  LET m == VoteOf(t, h, r, p, id)
           IN  m.type = t /\ m.h = h /\ m.r = r /\ m.from = p /\ m.id = id
  BY Zenon DEF VoteOf

-----------------------------------------------------------------------------
\* The invariant is inductive.

LEMMA PolkasStay ==
    ASSUME sentVotes \subseteq sentVotes'
    PROVE  /\ AllVotes \subseteq AllVotes'
           /\ \A h \in Heights, r \in Rounds, v \in Ids : Polka(h, r, v) => Polka(h, r, v)'
           /\ \A h \in Heights, r \in Rounds, v \in Ids :
                 CommitQuorum(h, r, v) => CommitQuorum(h, r, v)'
  <1>1. AllVotes \subseteq AllVotes'
    BY Zenon DEF AllVotes
  <1> QED
    BY Zenon, <1>1, QuorumGrows DEF Polka, CommitQuorum

\* A vote its vote counter holds a quorum of has one.
LEMMA HeardQuorum ==
    ASSUME IInv, NEW p \in Correct, height[p] \in Heights, NEW r \in Rounds, NEW v \in Ids
    PROVE  /\ HasQuorumForVote(p, r, Prevote, v) => Polka(height[p], r, v)
           /\ HasQuorumForVote(p, r, Precommit, v) => CommitQuorum(height[p], r, v)
  <1>1. votes[p] \subseteq AllVotes
    BY Zenon DEF IInv, Heard
  <1> QED
    BY Zenon, <1>1, QuorumGrows DEF Polka, CommitQuorum, HasQuorumForVote

LEMMA InitIInv ==
    ASSUME Init
    PROVE  IInv
  <1>1. TypeOK
    BY BoundsAssumption, NilAssumption
       DEF Init, TypeOK, Heights, Rounds, Step, StepPropose, Marked, Unset, Ids
  <1>2. Running /\ Placed /\ NoEquivocation /\ Heard /\ ClaimsJustified /\ Held /\ Released
    BY Zenon DEF Init, Running, Placed, NoEquivocation, Heard, ClaimsJustified, Held, Released
  <1>3. LocksJustified
    BY DEF Init, LocksJustified, MarkJustified, Unset
  <1>4. DecisionsJustified
    BY Zenon DEF Init, DecisionsJustified
  <1> QED
    BY Zenon, <1>1, <1>2, <1>3, <1>4 DEF IInv

\* Steps that neither send nor move a validator.
LEMMA QuietStep ==
    ASSUME IInv, TypeOK', Heard',
           UNCHANGED <<height, round, step, locked, valid, decided, sentVotes, sentProposals>>,
           \A p \in Correct : pc'[p] = "start" <=> pc[p] = "start"
    PROVE  IInv'
  <1>1. AllVotes' = AllVotes
    BY Zenon DEF AllVotes
  <1>2. Running' /\ Placed'
    <2>1. \A m \in sentVotes \union sentProposals : m.from \in Correct
      BY Zenon DEF IInv, TypeOK
    <2> QED
      BY Zenon, <2>1 DEF IInv, Running, Placed
  <1>3. NoEquivocation' /\ Held'
    BY Zenon DEF IInv, NoEquivocation, Held
  <1>4. ClaimsJustified'
    BY Zenon, <1>1 DEF IInv, ClaimsJustified
  <1>5. \A h, r, v : Polka(h, r, v)' = Polka(h, r, v) /\ CommitQuorum(h, r, v)' = CommitQuorum(h, r, v)
    BY Zenon, <1>1 DEF Polka, CommitQuorum
  <1>6. LocksJustified'
    BY Zenon, <1>5 DEF IInv, LocksJustified, MarkJustified
  <1>7. Released'
    BY Zenon, <1>5 DEF IInv, Released, ReleasedBy
  <1>8. DecisionsJustified'
    BY Zenon, <1>5 DEF IInv, DecisionsJustified
  <1> QED
    BY Zenon, <1>2, <1>3, <1>4, <1>6, <1>7, <1>8 DEF IInv

\* A vote of type t for id is sent, and p moves to step s.
VoteStep(p, t, id, s) ==
    /\ pc[p] # "start" /\ height[p] \in Heights /\ t \in VoteType /\ id \in Ids
    /\ \/ t = Prevote /\ step[p] = StepPropose /\ s = StepPrevote
       \/ t = Precommit /\ step[p] = StepPrevote /\ s = StepPrecommit
    /\ SetStepAndSend(p, t, id, s)
    /\ UNCHANGED <<height, round, sentProposals>>
    /\ \A a \in Correct : pc'[a] = "start" <=> pc[a] = "start"

\* What sending the vote m makes of the variables it concerns.
VoteSent(m, s) ==
    /\ m \in Vote
    /\ votes' = [votes EXCEPT ![m.from] = @ \union {m}]
    /\ sentVotes' = sentVotes \union {m}
    /\ step' = [step EXCEPT ![m.from] = s]

LEMMA VoteStepSent ==
    ASSUME IInv, NEW p \in Correct, NEW t, NEW id, NEW s, VoteStep(p, t, id, s)
    PROVE  VoteSent(VoteOf(t, height[p], round[p], p, id), s)
  <1> DEFINE m == VoteOf(t, height[p], round[p], p, id)
  <1>1. /\ votes' = [votes EXCEPT ![p] = @ \union {m}]
        /\ sentVotes' = sentVotes \union {m}
        /\ step' = [step EXCEPT ![p] = s]
    BY Zenon DEF VoteStep, SetStepAndSend, VoteOf
  <1>2. round[p] \in Rounds /\ p \in Addr
    BY Zenon DEF IInv, TypeOK, Correct
  <1>3. m \in Vote
    BY Zenon, <1>2 DEF VoteStep, Vote, VoteOf
  <1>4. m.from = p
    BY VoteFields
  <1> HIDE DEF m
  <1>5. VoteSent(m, s)
    BY Zenon, <1>1, <1>3, <1>4 DEF VoteSent
  <1> QED
    BY Zenon, <1>5 DEF m

\* Votes are sent once per round, and in order.
LEMMA Voting ==
    ASSUME IInv, NEW p \in Correct, NEW t, NEW id, NEW s, VoteStep(p, t, id, s)
    PROVE  /\ votes' \in [Correct -> SUBSET Vote] /\ step' \in [Correct -> Step]
           /\ sentVotes' \in SUBSET {n \in Vote : n.from \in Correct}
           /\ Placed' /\ NoEquivocation' /\ Heard'
  <1> DEFINE m == VoteOf(t, height[p], round[p], p, id)
  <1>1. VoteSent(m, s)
    BY Zenon, VoteStepSent
  <1>2. m.type = t /\ m.h = height[p] /\ m.r = round[p] /\ m.from = p /\ m.id = id
    BY VoteFields
  <1> HIDE DEF m
  <1>3. /\ m \in Vote
        /\ votes' = [votes EXCEPT ![p] = @ \union {m}]
        /\ sentVotes' = sentVotes \union {m}
        /\ step' = [step EXCEPT ![p] = s]
    BY Zenon, <1>1, <1>2 DEF VoteSent
  <1>4. Placed /\ NoEquivocation /\ Heard
    BY Zenon DEF IInv
  <1>5. /\ step \in [Correct -> Step] /\ round \in [Correct -> Rounds]
        /\ height \in [Correct -> 0 .. MaxHeight + 1] /\ votes \in [Correct -> SUBSET Vote]
    BY Zenon DEF IInv, TypeOK
  <1>6. sentVotes \in SUBSET {n \in Vote : n.from \in Correct}
    BY Zenon DEF IInv, TypeOK
  <1>7. \A n \in sentVotes : n.from \in Correct /\ n.type \in VoteType /\ n.r \in Rounds
    BY Zenon, <1>6 DEF Vote
  <1>8. /\ height' = height /\ round' = round /\ sentProposals' = sentProposals
        /\ \A a \in Correct : pc'[a] = "start" <=> pc[a] = "start"
    BY Zenon DEF VoteStep
  <1>9. pc[p] # "start" /\ height[p] \in Heights
    BY Zenon DEF VoteStep
  <1>10. \/ t = Prevote /\ step[p] = StepPropose /\ s = StepPrevote
         \/ t = Precommit /\ step[p] = StepPrevote /\ s = StepPrecommit
    BY Zenon DEF VoteStep
  <1>11. votes' \in [Correct -> SUBSET Vote]
    BY Zenon, <1>3, <1>5
  <1>12. step' \in [Correct -> Step]
    BY Zenon, <1>3, <1>5, <1>10 DEF Step
  <1>13. sentVotes' \in SUBSET {n \in Vote : n.from \in Correct}
    BY Zenon, <1>2, <1>3, <1>6
  <1>14. \A n \in sentVotes : ~(n.type = t /\ n.h = height[p] /\ n.r = round[p] /\ n.from = p)
    BY Zenon, <1>4, <1>10 DEF Placed, StepPropose, StepPrevote, StepPrecommit
  <1>15. Placed'
    <2>1. \A n \in sentVotes : /\ n.h <= height'[n.from]
                               /\ n.h = height'[n.from] => pc'[n.from] # "start" /\ n.r <= round'[n.from]
      BY Zenon, <1>4, <1>7, <1>8 DEF Placed
    <2>2. \A n \in sentVotes : n.h = height'[n.from] /\ n.r = round'[n.from] =>
             /\ n.type = Prevote => step'[n.from] # StepPropose
             /\ n.type = Precommit => step'[n.from] = StepPrecommit
      BY Zenon, <1>3, <1>4, <1>5, <1>7, <1>8, <1>10 DEF Placed, StepPropose, StepPrevote, StepPrecommit
    <2>3. m.h <= height'[m.from] /\ pc'[m.from] # "start" /\ m.r <= round'[m.from]
      BY <1>2, <1>5, <1>8, <1>9, BoundsAssumption DEF Rounds, Heights
    <2>4. /\ m.type = Prevote => step'[m.from] # StepPropose
          /\ m.type = Precommit => step'[m.from] = StepPrecommit
      BY Zenon, <1>2, <1>3, <1>5, <1>10 DEF StepPropose, StepPrevote, StepPrecommit, Prevote, Precommit
    <2>5. \A n \in sentProposals : n.from \in Correct
      BY Zenon DEF IInv, TypeOK
    <2>6. \A n \in sentProposals' : /\ n.h <= height'[n.from]
                                    /\ n.h = height'[n.from] => pc'[n.from] # "start" /\ n.r <= round'[n.from]
      BY Zenon, <1>4, <1>8, <2>5 DEF Placed
    <2> QED
      BY Zenon, <1>3, <2>1, <2>2, <2>3, <2>4, <2>6 DEF Placed
  <1>16. NoEquivocation'
    BY <1>2, <1>3, <1>4, <1>8, <1>14 DEF NoEquivocation
  <1>17. Heard'
    BY Zenon, <1>3, <1>4, <1>5 DEF Heard, AllVotes
  <1> QED
    BY Zenon, <1>11, <1>12, <1>13, <1>15, <1>16, <1>17

\* What a lock allows its holder to prevote.
LockAllows(p, id) ==
    \/ id = Nil
    \/ locked[p].round = -1
    \/ locked[p].value = id
    \/ \E r \in Rounds : locked[p].round <= r /\ r < round[p] /\ Polka(height[p], r, id)

\* An admissible prevote leaves Released true: either the lock is on its value and
\* from a later round than the precommit, or the polka of its valid round is.
LEMMA PrevoteReleased ==
    ASSUME IInv, NEW p \in Correct, height[p] \in Heights, step[p] = StepPropose,
           NEW id \in Ids, LockAllows(p, id), NEW n, NEW m \in sentVotes,
           n.from = p, n.h = height[p], n.r = round[p], n.id = id,
           m.from = p, m.h = height[p], m.r < round[p],
           m.type = Precommit, m.id # Nil, id # Nil, id # m.id
    PROVE  ReleasedBy(m, n)
  <1>1. /\ locked[p] \in Marked /\ round[p] \in Rounds /\ m.r \in Rounds
    BY Zenon DEF IInv, TypeOK, Vote
  <1>2. locked[p].round \in Rounds \union {-1}
    BY Zenon, <1>1 DEF Marked
  <1>3. locked[p].round >= m.r /\ (locked[p].round = m.r => locked[p].value = m.id)
    BY Zenon DEF IInv, Held
  <1>4. locked[p].round \in Rounds /\ locked[p].round # -1
    BY <1>1, <1>2, <1>3, BoundsAssumption DEF Rounds
  <1>5. locked[p].round < round[p]
    <2>1. locked[p].round <= round[p] /\ locked[p].round # round[p]
      BY Zenon DEF IInv, LocksJustified, MarkJustified, StepPropose, StepPrecommit
    <2> QED
      BY SMTT(40), <2>1, <1>1, <1>4, BoundsAssumption DEF Rounds
  <1>6. CASE locked[p].value = id
    <2>1. Polka(height[p], locked[p].round, id)
      BY Zenon, <1>4, <1>6 DEF IInv, LocksJustified, MarkJustified
    <2> QED
      BY Zenon, <1>3, <1>4, <1>5, <2>1, BoundsAssumption DEF ReleasedBy, Rounds
  <1>7. CASE \E r \in Rounds : locked[p].round <= r /\ r < round[p] /\ Polka(height[p], r, id)
    <2>1. PICK r \in Rounds : locked[p].round <= r /\ r < round[p] /\ Polka(height[p], r, id)
      BY Zenon, <1>7
    <2>2. m.r <= r
      BY <1>1, <1>3, <1>4, <2>1, BoundsAssumption DEF Rounds
    <2> QED
      BY Zenon, <2>1, <2>2 DEF ReleasedBy
  <1> QED
    BY Zenon, <1>4, <1>6, <1>7 DEF LockAllows

\* Releases stay: the polkas that justify them do.
LEMMA ReleasedStays ==
    ASSUME IInv, sentVotes \subseteq sentVotes', NEW m \in sentVotes, NEW n, n.id \in Ids,
           ReleasedBy(m, n)
    PROVE  ReleasedBy(m, n)'
  <1>1. m.h \in Heights
    BY Zenon DEF IInv, TypeOK, Vote
  <1> QED
    BY Zenon, <1>1, PolkasStay DEF ReleasedBy

\* What a step that sends m leaves standing, whatever it votes for.
LEMMA Standing ==
    ASSUME IInv, NEW m, sentVotes' = sentVotes \union {m}, sentProposals' = sentProposals,
           decided' = decided
    PROVE  /\ \A n \in sentVotes : n.type = Precommit /\ n.id # Nil => Polka(n.h, n.r, n.id)'
           /\ \A n \in sentProposals' : n.vr # -1 => n.vr < n.r /\ Polka(n.h, n.vr, n.value)'
           /\ DecisionsJustified'
           /\ \A h \in Heights, r \in Rounds, v \in Ids : Polka(h, r, v) => Polka(h, r, v)'
  <1>1. /\ \A h \in Heights, r \in Rounds, v \in Ids : Polka(h, r, v) => Polka(h, r, v)'
        /\ \A h \in Heights, r \in Rounds, v \in Ids : CommitQuorum(h, r, v) => CommitQuorum(h, r, v)'
    BY Zenon, PolkasStay
  <1>2. ClaimsJustified /\ DecisionsJustified
    BY Zenon DEF IInv
  <1>3. \A n \in sentVotes : n.h \in Heights /\ n.r \in Rounds /\ n.id \in Ids
    BY Zenon DEF IInv, TypeOK, Vote
  <1>4. \A n \in sentProposals : n.h \in Heights /\ n.value \in Ids /\ (n.vr # -1 => n.vr \in Rounds)
    BY Zenon DEF IInv, TypeOK, Proposal, Ids
  <1>5. \A a \in Correct, h \in Heights : decided[a][h] \in Ids
    BY Zenon DEF IInv, TypeOK
  <1>6. \A n \in sentVotes : n.type = Precommit /\ n.id # Nil => Polka(n.h, n.r, n.id)'
    BY Zenon, <1>1, <1>2, <1>3 DEF ClaimsJustified, Polka
  <1>7. \A n \in sentProposals' : n.vr # -1 => n.vr < n.r /\ Polka(n.h, n.vr, n.value)'
    BY Zenon, <1>1, <1>2, <1>4 DEF ClaimsJustified, Polka
  <1>8. DecisionsJustified'
    BY Zenon, <1>1, <1>2, <1>5 DEF DecisionsJustified
  <1> QED
    BY Zenon, <1>1, <1>6, <1>7, <1>8

\* The marks of a validator they were justified for stay so while they stand.
LEMMA MarksStay ==
    ASSUME IInv, height' = height, round' = round, NEW a \in Correct,
           \A h \in Heights, r \in Rounds, v \in Ids : Polka(h, r, v) => Polka(h, r, v)'
    PROVE  /\ locked'[a] = locked[a] => MarkJustified(a, locked[a])'
           /\ valid'[a] = valid[a] => MarkJustified(a, valid[a])'
  <1>1. /\ locked[a].round # -1 => height[a] \in Heights
        /\ valid[a].round # -1 => height[a] \in Heights
    BY SMTT(40) DEF IInv, Running, Unset
  <1>2. /\ locked[a].round \in Rounds \union {-1} /\ locked[a].value \in Ids
        /\ valid[a].round \in Rounds \union {-1} /\ valid[a].value \in Ids
    BY Zenon DEF IInv, TypeOK, Marked
  <1>3. MarkJustified(a, locked[a]) /\ MarkJustified(a, valid[a])
    BY Zenon DEF IInv, LocksJustified
  <1> QED
    BY Zenon, <1>1, <1>2, <1>3 DEF MarkJustified

\* A prevote, or a precommit of nil.
PlainVoteStep(p, t, id, s) ==
    /\ VoteStep(p, t, id, s)
    /\ t = Prevote => LockAllows(p, id)
    /\ t = Precommit => id = Nil
    /\ UNCHANGED <<locked, valid, once, proposals, sync, decided>>
    /\ pc' \in [Correct -> {"start", "idle", "loop"}]
    /\ recent' \in [Correct -> Rounds \union {-1}]
    /\ timeouts' \in [Correct -> SUBSET Timeout]

LEMMA PlainVote ==
    ASSUME IInv, NEW p \in Correct, NEW t, NEW id, NEW s, PlainVoteStep(p, t, id, s)
    PROVE  IInv'
  <1> DEFINE m == VoteOf(t, height[p], round[p], p, id)
  <1>1. VoteStep(p, t, id, s)
    BY Zenon DEF PlainVoteStep
  <1>2. VoteSent(m, s)
    BY Zenon, <1>1, VoteStepSent
  <1>3. m.type = t /\ m.h = height[p] /\ m.r = round[p] /\ m.from = p /\ m.id = id
    BY VoteFields
  <1> HIDE DEF m
  <1>4. /\ votes' \in [Correct -> SUBSET Vote] /\ step' \in [Correct -> Step]
        /\ sentVotes' \in SUBSET {n \in Vote : n.from \in Correct}
        /\ Placed' /\ NoEquivocation' /\ Heard'
    BY Zenon, <1>1, Voting
  <1>5. /\ m \in Vote /\ sentVotes' = sentVotes \union {m}
        /\ step' = [step EXCEPT ![p] = s]
    BY Zenon, <1>2, <1>3 DEF VoteSent
  <1>6. height' = height /\ round' = round /\ sentProposals' = sentProposals
    BY Zenon, <1>1 DEF VoteStep
  <1>7. locked' = locked /\ valid' = valid /\ decided' = decided
    BY Zenon DEF PlainVoteStep
  <1>8. /\ t \in VoteType /\ id \in Ids /\ height[p] \in Heights
        /\ \A a \in Correct : pc'[a] = "start" <=> pc[a] = "start"
        /\ \/ t = Prevote /\ step[p] = StepPropose /\ s = StepPrevote
           \/ t = Precommit /\ step[p] = StepPrevote /\ s = StepPrecommit
    BY Zenon, <1>1 DEF VoteStep
  <1>9. (t = Prevote => LockAllows(p, id)) /\ (t = Precommit => id = Nil) /\ Prevote # Precommit
    BY Zenon DEF PlainVoteStep, Prevote, Precommit
  <1>10. /\ \A n \in sentVotes : n.type = Precommit /\ n.id # Nil => Polka(n.h, n.r, n.id)'
         /\ \A n \in sentProposals' : n.vr # -1 => n.vr < n.r /\ Polka(n.h, n.vr, n.value)'
         /\ DecisionsJustified'
         /\ \A h \in Heights, r \in Rounds, v \in Ids : Polka(h, r, v) => Polka(h, r, v)'
    BY Zenon, <1>5, <1>6, <1>7, Standing
  <1>11. TypeOK'
    BY Zenon, <1>4, <1>6 DEF IInv, TypeOK, PlainVoteStep, sync
  <1>12. Running'
    BY Zenon, <1>6, <1>7, <1>8 DEF IInv, Running
  <1>13. ClaimsJustified'
    BY Zenon, <1>3, <1>5, <1>9, <1>10 DEF ClaimsJustified, Polka
  <1>14. LocksJustified'
    <2>1. step \in [Correct -> Step] /\ LocksJustified
      BY Zenon DEF IInv, TypeOK
    <2>2. \A a \in Correct : locked[a].round = round[a] => step'[a] = StepPrecommit
      BY Zenon, <1>5, <1>8, <2>1 DEF LocksJustified, StepPropose, StepPrevote, StepPrecommit
    <2>3. \A a \in Correct : MarkJustified(a, locked[a])' /\ MarkJustified(a, valid[a])'
      BY Zenon, <1>6, <1>7, <1>10, MarksStay
    <2> QED
      BY Zenon, <1>6, <1>7, <2>2, <2>3 DEF LocksJustified
  <1>15. Held'
    BY Zenon, <1>3, <1>5, <1>6, <1>7, <1>9 DEF IInv, Held
  <1>16. Released'
    <2>1. SUFFICES ASSUME NEW k \in sentVotes', NEW n \in sentVotes',
                          k.from = n.from /\ k.h = n.h /\ k.r < n.r,
                          k.type = Precommit /\ k.id # Nil,
                          n.type = Prevote /\ n.id # Nil /\ n.id # k.id
                   PROVE  ReleasedBy(k, n)'
      BY Zenon DEF Released
    <2>2. k \in sentVotes
      BY Zenon, <1>3, <1>5, <1>9, <2>1
    <2>3. n.id \in Ids /\ sentVotes \subseteq sentVotes'
      BY Zenon, <1>4, <1>5 DEF Vote
    <2>4. ReleasedBy(k, n)
      <3>1. CASE n \in sentVotes
        BY Zenon, <2>1, <2>2, <3>1 DEF IInv, Released
      <3>2. CASE n = m
        <4>1. t = Prevote /\ step[p] = StepPropose /\ LockAllows(p, id)
          BY Zenon, <1>3, <1>8, <1>9, <2>1, <3>2
        <4> QED
          BY Zenon, <1>3, <1>8, <2>1, <2>2, <3>2, <4>1, PrevoteReleased
      <3> QED
        BY Zenon, <1>5, <3>1, <3>2
    <2> QED
      BY Zenon, <2>2, <2>3, <2>4, ReleasedStays
  <1> QED
    BY Zenon, <1>4, <1>10, <1>11, <1>12, <1>13, <1>14, <1>15, <1>16 DEF IInv

\* Rule 36, at step prevote: the precommit and the lock.
LockingVoteStep(p, id) ==
    /\ VoteStep(p, Precommit, id, StepPrecommit)
    /\ id \in Hash /\ Polka(height[p], round[p], id)
    /\ locked' = [locked EXCEPT ![p] = [value |-> id, round |-> round[p]]]
    /\ valid' = [valid EXCEPT ![p] = [value |-> id, round |-> round[p]]]
    /\ once' \in [Correct -> SUBSET Once]
    /\ UNCHANGED <<proposals, sync, control, timeouts, decided>>

LEMMA LockingVote ==
    ASSUME IInv, NEW p \in Correct, NEW id, LockingVoteStep(p, id)
    PROVE  IInv'
  <1> DEFINE m == VoteOf(Precommit, height[p], round[p], p, id)
  <1>1. VoteStep(p, Precommit, id, StepPrecommit)
    BY Zenon DEF LockingVoteStep
  <1>2. VoteSent(m, StepPrecommit)
    BY Zenon, <1>1, VoteStepSent
  <1>3. m.type = Precommit /\ m.h = height[p] /\ m.r = round[p] /\ m.from = p /\ m.id = id
    BY VoteFields
  <1> HIDE DEF m
  <1>4. /\ votes' \in [Correct -> SUBSET Vote] /\ step' \in [Correct -> Step]
        /\ sentVotes' \in SUBSET {n \in Vote : n.from \in Correct}
        /\ Placed' /\ NoEquivocation' /\ Heard'
    BY Zenon, <1>1, Voting
  <1>5. /\ m \in Vote /\ sentVotes' = sentVotes \union {m}
        /\ step' = [step EXCEPT ![p] = StepPrecommit]
    BY Zenon, <1>2, <1>3 DEF VoteSent
  <1>6. height' = height /\ round' = round /\ sentProposals' = sentProposals
    BY Zenon, <1>1 DEF VoteStep
  <1>7. pc' = pc /\ decided' = decided
    BY Zenon DEF LockingVoteStep, control
  <1>8. /\ id \in Ids /\ id # Nil /\ Prevote # Precommit
        /\ height[p] \in Heights /\ pc[p] # "start" /\ step[p] = StepPrevote
    BY Zenon, <1>1, NilAssumption DEF LockingVoteStep, VoteStep, Prevote, Precommit
  <1>9. /\ locked \in [Correct -> Marked] /\ valid \in [Correct -> Marked]
        /\ round[p] \in Rounds /\ round[p] # -1
    BY SMTT(40), BoundsAssumption DEF IInv, TypeOK, Rounds
  <1>10. /\ locked'[p].value = id /\ locked'[p].round = round[p]
         /\ valid'[p].value = id /\ valid'[p].round = round[p]
         /\ \A a \in Correct : a # p => locked'[a] = locked[a] /\ valid'[a] = valid[a]
    BY Zenon, <1>9 DEF LockingVoteStep
  <1>11. /\ \A n \in sentVotes : n.type = Precommit /\ n.id # Nil => Polka(n.h, n.r, n.id)'
         /\ \A n \in sentProposals' : n.vr # -1 => n.vr < n.r /\ Polka(n.h, n.vr, n.value)'
         /\ DecisionsJustified'
         /\ \A h \in Heights, r \in Rounds, v \in Ids : Polka(h, r, v) => Polka(h, r, v)'
    BY Zenon, <1>5, <1>6, <1>7, Standing
  <1>12. Polka(height[p], round[p], id)'
    BY Zenon, <1>6, <1>8, <1>9, <1>11 DEF LockingVoteStep
  <1>13. TypeOK'
    <2>1. [value |-> id, round |-> round[p]] \in Marked
      BY Zenon, <1>8, <1>9 DEF Marked
    <2>2. locked' \in [Correct -> Marked] /\ valid' \in [Correct -> Marked]
      BY Zenon, <1>9, <2>1 DEF LockingVoteStep
    <2> QED
      BY Zenon, <1>4, <1>6, <2>2 DEF IInv, TypeOK, LockingVoteStep, sync, control
  <1>14. Running'
    BY Zenon, <1>6, <1>7, <1>8, <1>10 DEF IInv, Running
  <1>15. ClaimsJustified'
    <2>1. IsQuorum(m.h, Voters(AllVotes', Prevote, m.h, m.r, m.id))
      BY Zenon, <1>3, <1>6, <1>12 DEF Polka
    <2> QED
      BY Zenon, <1>5, <1>11, <2>1 DEF ClaimsJustified, Polka
  <1>16. LocksJustified'
    <2>1. step \in [Correct -> Step] /\ LocksJustified
      BY Zenon DEF IInv, TypeOK
    <2>2. \A a \in Correct : locked'[a].round = round'[a] => step'[a] = StepPrecommit
      BY Zenon, <1>5, <1>6, <1>10, <2>1 DEF LocksJustified
    <2>3. \A a \in Correct : a # p => MarkJustified(a, locked[a])' /\ MarkJustified(a, valid[a])'
      BY Zenon, <1>6, <1>10, <1>11, MarksStay
    <2>4. MarkJustified(p, locked[p])' /\ MarkJustified(p, valid[p])'
      BY SMTT(40), <1>6, <1>8, <1>9, <1>10, <1>12, BoundsAssumption DEF MarkJustified, Rounds, Polka
    <2> QED
      BY Zenon, <2>2, <2>3, <2>4 DEF LocksJustified
  <1>17. Held'
    <2>1. SUFFICES ASSUME NEW n \in sentVotes', n.type = Precommit /\ n.id # Nil /\ n.h = height'[n.from]
                   PROVE  /\ locked'[n.from].round >= n.r
                          /\ locked'[n.from].round = n.r => locked'[n.from].value = n.id
      BY Zenon DEF Held
    <2>2. CASE n = m
      BY SMTT(40), <1>3, <1>9, <1>10, <2>2, BoundsAssumption DEF Rounds
    <2>3. CASE n \in sentVotes /\ n.from # p
      BY Zenon, <1>4, <1>6, <1>10, <2>1, <2>3 DEF IInv, Held
    <2>4. CASE n \in sentVotes /\ n.from = p
      <3>1. n.r <= round[p] /\ n.r \in Rounds /\ n.r # round[p]
        BY Zenon, <1>6, <1>8, <2>1, <2>4 DEF IInv, Placed, TypeOK, Vote, StepPrevote, StepPrecommit
      <3> QED
        BY Zenon, <1>9, <1>10, <2>4, <3>1, BoundsAssumption DEF Rounds
    <2> QED
      BY Zenon, <1>5, <2>2, <2>3, <2>4
  <1>18. Released'
    <2>1. SUFFICES ASSUME NEW k \in sentVotes', NEW n \in sentVotes',
                          k.from = n.from /\ k.h = n.h /\ k.r < n.r,
                          k.type = Precommit /\ k.id # Nil,
                          n.type = Prevote /\ n.id # Nil /\ n.id # k.id
                   PROVE  ReleasedBy(k, n)'
      BY Zenon DEF Released
    <2>2. n \in sentVotes /\ n.id \in Ids /\ n.r \in Rounds
      BY Zenon, <1>3, <1>4, <1>5, <1>8, <2>1 DEF Vote
    <2>3. k # m
      BY <1>3, <1>9, <2>1, <2>2, BoundsAssumption DEF IInv, Placed, Rounds
    <2>4. k \in sentVotes /\ sentVotes \subseteq sentVotes'
      BY Zenon, <1>5, <2>3
    <2>5. ReleasedBy(k, n)
      BY Zenon, <2>1, <2>2, <2>4 DEF IInv, Released
    <2> QED
      BY Zenon, <2>2, <2>4, <2>5, ReleasedStays
  <1> QED
    BY Zenon, <1>4, <1>11, <1>13, <1>14, <1>15, <1>16, <1>17, <1>18 DEF IInv

-----------------------------------------------------------------------------
\* New valid values, new rounds and commits.

\* Rule 36, after the step prevote: only the valid value changes.
LEMMA LateValid ==
    ASSUME IInv, NEW p \in Correct, pc[p] # "start", height[p] \in Heights,
           NEW id \in Hash, Polka(height[p], round[p], id),
           valid' = [valid EXCEPT ![p] = [value |-> id, round |-> round[p]]],
           once' \in [Correct -> SUBSET Once],
           UNCHANGED <<height, round, step, locked, counter, sync, control, timeouts, decided, sent>>
    PROVE  IInv'
  <1> USE DEF counter, sync, control, sent
  <1>1. /\ valid \in [Correct -> Marked] /\ round[p] \in Rounds /\ round[p] # -1 /\ id \in Ids /\ id # Nil
    BY BoundsAssumption, NilAssumption DEF IInv, TypeOK, Rounds, Ids
  <1>2. [value |-> id, round |-> round[p]] \in Marked
    BY Zenon, <1>1 DEF Marked
  <1>3. TypeOK'
    BY Zenon, <1>1, <1>2 DEF IInv, TypeOK
  <1>4. AllVotes' = AllVotes
    BY Zenon DEF AllVotes
  <1>5. Running' /\ Placed' /\ Heard' /\ NoEquivocation' /\ Held'
    BY Zenon, <1>1, <1>4 DEF IInv, Running, Placed, Heard, NoEquivocation, Held
  <1>6. ClaimsJustified'
    BY Zenon, <1>4 DEF IInv, ClaimsJustified
  <1>7. \A h, r, v : Polka(h, r, v)' = Polka(h, r, v) /\ CommitQuorum(h, r, v)' = CommitQuorum(h, r, v)
    BY Zenon, <1>4 DEF Polka, CommitQuorum
  <1>8. LocksJustified'
    <2>1. valid'[p].value = id /\ valid'[p].round = round[p]
      BY Zenon, <1>1
    <2>2. MarkJustified(p, valid[p])'
      BY SMTT(40), <1>1, <1>7, <2>1, BoundsAssumption DEF MarkJustified, Rounds
    <2>3. \A a \in Correct : a # p => MarkJustified(a, valid[a])'
      BY Zenon, <1>1, <1>7 DEF IInv, LocksJustified, MarkJustified
    <2>4. \A a \in Correct : MarkJustified(a, locked[a])'
      BY Zenon, <1>7 DEF IInv, LocksJustified, MarkJustified
    <2>5. \A a \in Correct : locked'[a].round = round'[a] => step'[a] = StepPrecommit
      BY Zenon DEF IInv, LocksJustified
    <2> QED
      BY Zenon, <2>2, <2>3, <2>4, <2>5 DEF LocksJustified
  <1>9. Released'
    BY Zenon, <1>7 DEF IInv, Released, ReleasedBy
  <1>10. DecisionsJustified'
    BY Zenon, <1>7 DEF IInv, DecisionsJustified
  <1> QED
    BY Zenon, <1>3, <1>5, <1>6, <1>8, <1>9, <1>10 DEF IInv

\* A new round, or the first of a height.
LEMMA RoundStarted ==
    ASSUME IInv, NEW p \in Correct, height[p] \in Heights, NEW r \in Rounds,
           pc[p] = "start" \/ r > round[p],
           NEW pending \in SUBSET Timeout, StartRound(p, r, pending),
           pc' = [pc EXCEPT ![p] = "loop"], recent' \in [Correct -> Rounds \union {-1}]
    PROVE  IInv'
  <1> USE DEF sync
  <1>1. /\ round' = [round EXCEPT ![p] = r] /\ step' = [step EXCEPT ![p] = StepPropose]
        /\ once' = [once EXCEPT ![p] = {}]
        /\ UNCHANGED <<height, locked, valid, votes, lastTriggerSync, lastQuorum, decided, sentVotes>>
    BY Zenon DEF StartRound
  <1>2. /\ height \in [Correct -> 0 .. MaxHeight + 1] /\ round \in [Correct -> Rounds]
        /\ step \in [Correct -> Step] /\ pc \in [Correct -> {"start", "idle", "loop"}]
        /\ locked \in [Correct -> Marked] /\ valid \in [Correct -> Marked]
    BY Zenon DEF IInv, TypeOK
  <1>3. timeouts' \in [Correct -> SUBSET Timeout]
    <2>1. [step |-> StepPropose, h |-> height[p], r |-> r] \in Timeout
      BY Zenon DEF Timeout, Step
    <2>2. \E T \in SUBSET Timeout : timeouts' = [timeouts EXCEPT ![p] = T]
      <3>1. CASE Proposer[height[p]][r] = p
        BY Zenon, <3>1 DEF StartRound
      <3>2. CASE Proposer[height[p]][r] # p
        <4>1. pending \union {[step |-> StepPropose, h |-> height[p], r |-> r]} \in SUBSET Timeout
          BY Zenon, <2>1
        <4>2. timeouts' = [timeouts EXCEPT
                 ![p] = pending \union {[step |-> StepPropose, h |-> height[p], r |-> r]}]
          BY Zenon, <3>2 DEF StartRound, ScheduleTimeout
        <4> QED
          BY Zenon, <4>1, <4>2
      <3> QED
        BY Zenon, <3>1, <3>2
    <2> QED
      BY Zenon, <2>2 DEF IInv, TypeOK
  \* The proposal, if p proposes.
  <1>4. PICK M \in SUBSET Proposal :
           /\ sentProposals' = sentProposals \union M
           /\ proposals' \in [Correct -> SUBSET Proposal]
           /\ \A m \in M : m.from = p /\ m.h = height[p] /\ m.r = r
           /\ \A m \in M : m.vr # -1 => m.vr = valid[p].round /\ m.value = valid[p].value
           /\ \A m, n \in M : m = n
    <2>1. CASE Proposer[height[p]][r] = p
      <3>1. PICK v \in IF valid[p].value # Nil THEN {valid[p].value} ELSE ValueOf[p] : SendProposal(p, r, v)
        BY Zenon, <2>1 DEF StartRound
      <3>2. v \in Hash /\ (valid[p].value # Nil => v = valid[p].value)
        BY Zenon, <1>2, <3>1, ApplicationAssumption DEF Marked, Ids
      <3>3. valid[p].round # -1 => v = valid[p].value
        BY Zenon, <3>2 DEF IInv, LocksJustified, MarkJustified
      <3> DEFINE m == [h |-> height[p], r |-> r, from |-> p, value |-> v, vr |-> valid[p].round]
      <3>4. m \in Proposal
        BY Zenon, <1>2, <3>2 DEF Proposal, Marked, Correct
      <3>5. m.from = p /\ m.h = height[p] /\ m.r = r /\ m.value = v /\ m.vr = valid[p].round
        BY Zenon
      <3>6. /\ sentProposals' = sentProposals \union {m}
            /\ proposals' = [proposals EXCEPT ![p] = IF CachedProposal(p, r) = {} THEN @ \union {m} ELSE @]
        BY Zenon, <3>1 DEF SendProposal
      <3> HIDE DEF m
      <3>7. proposals' \in [Correct -> SUBSET Proposal]
        BY Zenon, <3>4, <3>6 DEF IInv, TypeOK
      <3>8. {m} \in SUBSET Proposal
        BY Zenon, <3>4
      <3> WITNESS {m} \in SUBSET Proposal
      <3> QED
        BY Zenon, <3>3, <3>5, <3>6, <3>7
    <2>2. CASE Proposer[height[p]][r] # p
      <3>1. UNCHANGED <<proposals, sentProposals>>
        BY Zenon, <2>2 DEF StartRound
      <3> WITNESS {} \in SUBSET Proposal
      <3> QED
        BY Zenon, <3>1 DEF IInv, TypeOK
    <2> QED
      BY Zenon, <2>1, <2>2
  <1>5. sentProposals' \in SUBSET {m \in Proposal : m.from \in Correct}
    BY Zenon, <1>4 DEF IInv, TypeOK
  <1>6. TypeOK'
    <2>1. /\ round' \in [Correct -> Rounds] /\ step' \in [Correct -> Step]
          /\ once' \in [Correct -> SUBSET Once] /\ pc' \in [Correct -> {"start", "idle", "loop"}]
      BY Zenon, <1>1, <1>2 DEF IInv, TypeOK, Step
    <2> QED
      BY Zenon, <1>1, <1>3, <1>4, <1>5, <2>1 DEF IInv, TypeOK
  <1>7. Running'
    BY Zenon, <1>1, <1>2 DEF IInv, Running
  <1>8. AllVotes' = AllVotes
    BY Zenon, <1>1 DEF AllVotes
  <1>9. \A h, i, v : Polka(h, i, v)' = Polka(h, i, v) /\ CommitQuorum(h, i, v)' = CommitQuorum(h, i, v)
    BY Zenon, <1>8 DEF Polka, CommitQuorum
  \* Everything p has sent at this height is of an earlier round.
  <1>10. /\ \A m \in sentVotes : m.from = p /\ m.h = height[p] => m.r < r
         /\ \A m \in sentProposals : m.from = p /\ m.h = height[p] => m.r < r
    BY SMTT(40), <1>2, BoundsAssumption DEF IInv, TypeOK, Placed, Vote, Proposal, Rounds
  <1>11. Placed'
    <2>1. \A m \in sentVotes : m.from \in Correct /\ m.r \in Rounds
      BY Zenon DEF IInv, TypeOK, Vote
    <2>2. \A m \in sentProposals : m.from \in Correct /\ m.r \in Rounds
      BY Zenon DEF IInv, TypeOK, Proposal
    <2>3. \A m \in sentVotes' :
             /\ m.h <= height'[m.from]
             /\ m.h = height'[m.from] =>
                   /\ pc'[m.from] # "start"
                   /\ m.r <= round'[m.from]
                   /\ m.r = round'[m.from] /\ m.type = Prevote => step'[m.from] # StepPropose
                   /\ m.r = round'[m.from] /\ m.type = Precommit => step'[m.from] = StepPrecommit
      BY SMTT(40), <1>1, <1>2, <1>10, <2>1, BoundsAssumption DEF IInv, Placed, Rounds
    <2>4. \A m \in sentProposals :
             /\ m.h <= height'[m.from]
             /\ m.h = height'[m.from] => pc'[m.from] # "start" /\ m.r <= round'[m.from]
      BY SMTT(40), <1>1, <1>2, <1>10, <2>2, BoundsAssumption DEF IInv, Placed, Rounds
    <2>5. \A m \in M :
             /\ m.h <= height'[m.from]
             /\ m.h = height'[m.from] => pc'[m.from] # "start" /\ m.r <= round'[m.from]
      BY SMTT(40), <1>1, <1>2, <1>4, BoundsAssumption DEF Rounds, Heights
    <2> QED
      BY Zenon, <1>4, <2>3, <2>4, <2>5 DEF Placed
  <1>12. NoEquivocation'
    BY <1>1, <1>4, <1>10, BoundsAssumption DEF IInv, NoEquivocation, Rounds
  <1>13. Heard'
    BY Zenon, <1>1, <1>8 DEF IInv, Heard
  <1>14. locked[p].round < r /\ valid[p].round < r
    <2>1. CASE pc[p] = "start"
      BY <2>1, BoundsAssumption DEF IInv, Running, Unset, Rounds
    <2>2. CASE r > round[p]
      BY SMTT(40), <1>2, <2>2, BoundsAssumption DEF IInv, LocksJustified, MarkJustified, Marked, Rounds
    <2> QED
      BY Zenon, <2>1, <2>2
  <1>15. ClaimsJustified'
    <2>1. \A m \in M : m.vr # -1 => m.vr < m.r /\ Polka(m.h, m.vr, m.value)
      BY Zenon, <1>4, <1>14 DEF IInv, LocksJustified, MarkJustified
    <2>2. \A m \in sentProposals : m.vr # -1 => m.vr < m.r /\ Polka(m.h, m.vr, m.value)
      BY Zenon DEF IInv, ClaimsJustified, Polka
    <2>3. \A m \in sentVotes : m.type = Precommit /\ m.id # Nil => Polka(m.h, m.r, m.id)
      BY Zenon DEF IInv, ClaimsJustified, Polka
    <2> QED
      BY Zenon, <1>1, <1>4, <1>8, <2>1, <2>2, <2>3 DEF ClaimsJustified, Polka
  <1>16. LocksJustified'
    <2>1. \A a \in Correct : a # p => /\ MarkJustified(a, locked[a])' /\ MarkJustified(a, valid[a])'
                                      /\ locked'[a].round = round'[a] => step'[a] = StepPrecommit
      BY Zenon, <1>1, <1>2, <1>9 DEF IInv, LocksJustified, MarkJustified
    <2>2. MarkJustified(p, locked[p])' /\ MarkJustified(p, valid[p])' /\ locked'[p].round # round'[p]
      BY SMTT(40), <1>1, <1>2, <1>9, <1>14, BoundsAssumption DEF IInv, LocksJustified, MarkJustified, Marked, Rounds
    <2> QED
      BY Zenon, <2>1, <2>2 DEF LocksJustified
  <1>17. Held'
    BY Zenon, <1>1 DEF IInv, Held
  <1>18. Released'
    BY Zenon, <1>1, <1>9 DEF IInv, Released, ReleasedBy
  <1>19. DecisionsJustified'
    BY Zenon, <1>1, <1>9 DEF IInv, DecisionsJustified
  <1> QED
    BY Zenon, <1>6, <1>7, <1>11, <1>12, <1>13, <1>15, <1>16, <1>17, <1>18, <1>19 DEF IInv

\* Rule 49.
LEMMA Committed ==
    ASSUME IInv, NEW p \in Correct, pc[p] = "loop",
           NEW m \in CachedProposal(p, IF recent[p] = -1 THEN round[p] ELSE recent[p]),
           DoCommitValue(p, m)
    PROVE  IInv'
  <1> USE DEF sync, sent
  <1>1. /\ height \in [Correct -> 0 .. MaxHeight + 1] /\ round \in [Correct -> Rounds]
        /\ step \in [Correct -> Step] /\ pc \in [Correct -> {"start", "idle", "loop"}]
        /\ locked \in [Correct -> Marked] /\ valid \in [Correct -> Marked]
        /\ decided \in [Correct -> [Heights -> Ids]]
    BY Zenon DEF IInv, TypeOK
  <1>2. height[p] \in Heights
    BY Zenon DEF IInv, Running
  <1>3. m \in Proposal /\ m.r \in Rounds /\ m.value \in Hash
    BY DEF IInv, TypeOK, CachedProposal, Proposal
  <1>4. /\ decided' = [decided EXCEPT ![p][height[p]] = m.value]
        /\ height' = [height EXCEPT ![p] = height[p] + 1]
        /\ votes' = [votes EXCEPT ![p] = {n \in votes[p] : n.h > height[p]}]
        /\ proposals' = [proposals EXCEPT ![p] = {n \in proposals[p] : n.h > height[p]}]
        /\ locked' = [locked EXCEPT ![p] = Unset] /\ valid' = [valid EXCEPT ![p] = Unset]
        /\ round' = [round EXCEPT ![p] = 0] /\ step' = [step EXCEPT ![p] = StepPropose]
        /\ once' = [once EXCEPT ![p] = {}] /\ pc' = [pc EXCEPT ![p] = "start"]
        /\ UNCHANGED <<lastTriggerSync, lastQuorum, recent, timeouts, sentVotes, sentProposals>>
    BY Zenon DEF DoCommitValue
  <1>5. Unset \in Marked
    BY Zenon DEF Unset, Marked, Ids
  <1>6. TypeOK'
    <2>1. /\ height' \in [Correct -> 0 .. MaxHeight + 1] /\ round' \in [Correct -> Rounds]
      BY SMTT(40), <1>1, <1>2, <1>4, BoundsAssumption DEF Heights, Rounds
    <2>2. votes' \in [Correct -> SUBSET Vote] /\ proposals' \in [Correct -> SUBSET Proposal]
      BY Zenon, <1>4 DEF IInv, TypeOK
    <2>3. decided' \in [Correct -> [Heights -> Ids]]
      BY Zenon, <1>1, <1>2, <1>3, <1>4 DEF Ids
    <2>4. /\ locked' \in [Correct -> Marked] /\ valid' \in [Correct -> Marked]
          /\ step' \in [Correct -> Step] /\ pc' \in [Correct -> {"start", "idle", "loop"}]
          /\ once' \in [Correct -> SUBSET Once]
      BY Zenon, <1>1, <1>4, <1>5 DEF IInv, TypeOK, Step
    <2> QED
      BY Zenon, <1>4, <2>1, <2>2, <2>3, <2>4 DEF IInv, TypeOK
  <1>7. Running'
    BY Zenon, <1>1, <1>4 DEF IInv, Running
  <1>8. AllVotes' = AllVotes
    BY Zenon, <1>4 DEF AllVotes
  <1>9. \A h, r, v : Polka(h, r, v)' = Polka(h, r, v) /\ CommitQuorum(h, r, v)' = CommitQuorum(h, r, v)
    BY Zenon, <1>8 DEF Polka, CommitQuorum
  <1>10. Placed'
    <2>1. \A n \in sentVotes : n.from \in Correct /\ n.h \in Heights
      BY Zenon DEF IInv, TypeOK, Vote
    <2>2. \A n \in sentProposals : n.from \in Correct /\ n.h \in Heights
      BY Zenon DEF IInv, TypeOK, Proposal
    <2>3. \A n \in sentVotes \union sentProposals : n.h <= height'[n.from] /\ (n.from = p => n.h < height'[p])
      BY SMTT(40), <1>1, <1>2, <1>4, <2>1, <2>2, BoundsAssumption DEF IInv, Placed, Heights
    <2>4. \A a \in Correct : a # p => /\ height'[a] = height[a] /\ round'[a] = round[a]
                                      /\ step'[a] = step[a] /\ pc'[a] = pc[a]
      BY Zenon, <1>1, <1>4
    <2>5. \A n \in sentVotes \union sentProposals : n.from = p => n.h # height'[n.from]
      BY SMTT(40), <1>1, <1>2, <1>4, <2>1, <2>2, <2>3, BoundsAssumption DEF Heights
    <2> QED
      BY SMTT(40), <1>4, <2>1, <2>2, <2>3, <2>4, <2>5 DEF IInv, Placed
  <1>11. NoEquivocation'
    BY Zenon, <1>4 DEF IInv, NoEquivocation
  <1>12. Heard'
    BY Zenon, <1>4, <1>8 DEF IInv, TypeOK, Heard
  <1>13. ClaimsJustified'
    BY Zenon, <1>4, <1>8 DEF IInv, ClaimsJustified
  <1>14. LocksJustified'
    <2>1. \A a \in Correct : a # p => /\ MarkJustified(a, locked[a])' /\ MarkJustified(a, valid[a])'
                                      /\ locked'[a].round = round'[a] => step'[a] = StepPrecommit
      BY Zenon, <1>1, <1>4, <1>9 DEF IInv, LocksJustified, MarkJustified
    <2>2. locked'[p].round = -1 /\ valid'[p].round = -1 /\ round'[p] = 0
          /\ locked'[p].value = Nil /\ valid'[p].value = Nil
      BY Zenon, <1>1, <1>4 DEF Unset
    <2>3. -1 <= 0 /\ -1 # 0
      OBVIOUS
    <2>4. MarkJustified(p, locked[p])' /\ MarkJustified(p, valid[p])'
      BY Zenon, <2>2, <2>3 DEF MarkJustified
    <2> QED
      BY Zenon, <2>1, <2>2, <2>3, <2>4 DEF LocksJustified
  <1>15. Held'
    <2>1. \A n \in sentVotes : n.from \in Correct /\ n.h \in Heights
      BY Zenon DEF IInv, TypeOK, Vote
    <2>2. \A n \in sentVotes : n.from = p => n.h # height'[p]
      <3>1. \A n \in sentVotes : n.from = p => n.h <= height[p] /\ n.h \in Heights
        BY Zenon, <2>1 DEF IInv, Placed
      <3>2. height[p] \in Heights /\ height'[p] = height[p] + 1
        BY Zenon, <1>1, <1>2, <1>4
      <3> QED
        BY <3>1, <3>2, BoundsAssumption DEF Heights
    <2> QED
      BY Zenon, <1>1, <1>4, <2>1, <2>2 DEF IInv, Held
  <1>16. Released'
    BY Zenon, <1>4, <1>9 DEF IInv, Released, ReleasedBy
  <1>17. DecisionsJustified'
    <2>1. CommitQuorum(height[p], m.r, m.value)
      BY Zenon, <1>2, <1>3, HeardQuorum DEF DoCommitValue, UponCommitValue, Ids
    <2>2. decided'[p][height[p]] = m.value
      BY Zenon, <1>1, <1>2, <1>4
    <2>3. \A a \in Correct, h \in Heights : a # p \/ h # height[p] => decided'[a][h] = decided[a][h]
      BY Zenon, <1>1, <1>2, <1>4
    <2>4. SUFFICES ASSUME NEW a \in Correct, NEW h \in Heights, decided'[a][h] # Nil
                   PROVE  \E r \in Rounds : CommitQuorum(h, r, decided'[a][h])
      BY Zenon, <1>9 DEF DecisionsJustified
    <2>5. CASE a = p /\ h = height[p]
      BY Zenon, <1>3, <2>1, <2>2, <2>5
    <2>6. CASE a # p \/ h # height[p]
      BY Zenon, <2>3, <2>4, <2>6 DEF IInv, DecisionsJustified
    <2> QED
      BY Zenon, <2>5, <2>6
  <1> QED
    BY Zenon, <1>6, <1>7, <1>10, <1>11, <1>12, <1>13, <1>14, <1>15, <1>16, <1>17 DEF IInv

-----------------------------------------------------------------------------
\* Two quorums share a correct validator.
LEMMA CorrectMember ==
    ASSUME NEW h \in Heights, NEW S \in SUBSET Addr, NEW T \in SUBSET Addr,
           IsQuorum(h, S), IsQuorum(h, T)
    PROVE  \E p \in Correct : p \in S /\ p \in T
  <1>1. HasNonFaulty(h, S \intersect T)
    BY Zenon, QuorumsIntersect
  <1>2. SUFFICES ASSUME S \intersect T \subseteq Faulty PROVE FALSE
    BY Zenon DEF Correct
  <1>3. Power[h][S \intersect T] <= Power[h][Faulty]
    BY Zenon, <1>2, PowerMonotone, FaultyAssumption
  <1>4. /\ Power[h][S \intersect T] \in Nat /\ Power[h][Faulty] \in Nat
        /\ f(TotalVotingPower(h)) \in Nat
    BY PowerAssumption, FaultyAssumption, Thresholds, Addr \in SUBSET Addr DEF TotalVotingPower
  <1> QED
    BY <1>1, <1>3, <1>4, FaultyAssumption DEF HasNonFaulty

\* A nonempty set of natural numbers has a least element.
LEMMA LeastElement ==
    ASSUME NEW T \in SUBSET Nat, T # {}
    PROVE  \E x \in T : \A y \in T : x <= y
  <1>1. PICK x \in T : \A y \in T : ~(<<y, x>> \in OpToRel(<, Nat))
    BY Zenon, NatLessThanWellFounded, WFMin
  <1>2. \A y \in T : ~(y < x)
    BY Zenon, <1>1 DEF OpToRel
  <1> QED
    BY <1>2

-----------------------------------------------------------------------------
\* Why the invariant implies agreement.

\* Two quorums of votes of one type in one round are for the same id.
LEMMA OneQuorumPerRound ==
    ASSUME NoEquivocation, NEW t \in VoteType, NEW h \in Heights, NEW r \in Rounds, NEW v, NEW w,
           IsQuorum(h, Voters(AllVotes, t, h, r, v)),
           IsQuorum(h, Voters(AllVotes, t, h, r, w))
    PROVE  v = w
  <1>1. PICK p \in Correct : /\ p \in Voters(AllVotes, t, h, r, v)
                             /\ p \in Voters(AllVotes, t, h, r, w)
    <2>1. /\ Voters(AllVotes, t, h, r, v) \in SUBSET Addr
          /\ Voters(AllVotes, t, h, r, w) \in SUBSET Addr
      BY Zenon DEF Voters
    <2> QED
      BY Zenon, <2>1, CorrectMember
  <1> DEFINE m == VoteOf(t, h, r, p, v)
             n == VoteOf(t, h, r, p, w)
  <1>2. m \in sentVotes /\ n \in sentVotes
    BY Zenon, <1>1, VoterSent
  <1>3. /\ m.type = t /\ m.h = h /\ m.r = r /\ m.from = p /\ m.id = v
        /\ n.type = t /\ n.h = h /\ n.r = r /\ n.from = p /\ n.id = w
    BY VoteFields
  <1> HIDE DEF m, n
  <1>4. m = n
    BY Zenon, <1>2, <1>3 DEF NoEquivocation
  <1> QED
    BY Zenon, <1>3, <1>4

\* A quorum of precommits for a value comes with a polka for it.
LEMMA CommitHasPolka ==
    ASSUME ClaimsJustified, NEW h \in Heights, NEW r \in Rounds, NEW v \in Hash, CommitQuorum(h, r, v)
    PROVE  Polka(h, r, v)
  <1>1. PICK p \in Correct : p \in Voters(AllVotes, Precommit, h, r, v)
    <2>1. Voters(AllVotes, Precommit, h, r, v) \in SUBSET Addr
      BY Zenon DEF Voters
    <2> QED
      BY Zenon, <2>1, CorrectMember DEF CommitQuorum
  <1> DEFINE m == VoteOf(Precommit, h, r, p, v)
  <1>2. m \in sentVotes
    BY Zenon, <1>1, VoterSent
  <1>3. m.type = Precommit /\ m.h = h /\ m.r = r /\ m.id = v
    BY VoteFields
  <1> HIDE DEF m
  <1>4. m.id # Nil
    BY Zenon, <1>3, NilAssumption
  <1> QED
    BY Zenon, <1>2, <1>3, <1>4 DEF ClaimsJustified, Polka

\* After a quorum of precommits for v, no later round has a polka for another value:
\* in the first that did, a validator of both quorums would have been released by
\* an earlier one.
LEMMA LockedIn ==
    ASSUME NoEquivocation, ClaimsJustified, Released,
           NEW h \in Heights, NEW r0 \in Rounds, NEW v \in Hash, CommitQuorum(h, r0, v),
           NEW r \in Rounds, r >= r0, NEW w \in Hash, Polka(h, r, w)
    PROVE  v = w
  <1> SUFFICES ASSUME v # w PROVE FALSE
    BY Zenon
  <1> DEFINE Other(i) == \E u \in Hash : u # v /\ Polka(h, i, u)
             T == {i \in Rounds : i >= r0 /\ Other(i)}
  <1>1. T \in SUBSET Nat /\ T # {}
    <2>1. r \in T
      BY Zenon
    <2>2. T \subseteq Nat
      BY BoundsAssumption DEF Rounds
    <2> QED
      BY Zenon, <2>1, <2>2
  <1>2. PICK r1 \in T : \A i \in T : r1 <= i
    BY Zenon, <1>1, LeastElement
  <1>3. r1 \in Rounds /\ r1 >= r0 /\ Other(r1)
    BY Zenon, <1>2
  <1>4. PICK u \in Hash : u # v /\ Polka(h, r1, u)
    BY Zenon, <1>3
  <1>5. r1 # r0
    <2>1. Polka(h, r0, v)
      BY Zenon, CommitHasPolka
    <2> QED
      BY Zenon, <1>4, <2>1, OneQuorumPerRound, Prevote \in VoteType DEF Polka, VoteType
  <1>6. PICK p \in Correct : /\ p \in Voters(AllVotes, Precommit, h, r0, v)
                             /\ p \in Voters(AllVotes, Prevote, h, r1, u)
    <2>1. /\ Voters(AllVotes, Precommit, h, r0, v) \in SUBSET Addr
          /\ Voters(AllVotes, Prevote, h, r1, u) \in SUBSET Addr
      BY Zenon DEF Voters
    <2> QED
      BY Zenon, <1>4, <2>1, CorrectMember DEF CommitQuorum, Polka
  <1> DEFINE m == VoteOf(Precommit, h, r0, p, v)
             n == VoteOf(Prevote, h, r1, p, u)
  <1>7. m \in sentVotes /\ n \in sentVotes
    BY Zenon, <1>6, VoterSent
  <1>8. /\ m.type = Precommit /\ m.h = h /\ m.r = r0 /\ m.from = p /\ m.id = v
        /\ n.type = Prevote /\ n.h = h /\ n.r = r1 /\ n.from = p /\ n.id = u
    BY VoteFields
  <1> HIDE DEF m, n
  <1>9. r0 < r1
    BY <1>3, <1>5, BoundsAssumption DEF Rounds
  <1>10. ReleasedBy(m, n)
    BY Zenon, <1>4, <1>7, <1>8, <1>9, NilAssumption DEF Released
  <1>11. PICK i \in Rounds : r0 <= i /\ i < r1 /\ Polka(h, i, u)
    BY Zenon, <1>8, <1>10 DEF ReleasedBy
  <1>12. i \in T
    BY Zenon, <1>4, <1>11, BoundsAssumption DEF Rounds
  <1>13. r1 <= i
    BY Zenon, <1>2, <1>12
  <1> QED
    BY <1>3, <1>11, <1>13, BoundsAssumption DEF Rounds

LEMMA IInvAgreement ==
    ASSUME IInv
    PROVE  Agreement
  <1> SUFFICES ASSUME NEW p1 \in Correct, NEW p2 \in Correct, NEW h \in Heights,
                      decided[p1][h] # Nil, decided[p2][h] # Nil
               PROVE  decided[p1][h] = decided[p2][h]
    BY DEF Agreement
  <1> DEFINE v == decided[p1][h]
             w == decided[p2][h]
  <1>1. v \in Hash /\ w \in Hash
    BY Zenon DEF IInv, TypeOK, Ids
  <1>2. PICK r \in Rounds : CommitQuorum(h, r, v)
    BY Zenon DEF IInv, DecisionsJustified
  <1>3. PICK s \in Rounds : CommitQuorum(h, s, w)
    BY Zenon DEF IInv, DecisionsJustified
  <1> HIDE DEF v, w
  <1>4. Polka(h, r, v) /\ Polka(h, s, w)
    BY Zenon, <1>1, <1>2, <1>3, CommitHasPolka DEF IInv
  <1>5. NoEquivocation /\ ClaimsJustified /\ Released
    BY Zenon DEF IInv
  <1>6. s >= r \/ r >= s
    BY BoundsAssumption DEF Rounds
  <1>7. v = w
    BY SMTT(40), <1>1, <1>2, <1>3, <1>4, <1>5, <1>6, LockedIn
  <1> QED
    BY Zenon, <1>7 DEF v, w

-----------------------------------------------------------------------------
\* Skipping rounds.

\* Proposals are not forged on the way either.
AllProposals == sentProposals \union FaultyProposals
HeardProposals == \A p \in Correct : proposals[p] \subseteq AllProposals

LEMMA StartRoundProposals ==
    ASSUME TypeOK, HeardProposals, NEW p \in Correct, NEW r, NEW pending, StartRound(p, r, pending)
    PROVE  HeardProposals'
  <1>1. CASE Proposer[height[p]][r] = p
    <2>1. PICK v : SendProposal(p, r, v)
      BY Zenon, <1>1 DEF StartRound
    <2> DEFINE m == [h |-> height[p], r |-> r, from |-> p, value |-> v, vr |-> valid[p].round]
    <2>2. /\ sentProposals' = sentProposals \union {m}
          /\ proposals' = [proposals EXCEPT ![p] = IF CachedProposal(p, r) = {} THEN proposals[p] \union {m}
                                                                                  ELSE proposals[p]]
      BY Zenon, <2>1 DEF SendProposal
    <2> HIDE DEF m
    <2> QED
      BY Zenon, <2>2 DEF TypeOK, HeardProposals, AllProposals
  <1>2. CASE Proposer[height[p]][r] # p
    BY Zenon, <1>2 DEF StartRound, HeardProposals, AllProposals
  <1> QED
    BY Zenon, <1>1, <1>2

LEMMA NextHeardProposals ==
    ASSUME TypeOK, HeardProposals, [Next]_vars
    PROVE  HeardProposals'
  <1> USE DEF HeardProposals, AllProposals
  <1>1. CASE UNCHANGED vars
    BY Zenon, <1>1 DEF vars, counter, sent
  <1>2. ASSUME NEW p \in Correct, ProcessStart(p)
        PROVE  HeardProposals'
    BY Zenon, <1>2, StartRoundProposals DEF ProcessStart
  <1>3. ASSUME NEW p \in Correct, Process(p)
        PROVE  HeardProposals'
    <2>1. CASE DoSkipRound(p)
      BY Zenon, <2>1, StartRoundProposals DEF DoSkipRound
    <2>2. CASE \E m \in RoundCachedProposal(p) : DoCommitValue(p, m)
      BY <2>2 DEF DoCommitValue, TypeOK, sent
    <2>3. CASE UNCHANGED <<proposals, sentProposals>>
      BY Zenon, <2>3
    <2>4. \/ DoSkipRound(p) \/ \E m \in RoundCachedProposal(p) : DoCommitValue(p, m)
          \/ UNCHANGED <<proposals, sentProposals>>
      BY Zenon, <1>3 DEF Process, DoFirstProposal, DoProposalAndPolkaPrevious, DoPolkaAny,
                  DoProposalAndPolkaCurrent, DoPolkaNil, DoPrecommitAny, DoNothing, counter, sent
    <2> QED
      BY Zenon, <2>1, <2>2, <2>3, <2>4
  <1>4. ASSUME NEW p \in Correct, Input(p)
        PROVE  HeardProposals'
    <2>1. ASSUME NEW m \in AllProposals, ProcessProposal(p, m)
          PROVE  HeardProposals'
      BY Zenon, <2>1 DEF ProcessProposal, TypeOK, sent
    <2>2. ASSUME NEW m, ProcessPrevote(p, m) \/ ProcessPrecommit(p, m)
          PROVE  HeardProposals'
      BY Zenon, <2>2 DEF ProcessPrevote, ProcessPrecommit, sent
    <2>3. ASSUME NEW tm, ProcessTimeout(p, tm)
          PROVE  HeardProposals'
      <3>1. CASE UNCHANGED <<proposals, sentProposals>>
        BY Zenon, <3>1
      <3>2. CASE StartRound(p, tm.r + 1, timeouts[p] \ {tm})
        BY Zenon, <3>2, StartRoundProposals
      <3> QED
        BY Zenon, <2>3, <3>1, <3>2 DEF ProcessTimeout, OnTimeout, counter, sent
    <2> QED
      BY Zenon, <1>4, <2>1, <2>2, <2>3 DEF Input
  <1> QED
    BY Zenon, <1>1, <1>2, <1>3, <1>4 DEF Next

\* A validator moves only itself.
LEMMA OwnRound ==
    ASSUME TypeOK, NEW p \in Correct, NEW a \in Correct, a # p,
           ProcessStart(a) \/ Process(a) \/ Input(a)
    PROVE  round'[p] = round[p]
  <1>1. CASE ProcessStart(a)
    BY Zenon, <1>1 DEF ProcessStart, StartRound, TypeOK
  <1>2. CASE Process(a)
    BY ZenonT(40), <1>2 DEF Process, DoFirstProposal, DoProposalAndPolkaPrevious, DoPolkaAny, DoProposalAndPolkaCurrent,
                DoPolkaNil, DoPrecommitAny, DoCommitValue, DoSkipRound, DoNothing, StartRound, TypeOK, node
  <1>3. CASE Input(a)
    BY Zenon, <1>3 DEF Input, ProcessProposal, ProcessPrevote, ProcessPrecommit, ProcessTimeout, OnTimeout, StartRound, TypeOK, node
  <1> QED
    BY Zenon, <1>1, <1>2, <1>3

\* Who may be heard from in a round.
LEMMA CorrectSender ==
    ASSUME IInv, HeardProposals, NEW p \in Correct, height[p] \in Heights, NEW r \in Rounds,
           HasNonFaultyFutureMessage(p, r), r > round[p]
    PROVE  \E p2 \in Correct \ {p} :
              \/ height[p2] > height[p]
              \/ height[p2] = height[p] /\ round[p2] >= r
  <1> DEFINE S == Senders(votes[p], proposals[p], height[p], r)
  <1>1. S \in SUBSET Addr /\ HasNonFaulty(height[p], S)
    BY Zenon DEF Senders, HasNonFaultyFutureMessage
  <1>2. PICK a \in Correct : a \in S
    <2>1. SUFFICES ASSUME S \subseteq Faulty PROVE FALSE
      BY Zenon, <1>1 DEF Correct
    <2>2. Power[height[p]][S] <= Power[height[p]][Faulty]
      BY Zenon, <1>1, <2>1, PowerMonotone, FaultyAssumption
    <2>3. /\ Power[height[p]][S] \in Nat /\ Power[height[p]][Faulty] \in Nat
          /\ f(TotalVotingPower(height[p])) \in Nat
      <3>1. Faulty \in SUBSET Addr /\ Addr \in SUBSET Addr
        BY Zenon, FaultyAssumption
      <3>2. \A T \in SUBSET Addr : Power[height[p]][T] \in Nat
        BY Zenon, PowerAssumption
      <3>3. TotalVotingPower(height[p]) > 0
        BY Zenon, PowerAssumption DEF TotalVotingPower
      <3>4. TotalVotingPower(height[p]) \in Nat
        BY Zenon, <3>1, <3>2 DEF TotalVotingPower
      <3> QED
        BY Zenon, <1>1, <3>1, <3>2, <3>3, <3>4, Thresholds
    <2>4. Power[height[p]][S] > f(TotalVotingPower(height[p]))
      BY Zenon, <1>1 DEF HasNonFaulty
    <2>5. Power[height[p]][Faulty] <= f(TotalVotingPower(height[p]))
      BY Zenon, FaultyAssumption
    <2> HIDE DEF S
    <2> QED
      BY <2>2, <2>3, <2>4, <2>5
  <1>3. /\ height \in [Correct -> 0 .. MaxHeight + 1] /\ round \in [Correct -> Rounds]
    BY Zenon DEF IInv, TypeOK
  <1>4. height[a] >= height[p] /\ (height[a] = height[p] => round[a] >= r)
    <2>1. CASE \E t \in VoteType : a \in AnyVoters(votes[p], t, height[p], r)
      <3>1. PICK t \in VoteType, id \in Ids : a \in Voters(votes[p], t, height[p], r, id)
        BY Zenon, <2>1 DEF AnyVoters
      <3>2. a \in Voters(AllVotes, t, height[p], r, id)
        BY Zenon, <3>1 DEF IInv, Heard, Voters
      <3> DEFINE m == VoteOf(t, height[p], r, a, id)
      <3>3. m \in sentVotes /\ m.h = height[p] /\ m.r = r /\ m.from = a
        BY SMTT(40), <3>2, VoterSent, VoteFields
      <3> HIDE DEF m
      <3> QED
        BY Zenon, <1>3, <3>3, BoundsAssumption DEF IInv, Placed, Rounds, Heights
    <2>2. CASE \E m \in proposals[p] : m.h = height[p] /\ m.r = r /\ m.from = a
      <3>1. PICK m \in proposals[p] : m.h = height[p] /\ m.r = r /\ m.from = a
        BY Zenon, <2>2
      <3>2. m \in sentProposals
        BY Zenon, <3>1, FaultyAssumption DEF HeardProposals, AllProposals, Correct
      <3> QED
        BY Zenon, <1>3, <3>1, <3>2, BoundsAssumption DEF IInv, Placed, Rounds, Heights
    <2> QED
      BY Zenon, <1>2, <2>1, <2>2 DEF Senders
  <1>5. a # p
    BY <1>3, <1>4, BoundsAssumption DEF Rounds
  <1> QED
    BY SMTT(40), <1>3, <1>4, <1>5, BoundsAssumption DEF Heights

-----------------------------------------------------------------------------

LEMMA EnterLoopControl ==
    ASSUME TypeOK, NEW p \in Correct, pc[p] # "start", NEW r \in Rounds \union {-1},
           EnterLoop(p, r) \/ UNCHANGED control
    PROVE  /\ pc' \in [Correct -> {"start", "idle", "loop"}]
           /\ recent' \in [Correct -> Rounds \union {-1}]
           /\ \A a \in Correct : pc'[a] = "start" <=> pc[a] = "start"
  <1>1. CASE EnterLoop(p, r)
    BY Zenon, <1>1 DEF TypeOK, EnterLoop
  <1>2. CASE UNCHANGED control
    BY Zenon, <1>2 DEF TypeOK, control
  <1> QED
    BY Zenon, <1>1, <1>2

LEMMA InputIInv ==
    ASSUME IInv, NEW p \in Correct, Input(p)
    PROVE  IInv'
  <1> USE DEF node, counter, sync, sent
  <1>1. TypeOK /\ Heard
    BY Zenon DEF IInv
  <1>2. ASSUME NEW m \in sentProposals \union FaultyProposals, ProcessProposal(p, m)
        PROVE  IInv'
    <2>1. m \in Proposal /\ m.r \in Rounds \union {-1}
      BY Zenon, <1>1, FaultyAssumption DEF TypeOK, Proposal
    <2>2. /\ pc' \in [Correct -> {"start", "idle", "loop"}]
          /\ recent' \in [Correct -> Rounds \union {-1}]
          /\ \A a \in Correct : pc'[a] = "start" <=> pc[a] = "start"
      BY Zenon, <1>1, <1>2, <2>1, EnterLoopControl DEF ProcessProposal, ProcessMessage
    <2>3. TypeOK'
      BY Zenon, <1>1, <1>2, <2>1, <2>2 DEF TypeOK, ProcessProposal
    <2>4. Heard'
      BY Zenon, <1>1, <1>2 DEF Heard, AllVotes, ProcessProposal
    <2> QED
      BY Zenon, <1>2, <2>2, <2>3, <2>4, QuietStep DEF ProcessProposal
  <1>3. ASSUME NEW m \in sentVotes \union FaultyVotes, ProcessPrevote(p, m) \/ ProcessPrecommit(p, m)
        PROVE  IInv'
    <2>1. m \in Vote /\ m.r \in Rounds \union {-1} /\ m.h \in Heights
      BY Zenon, <1>1, FaultyAssumption DEF TypeOK, Vote
    <2>2. /\ votes' = [votes EXCEPT ![p] = votes[p] \union {m}] /\ pc[p] = "idle"
          /\ UNCHANGED <<height, round, step, locked, valid, once, proposals, timeouts, decided, sent>>
          /\ EnterLoop(p, m.r) \/ UNCHANGED control
      BY Zenon, <1>3 DEF ProcessPrevote, ProcessPrecommit, ProcessMessage
    <2>3. /\ pc' \in [Correct -> {"start", "idle", "loop"}]
          /\ recent' \in [Correct -> Rounds \union {-1}]
          /\ \A a \in Correct : pc'[a] = "start" <=> pc[a] = "start"
      BY Zenon, <1>1, <2>1, <2>2, EnterLoopControl
    <2>4. lastTriggerSync' \in [Correct -> Heights] /\ lastQuorum' \in [Correct -> Heights]
      <3>1. CASE UNCHANGED sync
        BY Zenon, <1>1, <3>1 DEF TypeOK
      <3>2. CASE TriggerSync(p, m)
        <4>1. lastQuorum[p] \in Heights
          BY Zenon, <1>1 DEF TypeOK
        <4>2. PICK end \in Heights : /\ lastQuorum' = [lastQuorum EXCEPT ![p] = end]
                                     /\ lastTriggerSync' = [lastTriggerSync EXCEPT ![p] = end]
          BY Zenon, <2>1, <3>2, <4>1 DEF TriggerSync
        <4> QED
          BY Zenon, <1>1, <4>2 DEF TypeOK
      <3> QED
        BY Zenon, <1>3, <3>1, <3>2 DEF ProcessPrevote, ProcessPrecommit
    <2>5. votes' \in [Correct -> SUBSET Vote]
      BY Zenon, <1>1, <2>1, <2>2 DEF TypeOK
    <2>6. TypeOK'
      BY Zenon, <1>1, <2>2, <2>3, <2>4, <2>5 DEF TypeOK
    <2>7. Heard'
      BY Zenon, <1>1, <2>2 DEF TypeOK, Heard, AllVotes
    <2> QED
      BY Zenon, <2>2, <2>3, <2>6, <2>7, QuietStep
  <1>4. ASSUME NEW tm \in timeouts[p], ProcessTimeout(p, tm)
        PROVE  IInv'
    <2> DEFINE pending == timeouts[p] \ {tm}
    <2>1. tm \in Timeout /\ pending \in SUBSET Timeout /\ tm.r \in Rounds /\ tm.h \in Heights
      <3>1. timeouts[p] \in SUBSET Timeout
        BY Zenon, <1>1 DEF TypeOK
      <3>2. \A t \in Timeout : t.r \in Rounds /\ t.h \in Heights
        BY Zenon DEF Timeout
      <3> QED
        BY Zenon, <3>1, <3>2
    <2>2. pc[p] = "idle" /\ EnterLoop(p, -1) /\ height[p] \in Heights
      BY Zenon, <1>4 DEF ProcessTimeout, OnTimeout, IInv, Running
    <2>3. /\ pc' \in [Correct -> {"start", "idle", "loop"}]
          /\ recent' \in [Correct -> Rounds \union {-1}]
          /\ \A a \in Correct : pc'[a] = "start" <=> pc[a] = "start"
      BY Zenon, <1>1, <2>2, EnterLoopControl
    <2>4. timeouts' = [timeouts EXCEPT ![p] = pending] => timeouts' \in [Correct -> SUBSET Timeout]
      BY <1>1, <2>1 DEF TypeOK
    <2>5. Nil \in Ids /\ Prevote \in VoteType /\ Precommit \in VoteType
      BY Zenon DEF Ids, VoteType
    <2>6. CASE /\ TimeoutActs(p, tm) /\ tm.step = StepPropose
               /\ SetStepAndSendPrevote(p, Nil)
               /\ timeouts' = [timeouts EXCEPT ![p] = pending]
               /\ UNCHANGED <<height, round, locked, valid, once, proposals, sync, decided, sentProposals>>
      <3>1. step[p] = StepPropose
        BY Zenon, <2>6 DEF TimeoutActs, StepPropose, StepPrecommit
      <3>2. LockAllows(p, Nil)
        BY Zenon DEF LockAllows
      <3>3. VoteStep(p, Prevote, Nil, StepPrevote)
        BY Zenon, <2>2, <2>3, <2>5, <2>6, <3>1 DEF VoteStep, SetStepAndSendPrevote
      <3>4. PlainVoteStep(p, Prevote, Nil, StepPrevote)
        BY Zenon, <2>3, <2>4, <2>6, <3>2, <3>3 DEF PlainVoteStep
      <3> QED
        BY Zenon, <3>4, PlainVote
    <2>7. CASE /\ TimeoutActs(p, tm) /\ tm.step = StepPrevote
               /\ SetStepAndSendPrecommit(p, Nil)
               /\ timeouts' = [timeouts EXCEPT ![p] = pending]
               /\ UNCHANGED <<height, round, locked, valid, once, proposals, sync, decided, sentProposals>>
      <3>1. step[p] = StepPrevote
        BY Zenon, <2>7 DEF TimeoutActs, StepPrevote, StepPrecommit
      <3> QED
        <4>1. VoteStep(p, Precommit, Nil, StepPrecommit)
          BY Zenon, <2>2, <2>3, <2>5, <2>7, <3>1 DEF VoteStep, SetStepAndSendPrecommit
        <4>2. PlainVoteStep(p, Precommit, Nil, StepPrecommit)
          BY Zenon, <2>3, <2>4, <2>7, <4>1 DEF PlainVoteStep, Prevote, Precommit
        <4> QED
          BY Zenon, <4>2, PlainVote
    <2>8. CASE /\ TimeoutActs(p, tm) /\ tm.step = StepPrecommit
               /\ tm.r < MaxRound
               /\ StartRound(p, tm.r + 1, pending)
      <3>1. tm.r + 1 \in Rounds /\ tm.r + 1 > round[p]
        BY <1>1, <2>1, <2>8, BoundsAssumption DEF TypeOK, TimeoutActs, IsSameHeightAndRound, Rounds
      <3>2. pc' = [pc EXCEPT ![p] = "loop"]
        BY Zenon, <2>2 DEF EnterLoop
      <3> QED
        BY Zenon, <2>1, <2>2, <2>3, <2>8, <3>1, <3>2, RoundStarted
    <2>9. CASE /\ ~TimeoutActs(p, tm)
               /\ timeouts' = [timeouts EXCEPT ![p] = pending]
               /\ UNCHANGED <<node, counter, sync, decided, sent>>
      <3>1. TypeOK'
        BY Zenon, <1>1, <2>3, <2>4, <2>9 DEF TypeOK
      <3>2. Heard'
        BY Zenon, <1>1, <2>9 DEF Heard, AllVotes
      <3> QED
        BY Zenon, <2>3, <2>9, <3>1, <3>2, QuietStep
    <2> QED
      BY Zenon, <1>4, <2>6, <2>7, <2>8, <2>9 DEF ProcessTimeout, OnTimeout
  <1> QED
    BY Zenon, <1>2, <1>3, <1>4 DEF Input

\* Which condition holds when a rule is chosen.
LEMMA RuleConditions ==
    ASSUME NEW p \in Correct
    PROVE  /\ Rule(p) = "line44" => UponPolkaNil(p)
           /\ Rule(p) = "line55" => UponSkipRound(p, recent[p])
  BY Zenon DEF Rule

LEMMA ScheduleIInv ==
    ASSUME IInv, NEW p \in Correct, pc[p] = "loop", DoPolkaAny(p) \/ DoPrecommitAny(p)
    PROVE  IInv'
  <1> USE DEF counter, sync, control, sent
  <1>1. TypeOK /\ Heard /\ height[p] \in Heights
    BY Zenon DEF IInv, Running
  <1>2. PICK flag \in Once, s \in Step :
           /\ once' = [once EXCEPT ![p] = once[p] \union {flag}]
           /\ ScheduleTimeout(p, timeouts[p], s, round[p])
           /\ UNCHANGED <<height, round, step, locked, valid, counter, sync, control, decided, sent>>
    BY Zenon DEF DoPolkaAny, DoPrecommitAny, Once, Step
  <1>3. [step |-> s, h |-> height[p], r |-> round[p]] \in Timeout
    BY Zenon, <1>1 DEF TypeOK, Timeout
  <1>4. timeouts' \in [Correct -> SUBSET Timeout]
    BY Zenon, <1>1, <1>2, <1>3 DEF TypeOK, ScheduleTimeout
  <1>5. once' \in [Correct -> SUBSET Once]
    BY Zenon, <1>1, <1>2 DEF TypeOK
  <1>6. TypeOK'
    BY Zenon, <1>1, <1>2, <1>4, <1>5 DEF TypeOK
  <1>7. Heard'
    BY Zenon, <1>1, <1>2 DEF Heard, AllVotes
  <1> QED
    BY Zenon, <1>2, <1>6, <1>7, QuietStep

LEMMA RulePrevoteIInv ==
    ASSUME IInv, NEW p \in Correct, pc[p] = "loop", NEW m \in CachedProposal(p, round[p]),
           DoFirstProposal(p, m) \/ DoProposalAndPolkaPrevious(p, m)
    PROVE  IInv'
  <1>1. TypeOK /\ height[p] \in Heights /\ UNCHANGED <<pc, recent, timeouts>>
    BY Zenon DEF IInv, Running, DoFirstProposal, DoProposalAndPolkaPrevious, control
  <1>2. m \in Proposal /\ m.value \in Ids /\ m.vr \in Rounds \union {-1}
    BY SMTT(40), <1>1 DEF TypeOK, CachedProposal, Proposal, Ids
  <1>3. PICK id \in Ids : SetStepAndSendPrevote(p, id) /\ LockAllows(p, id)
    <2>1. CASE DoFirstProposal(p, m)
      <3> DEFINE id == IF m.value \in ValidFor[p] /\ (locked[p].round = -1 \/ locked[p].value = m.value)
                       THEN m.value ELSE Nil
      <3>1. id \in Ids /\ LockAllows(p, id)
        BY Zenon, <1>2 DEF LockAllows, Ids
      <3>2. SetStepAndSendPrevote(p, id)
        BY Zenon, <2>1 DEF DoFirstProposal
      <3> QED
        BY Zenon, <3>1, <3>2
    <2>2. CASE DoProposalAndPolkaPrevious(p, m)
      <3> DEFINE id == IF m.value \in ValidFor[p] /\ (locked[p].round <= m.vr \/ locked[p].value = m.value)
                       THEN m.value ELSE Nil
      <3>1. m.vr \in Rounds /\ m.vr < round[p] /\ HasQuorumForVote(p, m.vr, Prevote, m.value)
        <4>1. m.vr >= 0 /\ m.vr < round[p] /\ HasQuorumForVote(p, m.vr, Prevote, m.value)
          BY Zenon, <2>2 DEF DoProposalAndPolkaPrevious, UponProposalAndPolkaPrevious
        <4>2. ~(-1 >= 0)
          OBVIOUS
        <4> QED
          BY Zenon, <1>2, <4>1, <4>2
      <3>2. Polka(height[p], m.vr, m.value)
        BY Zenon, <1>1, <1>2, <3>1, HeardQuorum
      <3>3. id \in Ids /\ LockAllows(p, id)
        BY Zenon, <1>2, <3>1, <3>2 DEF LockAllows, Ids
      <3>4. SetStepAndSendPrevote(p, id)
        BY Zenon, <2>2 DEF DoProposalAndPolkaPrevious
      <3> QED
        BY Zenon, <3>3, <3>4
    <2> QED
      BY Zenon, <2>1, <2>2
  <1>4. step[p] = StepPropose /\ Prevote \in VoteType
    BY Zenon DEF DoFirstProposal, UponFirstProposal, DoProposalAndPolkaPrevious,
           UponProposalAndPolkaPrevious, VoteType
  <1>5. UNCHANGED <<height, round, locked, valid, once, proposals, sync, decided, sentProposals>>
    BY Zenon DEF DoFirstProposal, DoProposalAndPolkaPrevious
  <1>6. VoteStep(p, Prevote, id, StepPrevote)
    BY Zenon, <1>1, <1>3, <1>4, <1>5 DEF VoteStep, SetStepAndSendPrevote
  <1>7. PlainVoteStep(p, Prevote, id, StepPrevote)
    BY Zenon, <1>1, <1>3, <1>5, <1>6 DEF PlainVoteStep, TypeOK, Prevote, Precommit
  <1> QED
    BY Zenon, <1>7, PlainVote

LEMMA PolkaCurrentIInv ==
    ASSUME IInv, NEW p \in Correct, pc[p] = "loop", NEW m \in CachedProposal(p, round[p]),
           DoProposalAndPolkaCurrent(p, m)
    PROVE  IInv'
  <1>1. TypeOK /\ height[p] \in Heights /\ round[p] \in Rounds
    BY Zenon DEF IInv, TypeOK, Running
  <1>2. m.value \in Hash /\ m.value \in Ids
    BY SMTT(40), <1>1 DEF TypeOK, CachedProposal, Proposal, Ids
  <1>3. Polka(height[p], round[p], m.value)
    BY Zenon, <1>1, <1>2, HeardQuorum DEF DoProposalAndPolkaCurrent, UponProposalAndPolkaCurrent
  <1>4. once' \in [Correct -> SUBSET Once]
    BY Zenon, <1>1 DEF TypeOK, DoProposalAndPolkaCurrent, Once
  <1>5. CASE step[p] = StepPrevote
    <2>1. VoteStep(p, Precommit, m.value, StepPrecommit)
      BY Zenon, <1>1, <1>2, <1>5 DEF VoteStep, DoProposalAndPolkaCurrent, SetStepAndSendPrecommit, VoteType, control
    <2>2. LockingVoteStep(p, m.value)
      BY Zenon, <1>2, <1>3, <1>4, <1>5, <2>1 DEF LockingVoteStep, DoProposalAndPolkaCurrent
    <2> QED
      BY Zenon, <2>2, LockingVote
  <1>6. CASE step[p] # StepPrevote
    BY Zenon, <1>1, <1>2, <1>3, <1>4, <1>6, LateValid DEF DoProposalAndPolkaCurrent, counter, sent
  <1> QED
    BY Zenon, <1>5, <1>6

LEMMA ProcessIInv ==
    ASSUME IInv, NEW p \in Correct, Process(p)
    PROVE  IInv'
  <1>1. TypeOK /\ Heard /\ height[p] \in Heights /\ pc[p] = "loop"
    BY Zenon DEF IInv, Running, Process
  <1>2. CASE \E m \in CachedProposal(p, round[p]) : DoFirstProposal(p, m) \/ DoProposalAndPolkaPrevious(p, m)
    BY Zenon, <1>1, <1>2, RulePrevoteIInv
  <1>3. CASE DoPolkaAny(p) \/ DoPrecommitAny(p)
    BY Zenon, <1>1, <1>3, ScheduleIInv
  <1>4. CASE \E m \in CachedProposal(p, round[p]) : DoProposalAndPolkaCurrent(p, m)
    BY Zenon, <1>1, <1>4, PolkaCurrentIInv
  <1>5. CASE Rule(p) = "line44" /\ DoPolkaNil(p)
    <2>1. step[p] = StepPrevote /\ Precommit \in VoteType /\ Nil \in Ids
      BY Zenon, <1>5, RuleConditions DEF UponPolkaNil, VoteType, Ids
    <2>2. UNCHANGED <<pc, recent, timeouts>>
      BY Zenon, <1>5 DEF DoPolkaNil, control
    <2>3. VoteStep(p, Precommit, Nil, StepPrecommit)
      BY Zenon, <1>1, <1>5, <2>1, <2>2 DEF VoteStep, DoPolkaNil, SetStepAndSendPrecommit
    <2>4. PlainVoteStep(p, Precommit, Nil, StepPrecommit)
      BY Zenon, <1>1, <1>5, <2>2, <2>3 DEF PlainVoteStep, DoPolkaNil, TypeOK, Prevote, Precommit
    <2> QED
      BY Zenon, <2>4, PlainVote
  <1>6. CASE \E m \in RoundCachedProposal(p) : DoCommitValue(p, m)
    BY Zenon, <1>1, <1>6, Committed DEF RoundCachedProposal
  <1>7. CASE Rule(p) = "line55" /\ DoSkipRound(p)
    <2>1. recent[p] > round[p] /\ recent[p] \in Rounds
      <3>1. recent[p] > round[p] /\ recent[p] \in Rounds \union {-1} /\ round[p] \in Rounds
        BY Zenon, <1>1, <1>7, RuleConditions DEF UponSkipRound, TypeOK
      <3> QED
        BY <3>1, BoundsAssumption DEF Rounds
    <2>2. StartRound(p, recent[p], timeouts[p]) /\ timeouts[p] \in SUBSET Timeout
      BY Zenon, <1>1, <1>7 DEF DoSkipRound, TypeOK
    <2>3. pc' = [pc EXCEPT ![p] = "loop"] /\ recent' \in [Correct -> Rounds \union {-1}]
      BY Zenon, <1>1, <1>7 DEF DoSkipRound, control, TypeOK
    <2> QED
      BY Zenon, <1>1, <2>1, <2>2, <2>3, RoundStarted
  <1>8. CASE DoNothing(p)
    <2>1. TypeOK'
      BY Zenon, <1>1, <1>8 DEF TypeOK, DoNothing, node, counter, sync, sent
    <2>2. Heard'
      BY Zenon, <1>1, <1>8 DEF Heard, AllVotes, DoNothing, counter, sent
    <2>3. \A a \in Correct : pc'[a] = "start" <=> pc[a] = "start"
      BY Zenon, <1>1, <1>8 DEF TypeOK, DoNothing
    <2> QED
      BY Zenon, <1>8, <2>1, <2>2, <2>3, QuietStep DEF DoNothing, node, counter, sent
  <1> QED
    BY Zenon, <1>2, <1>3, <1>4, <1>5, <1>6, <1>7, <1>8 DEF Process

LEMMA NextIInv ==
    ASSUME IInv, [Next]_vars
    PROVE  IInv'
  <1>1. CASE UNCHANGED vars
    <2>1. TypeOK' /\ Heard'
      BY Zenon, <1>1 DEF IInv, TypeOK, Heard, AllVotes, vars, node, counter, sync, control, sent
    <2> QED
      BY Zenon, <1>1, <2>1, QuietStep DEF vars, node, counter, control, sent
  <1>2. ASSUME NEW p \in Correct, ProcessStart(p)
        PROVE  IInv'
    <2>1. /\ pc[p] = "start" /\ height[p] \in Heights /\ StartRound(p, 0, timeouts[p])
          /\ pc' = [pc EXCEPT ![p] = "loop"]
      BY Zenon, <1>2 DEF ProcessStart, EnterLoop
    <2>2. 0 \in Rounds /\ timeouts[p] \in SUBSET Timeout /\ recent' \in [Correct -> Rounds \union {-1}]
      <3>1. 0 \in Rounds
        BY BoundsAssumption DEF Rounds
      <3>2. recent \in [Correct -> Rounds \union {-1}] /\ recent' = [recent EXCEPT ![p] = -1]
            /\ timeouts[p] \in SUBSET Timeout
        BY Zenon, <1>2 DEF IInv, TypeOK, ProcessStart, EnterLoop
      <3> QED
        BY Zenon, <3>1, <3>2
    <2> QED
      BY Zenon, <2>1, <2>2, RoundStarted
  <1> QED
    BY Zenon, <1>1, <1>2, ProcessIInv, InputIInv DEF Next

LEMMA Invariance ==
    Spec => []IInv
  <1>1. Init => IInv
    BY Zenon, InitIInv
  <1>2. IInv /\ [Next]_vars => IInv'
    BY Zenon, NextIInv
  <1> QED
    BY <1>1, <1>2, PTL DEF Spec

\* The behaviours that finish a handler before the next one begins are behaviours.
LEMMA AtomicIsSpec ==
    AtomicSpec => Spec
  <1>1. [AtomicNext]_vars => [Next]_vars
    BY Zenon DEF AtomicNext, Next, Busy
  <1> QED
    BY <1>1, PTL DEF AtomicSpec, Spec

-----------------------------------------------------------------------------
\* TypeOK: rounds, steps, locks and messages stay in their types; in particular
\* no handler or rule starts a round or schedules a timeout outside a height.
THEOREM TypeCorrect == Spec => []TypeOK
  <1>1. IInv => TypeOK
    BY Zenon DEF IInv
  <1> QED
    BY <1>1, Invariance, PTL

\* Agreement: doCommitValue never decides two values at one height.
THEOREM AgreementHolds == Spec => []Agreement
  <1>1. IInv => Agreement
    BY Zenon, IInvAgreement
  <1> QED
    BY <1>1, Invariance, PTL

\* NoEquivocation: setStepAndSendPrevote, setStepAndSendPrecommit and sendProposal
\* are never called twice for a round.
THEOREM NeverEquivocates == Spec => []NoEquivocation
  <1>1. IInv => NoEquivocation
    BY Zenon DEF IInv
  <1> QED
    BY <1>1, Invariance, PTL

\* ClaimsJustified: precommits and re-proposals have their polkas.
THEOREM ClaimsAreJustified == Spec => []ClaimsJustified
  <1>1. IInv => ClaimsJustified
    BY Zenon DEF IInv
  <1> QED
    BY <1>1, Invariance, PTL

\* PolkasExclusive: rules 36 and 44 cannot both apply to a round.
THEOREM PolkasAreExclusive == Spec => []PolkasExclusive
  <1>1. IInv => PolkasExclusive
    <2> SUFFICES ASSUME IInv, NEW p \in Correct, height[p] \in Heights, NEW r \in Rounds, NEW v \in Hash,
                        HasQuorumForVote(p, r, Prevote, Nil), HasQuorumForVote(p, r, Prevote, v)
                 PROVE  FALSE
      BY Zenon DEF PolkasExclusive
    <2>1. Nil \in Ids /\ v \in Ids /\ v # Nil /\ Prevote \in VoteType
      BY Zenon, NilAssumption DEF Ids, VoteType
    <2>2. Polka(height[p], r, Nil) /\ Polka(height[p], r, v)
      BY Zenon, <2>1, HeardQuorum
    <2>3. NoEquivocation
      BY Zenon DEF IInv
    <2> QED
      BY Zenon, <2>1, <2>2, <2>3, OneQuorumPerRound DEF Polka
  <1> QED
    BY <1>1, Invariance, PTL

\* SkipsFollowCorrect: uponSkipRound needs a message of a correct validator that is
\* in the round already.
THEOREM SkipsAreFollowing == Spec => SkipsFollowCorrect
  <1> DEFINE Skip ==
                \A p \in Correct :
                   height'[p] = height[p] /\ round'[p] > round[p] /\ pc[p] = "loop" =>
                      \E p2 \in Correct \ {p} :
                         \/ height[p2] > height[p]
                         \/ height[p2] = height[p] /\ round[p2] >= round'[p]
  <1>1. Init => HeardProposals
    BY Zenon DEF Init, HeardProposals
  <1>2. IInv /\ HeardProposals /\ [Next]_vars => HeardProposals'
    BY Zenon, NextHeardProposals DEF IInv
  <1>3. ASSUME IInv, HeardProposals, Next
        PROVE  Skip
    <2> SUFFICES ASSUME NEW p \in Correct, height'[p] = height[p], round'[p] > round[p], pc[p] = "loop"
                 PROVE  \E p2 \in Correct \ {p} :
                              \/ height[p2] > height[p]
                              \/ height[p2] = height[p] /\ round[p2] >= round'[p]
      BY Zenon
    <2>1. /\ TypeOK /\ height[p] \in Heights /\ round \in [Correct -> Rounds]
          /\ height \in [Correct -> 0 .. MaxHeight + 1]
      BY Zenon, <1>3 DEF IInv, Running, TypeOK
    <2>2. ~(round'[p] = round[p])
      BY SMTT(40), <2>1, BoundsAssumption DEF Rounds
    <2>3. ProcessStart(p) \/ Process(p) \/ Input(p)
      BY Zenon, <1>3, <2>1, <2>2, OwnRound DEF Next
    <2>4. Process(p)
      BY Zenon, <2>3 DEF ProcessStart, Input, ProcessProposal, ProcessPrevote, ProcessPrecommit, ProcessTimeout, OnTimeout
    <2>5. ~(\E m \in RoundCachedProposal(p) : DoCommitValue(p, m))
      BY SMTT(40), <2>1, BoundsAssumption DEF DoCommitValue
    <2>6. Rule(p) = "line55" /\ DoSkipRound(p)
      BY Zenon, <2>2, <2>4, <2>5
         DEF Process, DoFirstProposal, DoProposalAndPolkaPrevious, DoPolkaAny, DoProposalAndPolkaCurrent,
             DoPolkaNil, DoPrecommitAny, DoNothing, node
    <2>7. recent[p] \in Rounds /\ recent[p] > round[p] /\ HasNonFaultyFutureMessage(p, recent[p])
      <3>1. UponSkipRound(p, recent[p])
        BY Zenon, <2>6, RuleConditions
      <3>2. recent[p] \in Rounds \union {-1} /\ round[p] \in Rounds
        BY Zenon, <2>1 DEF TypeOK
      <3> QED
        BY SMTT(40), <3>1, <3>2, BoundsAssumption DEF UponSkipRound, Rounds
    <2>8. round'[p] = recent[p]
      BY Zenon, <2>1, <2>6 DEF DoSkipRound, StartRound
    <2> QED
      BY Zenon, <1>3, <2>1, <2>7, <2>8, CorrectSender
  <1>4. IInv /\ HeardProposals /\ [Next]_vars => [Skip]_vars
    BY Zenon, <1>3
  <1>5. Spec => [](HeardProposals)
    BY <1>1, <1>2, Invariance, PTL DEF Spec
  <1> QED
    BY <1>4, <1>5, Invariance, PTL DEF Spec, SkipsFollowCorrect
=============================================================================
