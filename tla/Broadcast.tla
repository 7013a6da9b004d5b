------------------------------ MODULE Broadcast -----------------------------
(***************************************************************************)
(* The broadcast of utils/broadcast/broadcast.go: a ring of slots that     *)
(* producers overwrite, and subscriptions with a goroutine each that reads *)
(* the ring, waits on the condition of a slot when it has caught up, and   *)
(* is told how far to skip when it was overtaken.  The message with        *)
(* sequence number n is n.  Producers are serialised by a mutex, which a   *)
(* step of Send or Close stands for; so does the lock of a slot.           *)
(*                                                                         *)
(* The second half is about the feeds, the simpler way to notify.          *)
(***************************************************************************)
EXTENDS Integers, Sequences, TLAPS

CONSTANTS
    requested,   \* capacity asked for
    Subs,
    MaxSends,    \* bound
    \* of the feeds:
    FeedOf,      \* subscription -> its feed, 1 or 2
    KeepLast,    \* the subscriptions that keep the last value
    Teed         \* subscription of feed 1 that is forwarded to feed 2

VARIABLES
    tail,        \* the next sequence number
    seq,         \* slot -> 1 + the number of the message in it
    closing,     \* "no", "closed" (waiters not woken yet) or "woken"
    pc,          \* "none", "read", "wait", "computed", "deliver" or "exited"
    nextSeq,
    res,         \* what a goroutine has read and not delivered
    out,         \* the channel of a subscription, which holds one
    unsub,       \* "no", "closed", "loaded" or "woken"
    wake,        \* the slot that an Unsubscribe will wake
    expected,    \* what the reader of out waits for
    \* of the feeds:
    sent,        \* values sent to the first feed
    subs,        \* the subscriptions of the feeds
    ch, closed,  \* the channel of a subscription
    sending,     \* feed -> the value its Send holds the mutex for, 0 if none
    todo,        \* feed -> subscriptions that the Send has yet to serve
    full,        \* feed -> the one of them that it found full, 0 if none
    got, offered \* the last value a subscriber has received, and was offered

ring == <<tail, seq, closing>>
vars == <<tail, seq, closing, pc, nextSeq, res, out, unsub, wake, expected>>

nextPowerOfTwo(x) == IF x = 0 THEN 1 ELSE CHOOSE p \in {2^i : i \in 0..x} : p >= x /\ (p = 1 \/ p \div 2 < x)

capacity == nextPowerOfTwo(requested)

Slot(n) == n % capacity

Nothing == [lag |-> FALSE, seq |-> 0]

New == tail = 0 /\ seq = [i \in 0..capacity - 1 |-> 0] /\ closing = "no"

Init ==
    /\ New
    /\ pc = [s \in Subs |-> "none"] /\ nextSeq = [s \in Subs |-> 0] /\ expected = [s \in Subs |-> 0]
    /\ res = [s \in Subs |-> Nothing] /\ out = [s \in Subs |-> <<>>]
    /\ unsub = [s \in Subs |-> "no"] /\ wake = [s \in Subs |-> 0]

\* The goroutines that wait on a slot read it again.
Woken(slot) == [s \in Subs |-> IF pc[s] = "wait" /\ Slot(nextSeq[s]) = slot THEN "read" ELSE pc[s]]

\* Refused once closed.
Send ==
    /\ tail < MaxSends /\ closing = "no"
    /\ seq' = [seq EXCEPT ![Slot(tail)] = tail + 1]
    /\ tail' = tail + 1
    /\ pc' = Woken(Slot(tail))
    /\ UNCHANGED <<closing, nextSeq, res, out, unsub, wake, expected>>

Close ==
    /\ \/ closing = "no" /\ closing' = "closed" /\ UNCHANGED pc
       \/ closing = "closed" /\ closing' = "woken" /\ pc' = Woken(Slot(tail))
    /\ UNCHANGED <<tail, seq, nextSeq, res, out, unsub, wake, expected>>

Subscribe(s) ==
    /\ pc[s] = "none"
    /\ pc' = [pc EXCEPT ![s] = "read"]
    /\ nextSeq' = [nextSeq EXCEPT ![s] = tail] /\ expected' = [expected EXCEPT ![s] = tail]
    /\ UNCHANGED <<ring, res, out, unsub, wake>>

\* Under the lock of the slot: leave, wait, or take what is there.
read(s) ==
    LET slotSeq == seq[Slot(nextSeq[s])] IN
    /\ pc[s] = "read"
    /\ IF slotSeq > nextSeq[s]
       THEN /\ pc' = [pc EXCEPT ![s] = "computed"]
            /\ res' = [res EXCEPT ![s] = [lag |-> slotSeq # nextSeq[s] + 1, seq |-> slotSeq - 1]]
       ELSE /\ pc' = [pc EXCEPT ![s] = IF unsub[s] # "no" \/ closing # "no" THEN "exited" ELSE "wait"]
            /\ UNCHANGED res
    /\ UNCHANGED <<ring, nextSeq, out, unsub, wake, expected>>

\* Without the lock: step on, or jump to the oldest message of the tail.
compute(s) ==
    LET oldest == tail - capacity IN
    /\ pc[s] = "computed" /\ pc' = [pc EXCEPT ![s] = "deliver"]
    /\ IF res[s].lag
       THEN /\ nextSeq' = [nextSeq EXCEPT ![s] = oldest]
            /\ res' = [res EXCEPT ![s] = [lag |-> TRUE, missed |-> nextSeq[s], next |-> oldest]]
       ELSE nextSeq' = [nextSeq EXCEPT ![s] = @ + 1] /\ UNCHANGED res
    /\ UNCHANGED <<ring, out, unsub, wake, expected>>

deliver(s) ==
    /\ pc[s] = "deliver"
    /\ \/ /\ out[s] = <<>> /\ out' = [out EXCEPT ![s] = <<res[s]>>]
          /\ pc' = [pc EXCEPT ![s] = "read"]
       \/ unsub[s] # "no" /\ pc' = [pc EXCEPT ![s] = "exited"] /\ UNCHANGED out
    /\ res' = [res EXCEPT ![s] = Nothing]
    /\ UNCHANGED <<ring, nextSeq, unsub, wake, expected>>

run(s) == read(s) \/ compute(s) \/ deliver(s)

\* Stop, find the slot it may wait on, and wake that one.
Unsubscribe(s) ==
    /\ pc[s] # "none"
    /\ \/ unsub[s] = "no" /\ unsub' = [unsub EXCEPT ![s] = "closed"] /\ UNCHANGED <<wake, pc>>
       \/ /\ unsub[s] = "closed" /\ unsub' = [unsub EXCEPT ![s] = "loaded"]
          /\ wake' = [wake EXCEPT ![s] = Slot(nextSeq[s])] /\ UNCHANGED pc
       \/ /\ unsub[s] = "loaded" /\ unsub' = [unsub EXCEPT ![s] = "woken"]
          /\ pc' = Woken(wake[s]) /\ wake' = [wake EXCEPT ![s] = 0]
    /\ UNCHANGED <<ring, nextSeq, res, out, expected>>

\* The reader takes what was delivered.
Recv(s) ==
    /\ out[s] # <<>>
    /\ expected' = [expected EXCEPT ![s] = IF Head(out[s]).lag THEN Head(out[s]).next ELSE @ + 1]
    /\ out' = [out EXCEPT ![s] = <<>>]
    /\ UNCHANGED <<ring, pc, nextSeq, res, unsub, wake>>

Next == Send \/ Close \/ \E s \in Subs : Subscribe(s) \/ run(s) \/ Unsubscribe(s) \/ Recv(s)

Spec == Init /\ [][Next]_vars

----------------------------------------------------------------------------
TypeOK ==
    /\ tail \in 0..MaxSends /\ closing \in {"no", "closed", "woken"}
    /\ \A s \in Subs : nextSeq[s] \in 0..tail /\ Len(out[s]) <= 1

\* A reader gets every message once and in order, or is told of exactly the
\* ones that it does not get, and those were overwritten (Subscription.run).
DeliversInOrder ==
    \A s \in Subs : out[s] # <<>> =>
        LET e == Head(out[s]) IN
        IF e.lag THEN e.missed = expected[s] /\ e.next > e.missed /\ tail - capacity >= e.next
        ELSE e.seq = expected[s]

\* Nobody sleeps through a message, a Close or an Unsubscribe: Close wakes one
\* slot only, and Unsubscribe reads the position without a lock.
NobodySleepsOn ==
    \A s \in Subs : pc[s] = "wait" =>
        /\ nextSeq[s] = tail
        /\ closing # "woken" /\ unsub[s] # "woken"

\* A subscription that ends because the broadcast was closed has had every
\* message that was sent (the drain that its comment promises).
DrainsBeforeEnd ==
    \A s \in Subs : pc[s] = "exited" /\ unsub[s] = "no" => closing # "no" /\ nextSeq[s] = tail

-----------------------------------------------------------------------------
(* Feeds (feed/feed.go): a channel of one for every subscription, which a  *)
(* Send fills under the feed's mutex without ever waiting.  A subscription *)
(* either skips what it has no room for, or drops the older value.  Tee    *)
(* forwards one subscription of the first feed to the second.  Values are  *)
(* sent in the order 1, 2, ...                                             *)

feedVars == <<sent, subs, ch, closed, sending, todo, full, got, offered>>

Feeds == {1, 2}

NewFeed == subs = {}

FeedInit ==
    /\ NewFeed /\ sent = 0
    /\ ch = [s \in Subs |-> <<>>] /\ closed = {}
    /\ sending = [f \in Feeds |-> 0] /\ todo = [f \in Feeds |-> {}] /\ full = [f \in Feeds |-> 0]
    /\ got = [s \in Subs |-> 0] /\ offered = [s \in Subs |-> 0]

Unlocked(f) == sending[f] = 0

subscribe(s) ==
    /\ s \notin subs \union closed /\ Unlocked(FeedOf[s])
    /\ subs' = subs \union {s}
    /\ UNCHANGED <<sent, ch, closed, sending, todo, full, got, offered>>

FeedUnsubscribe(s) ==
    /\ s \in subs /\ Unlocked(FeedOf[s])
    /\ subs' = subs \ {s} /\ closed' = closed \union {s}
    /\ UNCHANGED <<sent, ch, sending, todo, full, got, offered>>

\* A Send takes the mutex; the subscriptions are served in any order.
Lock(f, v) ==
    /\ Unlocked(f)
    /\ sending' = [sending EXCEPT ![f] = v]
    /\ todo' = [todo EXCEPT ![f] = {s \in subs : FeedOf[s] = f}]

FeedSend ==
    /\ sent < MaxSends /\ sent' = sent + 1 /\ Lock(1, sent + 1)
    /\ UNCHANGED <<subs, ch, closed, full, got, offered>>

Served(f, s) ==
    /\ todo' = [todo EXCEPT ![f] = @ \ {s}]
    /\ offered' = [offered EXCEPT ![s] = sending[f]]

\* Put the value if there is room, otherwise skip it or make room.
TrySend(f, s) ==
    /\ full[f] = 0 /\ s \in todo[f]
    /\ IF ch[s] = <<>>
       THEN ch' = [ch EXCEPT ![s] = <<sending[f]>>] /\ Served(f, s) /\ UNCHANGED full
       ELSE IF s \in KeepLast THEN full' = [full EXCEPT ![f] = s] /\ UNCHANGED <<ch, todo, offered>>
       ELSE Served(f, s) /\ UNCHANGED <<ch, full>>
    /\ UNCHANGED <<sent, subs, closed, sending, got>>

\* The oldest value is dropped, unless the subscriber was faster.
DropOldest(f) ==
    LET s == full[f] IN
    /\ s # 0 /\ s \in todo[f]
    /\ ch' = [ch EXCEPT ![s] = <<>>]
    /\ todo' = [todo EXCEPT ![f] = @ \ {s}]
    /\ UNCHANGED <<sent, subs, closed, sending, full, got, offered>>

\* A send that would wait if the channel were full.
SendAgain(f) ==
    LET s == full[f] IN
    /\ s # 0 /\ s \notin todo[f]
    /\ ch[s] = <<>> /\ ch' = [ch EXCEPT ![s] = <<sending[f]>>]
    /\ full' = [full EXCEPT ![f] = 0] /\ offered' = [offered EXCEPT ![s] = sending[f]]
    /\ UNCHANGED <<sent, subs, closed, sending, todo, got>>

Unlock(f) ==
    /\ sending[f] # 0 /\ todo[f] = {} /\ full[f] = 0
    /\ sending' = [sending EXCEPT ![f] = 0]
    /\ UNCHANGED <<sent, subs, ch, closed, todo, full, got, offered>>

\* Receiving works on a closed channel until it is empty.
Take(s) == ch[s] # <<>> /\ ch' = [ch EXCEPT ![s] = <<>>] /\ got' = [got EXCEPT ![s] = Head(ch[s])]

FeedRecv(s) == s # Teed /\ Take(s) /\ UNCHANGED <<sent, subs, closed, sending, todo, full, offered>>

\* The goroutine that forwards; it waits for the mutex of the second feed.
Tee ==
    /\ Take(Teed) /\ Lock(2, Head(ch[Teed]))
    /\ UNCHANGED <<sent, subs, closed, full, offered>>

FeedNext ==
    \/ FeedSend \/ Tee
    \/ \E s \in Subs : subscribe(s) \/ FeedUnsubscribe(s) \/ FeedRecv(s)
    \/ \E f \in Feeds : DropOldest(f) \/ SendAgain(f) \/ Unlock(f) \/ \E s \in Subs : TrySend(f, s)

FeedSpec == FeedInit /\ [][FeedNext]_feedVars

----------------------------------------------------------------------------
FeedTypeOK == subs \subseteq Subs /\ closed \subseteq Subs /\ \A s \in Subs : Len(ch[s]) <= 1

\* The second attempt always finds room, as the comment in Send says, and the
\* channel is not closed: otherwise a feed would wait for its slowest reader
\* with the mutex held, or panic.
SendNeverWaits ==
    \A f \in Feeds : full[f] # 0 =>
        full[f] \notin closed /\ (full[f] \notin todo[f] => ch[full[f]] = <<>>)

\* A reader that keeps the last value has it or can take it, and sees values
\* in the order in which they were sent, through Tee as well.
LastIsKept ==
    \A s \in Subs :
        /\ s \in KeepLast /\ Unlocked(FeedOf[s]) =>
            \E v \in {got[s]} \union {ch[s][i] : i \in DOMAIN ch[s]} : v >= offered[s]
        /\ \A i \in DOMAIN ch[s] : ch[s][i] > got[s]

-----------------------------------------------------------------------------
(* The ring, proved for every capacity and any number of subscriptions and   *)
(* messages.  A slot has a message of its own residue that is at least as    *)
(* new as any sent to it, so a goroutine that finds nothing newer has caught *)
(* up, and one that finds another message was overtaken by a whole lap.      *)

\* What NewBroadcast gets from nextPowerOfTwo.
RingAssumption == capacity \in Nat \ {0} /\ MaxSends \in Nat

RingOK ==
    /\ tail \in 0..MaxSends /\ closing \in {"no", "closed", "woken"}
    /\ seq \in [0..capacity - 1 -> Nat]
    /\ \A n \in 0..tail - 1 : seq[Slot(n)] > n
    /\ \A i \in 0..capacity - 1 : seq[i] # 0 => Slot(seq[i] - 1) = i /\ seq[i] <= tail

\* e brings a reader that expects the message from to expect the message to.
Carries(e, from, to) ==
    IF e.lag THEN e.missed = from /\ e.next = to /\ from < to /\ to <= tail - capacity
    ELSE e.seq = from /\ to = from + 1

\* What the reader will expect when it has emptied the channel.
After(s) ==
    IF out[s] = <<>> THEN expected[s]
    ELSE IF Head(out[s]).lag THEN Head(out[s]).next ELSE Head(out[s]).seq + 1

SubsTyped ==
    /\ pc \in [Subs -> {"none", "read", "wait", "computed", "deliver", "exited"}]
    /\ unsub \in [Subs -> {"no", "closed", "loaded", "woken"}]
    /\ nextSeq \in [Subs -> Nat] /\ expected \in [Subs -> Nat] /\ wake \in [Subs -> Nat]
    /\ res = [s \in Subs |-> res[s]]
    /\ out = [s \in Subs |-> out[s]]

\* Where a goroutine and its reader are, from expected over out and res to nextSeq.
Follows(s) ==
    /\ nextSeq[s] <= tail /\ After(s) \in Nat
    /\ out[s] = <<>> \/ (out[s] = <<Head(out[s])>> /\ Carries(Head(out[s]), expected[s], After(s)))
    /\ pc[s] = "none" => out[s] = <<>> /\ unsub[s] = "no"
    /\ pc[s] \in {"none", "read", "wait", "computed"} => nextSeq[s] = After(s)
    /\ pc[s] = "computed" =>
          IF res[s].lag THEN nextSeq[s] + capacity < tail ELSE res[s].seq = nextSeq[s] /\ nextSeq[s] < tail
    /\ pc[s] = "deliver" => Carries(res[s], After(s), nextSeq[s])
    /\ pc[s] = "wait" =>
          /\ nextSeq[s] = tail /\ closing # "woken" /\ unsub[s] # "woken"
          /\ unsub[s] = "loaded" => wake[s] = Slot(nextSeq[s])
    /\ pc[s] = "exited" /\ unsub[s] = "no" => closing # "no" /\ nextSeq[s] = tail

RingInv == RingOK /\ SubsTyped /\ \A s \in Subs : Follows(s)

\* Two messages in one slot are a lap apart.
LEMMA Laps ==
    ASSUME NEW a \in Nat, NEW b \in Nat, NEW c \in Nat \ {0}, a % c = b % c, a < b
    PROVE  a + c <= b
<1> DEFINE p == a \div c
           q == b \div c
<1>1. p \in Int /\ q \in Int /\ a = c * p + (a % c) /\ b = c * q + (b % c)
  OBVIOUS
<1> HIDE DEF p, q
<1>2. c * p < c * q
  BY <1>1
<1>3. p < q
  BY <1>1, <1>2
<1>4. c * (q - p) >= c
  BY <1>1, <1>3
<1> QED  BY <1>1, <1>4

\* A slot is one of the ring's.
LEMMA SlotInRing == ASSUME RingAssumption, NEW n \in Nat PROVE Slot(n) \in 0..capacity - 1
BY DEF RingAssumption, Slot

\* A goroutine that finds nothing newer in its slot has caught up; one that finds a
\* newer message than its next was overtaken by a lap (the comparison of run).
LEMMA SlotTells ==
    ASSUME RingAssumption, RingOK, NEW n \in Nat, n <= tail
    PROVE  /\ seq[Slot(n)] \in Nat
           /\ seq[Slot(n)] <= n => n = tail
           /\ seq[Slot(n)] > n => n < tail
           /\ seq[Slot(n)] > n /\ seq[Slot(n)] # n + 1 => n + capacity < tail
<1>1. Slot(n) \in 0..capacity - 1
  BY SlotInRing
<1>2. seq[Slot(n)] \in Nat /\ tail \in Nat /\ capacity \in Nat \ {0}
  BY <1>1 DEF RingOK, RingAssumption
<1>3. seq[Slot(n)] <= n => n = tail
  BY <1>2 DEF RingOK
<1>4. seq[Slot(n)] # 0 => Slot(seq[Slot(n)] - 1) = Slot(n) /\ seq[Slot(n)] <= tail
  BY <1>1 DEF RingOK
<1>5. ASSUME seq[Slot(n)] > n, seq[Slot(n)] # n + 1
      PROVE  n + capacity < tail
  <2> DEFINE m == seq[Slot(n)] - 1
  <2>1. m \in Nat /\ n < m /\ m < tail
    BY <1>2, <1>4, <1>5
  <2>2. n % capacity = m % capacity
    BY <1>2, <1>4, <1>5 DEF Slot
  <2> HIDE DEF m
  <2>3. n + capacity <= m
    BY Zenon, <1>2, <2>1, <2>2, Laps
  <2> QED  BY <1>2, <2>1, <2>3
<1> QED  BY <1>2, <1>3, <1>4, <1>5

\* A subscription is where it was if the step was another's.
SameFor(t) ==
    /\ UNCHANGED <<tail, closing>>
    /\ pc'[t] = pc[t] /\ nextSeq'[t] = nextSeq[t] /\ res'[t] = res[t] /\ out'[t] = out[t]
    /\ unsub'[t] = unsub[t] /\ wake'[t] = wake[t] /\ expected'[t] = expected[t]

\* Goroutines and readers share only the ring.
LEMMA Aside == ASSUME NEW t \in Subs, Follows(t), SameFor(t) PROVE Follows(t)'
<1>1. After(t)' = After(t)
  BY DEF SameFor, After
<1> QED  BY <1>1 DEF SameFor, Follows, Carries

\* The ring is as New makes it, and every step keeps where everybody is.
LEMMA RingInvariant == ASSUME RingAssumption PROVE Spec => []RingInv
<1>1. Init => RingInv
  BY DEF RingAssumption, Init, New, RingInv, RingOK, SubsTyped, Follows, After, Nothing, Slot
<1>2. RingInv /\ [Next]_vars => RingInv'
  <2> SUFFICES ASSUME RingInv, [Next]_vars PROVE RingInv'
    OBVIOUS
  <2> USE DEF RingInv
  <2>0. tail \in Nat /\ capacity \in Nat \ {0} /\ MaxSends \in Nat
    BY DEF RingOK, RingAssumption
  <2>1. CASE Send
    <3>1. Slot(tail) \in 0..capacity - 1
      BY <2>0, SlotInRing
    <3>2. RingOK'
      <4>1. tail' \in 0..MaxSends /\ tail' = tail + 1 /\ closing' = closing
        BY <2>0, <2>1 DEF Send
      <4>2. seq' \in [0..capacity - 1 -> Nat]
        <5>1. tail + 1 \in Nat
          BY <2>0
        <5> QED  BY Zenon, <2>1, <5>1 DEF Send, RingOK
      <4>3. ASSUME NEW n \in 0..tail PROVE seq'[Slot(n)] > n
        <5>1. Slot(n) \in 0..capacity - 1
          BY <2>0, SlotInRing
        <5> QED  BY <2>0, <2>1, <3>1, <5>1 DEF Send, RingOK
      <4>4. ASSUME NEW i \in 0..capacity - 1, seq'[i] # 0
            PROVE  Slot(seq'[i] - 1) = i /\ seq'[i] <= tail'
        <5>1. CASE i = Slot(tail)
          <6>1. seq'[i] = tail + 1 /\ tail + 1 - 1 = tail
            BY <2>0, <2>1, <5>1 DEF Send, RingOK
          <6> QED  BY <2>0, <4>1, <5>1, <6>1
        <5>2. CASE i # Slot(tail)
          BY <2>0, <2>1, <4>4, <5>2 DEF Send, RingOK
        <5> QED  BY <5>1, <5>2
      <4> QED  BY <2>0, <4>1, <4>2, <4>3, <4>4 DEF RingOK, Slot, capacity
    <3>3. SubsTyped'
      BY <2>1 DEF Send, Woken, SubsTyped
    <3>4. ASSUME NEW s \in Subs PROVE Follows(s)'
      <4>1. /\ tail' = tail + 1 /\ closing = "no"
            /\ UNCHANGED <<closing, nextSeq, res, out, unsub, wake, expected>>
        BY <2>1 DEF Send
      <4>2. \/ pc'[s] = pc[s] /\ pc[s] # "wait"
            \/ pc'[s] = "read" /\ pc[s] = "wait"
        BY <2>1 DEF Send, Woken, SubsTyped, Follows
      <4>3. After(s)' = After(s)
        BY <4>1 DEF After
      <4> QED  BY <2>0, <4>1, <4>2, <4>3 DEF SubsTyped, Follows, Carries
    <3> QED  BY <3>2, <3>3, <3>4
  <2>2. CASE Close
    <3>1. RingOK'
      BY <2>2 DEF Close, RingOK
    <3>2. SubsTyped'
      BY <2>2 DEF Close, Woken, SubsTyped
    <3>3. ASSUME NEW s \in Subs PROVE Follows(s)'
      BY <2>2 DEF Close, Woken, RingOK, SubsTyped, Follows, After, Carries
    <3> QED  BY <3>1, <3>2, <3>3
  <2>3. ASSUME NEW s \in Subs, Subscribe(s) PROVE RingInv'
    <3>1. RingOK'
      BY <2>3 DEF Subscribe, ring, RingOK
    <3>2. SubsTyped'
      BY <2>0, <2>3 DEF Subscribe, SubsTyped
    <3>3. ASSUME NEW t \in Subs PROVE Follows(t)'
      BY <2>0, <2>3 DEF Subscribe, ring, SubsTyped, Follows, After, Carries
    <3> QED  BY <3>1, <3>2, <3>3
  <2>4. ASSUME NEW s \in Subs, read(s) PROVE RingInv'
    <3>1. RingOK'
      BY <2>4 DEF read, ring, RingOK
    <3>2. SubsTyped'
      BY <2>4 DEF read, SubsTyped
    <3>3. /\ seq[Slot(nextSeq[s])] \in Nat
          /\ seq[Slot(nextSeq[s])] <= nextSeq[s] => nextSeq[s] = tail
          /\ seq[Slot(nextSeq[s])] > nextSeq[s] => nextSeq[s] < tail
          /\ seq[Slot(nextSeq[s])] > nextSeq[s] /\ seq[Slot(nextSeq[s])] # nextSeq[s] + 1
                => nextSeq[s] + capacity < tail
      BY SlotTells DEF SubsTyped, Follows
    <3>4. ASSUME NEW t \in Subs, t # s PROVE Follows(t)'
      <4>1. SameFor(t)
        BY <2>4, <3>4 DEF read, ring, SubsTyped, SameFor
      <4> QED  BY <4>1, Aside
    <3>5. Follows(s)'
      <4>1. UNCHANGED <<tail, closing, nextSeq, out, unsub, wake, expected>> /\ After(s)' = After(s)
        BY <2>4 DEF read, ring, After
      <4>2. CASE seq[Slot(nextSeq[s])] > nextSeq[s]
        <5>1. /\ pc[s] = "read" /\ pc'[s] = "computed"
              /\ res'[s] = [lag |-> seq[Slot(nextSeq[s])] # nextSeq[s] + 1, seq |-> seq[Slot(nextSeq[s])] - 1]
          BY Zenon, <2>4, <4>2 DEF read, SubsTyped
        <5>2. nextSeq[s] \in Nat /\ (seq[Slot(nextSeq[s])] = nextSeq[s] + 1 => seq[Slot(nextSeq[s])] - 1 = nextSeq[s])
          BY DEF SubsTyped
        <5>3. IF res'[s].lag THEN nextSeq[s] + capacity < tail
              ELSE res'[s].seq = nextSeq[s] /\ nextSeq[s] < tail
          <6> DEFINE q == seq[Slot(nextSeq[s])]
          <6>1. res'[s].lag = (q # nextSeq[s] + 1) /\ res'[s].seq = q - 1
            BY <5>1
          <6>2. CASE q # nextSeq[s] + 1
            BY Zenon, <3>3, <4>2, <6>1, <6>2
          <6>3. CASE q = nextSeq[s] + 1
            BY Zenon, <3>3, <4>2, <5>2, <6>1, <6>3
          <6> QED  BY <6>2, <6>3
        <5> QED  BY <4>1, <5>1, <5>3 DEF Follows, Carries
      <4>3. CASE ~(seq[Slot(nextSeq[s])] > nextSeq[s])
        <5>1. /\ pc[s] = "read"
              /\ \/ pc'[s] = "exited" /\ (unsub[s] # "no" \/ closing # "no")
                 \/ pc'[s] = "wait" /\ unsub[s] = "no" /\ closing = "no"
          BY <2>4, <4>3 DEF read, SubsTyped
        <5>2. nextSeq[s] = tail
          BY <3>3, <4>3 DEF SubsTyped
        <5> QED  BY <4>1, <5>1, <5>2 DEF Follows, Carries
      <4> QED  BY <4>2, <4>3
    <3> QED  BY <3>1, <3>2, <3>4, <3>5
  <2>5. ASSUME NEW s \in Subs, compute(s) PROVE RingInv'
    <3>1. RingOK'
      BY <2>5 DEF compute, ring, RingOK
    <3>2. SubsTyped'
      <4>1. nextSeq'[s] \in Nat
        BY <2>0, <2>5 DEF compute, SubsTyped, Follows
      <4>2. \A t \in Subs \ {s} : nextSeq'[t] = nextSeq[t]
        BY <2>5 DEF compute, SubsTyped
      <4> QED  BY <2>5, <4>1, <4>2 DEF compute, SubsTyped
    <3>3. ASSUME NEW t \in Subs, t # s PROVE Follows(t)'
      <4>1. SameFor(t)
        BY <2>5, <3>3 DEF compute, ring, SubsTyped, SameFor
      <4> QED  BY <4>1, Aside
    <3>4. Follows(s)'
      <4>1. /\ UNCHANGED <<tail, closing, out, unsub, wake, expected>> /\ After(s)' = After(s)
            /\ pc[s] = "computed" /\ pc'[s] = "deliver" /\ nextSeq[s] \in Nat
        BY <2>5 DEF compute, ring, After, SubsTyped
      <4>2. CASE res[s].lag
        <5>1. nextSeq'[s] = tail - capacity /\ nextSeq[s] + capacity < tail
          BY <2>5, <4>1, <4>2 DEF compute, SubsTyped, Follows
        <5>2. res'[s] = [lag |-> TRUE, missed |-> nextSeq[s], next |-> tail - capacity]
          BY Zenon, <2>5, <4>2 DEF compute, SubsTyped
        <5>3. Carries(res[s], After(s), nextSeq[s])'
          BY <2>0, <4>1, <5>1, <5>2 DEF Carries, Follows
        <5> QED  BY <2>0, <4>1, <5>1, <5>3 DEF Follows, Carries
      <4>3. CASE ~res[s].lag
        <5>1. nextSeq'[s] = nextSeq[s] + 1 /\ res'[s] = res[s] /\ res[s].seq = nextSeq[s] /\ nextSeq[s] < tail
          BY <2>5, <4>1, <4>3 DEF compute, SubsTyped, Follows
        <5>2. Carries(res[s], After(s), nextSeq[s])'
          BY <4>1, <4>3, <5>1 DEF Carries, Follows
        <5> QED  BY <2>0, <4>1, <5>1, <5>2 DEF Follows, Carries
      <4> QED  BY <4>2, <4>3
    <3> QED  BY <3>1, <3>2, <3>3, <3>4
  <2>6. ASSUME NEW s \in Subs, deliver(s) PROVE RingInv'
    <3>1. RingOK'
      BY <2>6 DEF deliver, ring, RingOK
    <3>2. SubsTyped'
      BY Zenon, <2>6 DEF deliver, SubsTyped
    <3>3. ASSUME NEW t \in Subs, t # s PROVE Follows(t)'
      <4>1. SameFor(t)
        BY Zenon, <2>6, <3>3 DEF deliver, ring, SubsTyped, SameFor
      <4> QED  BY <4>1, Aside
    <3>4. Follows(s)'
      <4>1. CASE pc'[s] = "read"
        <5>1. out[s] = <<>> /\ out'[s] = <<res[s]>> /\ Head(out'[s]) = res[s] /\ out'[s] # <<>>
          BY <2>6, <4>1 DEF deliver, SubsTyped
        <5>2. Carries(res[s], expected[s], nextSeq[s])
          BY <2>6, <5>1 DEF deliver, Follows, After
        <5>3. After(s)' = nextSeq[s]
          BY <2>6, <5>1, <5>2 DEF deliver, After, Carries
        <5> QED  BY <2>6, <4>1, <5>1, <5>2, <5>3 DEF deliver, ring, SubsTyped, Follows, Carries
      <4>2. CASE pc'[s] = "exited" /\ unsub[s] # "no" /\ out' = out
        BY <2>6, <4>2 DEF deliver, ring, SubsTyped, Follows, After, Carries
      <4> QED  BY <2>6, <4>1, <4>2 DEF deliver, SubsTyped
    <3> QED  BY <3>1, <3>2, <3>3, <3>4
  <2>7. ASSUME NEW s \in Subs, Unsubscribe(s) PROVE RingInv'
    <3>1. RingOK'
      BY <2>7 DEF Unsubscribe, ring, RingOK
    <3>2. SubsTyped'
      <4>1. Slot(nextSeq[s]) \in Nat
        BY <2>0, SlotInRing DEF SubsTyped
      <4> QED  BY <2>7, <4>1 DEF Unsubscribe, Woken, SubsTyped
    <3>3. ASSUME NEW t \in Subs PROVE Follows(t)'
      <4>1. /\ UNCHANGED <<tail, closing, nextSeq, res, out, expected>> /\ After(t)' = After(t)
            /\ pc[s] # "none"
        BY <2>7 DEF Unsubscribe, ring, After
      <4>2. pc'[t] = pc[t] \/ (pc'[t] = "read" /\ pc[t] = "wait")
        BY <2>7 DEF Unsubscribe, Woken, SubsTyped
      <4>3. CASE t # s
        <5>1. unsub'[t] = unsub[t] /\ wake'[t] = wake[t]
          BY <2>7, <4>3 DEF Unsubscribe, SubsTyped
        <5> QED  BY <4>1, <4>2, <5>1 DEF Follows, Carries
      <4>4. CASE t = s
        <5>1. /\ unsub'[s] \in {"closed", "loaded", "woken"}
              /\ unsub'[s] = "loaded" => wake'[s] = Slot(nextSeq[s])
              /\ unsub'[s] = "woken" => unsub[s] = "loaded" /\ pc' = Woken(wake[s])
          BY <2>7 DEF Unsubscribe, SubsTyped
        <5>2. unsub'[s] = "woken" => pc'[s] # "wait"
          BY <5>1 DEF Woken, SubsTyped, Follows
        <5> QED  BY <4>1, <4>2, <4>4, <5>1, <5>2 DEF Follows, Carries
      <4> QED  BY <4>3, <4>4
    <3> QED  BY <3>1, <3>2, <3>3
  <2>8. ASSUME NEW s \in Subs, Recv(s) PROVE RingInv'
    <3>1. RingOK'
      BY <2>8 DEF Recv, ring, RingOK
    <3>2. /\ UNCHANGED <<tail, closing, pc, nextSeq, res, unsub, wake>>
          /\ out[s] # <<>> /\ out' = [out EXCEPT ![s] = <<>>]
      BY <2>8 DEF Recv, ring
    <3>3. Carries(Head(out[s]), expected[s], After(s)) /\ After(s) \in Nat /\ expected[s] \in Nat
      BY <3>2 DEF Follows, SubsTyped
    <3>4. expected' = [expected EXCEPT ![s] = After(s)]
      BY Zenon, <2>8, <3>2, <3>3 DEF Recv, After, Carries, SubsTyped
    <3>5. SubsTyped'
      BY Zenon, <3>2, <3>3, <3>4 DEF SubsTyped
    <3>6. ASSUME NEW t \in Subs, t # s PROVE Follows(t)'
      <4>1. SameFor(t)
        BY <3>2, <3>4, <3>6 DEF SubsTyped, SameFor
      <4> QED  BY <4>1, Aside
    <3>7. Follows(s)'
      <4>1. out'[s] = <<>> /\ expected'[s] = After(s) /\ After(s)' = After(s)
        BY <3>2, <3>4 DEF SubsTyped, After
      <4> QED  BY <3>2, <3>3, <4>1 DEF Follows, Carries
    <3> QED  BY <3>1, <3>5, <3>6, <3>7
  <2>9. CASE UNCHANGED vars
    <3>1. RingOK' /\ SubsTyped'
      BY <2>9 DEF vars, RingOK, SubsTyped
    <3>2. ASSUME NEW t \in Subs PROVE Follows(t)'
      <4>1. SameFor(t)
        BY <2>9 DEF vars, SameFor
      <4> QED  BY <4>1, Aside
    <3> QED  BY <3>1, <3>2
  <2> QED  BY <2>1, <2>2, <2>3, <2>4, <2>5, <2>6, <2>7, <2>8, <2>9 DEF Next, run
<1> QED  BY <1>1, <1>2, PTL DEF Spec

\* Every reader gets every message once and in order, or is told of exactly the ones
\* that were overwritten before its goroutine came to them.
THEOREM ReadersInOrder == ASSUME RingAssumption PROVE Spec => []DeliversInOrder
<1>1. RingInv => DeliversInOrder
  <2> SUFFICES ASSUME RingInv, NEW s \in Subs, out[s] # <<>>
               PROVE  LET e == Head(out[s]) IN
                      IF e.lag THEN e.missed = expected[s] /\ e.next > e.missed /\ tail - capacity >= e.next
                      ELSE e.seq = expected[s]
    BY DEF DeliversInOrder
  <2>1. Carries(Head(out[s]), expected[s], After(s)) /\ After(s) \in Nat /\ expected[s] \in Nat
    BY DEF RingInv, SubsTyped, Follows
  <2>2. tail \in Nat /\ capacity \in Nat
    BY DEF RingInv, RingOK, RingAssumption
  <2> QED  BY <2>1, <2>2 DEF Carries
<1> QED  BY <1>1, RingInvariant, PTL

\* No goroutine waits on the condition of a slot after a message, the wake-up of Close or
\* that of its Unsubscribe, though they wake one slot and do not hold all locks.
THEOREM NoLostWakeup == ASSUME RingAssumption PROVE Spec => []NobodySleepsOn
<1>1. RingInv => NobodySleepsOn
  BY DEF RingInv, Follows, NobodySleepsOn
<1> QED  BY <1>1, RingInvariant, PTL

\* A subscription that a Close ends has taken every message from the ring first.
THEOREM ClosedAfterDrain == ASSUME RingAssumption PROVE Spec => []DrainsBeforeEnd
<1>1. RingInv => DrainsBeforeEnd
  BY DEF RingInv, Follows, DrainsBeforeEnd
<1> QED  BY <1>1, RingInvariant, PTL

-----------------------------------------------------------------------------
(* The feeds, proved for any subscriptions of two feeds and any number of    *)
(* values.  What a Send has in hand is newer than anything that the          *)
(* subscriptions it has yet to serve have seen.                              *)

FeedAssumption ==
    /\ FeedOf \in [Subs -> Feeds] /\ 0 \notin Subs
    /\ Teed \in Subs /\ FeedOf[Teed] = 1

\* The newest value of a feed: the second gets what its forwarder has received.
Newest(f) == IF f = 1 THEN sent ELSE got[Teed]

FeedTyped ==
    /\ sent \in Nat /\ subs \subseteq Subs /\ closed \subseteq Subs /\ subs \cap closed = {}
    /\ sending \in [Feeds -> Nat] /\ todo \in [Feeds -> SUBSET Subs] /\ full \in [Feeds -> Subs \union {0}]
    /\ got \in [Subs -> Nat] /\ offered \in [Subs -> Nat]
    /\ ch \in [Subs -> Seq(Nat)]

\* A Send with the mutex serves subscriptions of its feed, which nobody can close.
Locked(f) ==
    /\ todo[f] \subseteq {s \in subs : FeedOf[s] = f}
    /\ sending[f] = 0 => todo[f] = {} /\ full[f] = 0
    /\ sending[f] # 0 => sending[f] = Newest(f)
    /\ full[f] # 0 => /\ full[f] \in subs /\ FeedOf[full[f]] = f
                      /\ full[f] \notin todo[f] => ch[full[f]] = <<>>

\* The send in hand has s to serve, or has made room in its channel and not used it.
Pending(s) == s \in todo[FeedOf[s]] \/ full[FeedOf[s]] = s
Emptied(s) == full[FeedOf[s]] = s /\ s \notin todo[FeedOf[s]]

Sees(s) ==
    /\ ch[s] = <<>> \/ (ch[s] = <<Head(ch[s])>> /\ Head(ch[s]) \in Nat /\ got[s] < Head(ch[s]))
    /\ got[s] <= Newest(FeedOf[s])
    /\ ch[s] # <<>> => Head(ch[s]) <= Newest(FeedOf[s])
    /\ Pending(s) => got[s] < Newest(FeedOf[s]) /\ (ch[s] # <<>> => Head(ch[s]) < Newest(FeedOf[s]))
    /\ s \in KeepLast /\ ~Emptied(s) =>
          got[s] >= offered[s] \/ (ch[s] # <<>> /\ Head(ch[s]) >= offered[s])

FeedInv == FeedTyped /\ (\A f \in Feeds : Locked(f)) /\ (\A s \in Subs : Sees(s))

\* A channel of one value, as a receive or a send finds it.
LEMMA OneInChannel ==
    ASSUME NEW c, c = <<Head(c)>>
    PROVE  DOMAIN c = {1} /\ c[1] = Head(c) /\ c # <<>>
  <1>1. ASSUME NEW h, c = <<h>> PROVE DOMAIN c = {1} /\ c[1] = h /\ c # <<>>
    BY <1>1
  <1> QED  BY Zenon, <1>1

\* The value that a send has just put into a channel is newer than what was received.
LEMMA JustSent ==
    ASSUME NEW g \in Nat, NEW n \in Nat, g < n
    PROVE  g <= n /\ n <= n /\ n >= n
  OBVIOUS

\* A subscription is as it was if the step served, or was taken by, another.
SameSeen(t) ==
    /\ Newest(FeedOf[t])' = Newest(FeedOf[t])
    /\ ch'[t] = ch[t] /\ got'[t] = got[t] /\ offered'[t] = offered[t]
    /\ Pending(t)' => Pending(t)
    /\ Emptied(t) => Emptied(t)'

\* Subscriptions share only their feed.
LEMMA AsideSees == ASSUME NEW t \in Subs, Sees(t), SameSeen(t) PROVE Sees(t)'
BY DEF SameSeen, Sees

\* The feeds start empty, and every step of a Send, a reader or the forwarder keeps
\* what is pending newer than what was seen.
LEMMA FeedInvariant == ASSUME FeedAssumption PROVE FeedSpec => []FeedInv
<1>1. FeedInit => FeedInv
  BY DEF FeedAssumption, FeedInit, NewFeed, Feeds, FeedInv, FeedTyped, Locked, Sees, Newest, Pending
<1>2. FeedInv /\ [FeedNext]_feedVars => FeedInv'
  <2> SUFFICES ASSUME FeedInv, [FeedNext]_feedVars PROVE FeedInv'
    OBVIOUS
  <2> USE DEF FeedInv, FeedAssumption
  <2>0. \A f \in Feeds : Newest(f) \in Nat
    BY DEF FeedTyped, Newest
  <2>1. CASE FeedSend
    <3>1. FeedTyped'
      BY <2>1 DEF FeedSend, Lock, FeedTyped
    <3>2. /\ sent' = sent + 1 /\ sending[1] = 0 /\ sending' = [sending EXCEPT ![1] = sent + 1]
          /\ todo' = [todo EXCEPT ![1] = {s \in subs : FeedOf[s] = 1}]
          /\ UNCHANGED <<subs, ch, closed, full, got, offered>>
      BY <2>1 DEF FeedSend, Lock, Unlocked
    <3>3. ASSUME NEW f \in Feeds PROVE Locked(f)'
      BY <3>2 DEF FeedTyped, Locked, Newest, Feeds
    <3>4. ASSUME NEW s \in Subs PROVE Sees(s)'
      <4>1. CASE FeedOf[s] = 1
        BY <3>2, <4>1 DEF FeedTyped, Locked, Sees, Newest, Pending, Emptied, Feeds
      <4>2. CASE FeedOf[s] = 2
        BY <3>2, <4>2 DEF FeedTyped, Locked, Sees, Newest, Pending, Emptied, Feeds
      <4> QED  BY <4>1, <4>2 DEF Feeds
    <3> QED  BY <3>1, <3>3, <3>4
  <2>2. CASE Tee
    <3> DEFINE v == Head(ch[Teed])
    <3>1. /\ sending[2] = 0 /\ sending' = [sending EXCEPT ![2] = v]
          /\ todo' = [todo EXCEPT ![2] = {s \in subs : FeedOf[s] = 2}]
          /\ ch[Teed] # <<>> /\ ch' = [ch EXCEPT ![Teed] = <<>>] /\ got' = [got EXCEPT ![Teed] = v]
          /\ UNCHANGED <<sent, subs, closed, full, offered>>
      BY <2>2 DEF Tee, Take, Lock, Unlocked
    <3>2. v \in Nat /\ got[Teed] < v /\ v <= sent
      BY <3>1 DEF Sees, Newest
    <3> HIDE DEF v
    <3>3. FeedTyped'
      BY <3>1, <3>2 DEF FeedTyped, Feeds
    <3>4. ASSUME NEW f \in Feeds PROVE Locked(f)'
      BY <3>1, <3>2 DEF FeedTyped, Locked, Newest, Feeds
    <3>5. ASSUME NEW s \in Subs PROVE Sees(s)'
      <4>1. CASE s = Teed
        BY <3>1, <3>2, <4>1 DEF v, FeedTyped, Locked, Sees, Newest, Pending, Emptied, Feeds
      <4>2. CASE s # Teed /\ FeedOf[s] = 1
        <5>1. SameSeen(s)
          BY <3>1, <4>2 DEF FeedTyped, SameSeen, Newest, Pending, Emptied, Feeds
        <5> QED  BY Zenon, <5>1, AsideSees
      <4>3. CASE s # Teed /\ FeedOf[s] = 2
        <5>1. got'[s] = got[s] /\ ch'[s] = ch[s] /\ offered'[s] = offered[s] /\ ~Emptied(s) /\ got[Teed] \in Nat
          BY <3>1, <4>3 DEF FeedTyped, Locked, Emptied, Feeds
        <5>2. Newest(2) = got[Teed] /\ Newest(2)' = v
          BY <3>1 DEF FeedTyped, Newest
        <5> QED  BY <3>2, <4>3, <5>1, <5>2 DEF FeedTyped, Sees
      <4> QED  BY <4>1, <4>2, <4>3 DEF Feeds
    <3> QED  BY <3>3, <3>4, <3>5
  <2>3. ASSUME NEW s \in Subs, subscribe(s) \/ FeedUnsubscribe(s) PROVE FeedInv'
    <3>1. FeedTyped'
      <4>1. subs' \subseteq Subs /\ closed' \subseteq Subs /\ subs' \cap closed' = {}
        BY <2>3 DEF subscribe, FeedUnsubscribe, FeedTyped
      <4>2. UNCHANGED <<sent, sending, todo, full, got, offered, ch>>
        BY Zenon, <2>3 DEF subscribe, FeedUnsubscribe
      <4> QED  BY Zenon, <4>1, <4>2 DEF FeedTyped
    <3>2. ASSUME NEW f \in Feeds PROVE Locked(f)'
      <4>1. /\ UNCHANGED <<sent, ch, sending, todo, full, got>> /\ Newest(f)' = Newest(f)
            /\ s \notin subs' => sending[FeedOf[s]] = 0
            /\ \A t \in subs : t # s => t \in subs'
        BY <2>3 DEF subscribe, FeedUnsubscribe, Unlocked, Newest
      <4>2. CASE s \in subs'
        BY <4>1, <4>2 DEF Locked
      <4>3. CASE s \notin subs' /\ FeedOf[s] = f
        BY <4>1, <4>3 DEF Locked
      <4>4. CASE FeedOf[s] # f
        BY <4>1, <4>4 DEF Locked
      <4> QED  BY <4>2, <4>3, <4>4
    <3>3. ASSUME NEW t \in Subs PROVE Sees(t)'
      <4>1. SameSeen(t)
        BY <2>3 DEF subscribe, FeedUnsubscribe, SameSeen, Newest, Pending, Emptied
      <4> QED  BY <4>1, AsideSees
    <3> QED  BY <3>1, <3>2, <3>3
  <2>4. ASSUME NEW s \in Subs, FeedRecv(s) PROVE FeedInv'
    <3>1. /\ s # Teed /\ ch[s] # <<>> /\ ch' = [ch EXCEPT ![s] = <<>>] /\ got' = [got EXCEPT ![s] = Head(ch[s])]
          /\ UNCHANGED <<sent, subs, closed, sending, todo, full, offered>>
      BY <2>4 DEF FeedRecv, Take
    <3>2. Head(ch[s]) \in Nat
      BY <3>1 DEF Sees
    <3>3. FeedTyped'
      <4>1. ch' \in [Subs -> Seq(Nat)] /\ got' \in [Subs -> Nat]
        BY <3>1, <3>2 DEF FeedTyped
      <4> QED  BY Zenon, <3>1, <4>1 DEF FeedTyped
    <3>4. \A f \in Feeds : Newest(f)' = Newest(f)
      BY <3>1 DEF FeedTyped, Newest
    <3>5. ASSUME NEW f \in Feeds PROVE Locked(f)'
      BY <3>1, <3>4 DEF FeedTyped, Locked
    <3>6. ASSUME NEW t \in Subs PROVE Sees(t)'
      <4>1. CASE t # s
        <5>1. SameSeen(t)
          BY <3>1, <3>4, <4>1 DEF FeedTyped, SameSeen, Pending, Emptied
        <5> QED  BY <5>1, AsideSees
      <4>2. CASE t = s
        <5>1. ch'[s] = <<>> /\ got'[s] = Head(ch[s]) /\ offered'[s] = offered[s] /\ got[s] \in Nat /\ offered[s] \in Nat
          BY <3>1 DEF FeedTyped
        <5>2. (Pending(s)' <=> Pending(s)) /\ (Emptied(s)' <=> Emptied(s)) /\ Newest(FeedOf[s])' = Newest(FeedOf[s])
          BY <3>1, <3>4 DEF Pending, Emptied
        <5>3. got[s] < Head(ch[s])
          BY <3>1 DEF Sees
        <5> QED  BY <3>1, <3>2, <4>2, <5>1, <5>2, <5>3 DEF Sees
      <4> QED  BY <4>1, <4>2
    <3> QED  BY <3>3, <3>5, <3>6
  <2>5. ASSUME NEW f \in Feeds, NEW s \in Subs, TrySend(f, s) PROVE FeedInv'
    <3>1. s \in subs /\ FeedOf[s] = f /\ full[f] = 0 /\ sending[f] = Newest(f) /\ s \in todo[f] /\ Sees(s)
      BY <2>5 DEF TrySend, Locked
    <3>2. UNCHANGED <<sent, subs, closed, sending, got>> /\ \A g \in Feeds : Newest(g)' = Newest(g)
      BY <2>5 DEF TrySend, Newest
    <3>3. CASE ch[s] = <<>>
      <4>1. /\ ch' = [ch EXCEPT ![s] = <<sending[f]>>] /\ UNCHANGED full
            /\ todo' = [todo EXCEPT ![f] = @ \ {s}] /\ offered' = [offered EXCEPT ![s] = sending[f]]
        BY <2>5, <3>3 DEF TrySend, Served
      <4>2. FeedTyped'
        BY <3>2, <4>1 DEF FeedTyped
      <4>3. ASSUME NEW g \in Feeds PROVE Locked(g)'
        BY <3>1, <3>2, <4>1 DEF FeedTyped, Locked
      <4>4. ASSUME NEW t \in Subs, t # s PROVE Sees(t)'
        <5>1. SameSeen(t)
          BY <3>1, <3>2, <4>1, <4>4 DEF FeedTyped, SameSeen, Pending, Emptied
        <5> QED  BY <5>1, AsideSees
      <4>5. Sees(s)'
        <5>1. ch'[s] = <<Newest(f)>> /\ Head(ch'[s]) = Newest(f) /\ offered'[s] = Newest(f) /\ Newest(f) \in Nat
          BY <2>0, <3>1, <4>1 DEF FeedTyped
        <5>2. ~Pending(s)' /\ got[s] < Newest(f)
          BY <3>1, <4>1 DEF FeedTyped, Sees, Pending
        <5> QED  BY <3>1, <3>2, <5>1, <5>2 DEF FeedTyped, Sees
      <4> QED  BY <4>2, <4>3, <4>4, <4>5
    <3>4. CASE ch[s] # <<>> /\ s \in KeepLast
      <4>1. full' = [full EXCEPT ![f] = s] /\ UNCHANGED <<ch, todo, offered>>
        BY <2>5, <3>4 DEF TrySend
      <4>2. FeedTyped'
        BY <3>2, <4>1 DEF FeedTyped
      <4>3. ASSUME NEW g \in Feeds PROVE Locked(g)'
        BY <3>1, <3>2, <4>1 DEF FeedTyped, Locked
      <4>4. ASSUME NEW t \in Subs PROVE Sees(t)'
        <5>1. SameSeen(t)
          BY <3>1, <3>2, <4>1 DEF FeedTyped, SameSeen, Pending, Emptied
        <5> QED  BY <5>1, AsideSees
      <4> QED  BY <4>2, <4>3, <4>4
    <3>5. CASE ch[s] # <<>> /\ s \notin KeepLast
      <4>1. /\ UNCHANGED <<ch, full>>
            /\ todo' = [todo EXCEPT ![f] = @ \ {s}] /\ offered' = [offered EXCEPT ![s] = sending[f]]
        BY <2>5, <3>5 DEF TrySend, Served
      <4>2. FeedTyped'
        BY <3>2, <4>1 DEF FeedTyped
      <4>3. ASSUME NEW g \in Feeds PROVE Locked(g)'
        BY <3>1, <3>2, <4>1 DEF FeedTyped, Locked
      <4>4. ASSUME NEW t \in Subs PROVE Sees(t)'
        <5>1. CASE t # s
          <6>1. SameSeen(t)
            BY <3>1, <3>2, <4>1, <5>1 DEF FeedTyped, SameSeen, Pending, Emptied
          <6> QED  BY <6>1, AsideSees
        <5>2. CASE t = s
          <6>1. Pending(s)
            BY <3>1 DEF Pending
          <6> QED  BY <3>1, <3>2, <3>5, <4>1, <5>2, <6>1 DEF Sees
        <5> QED  BY <5>1, <5>2
      <4> QED  BY <4>2, <4>3, <4>4
    <3> QED  BY <3>3, <3>4, <3>5
  <2>6. ASSUME NEW f \in Feeds, DropOldest(f) PROVE FeedInv'
    <3>1. FeedTyped'
      BY <2>6 DEF DropOldest, FeedTyped
    <3>2. \A g \in Feeds : Newest(g)' = Newest(g)
      BY <2>6 DEF DropOldest, Newest
    <3>3. ASSUME NEW g \in Feeds PROVE Locked(g)'
      BY <2>6, <3>2 DEF DropOldest, FeedTyped, Locked
    <3>4. ASSUME NEW t \in Subs PROVE Sees(t)'
      <4>1. full[f] \in Subs /\ FeedOf[full[f]] = f
        BY <2>6 DEF DropOldest, FeedTyped, Locked
      <4>2. CASE t # full[f]
        <5>1. SameSeen(t)
          BY <2>6, <3>2, <4>1, <4>2 DEF DropOldest, FeedTyped, SameSeen, Pending, Emptied
        <5> QED  BY <5>1, AsideSees
      <4>3. CASE t = full[f]
        <5>1. ch'[t] = <<>> /\ got'[t] = got[t] /\ Emptied(t)' /\ Pending(t) /\ Newest(FeedOf[t])' = Newest(FeedOf[t])
          BY <2>6, <3>2, <4>1, <4>3 DEF DropOldest, FeedTyped, Pending, Emptied
        <5> QED  BY <5>1 DEF Sees
      <4> QED  BY <4>2, <4>3
    <3> QED  BY <3>1, <3>3, <3>4
  <2>7. ASSUME NEW f \in Feeds, SendAgain(f) PROVE FeedInv'
    <3>1. FeedTyped'
      BY <2>7 DEF SendAgain, FeedTyped
    <3>2. \A g \in Feeds : Newest(g)' = Newest(g)
      BY <2>7 DEF SendAgain, Newest
    <3>3. ASSUME NEW g \in Feeds PROVE Locked(g)'
      BY <2>7, <3>2 DEF SendAgain, FeedTyped, Locked
    <3>4. ASSUME NEW t \in Subs PROVE Sees(t)'
      <4>1. full[f] \in Subs /\ FeedOf[full[f]] = f /\ sending[f] = Newest(f) /\ Newest(f) \in Nat
        BY <2>0, <2>7 DEF SendAgain, FeedTyped, Locked
      <4>2. CASE t # full[f]
        <5>1. SameSeen(t)
          BY <2>7, <3>2, <4>1, <4>2 DEF SendAgain, FeedTyped, SameSeen, Pending, Emptied
        <5> QED  BY <5>1, AsideSees
      <4>3. CASE t = full[f]
        <5>1. /\ ch'[t] = <<Newest(f)>> /\ Head(ch'[t]) = Newest(f) /\ offered'[t] = Newest(f)
              /\ got'[t] = got[t] /\ got[t] \in Nat /\ Newest(FeedOf[t])' = Newest(f)
          BY <2>7, <3>2, <4>1, <4>3 DEF SendAgain, FeedTyped
        <5>2. ~Pending(t)' /\ got[t] < Newest(f)
          BY <2>7, <4>1, <4>3 DEF SendAgain, FeedTyped, Sees, Pending
        <5>3. /\ ch'[t] = <<Head(ch'[t])>> /\ Head(ch'[t]) \in Nat /\ got'[t] < Head(ch'[t])
              /\ got'[t] <= Newest(FeedOf[t])' /\ Head(ch'[t]) <= Newest(FeedOf[t])'
              /\ ch'[t] # <<>> /\ Head(ch'[t]) >= offered'[t]
          <6>1. got[t] <= Newest(f) /\ Newest(f) <= Newest(f) /\ Newest(f) >= Newest(f)
            BY Zenon, <4>1, <5>1, <5>2, JustSent
          <6>2. ch'[t] = <<Head(ch'[t])>>
            BY Zenon, <5>1
          <6>3. ch'[t] # <<>>
            BY Zenon, <6>2, OneInChannel
          <6> QED  BY Zenon, <4>1, <5>1, <5>2, <6>1, <6>2, <6>3
        <5> QED  BY Zenon, <5>2, <5>3 DEF Sees
      <4> QED  BY <4>2, <4>3
    <3> QED  BY <3>1, <3>3, <3>4
  <2>8. ASSUME NEW f \in Feeds, Unlock(f) PROVE FeedInv'
    <3>1. FeedTyped'
      BY <2>8 DEF Unlock, FeedTyped
    <3>2. ASSUME NEW g \in Feeds PROVE Locked(g)'
      BY <2>8 DEF Unlock, FeedTyped, Locked, Newest
    <3>3. ASSUME NEW t \in Subs PROVE Sees(t)'
      <4>1. SameSeen(t)
        BY <2>8 DEF Unlock, SameSeen, Newest, Pending, Emptied
      <4> QED  BY <4>1, AsideSees
    <3> QED  BY <3>1, <3>2, <3>3
  <2>9. CASE UNCHANGED feedVars
    <3>1. FeedTyped' /\ \A f \in Feeds : Locked(f)'
      BY <2>9 DEF feedVars, FeedTyped, Locked, Newest
    <3>2. ASSUME NEW t \in Subs PROVE Sees(t)'
      <4>1. SameSeen(t)
        BY <2>9 DEF feedVars, SameSeen, Newest, Pending, Emptied
      <4> QED  BY <4>1, AsideSees
    <3> QED  BY <3>1, <3>2
  <2> QED  BY <2>1, <2>2, <2>3, <2>4, <2>5, <2>6, <2>7, <2>8, <2>9 DEF FeedNext
<1> QED  BY <1>1, <1>2, PTL DEF FeedSpec

\* Send never waits for a reader, and sends on no channel that Unsubscribe has closed.
THEOREM FeedsNeverWait == ASSUME FeedAssumption PROVE FeedSpec => []SendNeverWaits
<1>1. FeedInv => SendNeverWaits
  BY DEF FeedInv, FeedTyped, Locked, SendNeverWaits
<1> QED  BY <1>1, FeedInvariant, PTL

\* A reader that keeps the last value can have it whenever no Send is under way, and
\* nobody receives values out of the order in which they were sent, through Tee as well.
THEOREM LastValueKept == ASSUME FeedAssumption PROVE FeedSpec => []LastIsKept
<1>1. FeedInv => LastIsKept
  <2> SUFFICES ASSUME FeedInv, NEW s \in Subs
               PROVE  /\ s \in KeepLast /\ Unlocked(FeedOf[s]) =>
                            \E v \in {got[s]} \union {ch[s][i] : i \in DOMAIN ch[s]} : v >= offered[s]
                      /\ \A i \in DOMAIN ch[s] : ch[s][i] > got[s]
    BY DEF LastIsKept
  <2>1. Sees(s) /\ got[s] \in Nat
    BY DEF FeedInv, FeedTyped
  <2>2. Unlocked(FeedOf[s]) => ~Emptied(s)
    BY DEF FeedInv, FeedAssumption, Locked, Unlocked, Emptied
  <2>3. CASE ch[s] = <<>>
    <3>1. s \in KeepLast /\ Unlocked(FeedOf[s]) => got[s] >= offered[s]
      BY Zenon, <2>1, <2>2, <2>3 DEF Sees
    <3>2. DOMAIN ch[s] = {}
      BY <2>3
    <3> QED  BY Zenon, <3>1, <3>2
  <2>4. CASE ch[s] # <<>>
    <3>1. DOMAIN ch[s] = {1} /\ ch[s][1] = Head(ch[s])
      BY Zenon, <2>1, <2>4, OneInChannel DEF Sees
    <3> QED  BY <2>1, <2>2, <2>4, <3>1 DEF Sees
  <2> QED  BY <2>3, <2>4
<1> QED  BY <1>1, FeedInvariant, PTL
=============================================================================
