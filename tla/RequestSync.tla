---------------------------- MODULE RequestSync -----------------------------
(***************************************************************************)
(* sync/preconfirmed/request_sync.go: many goroutines ask one worker (the  *)
(* poller's Run) for a poll and wait for its end.  The mutex makes the     *)
(* critical sections of Request, SelfRequest and Stop steps; the checks    *)
(* before the lock, the receive from requestCh and the signals are not     *)
(* under it.  A channel is open or closed, and a closed channel that       *)
(* nobody holds is garbage and may be made again.                          *)
(***************************************************************************)
EXTENDS Naturals, FiniteSets, FiniteSetTheorems, TLAPS

CONSTANTS Requesters, Channels, None, Entering

VARIABLES
    available,      \* between Start and Stop
    fresh,          \* the last successful request is at most dataFreshnessTime ago
    requestCh,      \* the request waiting for the worker, or None
    responseCh,     \* the channel of the last request
    open,           \* the channels not closed
    work,           \* the request the worker is at, or None
    waits,          \* waits[p]: the channel p waits for, None, or Entering before it has the lock
    running         \* Run has been entered and not left

vars == <<available, fresh, requestCh, responseCh, open, work, waits, running>>

\* NewRequestSync makes a channel and closes it.
Init ==
    /\ available = FALSE /\ fresh = FALSE
    /\ requestCh = None
    /\ responseCh = CHOOSE c \in Channels : TRUE
    /\ open = {}
    /\ work = None
    /\ waits = [p \in Requesters |-> None]
    /\ running = FALSE

Held == {responseCh, requestCh, work} \union {waits[p] : p \in Requesters}
NewChannel == CHOOSE c \in Channels : c \notin Held \union open

-----------------------------------------------------------------------------
\* Request, up to the lock.
Request(p) ==
    /\ waits[p] = None
    /\ available /\ ~fresh
    /\ waits' = [waits EXCEPT ![p] = Entering]
    /\ UNCHANGED <<available, fresh, requestCh, responseCh, open, work, running>>

\* Under the lock: leave, join the ongoing request, or make one.
Leave(p) ==
    /\ waits[p] = Entering
    /\ ~available \/ (responseCh \notin open /\ fresh)
    /\ waits' = [waits EXCEPT ![p] = None]
    /\ UNCHANGED <<available, fresh, requestCh, responseCh, open, work, running>>

Join(p) ==
    /\ waits[p] = Entering
    /\ available /\ responseCh \in open
    /\ waits' = [waits EXCEPT ![p] = responseCh]
    /\ UNCHANGED <<available, fresh, requestCh, responseCh, open, work, running>>

\* The send blocks, with the lock held, while requestCh is full.
Ask(p) ==
    /\ waits[p] = Entering
    /\ available /\ responseCh \notin open /\ ~fresh
    /\ requestCh = None
    /\ responseCh' = NewChannel /\ requestCh' = NewChannel
    /\ open' = open \union {NewChannel}
    /\ waits' = [waits EXCEPT ![p] = NewChannel]
    /\ UNCHANGED <<available, fresh, work, running>>

Released(p) ==
    /\ waits[p] \in Channels \ open
    /\ waits' = [waits EXCEPT ![p] = None]
    /\ UNCHANGED <<available, fresh, requestCh, responseCh, open, work, running>>

\* requestWaitTime has passed.
GiveUp(p) ==
    /\ waits[p] \in open
    /\ waits' = [waits EXCEPT ![p] = None]
    /\ UNCHANGED <<available, fresh, requestCh, responseCh, open, work, running>>

\* dataFreshnessTime has passed.
Age ==
    /\ fresh
    /\ fresh' = FALSE
    /\ UNCHANGED <<available, requestCh, responseCh, open, work, waits, running>>

-----------------------------------------------------------------------------
Start ==
    /\ ~running
    /\ running' = TRUE
    /\ available' = TRUE
    /\ UNCHANGED <<fresh, requestCh, responseCh, open, work, waits>>

\* Run: a request is taken from the channel ...
Take ==
    /\ running /\ work = None
    /\ requestCh # None
    /\ work' = requestCh /\ requestCh' = None
    /\ UNCHANGED <<available, fresh, responseCh, open, waits, running>>

\* Mutant of SelfRequest: a request that waits is not taken over.
SelfRequestAlone ==
    /\ running /\ work = None
    /\ work' = NewChannel /\ responseCh' = NewChannel /\ open' = open \union {NewChannel}
    /\ UNCHANGED <<requestCh, available, fresh, waits, running>>

\* ... or the ticker fires: SelfRequest takes over a request that waits.
SelfRequest ==
    /\ running /\ work = None
    /\ IF requestCh # None
       THEN work' = requestCh /\ requestCh' = None /\ UNCHANGED <<responseCh, open>>
       ELSE /\ work' = NewChannel /\ responseCh' = NewChannel
            /\ open' = open \union {NewChannel}
            /\ UNCHANGED requestCh
    /\ UNCHANGED <<available, fresh, waits, running>>

\* The poll succeeds: the time is stored first, then the channel is closed.
Succeed ==
    /\ work # None /\ ~fresh
    /\ fresh' = TRUE
    /\ UNCHANGED <<available, requestCh, responseCh, open, work, waits, running>>

Signal ==
    /\ work # None
    /\ open' = open \ {work}
    /\ work' = None
    /\ UNCHANGED <<available, fresh, requestCh, responseCh, waits, running>>

\* Mutant of Stop: requests that wait in the channel are left there.
StopLeaving ==
    /\ running /\ work = None
    /\ available' = FALSE /\ running' = FALSE
    /\ UNCHANGED <<requestCh, open, fresh, responseCh, work, waits>>

\* Stop, deferred in Run: everybody who waits is released.
Stop ==
    /\ running /\ work = None
    /\ available' = FALSE /\ running' = FALSE
    /\ IF requestCh # None THEN open' = open \ {requestCh} /\ requestCh' = None
       ELSE open' = open \ {responseCh} /\ UNCHANGED requestCh
    /\ UNCHANGED <<fresh, responseCh, work, waits>>

Worker == Take \/ SelfRequest \/ Signal
Next == \/ \E p \in Requesters :
              Request(p) \/ Leave(p) \/ Join(p) \/ Ask(p) \/ Released(p) \/ GiveUp(p)
        \/ Age \/ Start \/ Worker \/ Succeed \/ Stop
Spec == Init /\ [][Next]_vars
\* The worker goes on, and a requester that can leave does; nobody is made to give up.
FairSpec == /\ Spec /\ WF_vars(Worker)
            /\ \A p \in Requesters : WF_vars(Leave(p) \/ Join(p) \/ Ask(p)) /\ WF_vars(Released(p))

-----------------------------------------------------------------------------
TypeOK ==
    /\ requestCh \in Channels \union {None} /\ responseCh \in Channels
    /\ work \in Channels \union {None}
    /\ open \subseteq Channels
    /\ \A p \in Requesters : waits[p] \in Channels \union {None, Entering}

\* Whoever waits for an open channel waits for one that will be closed: it is the
\* request in the channel, or the one the worker is at.
NobodyAbandoned ==
    \A p \in Requesters : waits[p] \in open => waits[p] \in {requestCh, work}

\* A request sent under the lock finds room in requestCh, so the lock is released;
\* and the worker closes only what is open (closing twice would panic).
SendsAndClosesSafe ==
    /\ available /\ responseCh \notin open => requestCh = None
    /\ work # None => work \in open

\* Without giving up, everybody who waits is released, whether the worker polls or stops.
RequestersReturn ==
    \A p \in Requesters : waits[p] # None ~> waits[p] = None

-----------------------------------------------------------------------------
(* What is proved: for any number of requesters the two safety properties    *)
(* hold.  There is a channel to make whenever one is made: only the last     *)
(* request's and those waited for are held, and there are more than those.   *)

EnoughChannels ==
    /\ None \notin Channels /\ Entering \notin Channels /\ None # Entering
    /\ IsFiniteSet(Requesters) /\ IsFiniteSet(Channels)
    /\ Cardinality(Channels) > Cardinality(Requesters) + 1

\* At most one channel is open, that of the last request; it is open exactly while
\* the request waits in requestCh or the worker is at it.
OneRequest ==
    /\ open \subseteq {responseCh}
    /\ responseCh \in open => requestCh = responseCh \/ work = responseCh
    /\ requestCh # None => requestCh = responseCh /\ responseCh \in open /\ work = None
    /\ work # None => work = responseCh /\ responseCh \in open

IInv ==
    /\ TypeOK
    /\ waits \in [Requesters -> Channels \union {None, Entering}]
    /\ OneRequest

\* Two sets have together at most as many elements as their bounds add up to.
LEMMA AtMostSum ==
    ASSUME NEW S, NEW T, NEW m \in Nat, NEW n \in Nat,
           IsFiniteSet(S), Cardinality(S) <= m, IsFiniteSet(T), Cardinality(T) <= n
    PROVE  IsFiniteSet(S \union T) /\ Cardinality(S \union T) <= m + n
<1>1. IsFiniteSet(S \cap T)
  BY FS_Intersection
<1>2. Cardinality(S) \in Nat /\ Cardinality(T) \in Nat /\ Cardinality(S \cap T) \in Nat
  BY <1>1, FS_CardinalityType
<1>3. /\ IsFiniteSet(S \union T)
      /\ Cardinality(S \union T) = Cardinality(S) + Cardinality(T) - Cardinality(S \cap T)
  BY FS_Union
<1> QED  BY <1>2, <1>3

\* make(chan struct{}) gives a channel that nobody holds.
LEMMA ChannelToMake ==
    ASSUME EnoughChannels, IInv
    PROVE  NewChannel \in Channels /\ NewChannel \notin Held \union open
<1> DEFINE W == {waits[p] : p \in Requesters}
           T == {responseCh}
<1>1. IsFiniteSet(W) /\ Cardinality(W) <= Cardinality(Requesters)
  <2>1. waits \in Surjection(Requesters, W)
    BY DEF IInv, Surjection
  <2> HIDE DEF W
  <2> QED  BY <2>1, FS_Surjection DEF EnoughChannels
<1>2. IsFiniteSet(T) /\ Cardinality(T) <= 1
  <2>1. IsFiniteSet(T) /\ Cardinality(T) = 1
    BY FS_Singleton, Zenon
  <2>2. 1 <= 1
    OBVIOUS
  <2> QED  BY <2>1, <2>2, Zenon
<1>3. IsFiniteSet(T \union W) /\ Cardinality(T \union W) <= 1 + Cardinality(Requesters)
  <2>1. 1 \in Nat /\ Cardinality(Requesters) \in Nat
    BY FS_CardinalityType DEF EnoughChannels
  <2> HIDE DEF T, W
  <2> QED  BY <1>1, <1>2, <2>1, AtMostSum, Zenon
<1>4. (Held \union open) \cap Channels \subseteq T \union W
  BY DEF Held, IInv, OneRequest, EnoughChannels
<1>5. \E c \in Channels : c \notin Held \union open
  <2>1. SUFFICES ASSUME Channels \subseteq T \union W PROVE FALSE
    BY <1>4
  <2> HIDE DEF T, W
  <2>2. Cardinality(Channels) <= Cardinality(T \union W)
    BY <1>3, <2>1, FS_Subset
  <2>3. /\ Cardinality(Channels) \in Nat /\ Cardinality(T \union W) \in Nat
        /\ Cardinality(Requesters) \in Nat
    BY <1>3, FS_CardinalityType DEF EnoughChannels
  <2> QED  BY <1>3, <2>2, <2>3 DEF EnoughChannels
<1> QED  BY <1>5 DEF NewChannel

\* The invariant holds when NewRequestSync returns, and every step keeps it.
LEMMA Invariant == ASSUME EnoughChannels PROVE Spec => []IInv
<1>1. Init => IInv
  <2> SUFFICES ASSUME Init PROVE IInv
    OBVIOUS
  <2>1. Channels # {}
    BY FS_EmptySet, FS_CardinalityType DEF EnoughChannels
  <2> QED  BY <2>1 DEF Init, IInv, TypeOK, OneRequest
<1>2. IInv /\ [Next]_vars => IInv'
  <2> SUFFICES ASSUME IInv, [Next]_vars PROVE IInv'
    OBVIOUS
  <2> USE DEF IInv, TypeOK, OneRequest
  <2>1. NewChannel \in Channels /\ NewChannel \notin Held \union open
    BY ChannelToMake
  <2>2. ASSUME NEW p \in Requesters, Request(p) \/ Leave(p) \/ Join(p) \/ Released(p) \/ GiveUp(p)
        PROVE  IInv'
    BY <2>2 DEF Request, Leave, Join, Released, GiveUp
  <2>3. ASSUME NEW p \in Requesters, Ask(p) PROVE IInv'
    BY <2>1, <2>3 DEF Ask, EnoughChannels
  <2>4. CASE Age \/ Start \/ Succeed
    BY <2>4 DEF Age, Start, Succeed
  <2>5. CASE Take
    BY <2>5 DEF Take
  <2>6. CASE SelfRequest
    BY <2>1, <2>6 DEF SelfRequest, EnoughChannels
  <2>7. CASE Signal
    BY <2>7 DEF Signal
  <2>8. CASE Stop
    BY <2>8 DEF Stop
  <2>9. CASE UNCHANGED vars
    BY <2>9 DEF vars
  <2> QED  BY <2>2, <2>3, <2>4, <2>5, <2>6, <2>7, <2>8, <2>9 DEF Next, Worker
<1> QED  BY <1>1, <1>2, PTL DEF Spec

\* A request sent with the lock held finds room in requestCh, and the worker closes no
\* channel twice, however Request, SelfRequest, Stop and the signals interleave.
THEOREM NeverBlocksNorPanics == ASSUME EnoughChannels PROVE Spec => []SendsAndClosesSafe
<1>1. IInv => SendsAndClosesSafe
  BY DEF IInv, OneRequest, SendsAndClosesSafe
<1> QED  BY <1>1, Invariant, PTL

\* Nobody waits in Request for a channel that the worker does not have or will not get.
THEOREM EveryWaiterServed == ASSUME EnoughChannels PROVE Spec => []NobodyAbandoned
<1>1. IInv => NobodyAbandoned
  BY DEF IInv, OneRequest, NobodyAbandoned
<1> QED  BY <1>1, Invariant, PTL
=============================================================================
