------------------------------ MODULE Propeller -----------------------------
(***************************************************************************)
(* How propeller spreads a message over a committee (consensus/propeller): *)
(* who is responsible for which shard, the padding of a message, its       *)
(* encoding into shards, the Merkle tree over them, and how a message is   *)
(* built again from some of the units.  A behaviour is one message: a      *)
(* committee that every node was given in its own order, a publisher, and  *)
(* the units that reach one node, one by one and in any order.             *)
(*                                                                         *)
(* Bytes are the numbers below 2 * Base: Base stands for 128, the digits   *)
(* of a varint.  Hashes are the terms that were hashed.                    *)
(*                                                                         *)
(* The second half is about the cache of the messages that are finished.   *)
(***************************************************************************)
EXTENDS Integers, Sequences, SequencesExt, FiniteSets, FiniteSetsExt

CONSTANTS
    Peers,      \* peers that publish or receive, numbers
    Lists,      \* the lists of nodes that are given, some of them no committees
    Base,       \* values of a varint's digit
    Bytes,      \* bytes of a message
    MaxLength,  \* longest message
    \* of the cache:
    Values,
    initialSize,   \* capacity the cache starts with
    standardSize,  \* above it the ring grows by a fifth
    expiry,        \* how long a value stays
    MaxTime,       \* bound on the clock
    None

VARIABLES
    nodes,      \* the list of nodes, as this node was given it
    local,      \* this node
    publisher,
    message,
    received,   \* the shards that this node has
    \* of the cache:
    now, added,
    values,        \* value -> when it expires, None if absent
    timestamps,    \* the ring
    start, end,
    stale          \* times at which readers found an expired value

vars == <<nodes, local, publisher, message, received>>

Failed == [error |-> TRUE]

----------------------------------------------------------------------------
(* The scheduler.  Positions count from 0.                                  *)

Sorted(ns) == SortSeq(ns, LAMBDA a, b : a < b)

\* The scheduler of node id, or Failed for a list that is no committee.
NewScheduler(id, ns) ==
    LET peers == Sorted(ns) n == Len(ns) data == Max({1, (n - 1) \div 3}) IN
    IF n < 2 \/ id \notin ToSet(ns) \/ (\E i \in 1..n - 1 : peers[i] = peers[i + 1]) THEN Failed
    ELSE [id |-> id, peers |-> peers,
          localIndex |-> (CHOOSE i \in 1..n : peers[i] = id) - 1,
          numDataShards |-> data, numCodingShards |-> Max({0, n - 1 - data})]

NumTotalShards(s) == s.numDataShards + s.numCodingShards

BuildThreshold(s) == s.numDataShards

ReceiveThreshold(s) == IF Len(s.peers) <= 3 THEN BuildThreshold(s) ELSE s.numDataShards * 2

\* -1 for a publisher that is not in the committee.
publisherIndex(s, pub) ==
    IF pub \in ToSet(s.peers) THEN (CHOOSE i \in DOMAIN s.peers : s.peers[i] = pub) - 1 ELSE -1

\* 0, which is no peer, when there is none.
PeerForShardIndex(s, pub, shard) ==
    LET p == publisherIndex(s, pub) IN
    IF shard >= NumTotalShards(s) \/ p = -1 THEN 0
    ELSE s.peers[(IF shard >= p THEN shard + 1 ELSE shard) + 1]

\* The shard of this node; -1 for the publisher and for strangers.
ShardIndexForPublisher(s, pub) ==
    LET p == publisherIndex(s, pub) IN
    IF s.id = pub \/ p = -1 THEN -1
    ELSE IF s.localIndex >= p THEN s.localIndex - 1 ELSE s.localIndex

ValidateShardOrigin(s, sender, pub, shard) ==
    LET expected == PeerForShardIndex(s, pub, shard) IN
    /\ sender # s.id /\ pub # s.id /\ expected # 0
    /\ \/ expected = s.id /\ sender = pub
       \/ expected = sender

\* The peers that the publisher sends its units to, by shard.
BroadcastTargets(s) == SelectSeq(s.peers, LAMBDA p : p # s.peers[s.localIndex + 1])

\* Whom a node sends its own shard to.
broadcastUnit(s, pub) == ToSet(s.peers) \ {pub, s.id}

----------------------------------------------------------------------------
(* Padding and encoding.                                                    *)

\* The least significant digits first, all but the last with the high bit.
PutUvarint(n) ==
    LET put[x \in 0..n] == IF x < Base THEN <<x>> ELSE <<Base + (x % Base)>> \o put[x \div Base]
    IN put[n]

\* The number and how many bytes it took; 0 bytes if it does not end.
Uvarint(bs) ==
    LET ends == {i \in DOMAIN bs : bs[i] < Base} IN
    IF ends = {} THEN <<0, 0>>
    ELSE LET n == Min(ends)
             value[i \in 1..n + 1] == IF i > n THEN 0 ELSE (bs[i] % Base) + Base * value[i + 1]
         IN <<value[1], n>>

PadMessage(msg, data) ==
    LET bs == PutUvarint(Len(msg)) \o msg divisor == 2 * data rest == Len(bs) % divisor IN
    bs \o [i \in 1..(IF rest = 0 THEN 0 ELSE divisor - rest) |-> 0]

UnpadMessage(padded) ==
    LET u == Uvarint(padded) last == u[2] + u[1] IN
    IF u[2] = 0 \/ last > Len(padded) THEN Failed ELSE [msg |-> SubSeq(padded, u[2] + 1, last)]

\* The code: the data in equal pieces, and coding shards that depend on all
\* of it.  Any numDataShards of the shards give the others.
EncodeData(padded, data, parity) ==
    LET size == (Len(padded) + data - 1) \div data IN
    [k \in 1..data + parity |->
        IF k <= data THEN [bytes |-> SubSeq(padded, (k - 1) * size + 1, k * size)]
        ELSE [coding |-> k, bytes |-> padded]]

RecoverData(shards, have, data) == IF Cardinality(have) < data THEN Failed ELSE [shards |-> shards]

----------------------------------------------------------------------------
(* The Merkle tree.                                                         *)

merkleLeafHash(data) == <<"leaf", data>>

merkleNodeHash(l, r) == <<"node", l, r>>

nextPowerOfTwo(n) == IF n <= 2 THEN 2 ELSE CHOOSE k \in {2^i : i \in 2..n} : k >= n /\ k < 2 * n

\* The layers from the leaves to the root.
Layers(leaves) ==
    LET size == nextPowerOfTwo(Len(leaves))
        depth == CHOOSE d \in 1..size : 2^d = size
        layer[d \in 0..depth] ==
            IF d = 0 THEN [i \in 1..size |-> merkleLeafHash(IF i <= Len(leaves) THEN leaves[i] ELSE <<>>)]
            ELSE [i \in 1..size \div 2^d |-> merkleNodeHash(layer[d - 1][2 * i - 1], layer[d - 1][2 * i])]
    IN [d \in 1..depth + 1 |-> layer[d - 1]]

\* The root and, for every leaf, the siblings on its way up.
New(leaves) ==
    LET layers == Layers(leaves) depth == Len(layers) - 1
        Sibling(a) == IF a % 2 = 0 THEN a + 1 ELSE a - 1
    IN [root |-> layers[depth + 1][1],
        proofs |-> [i \in 1..Len(leaves) |->
                        [d \in 1..depth |-> layers[d][Sibling((i - 1) \div 2^(d - 1)) + 1]]]]

Verify(proof, root, leaf, index) ==
    LET up[d \in 0..Len(proof)] ==
            IF d = 0 THEN merkleLeafHash(leaf)
            ELSE IF (index \div 2^(d - 1)) % 2 = 0 THEN merkleNodeHash(up[d - 1], proof[d])
            ELSE merkleNodeHash(proof[d], up[d - 1])
    IN up[Len(proof)] = root

----------------------------------------------------------------------------
Scheduler(id) == NewScheduler(id, nodes)

shards ==
    LET s == Scheduler(publisher) IN
    EncodeData(PadMessage(message, s.numDataShards), s.numDataShards, s.numCodingShards)

\* The units of the message: a shard each, with its proof.
CreatePropellerUnits ==
    LET tree == New(shards) IN
    [i \in DOMAIN shards |->
        [root |-> tree.root, proof |-> tree.proofs[i], index |-> i - 1, data |-> shards[i]]]

\* Building the message from the units in have (indices from 0): the root is
\* that of unit 0, which may be missing.
ConstructMessageFromUnits(have) ==
    LET s == Scheduler(local)
        r == RecoverData(shards, have, s.numDataShards)
    IN IF r = Failed THEN Failed
       ELSE IF 0 \notin have THEN [panic |-> TRUE]
       ELSE IF New(r.shards).root # CreatePropellerUnits[1].root THEN Failed
       ELSE UnpadMessage(FlattenSeq([i \in DOMAIN r.shards |-> r.shards[i].bytes]))

Init ==
    /\ nodes \in Lists
    /\ local \in Peers /\ publisher \in Peers
    /\ message \in UNION {[1..n -> Bytes] : n \in 0..MaxLength}
    /\ received = {}

\* A unit that comes from the peer that is responsible for it.
Receive ==
    LET s == Scheduler(local) IN
    /\ s # Failed
    /\ \E shard \in 0..NumTotalShards(s) - 1, sender \in ToSet(nodes) :
        /\ shard \notin received
        /\ ValidateShardOrigin(s, sender, publisher, shard)
        /\ received' = received \union {shard}
    /\ UNCHANGED <<nodes, local, publisher, message>>

Next == Receive

Spec == Init /\ [][Next]_vars

----------------------------------------------------------------------------
TypeOK == received \subseteq 0..Len(nodes) - 2

Valid == Scheduler(local) # Failed /\ Scheduler(publisher) # Failed

\* The nodes agree on who is responsible for a shard although each was given
\* the committee in its own order (NewScheduler, PeerForShardIndex and its
\* inverse ShardIndexForPublisher): what the publisher or a responsible peer
\* sends to a node is what the node takes from it (ValidateShardOrigin).
OriginsAgree ==
    Valid /\ received = {} =>
        LET pub == Scheduler(publisher) here == Scheduler(local) IN
        \A q \in ToSet(nodes) \ {publisher} :
            LET there == NewScheduler(q, Reverse(nodes))
                shard == ShardIndexForPublisher(there, publisher)
            IN /\ PeerForShardIndex(here, publisher, shard) = q
               /\ BroadcastTargets(pub)[shard + 1] = q
               /\ ValidateShardOrigin(there, publisher, publisher, shard)
               /\ local \in broadcastUnit(there, publisher) =>
                    /\ ValidateShardOrigin(here, q, publisher, shard)
                    /\ \A other \in ToSet(nodes) \ {q} :
                        ~ ValidateShardOrigin(here, other, publisher, shard)

\* As many peers as there are data shards may stay silent in a committee of
\* three or more (the comment of Scheduler calls them the faulty ones): the
\* others are enough to build a message and to have it received.
ThresholdsReached ==
    LET s == Scheduler(local) IN
    Valid /\ Len(nodes) > 2 =>
        BuildThreshold(s) <= ReceiveThreshold(s) /\ ReceiveThreshold(s) <= NumTotalShards(s) - s.numDataShards

\* The proof of a unit verifies for its shard at its index, and whatever
\* verifies at an index below the padded size is the shard of that index,
\* equal shards included (merkle.New, Proof.Verify).
ProofsBind ==
    Valid /\ received = {} =>
             LET units == CreatePropellerUnits size == nextPowerOfTwo(Len(units)) IN
             \A i \in DOMAIN units, j \in DOMAIN units, at \in 0..size - 1 :
                /\ i = j /\ at = i - 1 => Verify(units[i].proof, units[i].root, units[j].data, at)
                /\ Verify(units[i].proof, units[i].root, units[j].data, at) =>
                    at < Len(units) /\ units[at + 1].data = units[j].data

\* A message is built again from any units that are enough and that include
\* the first, byte for byte, whatever its length does to the varint and the
\* padding (PadMessage, UnpadMessage, ConstructMessageFromUnits).
MessageRebuilt ==
    Valid /\ 0 \in received /\ Cardinality(received) >= BuildThreshold(Scheduler(local)) =>
        ConstructMessageFromUnits(received) = [msg |-> message]

-----------------------------------------------------------------------------
(* The cache of the messages that are finished (timecache): a map from    *)
(* values to the time they expire, and a ring of the same entries in the   *)
(* order they were added, which grows when it is full.  Readers look a     *)
(* value up under the read lock and clean up later, with the time they had *)
(* read.  `added' is when a value was last added, and not what the code    *)
(* keeps.                                                                  *)

cacheVars == <<now, added, values, timestamps, start, end, stale>>

\* Ring positions count from 0.
At(i) == timestamps[i + 1]

Size == Len(timestamps)

Empty == [value |-> None, expiry |-> 0]

NewCache ==
    /\ values = [v \in Values |-> None]
    /\ timestamps = [i \in 1..initialSize + 1 |-> Empty]
    /\ start = 0 /\ end = 0

CacheInit == NewCache /\ now = 0 /\ added = [v \in Values |-> None] /\ stale = {}

increaseIndex(i, n) == (i + 1) % n

\* Where the first entry is that has not expired at time t.
removeExpired(t) ==
    LET skip[k \in 0..Size] ==
            IF (start + k) % Size = end \/ t < At((start + k) % Size).expiry THEN k ELSE skip[k + 1]
    IN skip[0]

\* The values without those of the first k entries.
Without(k) ==
    LET gone == {At((start + j) % Size).value : j \in 0..k - 1} IN
    [v \in Values |-> IF v \in gone THEN None ELSE values[v]]

almostFull(s) == (end + 1) % Size = s

nextSize == IF Size > standardSize THEN (Size * 12) \div 10 ELSE Size * 2

\* The ring, its start and its end in more room.
regrowth(s) ==
    IF s < end
    THEN [ring |-> [i \in 1..nextSize |-> IF i <= Size THEN timestamps[i] ELSE Empty], start |-> s, end |-> end]
    ELSE LET count == Size - s IN
         [ring |-> [i \in 1..nextSize |->
                        IF i <= count THEN At(s + i - 1)
                        ELSE IF i <= count + end THEN At(i - count - 1) ELSE Empty],
          start |-> 0, end |-> count + end]

\* A value is added once until it expires: a message is finished once.
Addable == {v \in Values : added[v] = None \/ (added[v] # None /\ now >= added[v] + expiry)}

\* Which of them is added makes no difference.
Add(v) ==
    /\ v \in Addable /\ \A w \in Addable : v <= w
    /\ LET k == removeExpired(now)
           s == (start + k) % Size
           r == IF almostFull(s) THEN regrowth(s) ELSE [ring |-> timestamps, start |-> s, end |-> end]
       IN /\ values' = [Without(k) EXCEPT ![v] = now + expiry]
          /\ timestamps' = [r.ring EXCEPT ![r.end + 1] = [value |-> v, expiry |-> now + expiry]]
          /\ start' = r.start
          /\ end' = increaseIndex(r.end, Len(r.ring))
    /\ added' = [added EXCEPT ![v] = now]
    /\ UNCHANGED <<now, stale>>

Get(v) == values[v] # None /\ values[v] > now

\* A reader that found an expired value will clean up.
GetStale ==
    /\ \E v \in Values : values[v] # None /\ values[v] <= now
    /\ stale' = stale \union {now}
    /\ UNCHANGED <<now, added, values, timestamps, start, end>>

GetCleans ==
    /\ \E t \in stale :
        /\ values' = Without(removeExpired(t))
        /\ start' = (start + removeExpired(t)) % Size
        /\ stale' = stale \ {t}
    /\ UNCHANGED <<now, added, timestamps, end>>

Tick == now < MaxTime /\ now' = now + 1 /\ UNCHANGED <<added, values, timestamps, start, end, stale>>

CacheNext == (\E v \in Values : Add(v)) \/ GetStale \/ GetCleans \/ Tick

CacheSpec == CacheInit /\ [][CacheNext]_cacheVars

----------------------------------------------------------------------------
CacheTypeOK == start \in 0..Size - 1 /\ end \in 0..Size - 1 /\ stale \subseteq 0..MaxTime

\* Get finds exactly the values added less than expiry ago, through every
\* wrap and growth of the ring and every late clean-up: a unit of a finished
\* message is recognised for as long as it should be, and no longer.
RemembersExactly ==
    \A v \in Values : Get(v) <=> added[v] # None /\ now < added[v] + expiry

\* The ring holds what the map holds, once each and in order of expiry:
\* nothing stays in the map for ever, and growing loses nothing.
RingIsMap ==
    LET n == (end - start) % Size
        ring == [j \in 1..n |-> At((start + j - 1) % Size)]
    IN /\ {<<ring[j].value, ring[j].expiry>> : j \in 1..n}
            = {<<v, values[v]>> : v \in {w \in Values : values[w] # None}}
       /\ Cardinality({v \in Values : values[v] # None}) = n
       /\ \A j \in 1..n - 1 : ring[j].expiry <= ring[j + 1].expiry
=============================================================================
