------------------------ MODULE ProposalStoreProofs ------------------------
(***************************************************************************)
(* The proposal store keeps its promises for every number of concurrent    *)
(* calls of Store, Get and FinalizeHeight, of heights and of blocks.       *)
(***************************************************************************)
EXTENDS ProposalStore, TLAPS

\* A call is of one method, and None is not a build result.
CallsApart ==
    /\ Storers \intersect Getters = {} /\ Storers \intersect Finalizers = {}
    /\ Getters \intersect Finalizers = {}
    /\ None \notin Storers

InStore == {"insert", "recheck", "rollback", "drop"}

Shapes ==
    /\ outer \in [Heights -> Storers \union {None}]
    /\ bucket \in [Storers -> [Keys -> Storers \union {None}]]
    /\ finalized \in Nat
    /\ DOMAIN pc = Calls /\ DOMAIN key = Calls /\ DOMAIN held = Calls
    /\ visited \in [Finalizers -> SUBSET Heights]
    /\ promised \subseteq Getters

\* The locals of the calls.
StorerOK(s) ==
    /\ pc[s] # "ready" => key[s] \in Keys
    /\ pc[s] \in InStore => held[s] \in Storers
GetterOK(g) ==
    /\ pc[g] # "ready" => key[g] \in Keys
    /\ g \in promised => pc[g] \in {"load", "check", "done"}
FinalizerOK(f) ==
    /\ pc[f] # "ready" => key[f] \in Heights
    /\ pc[f] = "swap" => held[f] \in Nat /\ held[f] < key[f]
    /\ pc[f] \in {"ready", "read", "swap"} => visited[f] = {}
    /\ pc[f] = "range" => key[f] <= finalized

\* Above the finalized heights a bucket stays the one that a Store has found, and
\* what a Store has put into it stays.
Kept(s) ==
    LET h == key[s].height
    IN  /\ pc[s] = "insert" /\ ~IsFinalized(h) => outer[h] = held[s]
        /\ pc[s] \in {"recheck", "done"} /\ ~IsFinalized(h) => Content(key[s]) # None
        /\ pc[s] \in {"rollback", "drop"} => IsFinalized(h)

\* What a Get was promised is there until it has it.
Found(g) ==
    ~IsFinalized(key[g].height) =>
      /\ pc[g] = "load" => Content(key[g]) # None
      /\ pc[g] \in {"check", "done"} => held[g] # None

\* Whoever is about to remove a bucket of a finalized height: a Range that began
\* with it and has not come to it, or a Store that will roll it back.
Ranger(h, f) == pc[f] = "range" /\ h <= key[f] /\ h \notin visited[f] /\ held[f][h] = outer[h]
Roller(h, s) == pc[s] \in InStore /\ key[s].height = h /\ held[s] = outer[h]
Owned(h) ==
    IsFinalized(h) /\ outer[h] # None =>
      (\E f \in Finalizers : Ranger(h, f)) \/ (\E s \in Storers : Roller(h, s))

IInv ==
    /\ Shapes
    /\ \A s \in Storers : StorerOK(s) /\ Kept(s)
    /\ \A g \in Getters : GetterOK(g) /\ (g \in promised => Found(g))
    /\ \A f \in Finalizers : FinalizerOK(f)
    /\ \A h \in Heights : Owned(h)

\* What no step changes above the finalized heights.
Stable ==
    /\ finalized <= finalized'
    /\ \A h \in Heights : h > finalized' /\ outer[h] # None => outer'[h] = outer[h]
    /\ \A k \in Keys, b \in Storers :
          k.height > finalized' /\ bucket[b][k] # None => bucket'[b][k] # None

\* A step of c leaves the locals of the other calls alone.
Frame(c) == \A d \in Calls \ {c} : pc'[d] = pc[d] /\ key'[d] = key[d] /\ held'[d] = held[d]

-----------------------------------------------------------------------------
LEMMA ContentStays ==
    ASSUME CallsApart, Shapes, Shapes', Stable, NEW k \in Keys,
           Content(k) # None, ~(k.height <= finalized')
    PROVE  Content(k)' # None
  <1>1. k.height \in Heights /\ k.height > finalized'
    BY DEF Keys, Heights, Shapes
  <1>2. outer[k.height] \in Storers /\ bucket[outer[k.height]][k] # None
    BY Zenon, <1>1 DEF Content, Shapes
  <1>3. outer'[k.height] = outer[k.height] /\ outer[k.height] # None
    BY Zenon, <1>1, <1>2 DEF Stable, CallsApart
  <1>4. bucket'[outer[k.height]][k] # None
    BY Zenon, <1>1, <1>2 DEF Stable
  <1> QED
    BY Zenon, <1>3, <1>4 DEF Content

\* The promises to the calls that do not move.
LEMMA KeptStays ==
    ASSUME CallsApart, Shapes, Shapes', Stable, NEW s \in Storers, StorerOK(s), Kept(s),
           UNCHANGED <<pc[s], key[s], held[s]>>
    PROVE  StorerOK(s)' /\ Kept(s)'
  <1> USE DEF InStore
  <1>1. StorerOK(s)'
    BY Zenon DEF StorerOK
  <1>2. finalized \in Nat /\ finalized' \in Nat /\ finalized <= finalized'
    BY Zenon DEF Shapes, Stable
  <1>3. CASE pc[s] = "insert"
    <2>1. key[s] \in Keys /\ held[s] \in Storers /\ key[s].height \in Heights
      BY Zenon, <1>3 DEF StorerOK, Keys
    <2>2. ASSUME ~(key[s].height <= finalized') PROVE outer'[key[s].height] = held[s]
      <3>1. key[s].height > finalized' /\ ~(key[s].height <= finalized)
        BY <1>2, <2>1, <2>2 DEF Heights
      <3>2. outer[key[s].height] = held[s] /\ held[s] # None
        BY Zenon, <1>3, <2>1, <3>1 DEF Kept, IsFinalized, CallsApart
      <3> QED
        BY Zenon, <2>1, <3>1, <3>2 DEF Stable
    <2> QED
      BY Zenon, <1>1, <1>3, <2>2 DEF Kept, IsFinalized
  <1>4. CASE pc[s] \in {"recheck", "done"}
    <2>1. key[s] \in Keys /\ key[s].height \in Heights
      BY Zenon, <1>4 DEF StorerOK, Keys
    <2>2. ASSUME ~(key[s].height <= finalized') PROVE Content(key[s])' # None
      <3>1. ~(key[s].height <= finalized)
        BY <1>2, <2>1, <2>2 DEF Heights
      <3>2. Content(key[s]) # None
        BY Zenon, <1>4, <3>1 DEF Kept, IsFinalized
      <3>3. \A k \in Keys : k = key[s] => Content(k)' # None
        BY Zenon, <2>2, <3>2, ContentStays
      <3> QED
        BY Zenon, <2>1, <3>3
    <2> QED
      BY Zenon, <1>1, <1>4, <2>2 DEF Kept, IsFinalized
  <1>5. CASE pc[s] \in {"rollback", "drop"}
    <2>1. key[s] \in Keys /\ key[s].height \in Heights
      BY Zenon, <1>5 DEF StorerOK, Keys
    <2> QED
      BY <1>1, <1>2, <1>5, <2>1 DEF Kept, IsFinalized, Heights
  <1>6. CASE pc[s] \notin {"insert", "recheck", "done", "rollback", "drop"}
    BY Zenon, <1>1, <1>6 DEF Kept
  <1> QED
    BY Zenon, <1>3, <1>4, <1>5, <1>6

LEMMA FoundStays ==
    ASSUME CallsApart, Shapes, Shapes', Stable, NEW g \in Getters, GetterOK(g),
           g \in promised => Found(g), promised' = promised,
           UNCHANGED <<pc[g], key[g], held[g]>>
    PROVE  GetterOK(g)' /\ (g \in promised' => Found(g)')
  <1>1. GetterOK(g)'
    BY Zenon DEF GetterOK
  <1>2. ASSUME g \in promised PROVE Found(g)'
    <2>1. key[g] \in Keys /\ key[g].height \in Heights
      BY Zenon, <1>2 DEF GetterOK, Keys
    <2>2. finalized \in Nat /\ finalized' \in Nat /\ finalized <= finalized'
      BY Zenon DEF Shapes, Stable
    <2>3. ASSUME ~(key[g].height <= finalized')
          PROVE  /\ pc[g] = "load" => Content(key[g])' # None
                 /\ pc[g] \in {"check", "done"} => held[g] # None
      <3>1. ~(key[g].height <= finalized)
        BY <2>1, <2>2, <2>3 DEF Heights
      <3>2. /\ pc[g] = "load" => Content(key[g]) # None
            /\ pc[g] \in {"check", "done"} => held[g] # None
        BY Zenon, <1>2, <3>1 DEF Found, IsFinalized
      <3>3. \A k \in Keys : k = key[g] /\ pc[g] = "load" => Content(k)' # None
        BY Zenon, <2>3, <3>2, ContentStays
      <3> QED
        BY Zenon, <2>1, <3>2, <3>3
    <2> QED
      BY Zenon, <2>3 DEF Found, IsFinalized
  <1> QED
    BY Zenon, <1>1, <1>2

-----------------------------------------------------------------------------
\* A step of a Store keeps the invariant if it keeps the promise to it, and if it
\* owns what it creates or stops removing.
LEMMA StorerStep ==
    ASSUME CallsApart, IInv, NEW s \in Storers, Frame(s), Shapes', Stable,
           UNCHANGED <<finalized, visited, promised>>,
           StorerOK(s)', Kept(s)',
           \A h \in Heights : outer'[h] # None =>
              Roller(h, s)' \/ (outer'[h] = outer[h] /\ (IsFinalized(h) => ~Roller(h, s)))
    PROVE  IInv'
  <1>1. \A t \in Storers : StorerOK(t)' /\ Kept(t)'
    <2> TAKE t \in Storers
    <2>1. CASE t # s
      <3>1. UNCHANGED <<pc[t], key[t], held[t]>> /\ Shapes /\ StorerOK(t) /\ Kept(t)
        BY Zenon, <2>1 DEF Frame, Calls, IInv
      <3> QED
        BY Zenon, <3>1, KeptStays
    <2> QED
      BY Zenon, <2>1
  <1>2. \A g \in Getters : GetterOK(g)' /\ (g \in promised' => Found(g)')
    <2> TAKE g \in Getters
    <2>1. UNCHANGED <<pc[g], key[g], held[g]>>
      BY Zenon DEF Frame, Calls, CallsApart
    <2>2. Shapes /\ GetterOK(g) /\ (g \in promised => Found(g))
      BY Zenon DEF IInv
    <2> QED
      BY Zenon, <2>1, <2>2, FoundStays
  <1>3. \A f \in Finalizers : FinalizerOK(f)' /\ UNCHANGED <<pc[f], key[f], held[f], visited[f]>>
    BY Zenon DEF Frame, Calls, CallsApart, IInv, FinalizerOK
  <1>4. \A h \in Heights : Owned(h)'
    <2> SUFFICES ASSUME NEW h \in Heights, IsFinalized(h)', outer'[h] # None
                 PROVE  (\E f \in Finalizers : Ranger(h, f)') \/ (\E t \in Storers : Roller(h, t)')
      BY Zenon DEF Owned
    <2>1. CASE Roller(h, s)'
      BY Zenon, <2>1
    <2>2. CASE outer'[h] = outer[h] /\ ~Roller(h, s)
      <3>1. (\E f \in Finalizers : Ranger(h, f)) \/ (\E t \in Storers : Roller(h, t))
        BY Zenon, <2>2 DEF IInv, Owned, IsFinalized
      <3>2. \A f \in Finalizers : Ranger(h, f) => Ranger(h, f)'
        BY Zenon, <1>3, <2>2 DEF Ranger
      <3>3. \A t \in Storers \ {s} : Roller(h, t) => Roller(h, t)'
        BY Zenon, <2>2 DEF Roller, Frame, Calls
      <3> QED
        BY Zenon, <2>2, <3>1, <3>2, <3>3
    <2> QED
      BY Zenon, <2>1, <2>2 DEF IsFinalized
  <1> QED
    BY Zenon, <1>1, <1>2, <1>3, <1>4 DEF IInv

LEMMA FinalizerStep ==
    ASSUME CallsApart, IInv, NEW f \in Finalizers, Frame(f), Shapes', Stable,
           promised' = promised, \A e \in Finalizers \ {f} : visited'[e] = visited[e],
           FinalizerOK(f)',
           \A h \in Heights : h <= finalized' /\ outer'[h] # None =>
              \/ Ranger(h, f)'
              \/ h <= finalized /\ outer'[h] = outer[h] /\ ~Ranger(h, f)
    PROVE  IInv'
  <1>1. \A t \in Storers : StorerOK(t)' /\ Kept(t)' /\ UNCHANGED <<pc[t], key[t], held[t]>>
    <2> TAKE t \in Storers
    <2>1. UNCHANGED <<pc[t], key[t], held[t]>>
      BY Zenon DEF Frame, Calls, CallsApart
    <2>2. Shapes /\ StorerOK(t) /\ Kept(t)
      BY Zenon DEF IInv
    <2> QED
      BY Zenon, <2>1, <2>2, KeptStays
  <1>2. \A g \in Getters : GetterOK(g)' /\ (g \in promised' => Found(g)')
    <2> TAKE g \in Getters
    <2>1. UNCHANGED <<pc[g], key[g], held[g]>>
      BY Zenon DEF Frame, Calls, CallsApart
    <2>2. Shapes /\ GetterOK(g) /\ (g \in promised => Found(g))
      BY Zenon DEF IInv
    <2> QED
      BY Zenon, <2>1, <2>2, FoundStays
  <1>3. \A e \in Finalizers \ {f} : FinalizerOK(e)' /\ UNCHANGED <<pc[e], key[e], held[e], visited[e]>>
    <2>1. \A e \in Finalizers \ {f} : UNCHANGED <<pc[e], key[e], held[e], visited[e]>>
      BY Zenon DEF Frame, Calls
    <2>2. \A e \in Finalizers : FinalizerOK(e)
      BY Zenon DEF IInv
    <2>3. finalized \in Nat /\ finalized' \in Nat /\ finalized <= finalized' /\ Heights \subseteq Nat
      BY DEF IInv, Shapes, Stable, Heights
    <2>4. ASSUME NEW e \in Finalizers \ {f}
          PROVE  FinalizerOK(e)'
      <3>1. pc'[e] = "range" => key'[e] <= finalized'
        <4> SUFFICES ASSUME pc'[e] = "range" PROVE key'[e] <= finalized'
          BY Zenon
        <4>1. key[e] \in Nat /\ key[e] <= finalized /\ key'[e] = key[e]
          BY Zenon, <2>1, <2>2, <2>3 DEF FinalizerOK
        <4> QED
          BY <4>1, <2>3
      <3> QED
        BY <2>1, <2>2, <3>1, Zenon DEF FinalizerOK
    <2> QED
      BY Zenon, <2>1, <2>4
  <1>4. \A h \in Heights : Owned(h)'
    <2> SUFFICES ASSUME NEW h \in Heights, h <= finalized', outer'[h] # None
                 PROVE  (\E e \in Finalizers : Ranger(h, e)') \/ (\E t \in Storers : Roller(h, t)')
      BY Zenon DEF Owned, IsFinalized
    <2>1. CASE Ranger(h, f)'
      BY Zenon, <2>1
    <2>2. CASE h <= finalized /\ outer'[h] = outer[h] /\ ~Ranger(h, f)
      <3>1. (\E e \in Finalizers : Ranger(h, e)) \/ (\E t \in Storers : Roller(h, t))
        BY Zenon, <2>2 DEF IInv, Owned, IsFinalized
      <3>2. \A e \in Finalizers \ {f} : Ranger(h, e) => Ranger(h, e)'
        BY Zenon, <1>3, <2>2 DEF Ranger
      <3>3. \A t \in Storers : Roller(h, t) => Roller(h, t)'
        BY Zenon, <1>1, <2>2 DEF Roller
      <3> QED
        BY Zenon, <2>2, <3>1, <3>2, <3>3
    <2> QED
      BY Zenon, <2>1, <2>2
  <1> QED
    BY Zenon, <1>1, <1>2, <1>3, <1>4 DEF IInv

LEMMA GetterStep ==
    ASSUME CallsApart, IInv, NEW g \in Getters, Frame(g), Shapes',
           UNCHANGED <<outer, bucket, finalized, visited>>,
           \A e \in Getters \ {g} : e \in promised' <=> e \in promised,
           GetterOK(g)', g \in promised' => Found(g)'
    PROVE  IInv'
  <1>0. Stable
    BY DEF IInv, Shapes, Stable
  <1>1. \A t \in Storers : StorerOK(t)' /\ Kept(t)' /\ UNCHANGED <<pc[t], key[t], held[t]>>
    <2> TAKE t \in Storers
    <2>1. UNCHANGED <<pc[t], key[t], held[t]>>
      BY Zenon DEF Frame, Calls, CallsApart
    <2>2. Shapes /\ StorerOK(t) /\ Kept(t)
      BY Zenon DEF IInv
    <2> QED
      BY Zenon, <1>0, <2>1, <2>2, KeptStays
  <1>2. \A e \in Getters \ {g} : GetterOK(e)' /\ (e \in promised' => Found(e)')
    <2> TAKE e \in Getters \ {g}
    <2>1. UNCHANGED <<pc[e], key[e], held[e]>> /\ GetterOK(e) /\ (e \in promised => Found(e))
      BY Zenon DEF Frame, Calls, IInv
    <2> QED
      BY Zenon, <2>1 DEF GetterOK, Found, IsFinalized, Content
  <1>3. \A f \in Finalizers : FinalizerOK(f)' /\ UNCHANGED <<pc[f], key[f], held[f]>>
    BY Zenon DEF Frame, Calls, CallsApart, IInv, FinalizerOK
  <1>4. \A h \in Heights : Owned(h)'
    BY <1>1, <1>3 DEF IInv, Owned, IsFinalized, Ranger, Roller
  <1> QED
    BY Zenon, <1>1, <1>2, <1>3, <1>4 DEF IInv

-----------------------------------------------------------------------------
LEMMA StoreIInv ==
    ASSUME CallsApart, IInv, NEW s \in Storers,
           \/ Store(s) \/ LoadBucket(s) \/ proposalFor(s) \/ Insert(s)
           \/ Recheck(s) \/ RollbackKey(s) \/ RollbackBucket(s)
    PROVE  IInv'
  <1> USE DEF InStore, Goto
  <1>0. Shapes /\ s \in Calls /\ StorerOK(s) /\ Kept(s)
    BY Zenon DEF IInv, Calls
  <1>1. CASE Store(s)
    <2>1. PICK k \in Keys : /\ key' = [key EXCEPT ![s] = k]
                            /\ pc' = [pc EXCEPT ![s] = IF k.height <= finalized THEN "done" ELSE "load"]
                            /\ pc[s] = "ready"
                            /\ UNCHANGED <<outer, bucket, finalized, held, visited, promised>>
      BY Zenon, <1>1 DEF Store, IsFinalized
    <2>2. Shapes' /\ Frame(s) /\ Stable
      <3>1. DOMAIN pc' = Calls /\ DOMAIN key' = Calls /\ DOMAIN held' = Calls
        BY Zenon, <1>0, <2>1 DEF Shapes
      <3>2. Frame(s)
        BY Zenon, <1>0, <2>1 DEF Shapes, Frame
      <3> QED
        BY <1>0, <2>1, <3>1, <3>2 DEF Shapes, Stable
    <2>3. key'[s] = k /\ pc'[s] \in {"done", "load"} /\ (pc'[s] = "done" => k.height <= finalized')
      BY Zenon, <1>0, <2>1 DEF Shapes
    <2>4. StorerOK(s)' /\ Kept(s)'
      BY Zenon, <2>3 DEF StorerOK, Kept, IsFinalized
    <2> QED
      BY Zenon, <2>1, <2>2, <2>4, StorerStep DEF Roller
  <1>2. CASE LoadBucket(s)
    <2>1. /\ pc[s] = "load" /\ held' = [held EXCEPT ![s] = outer[key[s].height]]
          /\ pc' = [pc EXCEPT ![s] = IF outer[key[s].height] # None THEN "insert" ELSE "create"]
          /\ UNCHANGED <<outer, bucket, finalized, key, visited, promised>>
      BY Zenon, <1>2 DEF LoadBucket
    <2>2. Shapes' /\ Frame(s) /\ Stable
      <3>1. DOMAIN pc' = Calls /\ DOMAIN key' = Calls /\ DOMAIN held' = Calls
        BY Zenon, <1>0, <2>1 DEF Shapes
      <3>2. Frame(s)
        BY Zenon, <1>0, <2>1 DEF Shapes, Frame
      <3> QED
        BY <1>0, <2>1, <3>1, <3>2 DEF Shapes, Stable
    <2>3. key[s] \in Keys /\ key[s].height \in Heights
      BY Zenon, <1>0, <2>1 DEF StorerOK, Keys
    <2>4. held'[s] = outer[key[s].height] /\ (pc'[s] = "insert" => held'[s] \in Storers)
          /\ pc'[s] \in {"insert", "create"}
      BY Zenon, <1>0, <2>1, <2>3 DEF Shapes
    <2>5. StorerOK(s)' /\ Kept(s)'
      BY Zenon, <2>1, <2>3, <2>4 DEF StorerOK, Kept
    <2> QED
      BY Zenon, <2>1, <2>2, <2>5, StorerStep DEF Roller
  <1>3. CASE proposalFor(s)
    <2> DEFINE h == key[s].height
               actual == IF outer[h] = None THEN s ELSE outer[h]
    <2>1. /\ pc[s] = "create" /\ pc' = [pc EXCEPT ![s] = "insert"]
          /\ outer' = [outer EXCEPT ![h] = actual] /\ held' = [held EXCEPT ![s] = actual]
          /\ UNCHANGED <<bucket, finalized, key, visited, promised>>
      BY Zenon, <1>3 DEF proposalFor
    <2>2. key[s] \in Keys /\ h \in Heights
      BY Zenon, <1>0, <2>1 DEF StorerOK, Keys
    <2>3. actual \in Storers /\ (outer[h] # None => actual = outer[h])
      BY Zenon, <1>0, <2>2 DEF Shapes
    <2> HIDE DEF actual, h
    <2>4. Shapes' /\ Frame(s)
      <3>1. DOMAIN pc' = Calls /\ DOMAIN key' = Calls /\ DOMAIN held' = Calls
        BY Zenon, <1>0, <2>1 DEF Shapes
      <3>2. Frame(s)
        BY Zenon, <1>0, <2>1 DEF Shapes, Frame
      <3>3. outer' \in [Heights -> Storers \union {None}]
        BY Zenon, <1>0, <2>1, <2>2, <2>3 DEF Shapes
      <3> QED
        BY Zenon, <1>0, <2>1, <3>1, <3>2, <3>3 DEF Shapes
    <2>5. Stable
      BY <1>0, <2>1, <2>2, <2>3 DEF Shapes, Stable
    <2>6. pc'[s] = "insert" /\ held'[s] = actual /\ outer'[h] = actual
      BY Zenon, <1>0, <2>1, <2>2 DEF Shapes
    <2>7. StorerOK(s)' /\ Kept(s)'
      BY Zenon, <2>1, <2>2, <2>3, <2>6 DEF StorerOK, Kept, h
    <2>8. \A i \in Heights : i = h => Roller(i, s)'
      BY Zenon, <2>1, <2>6 DEF Roller, h
    <2>9. \A i \in Heights : i # h => outer'[i] = outer[i] /\ ~Roller(i, s)
      BY Zenon, <1>0, <2>1 DEF Shapes, Roller
    <2>10. UNCHANGED <<finalized, visited, promised>>
      BY Zenon, <2>1
    <2>11. \A i \in Heights : outer'[i] # None =>
              Roller(i, s)' \/ (outer'[i] = outer[i] /\ (IsFinalized(i) => ~Roller(i, s)))
      BY Zenon, <2>8, <2>9
    <2> QED
      BY Zenon, <2>4, <2>5, <2>7, <2>10, <2>11, StorerStep
  <1>4. CASE Insert(s)
    <2>1. /\ pc[s] = "insert" /\ pc' = [pc EXCEPT ![s] = "recheck"]
          /\ bucket' = [bucket EXCEPT ![held[s]][key[s]] = IF @ = None THEN s ELSE @]
          /\ UNCHANGED <<outer, finalized, key, held, visited, promised>>
      BY Zenon, <1>4 DEF Insert
    <2>2. key[s] \in Keys /\ key[s].height \in Heights /\ held[s] \in Storers
      BY Zenon, <1>0, <2>1 DEF StorerOK, Keys
    <2>3. Shapes' /\ Frame(s)
      <3>1. DOMAIN pc' = Calls /\ DOMAIN key' = Calls /\ DOMAIN held' = Calls
        BY Zenon, <1>0, <2>1 DEF Shapes
      <3>2. Frame(s)
        BY Zenon, <1>0, <2>1 DEF Shapes, Frame
      <3>3. bucket' \in [Storers -> [Keys -> Storers \union {None}]]
        BY SMTT(40), <1>0, <2>1, <2>2 DEF Shapes
      <3> QED
        BY Zenon, <1>0, <2>1, <3>1, <3>2, <3>3 DEF Shapes
    <2>4. /\ \A b \in Storers, k \in Keys : bucket[b][k] # None => bucket'[b][k] # None
          /\ bucket'[held[s]][key[s]] # None
      BY Zenon, <1>0, <2>1, <2>2 DEF Shapes, CallsApart
    <2>5. Stable
      BY <1>0, <2>1, <2>4 DEF Shapes, Stable
    <2>6. StorerOK(s)' /\ Kept(s)'
      <3>1. pc'[s] = "recheck"
        BY Zenon, <1>0, <2>1 DEF Shapes
      <3>2. ~IsFinalized(key[s].height) => Content(key[s])' # None
        BY Zenon, <1>0, <2>1, <2>2, <2>4 DEF Kept, Content, CallsApart
      <3> QED
        BY Zenon, <2>1, <2>2, <3>1, <3>2 DEF StorerOK, Kept, IsFinalized
    <2>7. \A h \in Heights : Roller(h, s) => Roller(h, s)'
      BY Zenon, <1>0, <2>1 DEF Roller, Shapes
    <2> QED
      BY Zenon, <2>1, <2>3, <2>5, <2>6, <2>7, StorerStep
  <1>5. CASE Recheck(s)
    <2>1. /\ pc[s] = "recheck"
          /\ pc' = [pc EXCEPT ![s] = IF IsFinalized(key[s].height) THEN "rollback" ELSE "done"]
          /\ UNCHANGED <<outer, bucket, finalized, key, held, visited, promised>>
      BY Zenon, <1>5 DEF Recheck
    <2>2. key[s] \in Keys /\ key[s].height \in Heights /\ held[s] \in Storers
      BY Zenon, <1>0, <2>1 DEF StorerOK, Keys
    <2>3. Shapes' /\ Frame(s) /\ Stable
      <3>1. DOMAIN pc' = Calls /\ DOMAIN key' = Calls /\ DOMAIN held' = Calls
        BY Zenon, <1>0, <2>1 DEF Shapes
      <3>2. Frame(s)
        BY Zenon, <1>0, <2>1 DEF Shapes, Frame
      <3> QED
        BY SMTT(40), <1>0, <2>1, <3>1, <3>2 DEF Shapes, Stable
    <2>4. pc'[s] = IF IsFinalized(key[s].height) THEN "rollback" ELSE "done"
      BY Zenon, <1>0, <2>1 DEF Shapes
    <2>5. StorerOK(s)' /\ Kept(s)'
      BY SMTT(40), <1>0, <2>1, <2>2, <2>4 DEF StorerOK, Kept, IsFinalized, Content
    <2>6. \A h \in Heights : Roller(h, s) /\ IsFinalized(h) => Roller(h, s)'
      BY Zenon, <2>1, <2>4 DEF Roller
    <2> QED
      BY Zenon, <2>1, <2>3, <2>5, <2>6, StorerStep
  <1>6. CASE RollbackKey(s)
    <2>1. /\ pc[s] = "rollback" /\ pc' = [pc EXCEPT ![s] = "drop"]
          /\ bucket' = [bucket EXCEPT ![held[s]][key[s]] = IF @ = s THEN None ELSE @]
          /\ UNCHANGED <<outer, finalized, key, held, visited, promised>>
      BY Zenon, <1>6 DEF RollbackKey
    <2>2. key[s] \in Keys /\ key[s].height \in Heights /\ held[s] \in Storers
      BY Zenon, <1>0, <2>1 DEF StorerOK, Keys
    <2>3. Shapes' /\ Frame(s)
      <3>1. DOMAIN pc' = Calls /\ DOMAIN key' = Calls /\ DOMAIN held' = Calls
        BY Zenon, <1>0, <2>1 DEF Shapes
      <3>2. Frame(s)
        BY Zenon, <1>0, <2>1 DEF Shapes, Frame
      <3>3. bucket' \in [Storers -> [Keys -> Storers \union {None}]]
        BY SMTT(40), <1>0, <2>1, <2>2 DEF Shapes
      <3> QED
        BY Zenon, <1>0, <2>1, <3>1, <3>2, <3>3 DEF Shapes
    <2>4. \A b \in Storers, k \in Keys : k # key[s] => bucket'[b][k] = bucket[b][k]
      BY Zenon, <1>0, <2>1, <2>2 DEF Shapes
    <2>5. key[s].height <= finalized
      BY Zenon, <1>0, <2>1 DEF Kept, IsFinalized
    <2>6. Stable
      BY <1>0, <2>1, <2>2, <2>4, <2>5 DEF Shapes, Stable, Heights
    <2>7. StorerOK(s)' /\ Kept(s)'
      <3>1. pc'[s] = "drop"
        BY Zenon, <1>0, <2>1 DEF Shapes
      <3> QED
        BY Zenon, <2>1, <2>2, <2>5, <3>1 DEF StorerOK, Kept, IsFinalized
    <2>8. \A h \in Heights : Roller(h, s) => Roller(h, s)'
      BY Zenon, <1>0, <2>1 DEF Roller, Shapes
    <2> QED
      BY Zenon, <2>1, <2>3, <2>6, <2>7, <2>8, StorerStep
  <1>7. CASE RollbackBucket(s)
    <2> DEFINE h == key[s].height
    <2>1. /\ pc[s] = "drop" /\ pc' = [pc EXCEPT ![s] = "done"]
          /\ outer' = [outer EXCEPT ![h] = IF outer[h] = held[s] THEN None ELSE outer[h]]
          /\ UNCHANGED <<bucket, finalized, key, held, visited, promised>>
      BY Zenon, <1>7 DEF RollbackBucket
    <2>2. key[s] \in Keys /\ h \in Heights /\ h <= finalized
      BY Zenon, <1>0, <2>1 DEF StorerOK, Keys, Kept, IsFinalized
    <2> HIDE DEF h
    <2>3. Shapes' /\ Frame(s)
      <3>1. DOMAIN pc' = Calls /\ DOMAIN key' = Calls /\ DOMAIN held' = Calls
        BY Zenon, <1>0, <2>1 DEF Shapes
      <3>2. Frame(s)
        BY Zenon, <1>0, <2>1 DEF Shapes, Frame
      <3>3. outer' \in [Heights -> Storers \union {None}]
        BY Zenon, <1>0, <2>1, <2>2 DEF Shapes
      <3> QED
        BY Zenon, <1>0, <2>1, <3>1, <3>2, <3>3 DEF Shapes
    <2>4. \A i \in Heights : i # h => outer'[i] = outer[i]
      BY Zenon, <1>0, <2>1 DEF Shapes
    <2>5. Stable
      BY SMTT(40), <1>0, <2>1, <2>2, <2>4 DEF Shapes, Stable, Heights
    <2>6. StorerOK(s)' /\ Kept(s)'
      <3>1. pc'[s] = "done"
        BY Zenon, <1>0, <2>1 DEF Shapes
      <3> QED
        BY Zenon, <2>1, <2>2, <3>1 DEF StorerOK, Kept, IsFinalized, h
    <2>7. outer'[h] # None => outer'[h] = outer[h] /\ outer[h] # held[s]
      BY Zenon, <1>0, <2>1, <2>2 DEF Shapes
    <2>8. \A i \in Heights : outer'[i] # None => outer'[i] = outer[i] /\ ~Roller(i, s)
      BY Zenon, <2>4, <2>7 DEF Roller, h
    <2> QED
      BY Zenon, <2>1, <2>3, <2>5, <2>6, <2>8, StorerStep
  <1> QED
    BY Zenon, <1>1, <1>2, <1>3, <1>4, <1>5, <1>6, <1>7

-----------------------------------------------------------------------------
LEMMA FinalizeIInv ==
    ASSUME CallsApart, IInv, NEW f \in Finalizers,
           FinalizeHeight(f) \/ ReadFinalized(f) \/ Swap(f) \/ Visit(f) \/ RangeDone(f)
    PROVE  IInv'
  <1> USE DEF Goto
  <1>0. Shapes /\ f \in Calls /\ FinalizerOK(f) /\ Heights \subseteq Nat
    BY DEF IInv, Calls, Heights
  <1>1. CASE FinalizeHeight(f)
    <2>1. PICK h \in Heights : /\ key' = [key EXCEPT ![f] = h] /\ pc[f] = "ready"
                               /\ pc' = [pc EXCEPT ![f] = "read"]
                               /\ UNCHANGED <<outer, bucket, finalized, held, visited, promised>>
      BY Zenon, <1>1 DEF FinalizeHeight
    <2>2. DOMAIN pc' = Calls /\ DOMAIN key' = Calls /\ pc'[f] = "read" /\ key'[f] = h
      BY Zenon, <1>0, <2>1 DEF Shapes
    <2>3. Frame(f)
      BY Zenon, <1>0, <2>1 DEF Shapes, Frame
    <2>4. Shapes' /\ Stable /\ FinalizerOK(f)'
      BY <1>0, <2>1, <2>2 DEF Shapes, Stable, FinalizerOK
    <2> QED
      BY Zenon, <2>1, <2>3, <2>4, FinalizerStep DEF Ranger
  <1>2. CASE ReadFinalized(f)
    <2>1. /\ pc[f] = "read" /\ held' = [held EXCEPT ![f] = finalized]
          /\ pc' = [pc EXCEPT ![f] = IF key[f] <= finalized THEN "done" ELSE "swap"]
          /\ UNCHANGED <<outer, bucket, finalized, key, visited, promised>>
      BY Zenon, <1>2 DEF ReadFinalized
    <2>2. DOMAIN pc' = Calls /\ DOMAIN held' = Calls /\ held'[f] = finalized
          /\ pc'[f] = IF key[f] <= finalized THEN "done" ELSE "swap"
      BY Zenon, <1>0, <2>1 DEF Shapes
    <2>3. Frame(f)
      BY Zenon, <1>0, <2>1 DEF Shapes, Frame
    <2>4. Shapes' /\ Stable
      BY <1>0, <2>1, <2>2 DEF Shapes, Stable
    <2>5. FinalizerOK(f)'
      <3>1. key[f] \in Heights /\ key[f] \in Nat /\ finalized \in Nat /\ visited[f] = {}
        BY Zenon, <1>0, <2>1 DEF Shapes, FinalizerOK
      <3>2. ~(key[f] <= finalized) => finalized < key[f]
        BY <3>1
      <3>3. key'[f] = key[f] /\ visited'[f] = visited[f]
        BY Zenon, <2>1
      <3> QED
        BY <2>2, <3>1, <3>2, <3>3, Zenon DEF FinalizerOK
    <2> QED
      BY Zenon, <2>1, <2>3, <2>4, <2>5, FinalizerStep DEF Ranger
  <1>3. CASE Swap(f)
    <2>1. pc[f] = "swap" /\ UNCHANGED <<outer, bucket, key, visited, promised>>
      BY Zenon, <1>3 DEF Swap
    <2>2. key[f] \in Heights /\ held[f] \in Nat /\ held[f] < key[f] /\ visited[f] = {}
      BY Zenon, <1>0, <2>1 DEF FinalizerOK
    <2>3. CASE finalized = held[f]
      <3>1. finalized' = key[f] /\ pc' = [pc EXCEPT ![f] = "range"] /\ held' = [held EXCEPT ![f] = outer]
        BY Zenon, <1>3, <2>3 DEF Swap
      <3>2. DOMAIN pc' = Calls /\ DOMAIN held' = Calls /\ held'[f] = outer /\ pc'[f] = "range"
        BY Zenon, <1>0, <3>1 DEF Shapes
      <3>3. Frame(f)
        BY Zenon, <1>0, <2>1, <3>1 DEF Shapes, Frame
      <3>4. key[f] \in Nat /\ finalized <= key[f] /\ key[f] <= key[f]
        <4>1. key[f] \in Nat /\ held[f] \in Nat /\ held[f] < key[f]
          BY Zenon, <1>0, <2>2
        <4>2. held[f] <= key[f] /\ key[f] <= key[f]
          BY <4>1
        <4> QED
          BY Zenon, <2>3, <4>1, <4>2
      <3>5. FinalizerOK(f)'
        <4>1. key'[f] = key[f] /\ visited'[f] = visited[f]
          BY Zenon, <2>1
        <4> QED
          BY <2>2, <3>1, <3>2, <3>4, <4>1, Zenon DEF FinalizerOK
      <3>7. Shapes'
        BY <1>0, <2>1, <3>1, <3>2, <3>4, Zenon DEF Shapes
      <3>8. Stable
        BY <2>1, <3>1, <3>4, Zenon DEF Stable
      <3>6. \A h \in Heights : h <= finalized' => Ranger(h, f)'
        BY Zenon, <2>1, <2>2, <3>1, <3>2 DEF Ranger
      <3> QED
        BY Zenon, <2>1, <3>3, <3>5, <3>6, <3>7, <3>8, FinalizerStep
    <2>4. CASE finalized # held[f]
      <3>1. pc' = [pc EXCEPT ![f] = "read"] /\ UNCHANGED <<finalized, held>>
        BY Zenon, <1>3, <2>4 DEF Swap
      <3>2. DOMAIN pc' = Calls /\ pc'[f] = "read"
        BY Zenon, <1>0, <3>1 DEF Shapes
      <3>3. Frame(f)
        BY Zenon, <1>0, <2>1, <3>1 DEF Shapes, Frame
      <3>4. Shapes' /\ Stable /\ FinalizerOK(f)'
        BY SMTT(40), <1>0, <2>1, <2>2, <3>1, <3>2 DEF Shapes, Stable, FinalizerOK
      <3> QED
        BY Zenon, <2>1, <3>1, <3>3, <3>4, FinalizerStep DEF Ranger
    <2> QED
      BY Zenon, <2>3, <2>4
  <1>4. CASE Visit(f)
    <2>1. PICK h \in Heights \ visited[f] :
             /\ visited' = [visited EXCEPT ![f] = visited[f] \union {h}]
             /\ outer' = [outer EXCEPT ![h] = IF h <= key[f] THEN None ELSE outer[h]]
             /\ pc[f] = "range" /\ UNCHANGED <<bucket, finalized, pc, key, held, promised>>
      BY Zenon, <1>4 DEF Visit
    <2>2. key[f] \in Heights /\ key[f] <= finalized /\ finalized \in Nat
      BY Zenon, <1>0, <2>1 DEF FinalizerOK, Shapes
    <2>3. /\ visited' \in [Finalizers -> SUBSET Heights] /\ visited'[f] = visited[f] \union {h}
          /\ \A e \in Finalizers \ {f} : visited'[e] = visited[e]
      BY Zenon, <1>0, <2>1 DEF Shapes
    <2>4. /\ outer' \in [Heights -> Storers \union {None}]
          /\ outer'[h] = IF h <= key[f] THEN None ELSE outer[h]
          /\ \A i \in Heights \ {h} : outer'[i] = outer[i]
      BY Zenon, <1>0, <2>1 DEF Shapes
    <2>5. Shapes' /\ Frame(f) /\ FinalizerOK(f)'
      BY Zenon, <1>0, <2>1, <2>3, <2>4 DEF Shapes, Frame, FinalizerOK
    <2>6. Stable
      <3>1. finalized <= finalized'
        BY <2>1, <2>2
      <3>2. \A i \in Heights : i > finalized' /\ outer[i] # None => outer'[i] = outer[i]
        <4> SUFFICES ASSUME NEW i \in Heights, i > finalized' PROVE outer'[i] = outer[i]
          BY Zenon
        <4>1. i \in Nat /\ key[f] \in Nat /\ key[f] <= finalized /\ finalized \in Nat /\ i > finalized
          BY Zenon, <1>0, <2>1, <2>2
        <4>2. ~(i <= key[f])
          BY <4>1
        <4> QED
          BY Zenon, <2>4, <4>2
      <3> QED
        BY <2>1, <3>1, <3>2, Zenon DEF Stable
    <2>7. ASSUME NEW i \in Heights, i <= finalized', outer'[i] # None
          PROVE  Ranger(i, f)' \/ (i <= finalized /\ outer'[i] = outer[i] /\ ~Ranger(i, f))
      <3>1. CASE i = h
        BY Zenon, <2>1, <2>4, <2>7, <3>1 DEF Ranger
      <3>2. CASE i # h
        BY Zenon, <2>1, <2>3, <2>4, <2>7, <3>2 DEF Ranger
      <3> QED
        BY Zenon, <3>1, <3>2
    <2> QED
      BY Zenon, <2>1, <2>3, <2>5, <2>6, <2>7, FinalizerStep
  <1>5. CASE RangeDone(f)
    <2>1. /\ pc[f] = "range" /\ pc' = [pc EXCEPT ![f] = "done"]
          /\ \A h \in Heights \ visited[f] : outer[h] = None \/ outer[h] # held[f][h]
          /\ UNCHANGED <<outer, bucket, finalized, key, held, visited, promised>>
      BY Zenon, <1>5 DEF RangeDone
    <2>2. DOMAIN pc' = Calls /\ pc'[f] = "done"
      BY Zenon, <1>0, <2>1 DEF Shapes
    <2>3. Frame(f)
      BY Zenon, <1>0, <2>1 DEF Shapes, Frame
    <2>4. Shapes' /\ Stable /\ FinalizerOK(f)'
      BY <1>0, <2>1, <2>2 DEF Shapes, Stable, FinalizerOK
    <2> QED
      BY Zenon, <2>1, <2>3, <2>4, FinalizerStep DEF Ranger
  <1> QED
    BY Zenon, <1>1, <1>2, <1>3, <1>4, <1>5

LEMMA GetIInv ==
    ASSUME CallsApart, IInv, NEW g \in Getters, Get(g) \/ Lookup(g) \/ CheckFinalized(g)
    PROVE  IInv'
  <1> USE DEF Goto
  <1>0. Shapes /\ g \in Calls /\ GetterOK(g) /\ (g \in promised => Found(g))
    BY Zenon DEF IInv, Calls
  <1>1. CASE Get(g)
    <2>1. PICK k \in Keys : /\ key' = [key EXCEPT ![g] = k] /\ pc[g] = "ready"
                            /\ promised' = IF Content(k) # None /\ ~IsFinalized(k.height)
                                           THEN promised \union {g} ELSE promised
                            /\ pc' = [pc EXCEPT ![g] = "load"]
                            /\ UNCHANGED <<outer, bucket, finalized, held, visited>>
      BY Zenon, <1>1 DEF Get
    <2>2. DOMAIN pc' = Calls /\ DOMAIN key' = Calls /\ pc'[g] = "load" /\ key'[g] = k
      BY Zenon, <1>0, <2>1 DEF Shapes
    <2>3. Frame(g)
      BY Zenon, <1>0, <2>1 DEF Shapes, Frame
    <2>4. Shapes' /\ GetterOK(g)'
      BY Zenon, <1>0, <2>1, <2>2 DEF Shapes, GetterOK
    <2>5. g \in promised' => Found(g)'
      BY Zenon, <1>0, <2>1, <2>2 DEF GetterOK, Found, Content, IsFinalized
    <2> QED
      BY Zenon, <2>1, <2>3, <2>4, <2>5, GetterStep
  <1>2. CASE Lookup(g)
    <2>1. /\ pc[g] = "load" /\ held' = [held EXCEPT ![g] = Content(key[g])]
          /\ pc' = [pc EXCEPT ![g] = IF Content(key[g]) # None THEN "check" ELSE "done"]
          /\ UNCHANGED <<outer, bucket, finalized, key, visited, promised>>
      BY Zenon, <1>2 DEF Lookup
    <2>2. DOMAIN pc' = Calls /\ DOMAIN held' = Calls /\ held'[g] = Content(key[g])
          /\ pc'[g] = IF Content(key[g]) # None THEN "check" ELSE "done"
      BY Zenon, <1>0, <2>1 DEF Shapes
    <2>3. Frame(g)
      BY Zenon, <1>0, <2>1 DEF Shapes, Frame
    <2>4. Shapes' /\ GetterOK(g)'
      BY Zenon, <1>0, <2>1, <2>2 DEF Shapes, GetterOK
    <2>5. g \in promised' => Found(g)'
      BY Zenon, <1>0, <2>1, <2>2 DEF Found, IsFinalized
    <2> QED
      BY Zenon, <2>1, <2>3, <2>4, <2>5, GetterStep
  <1>3. CASE CheckFinalized(g)
    <2>1. /\ pc[g] = "check" /\ pc' = [pc EXCEPT ![g] = "done"]
          /\ held' = [held EXCEPT ![g] = IF IsFinalized(key[g].height) THEN None ELSE held[g]]
          /\ UNCHANGED <<outer, bucket, finalized, key, visited, promised>>
      BY Zenon, <1>3 DEF CheckFinalized
    <2>2. DOMAIN pc' = Calls /\ DOMAIN held' = Calls /\ pc'[g] = "done"
          /\ held'[g] = IF IsFinalized(key[g].height) THEN None ELSE held[g]
      BY Zenon, <1>0, <2>1 DEF Shapes
    <2>3. Frame(g)
      BY Zenon, <1>0, <2>1 DEF Shapes, Frame
    <2>4. Shapes' /\ GetterOK(g)'
      BY Zenon, <1>0, <2>1, <2>2 DEF Shapes, GetterOK
    <2>5. g \in promised' => Found(g)'
      BY Zenon, <1>0, <2>1, <2>2 DEF Found, IsFinalized
    <2> QED
      BY Zenon, <2>1, <2>3, <2>4, <2>5, GetterStep
  <1> QED
    BY Zenon, <1>1, <1>2, <1>3

LEMMA NextIInv ==
    ASSUME CallsApart, IInv, [Next]_vars
    PROVE  IInv'
  <1>1. CASE UNCHANGED vars
    BY Zenon, <1>1 DEF vars, IInv, Shapes, StorerOK, Kept, GetterOK, Found, FinalizerOK, Owned, Ranger,
                Roller, IsFinalized, Content
  <1>2. CASE Next
    BY Zenon, <1>2, StoreIInv, FinalizeIInv, GetIInv DEF Next
  <1> QED
    BY Zenon, <1>1, <1>2

\* When no call is in progress nobody owns a bucket of a finalized height.
LEMMA IInvPromises ==
    ASSUME CallsApart, IInv
    PROVE  ProposalsKept
  <1>0. Shapes
    BY Zenon DEF IInv
  <1>1. NothingLeft
    <2> SUFFICES ASSUME \A c \in Storers \union Finalizers : Resting(c),
                        NEW h \in Heights, IsFinalized(h)
                 PROVE  outer[h] = None
      BY Zenon DEF NothingLeft
    <2>1. Owned(h)
      BY Zenon DEF IInv
    <2> QED
      BY Zenon, <2>1 DEF Owned, Ranger, Roller, InStore, Resting
  <1>2. StoredIsKept
    BY Zenon DEF IInv, Kept, StoredIsKept
  <1>3. GetFinds
    <2> SUFFICES ASSUME NEW g \in promised, pc[g] = "done", key[g].height > finalized
                 PROVE  held[g] # None
      BY Zenon DEF GetFinds
    <2>1. g \in Getters /\ Found(g) /\ key[g] \in Keys /\ key[g].height \in Nat
      BY <1>0 DEF IInv, Shapes, GetterOK, Keys, Heights
    <2> QED
      BY <1>0, <2>1 DEF Found, IsFinalized, Shapes
  <1> QED
    BY Zenon, <1>1, <1>2, <1>3 DEF ProposalsKept

\* Whatever calls of Store, Get and FinalizeHeight overlap: what is stored stays
\* until its height is finalized, a Get that began after the Store finds it, and
\* nothing is left at a finalized height once the calls have returned.
THEOREM StoreKeepsProposals ==
    ASSUME CallsApart
    PROVE  Spec => []ProposalsKept
  <1>1. Init => IInv
    BY DEF Init, IInv, Shapes, StorerOK, Kept, GetterOK, FinalizerOK, Owned, InStore, Calls
  <1>2. IInv /\ [Next]_vars => IInv'
    BY Zenon, NextIInv
  <1>3. IInv => ProposalsKept
    BY Zenon, IInvPromises
  <1> QED
    BY <1>1, <1>2, <1>3, PTL DEF Spec
=============================================================================
