-------------------------- MODULE WALStoreProofs --------------------------
(***************************************************************************)
(* Three results about the write-ahead log, for every number of heights,   *)
(* entries, crashes and I/O errors: a store always opens again; it keeps   *)
(* the promise of DurableLog; and a cleanup without an error is complete.  *)
(***************************************************************************)
EXTENDS WALStore, WellFoundedInduction, FiniteSetTheorems, TLAPS

\* The steps of a store that is open.
Running == {"up", "closing", "writing", "watermark", "rotate", "remove"}

\* What AlwaysOpens rests on: numbers grow, also past files whose removal may be
\* undone, so the only file with bytes past its synced offset is the latest one.
TailsOnlyAtEnd ==
    /\ DOMAIN files \subseteq Nat \ {0} /\ DOMAIN unlinked \subseteq Nat \ {0}
    /\ dirty.file \in Nat /\ currentWALNum \in Nat /\ nextWALNum \in Nat \ {0}
    /\ queue \subseteq Nat \ {0} /\ toDelete \subseteq Nat \ {0}
    /\ mode \in Running \union {"down"} /\ caller \in {"up", "closing"}
    /\ mode \in Running =>
          /\ torn = {}
          /\ \A k \in DOMAIN files \union DOMAIN unlinked \union toDelete : k < nextWALNum
          /\ currentWALNum # 0 => currentWALNum + 1 = nextWALNum
          /\ dirty.file # 0 => dirty.file + 1 = nextWALNum
    /\ mode = "down" =>
          /\ currentWALNum = 0 /\ dirty.file = 0 /\ DOMAIN unlinked = {} /\ toDelete = {}
          /\ Latest(files) \in DOMAIN files \union {0} /\ \A k \in DOMAIN files : k <= Latest(files)
          /\ \A k \in torn : k \in DOMAIN files /\ \A j \in DOMAIN files : j <= k

-----------------------------------------------------------------------------
\* Latest: a set of numbers with a bound has a greatest element.
LEMMA LatestIsGreatest ==
    ASSUME NEW fs, DOMAIN fs \subseteq Nat, NEW n \in Nat, \A k \in DOMAIN fs : k <= n
    PROVE  Latest(fs) \in DOMAIN fs \union {0} /\ \A j \in DOMAIN fs : j <= Latest(fs)
  <1> DEFINE T == {m \in Nat : \E k \in DOMAIN fs \union {0} : m = n - k}
             R == {ss \in Nat \X Nat : ss[1] < ss[2]}
  <1>1. n \in T
    OBVIOUS
  <1>2. T \subseteq Nat /\ T # {}
    BY Zenon, <1>1
  <1>3. PICK m \in T : \A y \in T : ~(<<y, m>> \in R)
    <2>1. IsWellFoundedOn(R, Nat)
      BY Zenon, NatLessThanWellFounded DEF OpToRel
    <2> HIDE DEF R, T
    <2> QED
      BY Zenon, <1>2, <2>1, WFMin
  <1>4. \A y \in T : ~(y < m)
    <2> HIDE DEF T
    <2> QED
      BY Zenon, <1>2, <1>3
  <1>5. PICK k \in DOMAIN fs \union {0} : m = n - k
    BY Zenon
  <1>6. \A j \in DOMAIN fs : j <= k
    <2> TAKE j \in DOMAIN fs
    <2>1. n - j \in T
      OBVIOUS
    <2> QED
      BY <1>4, <1>5, <2>1
  <1> QED
    BY Zenon, <1>5, <1>6 DEF Latest

-----------------------------------------------------------------------------
\* Stopping: what Settle leaves is torn at most at the end.
LEMMA SettleTails ==
    ASSUME TailsOnlyAtEnd, mode \in Running, Settle, Forget
    PROVE  TailsOnlyAtEnd'
  <1> USE DEF Running
  <1>1. PICK back \in SUBSET DOMAIN unlinked :
           /\ DOMAIN files' = DOMAIN files \union back
           /\ torn' \subseteq {dirty.file} \intersect DOMAIN files'
           /\ dirty' = Clean /\ unlinked' = <<>>
    BY Zenon DEF Settle, TailsOnlyAtEnd
  <1>2. /\ mode' = "down" /\ caller' = "up" /\ nextWALNum' = 1 /\ currentWALNum' = 0
        /\ queue' = {} /\ toDelete' = {}
    BY Zenon DEF Forget
  <1>3. DOMAIN unlinked' = {} /\ dirty'.file = 0
    BY <1>1 DEF Clean
  <1>4. \A k \in DOMAIN files' : k \in Nat \ {0} /\ k < nextWALNum
    BY Zenon, <1>1 DEF TailsOnlyAtEnd
  <1>5. \A k \in torn' : k \in DOMAIN files' /\ \A j \in DOMAIN files' : j <= k
    BY <1>1, <1>4 DEF TailsOnlyAtEnd
  <1>6. Latest(files') \in DOMAIN files' \union {0} /\ \A k \in DOMAIN files' : k <= Latest(files')
    <2>1. nextWALNum \in Nat /\ DOMAIN files' \subseteq Nat /\ \A k \in DOMAIN files' : k <= nextWALNum
      BY <1>4 DEF TailsOnlyAtEnd
    <2> QED
      BY Zenon, <2>1, LatestIsGreatest
  <1> QED
    BY <1>2, <1>3, <1>4, <1>5, <1>6 DEF TailsOnlyAtEnd

\* Starting: the latest file is repaired, so nothing is torn, and the next number
\* is above every file's.
LEMMA OpenTails ==
    ASSUME TailsOnlyAtEnd, NewTendermintWALStore
    PROVE  TailsOnlyAtEnd'
  <1> USE DEF Running
  <1>1. /\ mode = "down" /\ torn' = torn \ {Latest(files)} /\ nextWALNum' = Latest(files) + 1
        /\ mode' = IF torn' = {} THEN "up" ELSE "failed"
        /\ queue' = DOMAIN files
        /\ UNCHANGED <<files, dirty, unlinked, caller, currentWALNum, toDelete>>
    BY Zenon DEF NewTendermintWALStore, cleanup
  <1>3. Latest(files) \in DOMAIN files \union {0} /\ \A j \in DOMAIN files : j <= Latest(files)
    BY Zenon, <1>1 DEF TailsOnlyAtEnd
  <1>4. torn' = {}
    BY <1>1, <1>3 DEF TailsOnlyAtEnd
  <1>5. nextWALNum' \in Nat \ {0} /\ \A k \in DOMAIN files : k < nextWALNum'
    BY <1>1, <1>3 DEF TailsOnlyAtEnd
  <1> QED
    BY Zenon, <1>1, <1>4, <1>5 DEF TailsOnlyAtEnd

\* Every step keeps tails at the end: the case distinction over the calls of the store.
LEMMA StepTails ==
    ASSUME TailsOnlyAtEnd, [Next]_vars
    PROVE  TailsOnlyAtEnd'
  <1> USE DEF Running, disk, writer, cleanup
  <1>1. ASSUME NEW h \in Heights, SetWALEntry(h) \/ DeleteWALEntries(h) PROVE TailsOnlyAtEnd'
    BY Zenon, <1>1 DEF TailsOnlyAtEnd, SetWALEntry, DeleteWALEntries
  <1>2. ASSUME NEW to \in {"up", "closing"}, Flush(to) PROVE TailsOnlyAtEnd'
    <2>1. mode = "up" /\ mode' = "writing" /\ caller' = to /\ torn' = torn
          /\ dirty'.file = currentWALNum'
      BY Zenon, <1>2 DEF Flush
    <2>2. CASE currentWALNum # 0
      BY Zenon, <1>2, <2>1, <2>2 DEF Flush, TailsOnlyAtEnd
    <2>3. CASE currentWALNum = 0
      <3>1. /\ DOMAIN files' = DOMAIN files \union {nextWALNum} /\ unlinked' = <<>>
            /\ currentWALNum' = nextWALNum /\ nextWALNum' = nextWALNum + 1
            /\ queue' = queue \union {nextWALNum} /\ toDelete' = toDelete
        BY Zenon, <1>2, <2>3 DEF Flush
      <3>2. DOMAIN unlinked' = {}
        BY <3>1
      <3>3. \A k \in DOMAIN files' \union toDelete' : k \in Nat \ {0} /\ k < nextWALNum'
        <4>1. /\ nextWALNum \in Nat \ {0}
              /\ \A k \in DOMAIN files \union toDelete : k \in Nat \ {0} /\ k < nextWALNum
          BY Zenon, <2>1 DEF TailsOnlyAtEnd
        <4> QED
          BY <3>1, <4>1
      <3>4. queue' \subseteq Nat \ {0} /\ torn' = {}
        BY Zenon, <2>1, <3>1 DEF TailsOnlyAtEnd
      <3> QED
        BY <2>1, <3>1, <3>2, <3>3, <3>4 DEF TailsOnlyAtEnd
    <2> QED
      BY Zenon, <2>2, <2>3
  <1>3. ASSUME Synced PROVE TailsOnlyAtEnd'
    <2>1. DOMAIN files' = DOMAIN files /\ dirty'.file = 0 /\ mode = "writing"
          /\ mode' \in {"watermark", caller}
          /\ UNCHANGED <<torn, unlinked, caller, nextWALNum, currentWALNum, queue, toDelete>>
      BY Zenon, <1>3 DEF Synced, Clean
    <2> QED
      BY <2>1 DEF TailsOnlyAtEnd
  <1>4. ASSUME abortUncommitted PROVE TailsOnlyAtEnd'
    <2>1. dirty'.file \in {0, dirty.file}
      BY <1>4 DEF abortUncommitted, Clean
    <2> QED
      BY <1>4, <2>1 DEF abortUncommitted, TailsOnlyAtEnd
  <1>5. ASSUME writePruneWatermark PROVE TailsOnlyAtEnd'
    BY Zenon, <1>5 DEF writePruneWatermark, TailsOnlyAtEnd
  <1>6. ASSUME Rotate PROVE TailsOnlyAtEnd'
    <2>1. dirty'.file \in {dirty.file, currentWALNum} /\ queue' \subseteq queue
          /\ toDelete' \subseteq queue /\ \A k \in toDelete' : k < nextWALNum
      BY <1>6 DEF Rotate
    <2> QED
      BY Zenon, <1>6, <2>1 DEF Rotate, TailsOnlyAtEnd
  <1>7. ASSUME RemoveObsolete PROVE TailsOnlyAtEnd'
    <2>1. /\ mode = "remove" /\ mode' \in {"remove", caller}
          /\ DOMAIN files' \subseteq DOMAIN files
          /\ DOMAIN unlinked' \subseteq DOMAIN unlinked \union toDelete
          /\ toDelete' \subseteq toDelete
          /\ UNCHANGED <<dirty, torn, caller, nextWALNum, currentWALNum, queue>>
      BY Zenon, <1>7 DEF RemoveObsolete
    <2> QED
      BY Zenon, <2>1 DEF TailsOnlyAtEnd
  <1>8. ASSUME Removed PROVE TailsOnlyAtEnd'
    BY Zenon, <1>8 DEF Removed, TailsOnlyAtEnd
  <1>9. ASSUME Crash \/ Close PROVE TailsOnlyAtEnd'
    <2>1. mode \in Running /\ Settle /\ Forget
      BY Zenon, <1>9 DEF Crash, Close, TailsOnlyAtEnd
    <2> QED
      BY Zenon, <2>1, SettleTails
  <1>10. ASSUME NewTendermintWALStore PROVE TailsOnlyAtEnd'
    BY Zenon, <1>10, OpenTails
  <1>11. ASSUME UNCHANGED vars PROVE TailsOnlyAtEnd'
    BY Zenon, <1>11 DEF vars, TailsOnlyAtEnd
  <1> QED
    BY Zenon, <1>1, <1>2, <1>3, <1>4, <1>5, <1>6, <1>7, <1>8, <1>9, <1>10, <1>11 DEF Next

\* A store opens again after any sequence of crashes and I/O errors: the scan of
\* loadLogicalLog meets no invalid record in a file that is not the latest.
THEOREM OpensAgain == Spec => []AlwaysOpens
  <1>1. Init => TailsOnlyAtEnd
    BY DEF Init, TailsOnlyAtEnd, Running, Clean
  <1>2. TailsOnlyAtEnd => AlwaysOpens
    BY Zenon DEF TailsOnlyAtEnd, AlwaysOpens, Running
  <1> QED
    BY <1>1, <1>2, StepTails, PTL DEF Spec

-----------------------------------------------------------------------------
\* Induction, and what a replay and Kept compute.
\* Induction over the natural numbers, stated of a set: the argument of every lemma
\* below about a replay of records or of files.
LEMMA Induction ==
    ASSUME NEW S, 0 \in S, \A n \in Nat : n \in S => n + 1 \in S
    PROVE  \A n \in Nat : n \in S
  <1> DEFINE T == Nat \ S
             R == {ss \in Nat \X Nat : ss[1] < ss[2]}
  <1> SUFFICES ASSUME T # {} PROVE FALSE
    OBVIOUS
  <1>1. PICK m \in T : \A y \in T : ~(<<y, m>> \in R)
    <2>1. IsWellFoundedOn(R, Nat)
      BY Zenon, NatLessThanWellFounded DEF OpToRel
    <2> HIDE DEF R
    <2> QED
      BY Zenon, <2>1, WFMin
  <1>2. m \in Nat /\ m # 0 /\ m - 1 \in Nat /\ (m - 1) + 1 = m
    OBVIOUS
  <1>3. m - 1 \in T
    BY <1>2
  <1>4. <<m - 1, m>> \in R
    BY <1>2
  <1> QED
    BY Zenon, <1>1, <1>3, <1>4

\* f holds the index after each of the first n records of a batch.
Replays(f, n, ix, num, recs) ==
    f = [i \in 0 .. n |-> IF i = 0 THEN ix ELSE ApplyRecord(f[i - 1], num, recs[i])]

\* A replay exists for every length.
LEMMA ReplayExists ==
    ASSUME NEW ix, NEW num, NEW recs
    PROVE  \A n \in Nat : \E f : Replays(f, n, ix, num, recs)
  <1> DEFINE S == {n \in Nat : \E f : Replays(f, n, ix, num, recs)}
  <1>1. 0 \in S
    <2>1. Replays([i \in 0 .. 0 |-> ix], 0, ix, num, recs)
      BY DEF Replays
    <2> QED
      BY <2>1
  <1>2. ASSUME NEW n \in Nat, n \in S PROVE n + 1 \in S
    <2>1. PICK f : Replays(f, n, ix, num, recs)
      BY <1>2
    <2> DEFINE g == [i \in 0 .. n + 1 |->
                       IF i = n + 1 THEN ApplyRecord(f[n], num, recs[n + 1]) ELSE f[i]]
    <2>2. Replays(g, n + 1, ix, num, recs)
      BY <2>1 DEF Replays
    <2> QED
      BY <2>2
  <1> HIDE DEF S
  <1>3. \A n \in Nat : n \in S
    BY Zenon, <1>1, <1>2, Induction
  <1> QED
    BY <1>3 DEF S

\* ApplyRecords (updateIndexesFromCommittedRecords) ends such a replay.
LEMMA ReplayIs ==
    ASSUME NEW ix, NEW num, NEW recs, Len(recs) \in Nat
    PROVE  \E f : Replays(f, Len(recs), ix, num, recs) /\ ApplyRecords(ix, num, recs) = f[Len(recs)]
  <1> DEFINE D(f) == f = [i \in 0 .. Len(recs) |->
                            IF i = 0 THEN ix ELSE Once(f[i - 1], LAMBDA prev : ApplyRecord(prev, num, recs[i]))]
  <1>1. \A f : D(f) <=> Replays(f, Len(recs), ix, num, recs)
    BY Zenon DEF Once, Replays
  <1>2. \E f : D(f)
    BY Zenon, <1>1, ReplayExists
  <1>3. D(CHOOSE f : D(f))
    BY Zenon, <1>2
  <1>4. ApplyRecords(ix, num, recs) = (CHOOSE f : D(f))[Len(recs)]
    BY Zenon DEF ApplyRecords
  <1> QED
    BY Zenon, <1>1, <1>3, <1>4

\* One record more.
Grown(s, rec, K) == IF rec \in K THEN Append(s, rec) ELSE s
Keeps(g, n, recs, K) == g = [i \in 0 .. n |-> IF i = 0 THEN <<>> ELSE Grown(g[i - 1], recs[i], K)]

\* Kept, record by record: the start, one more record, and that the function exists.
LEMMA KeepBase ==
    ASSUME NEW recs, NEW K, NEW n \in Nat, NEW g, Keeps(g, n, recs, K)
    PROVE  g[0] = <<>>
  BY DEF Keeps

\* One more record is kept or passed over.
LEMMA KeepStep ==
    ASSUME NEW recs, NEW K, NEW n \in Nat, NEW g, Keeps(g, n, recs, K), NEW i \in Nat, i + 1 <= n
    PROVE  g[i + 1] = Grown(g[i], recs[i + 1], K)
  BY DEF Keeps

\* The same, as a predicate.
GrowsAt(g, i, recs, K) == g[i + 1] = Grown(g[i], recs[i + 1], K)

\* One more record, for a function of which only some values are wanted.
LEMMA KeepGrows ==
    ASSUME NEW recs, NEW K, NEW n \in Nat, NEW g, Keeps(g, n, recs, K), NEW i \in Nat, i + 1 <= n
    PROVE  GrowsAt(g, i, recs, K)
  BY KeepStep DEF GrowsAt

\* The records kept so far, for every length.
LEMMA KeepExists ==
    ASSUME NEW recs, NEW K
    PROVE  \A n \in Nat : \E g : Keeps(g, n, recs, K)
  <1> DEFINE S == {n \in Nat : \E g : Keeps(g, n, recs, K)}
  <1>1. 0 \in S
    <2>1. Keeps([i \in 0 .. 0 |-> <<>>], 0, recs, K)
      BY DEF Keeps
    <2> QED
      BY <2>1
  <1>2. ASSUME NEW n \in Nat, n \in S PROVE n + 1 \in S
    <2>1. PICK f : Keeps(f, n, recs, K)
      BY <1>2
    <2> DEFINE g == [i \in 0 .. n + 1 |->
                       IF i = n + 1 THEN Grown(f[n], recs[n + 1], K) ELSE f[i]]
    <2>2. Keeps(g, n + 1, recs, K)
      BY <2>1 DEF Keeps
    <2> QED
      BY <2>2
  <1> HIDE DEF S
  <1>3. \A n \in Nat : n \in S
    BY Zenon, <1>1, <1>2, Induction
  <1> QED
    BY <1>3 DEF S

\* Kept ends such a function.
LEMMA KeptIs ==
    ASSUME NEW recs, NEW K, Len(recs) \in Nat
    PROVE  \E g : Keeps(g, Len(recs), recs, K) /\ Kept(recs, K) = g[Len(recs)]
  <1> DEFINE D(g) == Keeps(g, Len(recs), recs, K)
  <1>1. D(CHOOSE g : D(g))
    BY Zenon, KeepExists
  <1>2. Kept(recs, K) = (CHOOSE g : D(g))[Len(recs)]
    BY Zenon DEF Kept, Keeps, Grown
  <1> QED
    BY Zenon, <1>1, <1>2

\* What is kept of records is records.
LEMMA KeptType ==
    ASSUME NEW T, NEW recs \in Seq(T), NEW K, NEW g, Keeps(g, Len(recs), recs, K)
    PROVE  \A i \in 0 .. Len(recs) : g[i] \in Seq(T)
  <1> DEFINE S == {i \in Nat : i <= Len(recs) => g[i] \in Seq(T)}
  <1>1. 0 \in S
    <2>1. Len(recs) \in Nat
      OBVIOUS
    <2>2. g[0] = <<>>
      BY Zenon, <2>1, KeepBase
    <2>3. g[0] \in Seq(T)
      BY <2>2
    <2> QED
      BY <2>3
  <1>2. ASSUME NEW n \in Nat, n \in S PROVE n + 1 \in S
    <2> SUFFICES ASSUME n + 1 <= Len(recs) PROVE g[n + 1] \in Seq(T)
      OBVIOUS
    <2>1. g[n + 1] = Grown(g[n], recs[n + 1], K)
      BY KeepStep
    <2>2. g[n] \in Seq(T) /\ recs[n + 1] \in T
      BY <1>2
    <2> QED
      BY <2>1, <2>2 DEF Grown
  <1> HIDE DEF S
  <1>3. \A n \in Nat : n \in S
    BY Zenon, <1>1, <1>2, Induction
  <1> QED
    BY <1>3 DEF S

\* Kept returns a sequence of what it was given.
LEMMA KeptSeq ==
    ASSUME NEW T, NEW recs \in Seq(T), NEW K
    PROVE  Kept(recs, K) \in Seq(T)
  <1>1. PICK g : Keeps(g, Len(recs), recs, K) /\ Kept(recs, K) = g[Len(recs)]
    BY KeptIs
  <1>2. Len(recs) \in 0 .. Len(recs)
    OBVIOUS
  <1> QED
    BY Zenon, <1>1, <1>2, KeptType

\* Of no records none is kept.
LEMMA KeptNone ==
    ASSUME NEW K
    PROVE  Kept(<<>>, K) = <<>>
  <1>1. Len(<<>>) = 0
    OBVIOUS
  <1>2. PICK g : Keeps(g, 0, <<>>, K) /\ Kept(<<>>, K) = g[0]
    BY <1>1, KeptIs
  <1> QED
    BY <1>2 DEF Keeps

\* K does not tell the first n records of a and b apart.
Alike(a, b, n, K) == \A i \in 1 .. n : a[i] = b[i] \/ (a[i] \notin K /\ b[i] \notin K)

\* Sequences that differ only in what is not kept agree on what is.
LEMMA KeptSame ==
    ASSUME NEW a, NEW b, NEW n \in Nat, NEW la \in Nat, NEW lb \in Nat, n <= la, n <= lb, NEW K,
           Alike(a, b, n, K), NEW f, Keeps(f, la, a, K), NEW g, Keeps(g, lb, b, K)
    PROVE  f[n] = g[n]
  <1> DEFINE S == {i \in Nat : i <= n => f[i] = g[i]}
  <1>1. 0 \in S
    <2>1. f[0] = <<>> /\ g[0] = <<>>
      BY Zenon, KeepBase
    <2> QED
      BY <2>1
  <1>2. ASSUME NEW m \in Nat, m \in S PROVE m + 1 \in S
    <2> SUFFICES ASSUME m + 1 <= n PROVE f[m + 1] = g[m + 1]
      OBVIOUS
    <2>1. f[m + 1] = Grown(f[m], a[m + 1], K) /\ g[m + 1] = Grown(g[m], b[m + 1], K)
      BY KeepStep
    <2>2. f[m] = g[m] /\ m + 1 \in 1 .. n
      BY <1>2
    <2> QED
      BY <2>1, <2>2 DEF Grown, Alike
  <1> HIDE DEF S
  <1>3. \A m \in Nat : m \in S
    BY Zenon, <1>1, <1>2, Induction
  <1> QED
    BY <1>3 DEF S

\* The same of Kept.
LEMMA KeptAlike ==
    ASSUME NEW T, NEW a \in Seq(T), NEW b \in Seq(T), Len(a) = Len(b), NEW K, Alike(a, b, Len(a), K)
    PROVE  Kept(a, K) = Kept(b, K)
  <1> DEFINE n == Len(a)
  <1>0. n \in Nat /\ n <= n /\ Len(b) = n
    OBVIOUS
  <1> HIDE DEF n
  <1>1. PICK f : Keeps(f, n, a, K) /\ Kept(a, K) = f[n]
    BY KeptIs DEF n
  <1>2. PICK g : Keeps(g, n, b, K) /\ Kept(b, K) = g[n]
    BY <1>0, KeptIs
  <1>3. Alike(a, b, n, K)
    BY DEF n
  <1>4. Keeps(f, n, a, K)
    BY <1>1
  <1>5. Keeps(g, n, b, K)
    BY <1>2
  <1>6. f[n] = g[n]
    BY <1>0, <1>3, <1>4, <1>5, KeptSame
  <1> QED
    BY Zenon, <1>1, <1>2, <1>6

\* Kept of one record more.
LEMMA KeptAppend ==
    ASSUME NEW T, NEW a \in Seq(T), NEW r \in T, NEW K
    PROVE  Kept(Append(a, r), K) = Grown(Kept(a, K), r, K)
  <1> DEFINE b == Append(a, r)
             n == Len(a)
  <1>1. n \in Nat /\ n + 1 \in Nat /\ n <= n /\ n <= n + 1 /\ n + 1 <= n + 1
    OBVIOUS
  <1>2. Len(b) = n + 1 /\ b[n + 1] = r /\ \A i \in 1 .. n : a[i] = b[i]
    OBVIOUS
  <1> HIDE DEF b, n
  <1>3. PICK f : Keeps(f, n, a, K) /\ Kept(a, K) = f[n]
    BY <1>1, KeptIs DEF n
  <1>4. PICK g : Keeps(g, n + 1, b, K) /\ Kept(b, K) = g[n + 1]
    BY <1>1, <1>2, KeptIs
  <1>5. Alike(a, b, n, K)
    BY <1>2 DEF Alike
  <1>6. Keeps(f, n, a, K)
    BY <1>3
  <1>7. Keeps(g, n + 1, b, K)
    BY <1>4
  <1>8. f[n] = g[n]
    BY <1>1, <1>5, <1>6, <1>7, KeptSame
  <1>9. g[n + 1] = Grown(g[n], b[n + 1], K)
    <2> DEFINE m == n + 1
    <2>1. m \in Nat /\ m <= m /\ n \in Nat
      BY <1>1
    <2>2. Keeps(g, m, b, K) /\ n + 1 <= m
      BY Zenon, <1>7, <2>1
    <2> HIDE DEF m
    <2>3. GrowsAt(g, n, b, K)
      BY Zenon, <2>1, <2>2, KeepGrows
    <2> QED
      BY Zenon, <2>3 DEF GrowsAt
  <1> QED
    BY Zenon, <1>2, <1>3, <1>4, <1>8, <1>9 DEF b

\* Appending after a concatenation.
LEMMA AppendAfter ==
    ASSUME NEW T, NEW x \in Seq(T), NEW y \in Seq(T), NEW z \in T
    PROVE  x \o Append(y, z) = Append(x \o y, z)
  <1>1. Append(y, z) \in Seq(T) /\ Len(Append(y, z)) = Len(y) + 1
        /\ Append(y, z)[Len(y) + 1] = z /\ (\A i \in 1 .. Len(y) : Append(y, z)[i] = y[i])
    OBVIOUS
  <1> DEFINE a == x \o Append(y, z)
             b == Append(x \o y, z)
  <1>2. a \in Seq(T) /\ b \in Seq(T) /\ Len(a) = Len(b)
    BY <1>1
  <1>3. ASSUME NEW i \in 1 .. Len(a) PROVE a[i] = b[i]
    BY <1>1
  <1> HIDE DEF a, b
  <1>4. a = b
    <2>1. a = [i \in 1 .. Len(a) |-> a[i]] /\ b = [i \in 1 .. Len(b) |-> b[i]]
      BY <1>2
    <2> QED
      BY Zenon, <1>2, <1>3, <2>1
  <1> QED
    BY <1>4 DEF a, b

\* Kept of two batches is the concatenation of what is kept of each.
LEMMA KeptConcat ==
    ASSUME NEW T, NEW a \in Seq(T), NEW b \in Seq(T), NEW K
    PROVE  Kept(a \o b, K) = Kept(a, K) \o Kept(b, K)
  <1> DEFINE c == a \o b
             la == Len(a)
             lb == Len(b)
  <1>1. la \in Nat /\ lb \in Nat /\ la + lb \in Nat /\ la <= la /\ la <= la + lb /\ la + 0 = la
    OBVIOUS
  <1>2. Len(c) = la + lb /\ \A i \in 1 .. la : a[i] = c[i]
    OBVIOUS
  <1>3. \A i \in Nat : i + 1 <= lb => c[la + (i + 1)] = b[i + 1] /\ b[i + 1] \in T
    OBVIOUS
  <1> HIDE DEF c, la, lb
  <1>4. PICK f : Keeps(f, la, a, K) /\ Kept(a, K) = f[la]
    BY <1>1, KeptIs DEF la
  <1>5. PICK g : Keeps(g, lb, b, K) /\ Kept(b, K) = g[lb]
    BY <1>1, KeptIs DEF lb
  <1>6. PICK e : Keeps(e, la + lb, c, K) /\ Kept(c, K) = e[la + lb]
    BY <1>1, <1>2, KeptIs
  <1>7. Keeps(f, la, a, K)
    BY <1>4
  <1>8. Keeps(g, lb, b, K)
    BY <1>5
  <1>9. Keeps(e, la + lb, c, K)
    BY <1>6
  <1>10. Alike(a, c, la, K)
    BY <1>2 DEF Alike
  <1>11. f[la] = e[la]
    BY <1>1, <1>7, <1>9, <1>10, KeptSame
  <1>12. f[la] \in Seq(T)
    <2>1. la \in 0 .. la
      BY <1>1
    <2> QED
      BY Zenon, <1>7, <2>1, KeptType DEF la
  <1>13. \A i \in 0 .. lb : g[i] \in Seq(T)
    BY Zenon, <1>8, KeptType DEF lb
  <1> DEFINE S == {i \in Nat : i <= lb => e[la + i] = f[la] \o g[i]}
  <1>14. 0 \in S
    <2>1. g[0] = <<>>
      BY Zenon, <1>1, <1>8, KeepBase
    <2>2. f[la] \o <<>> = f[la]
      BY <1>12
    <2>3. e[la + 0] = f[la] \o g[0]
      BY Zenon, <1>1, <1>11, <2>1, <2>2
    <2> QED
      BY Zenon, <2>3
  <1>15. ASSUME NEW m \in Nat, m \in S PROVE m + 1 \in S
    <2>1. ASSUME m + 1 <= lb PROVE e[la + (m + 1)] = f[la] \o g[m + 1]
      <3>1. la + m \in Nat /\ (la + m) + 1 <= la + lb /\ (la + m) + 1 = la + (m + 1)
            /\ m <= lb /\ m \in 0 .. lb
        BY <1>1, <2>1
      <3>2. e[(la + m) + 1] = Grown(e[la + m], c[(la + m) + 1], K)
        <4> DEFINE j == la + m
        <4>1. j \in Nat /\ j + 1 <= la + lb
          BY <3>1
        <4> HIDE DEF j
        <4>2. e[j + 1] = Grown(e[j], c[j + 1], K)
          BY <1>1, <1>9, <4>1, KeepStep
        <4> QED
          BY <4>2 DEF j
      <3>3. g[m + 1] = Grown(g[m], b[m + 1], K)
        BY <1>1, <1>8, <2>1, KeepStep
      <3>4. e[la + m] = f[la] \o g[m]
        BY Zenon, <1>15, <3>1
      <3>5. g[m] \in Seq(T)
        BY Zenon, <1>13, <3>1
      <3>6. c[la + (m + 1)] = b[m + 1] /\ b[m + 1] \in T
        BY Zenon, <1>3, <2>1
      <3>7. f[la] \o Append(g[m], b[m + 1]) = Append(f[la] \o g[m], b[m + 1])
        <4> DEFINE x == f[la]
                   y == g[m]
                   z == b[m + 1]
        <4>1. x \in Seq(T) /\ y \in Seq(T) /\ z \in T
          BY Zenon, <1>12, <3>5, <3>6
        <4> HIDE DEF x, y, z
        <4>2. x \o Append(y, z) = Append(x \o y, z)
          BY <4>1, AppendAfter
        <4> QED
          BY Zenon, <4>2 DEF x, y, z
      <3>8. e[la + (m + 1)] = Grown(f[la] \o g[m], b[m + 1], K)
        BY Zenon, <3>1, <3>2, <3>4, <3>6
      <3> QED
        BY Zenon, <3>3, <3>7, <3>8 DEF Grown
    <2>2. m + 1 \in Nat
      OBVIOUS
    <2> QED
      BY Zenon, <2>1, <2>2
  <1> HIDE DEF S
  <1>16. \A m \in Nat : m \in S
    BY Zenon, <1>14, <1>15, Induction
  <1>17. e[la + lb] = f[la] \o g[lb]
    <2>1. lb \in S /\ lb <= lb
      BY <1>1, <1>16
    <2> QED
      BY Zenon, <2>1 DEF S
  <1> QED
    BY Zenon, <1>4, <1>5, <1>6, <1>17 DEF c

-----------------------------------------------------------------------------
\* The indexes, record by record.
\* The heights with a live entry in file num.
HeightsIn(ix, num) == {h \in Heights : num \in ix.byHeight[h]}

\* The fields of the indexes, no more.
IsIndex(ix) ==
    ix = [entries |-> ix.entries, byHeight |-> ix.byHeight, refs |-> ix.refs, pruned |-> ix.pruned]

\* The indexes agree with each other: nothing at a pruned height, and the files'
\* reference counts are exact.
IndexOK(ix) ==
    /\ IsIndex(ix)
    /\ ix.entries \in [Heights -> Seq(Entry)] /\ ix.byHeight \in [Heights -> SUBSET Nat]
    /\ ix.pruned \in 0 .. MaxHeight
    /\ \A h \in Heights : h <= ix.pruned => ix.entries[h] = <<>> /\ ix.byHeight[h] = {}
    /\ \A k : k \in DOMAIN ix.refs <=> HeightsIn(ix, k) # {}
    /\ \A k \in DOMAIN ix.refs : ix.refs[k] = Cardinality(HeightsIn(ix, k))

\* The pruned height is a number.
LEMMA PrunedInt ==
    ASSUME NEW ix, IndexOK(ix)
    PROVE  ix.pruned \in Int /\ 0 <= ix.pruned /\ ix.pruned <= ix.pruned
  <1>1. ix.pruned \in 0 .. MaxHeight
    BY Zenon DEF IndexOK
  <1> QED
    BY <1>1, SizesAssumption

\* Order of numbers.
LEMMA AtMost ==
    ASSUME NEW x \in Int, NEW y \in Int, NEW z \in Int, x <= y, y <= z
    PROVE  x <= z
  OBVIOUS

\* The same, strictly.
LEMMA Exceeds ==
    ASSUME NEW x \in Int, NEW y \in Int, NEW z \in Int, x > y, y > z
    PROVE  x > z
  OBVIOUS

\* The heights that need a file can be counted.
LEMMA HeightsFinite ==
    ASSUME NEW ix, NEW num
    PROVE  IsFiniteSet(HeightsIn(ix, num)) /\ Cardinality(HeightsIn(ix, num)) \in Nat
  <1>1. IsFiniteSet(Heights)
    BY FS_Interval, SizesAssumption DEF Heights
  <1>2. HeightsIn(ix, num) \in SUBSET Heights
    BY DEF HeightsIn
  <1> QED
    BY <1>1, <1>2, FS_Subset, FS_CardinalityType

\* What addLiveEntry makes of the fields of the index.
Added(ix, new, num, rec) ==
    /\ IsIndex(new)
    /\ new.entries = [ix.entries EXCEPT ![rec.h] = Append(@, rec)]
    /\ new.byHeight = [ix.byHeight EXCEPT ![rec.h] = @ \union {num}]
    /\ new.refs = IF num \in ix.byHeight[rec.h] THEN ix.refs ELSE Referred(ix.refs, num)
    /\ new.pruned = ix.pruned

\* The fields of the index after addLiveEntry.
LEMMA AddIs ==
    ASSUME NEW ix, IndexOK(ix), NEW num \in Nat, NEW rec \in Entry
    PROVE  Added(ix, addLiveEntry(ix, num, rec), num, rec)
  BY Zenon DEF addLiveEntry, IsIndex, Added

\* addLiveEntry keeps the reference counts exact.
LEMMA AddOK ==
    ASSUME NEW ix, IndexOK(ix), NEW num \in Nat, NEW rec \in Entry, rec.h > ix.pruned
    PROVE  IndexOK(addLiveEntry(ix, num, rec))
  <1> DEFINE new == addLiveEntry(ix, num, rec)
  <1>1. /\ IsIndex(new)
        /\ new.entries = [ix.entries EXCEPT ![rec.h] = Append(@, rec)]
        /\ new.byHeight = [ix.byHeight EXCEPT ![rec.h] = @ \union {num}]
        /\ new.refs = IF num \in ix.byHeight[rec.h] THEN ix.refs ELSE Referred(ix.refs, num)
        /\ new.pruned = ix.pruned
    <2>1. Added(ix, new, num, rec)
      BY Zenon, AddIs
    <2> HIDE DEF new
    <2> QED
      BY Zenon, <2>1 DEF Added
  <1> SUFFICES IndexOK(new)
    OBVIOUS
  <1> HIDE DEF new
  <1>31. IsIndex(new)
    BY Zenon, <1>1
  <1>2. rec.h \in Heights
    BY DEF Entry
  <1>3. /\ new.entries \in [Heights -> Seq(Entry)] /\ new.byHeight \in [Heights -> SUBSET Nat]
        /\ new.pruned \in 0 .. MaxHeight
        /\ \A h \in Heights : h <= new.pruned => new.entries[h] = <<>> /\ new.byHeight[h] = {}
    <2>1. /\ ix.entries \in [Heights -> Seq(Entry)] /\ ix.byHeight \in [Heights -> SUBSET Nat]
          /\ ix.pruned \in 0 .. MaxHeight
          /\ \A h \in Heights : h <= ix.pruned => ix.entries[h] = <<>> /\ ix.byHeight[h] = {}
      BY Zenon DEF IndexOK
    <2>2. new.entries \in [Heights -> Seq(Entry)]
      BY <1>1, <1>2, <2>1
    <2>3. new.byHeight \in [Heights -> SUBSET Nat]
      BY <1>1, <1>2, <2>1
    <2>4. ASSUME NEW h \in Heights, h <= new.pruned PROVE new.entries[h] = <<>> /\ new.byHeight[h] = {}
      <3>1. h # rec.h
        BY <1>1, <1>2, <2>1, <2>4 DEF Heights
      <3>2. new.entries[h] = ix.entries[h] /\ new.byHeight[h] = ix.byHeight[h]
        BY <1>1, <2>1, <3>1
      <3> QED
        BY <1>1, <2>1, <2>4, <3>2
    <2> QED
      BY <1>1, <2>1, <2>2, <2>3, <2>4
  <1>4. \A k : k # num => HeightsIn(new, k) = HeightsIn(ix, k)
    BY <1>1, <1>2 DEF HeightsIn, IndexOK
  <1>5. HeightsIn(new, num) = HeightsIn(ix, num) \union {rec.h}
    BY <1>1, <1>2 DEF HeightsIn, IndexOK
  <1>6. CASE num \in ix.byHeight[rec.h]
    <2>1. \A k : HeightsIn(new, k) = HeightsIn(ix, k)
      BY <1>2, <1>4, <1>5, <1>6 DEF HeightsIn
    <2>2. new.refs = ix.refs
      BY <1>1, <1>6
    <2>3. /\ \A k : k \in DOMAIN new.refs <=> HeightsIn(new, k) # {}
          /\ \A k \in DOMAIN new.refs : new.refs[k] = Cardinality(HeightsIn(new, k))
      BY Zenon, <2>1, <2>2 DEF IndexOK
    <2> QED
      BY Zenon, <1>31, <1>3, <2>3 DEF IndexOK
  <1>7. CASE num \notin ix.byHeight[rec.h]
    <2>1. rec.h \notin HeightsIn(ix, num)
      BY <1>7 DEF HeightsIn
    <2>2. Cardinality(HeightsIn(new, num)) = Cardinality(HeightsIn(ix, num)) + 1
      BY <1>5, <2>1, HeightsFinite, FS_AddElement
    <2>3. new.refs = Referred(ix.refs, num)
      BY <1>1, <1>7
    <2>4. DOMAIN new.refs = DOMAIN ix.refs \union {num}
      BY <2>3 DEF Referred
    <2>5. \A k : k \in DOMAIN new.refs <=> HeightsIn(new, k) # {}
      BY Zenon, <1>4, <1>5, <2>4 DEF IndexOK
    <2>6. ASSUME NEW k \in DOMAIN new.refs PROVE new.refs[k] = Cardinality(HeightsIn(new, k))
      <3>1. CASE k # num
        BY <1>4, <2>3, <2>4, <3>1 DEF Referred, IndexOK
      <3>2. CASE k = num /\ num \in DOMAIN ix.refs
        <4>1. new.refs[k] = ix.refs[num] + 1
          BY <2>3, <3>2 DEF Referred
        <4>2. ix.refs[num] = Cardinality(HeightsIn(ix, num))
          BY Zenon, <3>2 DEF IndexOK
        <4> QED
          BY <2>2, <3>2, <4>1, <4>2
      <3>3. CASE k = num /\ num \notin DOMAIN ix.refs
        <4>1. new.refs[k] = 1
          BY <2>3, <3>3 DEF Referred
        <4>2. HeightsIn(ix, num) = {}
          BY Zenon, <3>3 DEF IndexOK
        <4>3. Cardinality(HeightsIn(ix, num)) = 0
          BY Zenon, <4>2, FS_EmptySet
        <4> QED
          BY <2>2, <3>3, <4>1, <4>3
      <3> QED
        BY <3>1, <3>2, <3>3
    <2> QED
      BY Zenon, <1>31, <1>3, <2>5, <2>6 DEF IndexOK
  <1> QED
    BY Zenon, <1>6, <1>7

\* pruneLiveEntriesUpTo keeps the reference counts exact, and leaves nothing below.
LEMMA PruneOK ==
    ASSUME NEW ix, IndexOK(ix), NEW h \in Heights, h > ix.pruned
    PROVE  IndexOK(pruneLiveEntriesUpTo(ix, h))
  <1> DEFINE new == pruneLiveEntriesUpTo(ix, h)
             low(k) == {j \in Heights : j <= h /\ k \in ix.byHeight[j]}
             left(k) == ix.refs[k] - Cardinality(low(k))
  <1>1. /\ IsIndex(new)
        /\ new.entries = [k \in Heights |-> IF k <= h THEN <<>> ELSE ix.entries[k]]
        /\ new.byHeight = [k \in Heights |-> IF k <= h THEN {} ELSE ix.byHeight[k]]
        /\ new.refs = [num \in {k \in DOMAIN ix.refs : left(k) # 0} |-> left(num)]
        /\ new.pruned = h
    BY Zenon DEF pruneLiveEntriesUpTo, IsIndex
  <1> HIDE DEF new
  <1>2. /\ new.entries \in [Heights -> Seq(Entry)] /\ new.byHeight \in [Heights -> SUBSET Nat]
        /\ new.pruned \in 0 .. MaxHeight
        /\ \A k \in Heights : k <= new.pruned => new.entries[k] = <<>> /\ new.byHeight[k] = {}
    BY <1>1, SizesAssumption DEF IndexOK, Heights
  <1>3. ASSUME NEW k PROVE
           /\ HeightsIn(new, k) \subseteq HeightsIn(ix, k)
           /\ k \in DOMAIN ix.refs => left(k) = Cardinality(HeightsIn(new, k))
    <2>1. HeightsIn(ix, k) = low(k) \union HeightsIn(new, k) /\ low(k) \intersect HeightsIn(new, k) = {}
      BY <1>1 DEF HeightsIn
    <2>2. IsFiniteSet(low(k)) /\ IsFiniteSet(HeightsIn(new, k))
      BY <2>1, HeightsFinite, FS_Subset
    <2> HIDE DEF low
    <2>3. Cardinality(HeightsIn(ix, k)) = Cardinality(low(k)) + Cardinality(HeightsIn(new, k)) - Cardinality({})
      BY <2>1, <2>2, FS_Union
    <2>4. Cardinality({}) = 0 /\ Cardinality(low(k)) \in Nat /\ Cardinality(HeightsIn(new, k)) \in Nat
      BY <2>2, FS_EmptySet, FS_CardinalityType
    <2>5. k \in DOMAIN ix.refs => ix.refs[k] = Cardinality(HeightsIn(ix, k))
      BY Zenon DEF IndexOK
    <2> QED
      BY <2>1, <2>3, <2>4, <2>5
  <1> HIDE DEF left
  <1>4. \A k : k \in DOMAIN new.refs <=> HeightsIn(new, k) # {}
    <2> TAKE k
    <2>1. Cardinality(HeightsIn(new, k)) = 0 <=> HeightsIn(new, k) = {}
      BY Zenon, HeightsFinite, FS_EmptySet
    <2>2. k \in DOMAIN ix.refs <=> HeightsIn(ix, k) # {}
      BY Zenon DEF IndexOK
    <2>3. k \in DOMAIN new.refs <=> k \in DOMAIN ix.refs /\ left(k) # 0
      BY <1>1
    <2> QED
      BY <1>3, <2>1, <2>2, <2>3
  <1>5. \A k \in DOMAIN new.refs : new.refs[k] = Cardinality(HeightsIn(new, k))
    BY <1>1, <1>3
  <1> QED
    BY Zenon, <1>1, <1>2, <1>4, <1>5 DEF IndexOK, new

\* One record: it prunes, or is an entry at one height, or is ignored.
Applied(ix, new, num, rec) ==
    /\ IndexOK(new)
    /\ new.pruned = IF IsPrune(rec) /\ rec.h > ix.pruned THEN rec.h ELSE ix.pruned
    /\ \A h \in Heights : h > new.pruned =>
          IF ~IsPrune(rec) /\ rec.h = h
          THEN new.entries[h] = Append(ix.entries[h], rec) /\ new.byHeight[h] = ix.byHeight[h] \union {num}
          ELSE new.entries[h] = ix.entries[h] /\ new.byHeight[h] = ix.byHeight[h]

\* What ApplyRecord (applyEncodedRecord) does, a prune or an entry.
LEMMA RecordApplied ==
    ASSUME NEW ix, IndexOK(ix), NEW num \in Nat, NEW rec \in Record
    PROVE  Applied(ix, ApplyRecord(ix, num, rec), num, rec)
  <1> DEFINE new == ApplyRecord(ix, num, rec)
  <1>1. rec.h \in Heights /\ (~IsPrune(rec) => rec \in Entry)
    BY SizesAssumption DEF Record, Entry, IsPrune
  <1>2. /\ ix.pruned \in 0 .. MaxHeight
        /\ ix.entries \in [Heights -> Seq(Entry)] /\ ix.byHeight \in [Heights -> SUBSET Nat]
    BY Zenon DEF IndexOK
  <1>3. new = IF rec.h <= ix.pruned THEN ix
              ELSE IF IsPrune(rec) THEN pruneLiveEntriesUpTo(ix, rec.h) ELSE addLiveEntry(ix, num, rec)
    BY DEF ApplyRecord
  <1> SUFFICES Applied(ix, new, num, rec)
    OBVIOUS
  <1> HIDE DEF new
  <1>4. CASE rec.h <= ix.pruned
    <2>1. \A h \in Heights : h > ix.pruned => rec.h # h
      BY <1>1, <1>2, <1>4 DEF Heights
    <2>2. ~(rec.h > ix.pruned)
      BY <1>1, <1>2, <1>4 DEF Heights
    <2>3. new = ix
      BY <1>3, <1>4
    <2> QED
      BY Zenon, <2>1, <2>2, <2>3 DEF Applied
  <1>5. CASE ~(rec.h <= ix.pruned) /\ IsPrune(rec)
    <2>1. new = pruneLiveEntriesUpTo(ix, rec.h)
      BY <1>3, <1>5
    <2>2. rec.h > ix.pruned
      BY <1>1, <1>2, <1>5 DEF Heights
    <2>3. IndexOK(new)
      BY Zenon, <1>1, <2>1, <2>2, PruneOK
    <2>4. /\ new.pruned = rec.h
          /\ new.entries = [k \in Heights |-> IF k <= rec.h THEN <<>> ELSE ix.entries[k]]
          /\ new.byHeight = [k \in Heights |-> IF k <= rec.h THEN {} ELSE ix.byHeight[k]]
      BY <2>1 DEF pruneLiveEntriesUpTo
    <2>5. \A h \in Heights : h > new.pruned => new.entries[h] = ix.entries[h] /\ new.byHeight[h] = ix.byHeight[h]
      BY <1>1, <2>4 DEF Heights
    <2>6. new.pruned = rec.h
      BY <2>4
    <2> QED
      BY Zenon, <1>5, <2>2, <2>3, <2>5, <2>6 DEF Applied
  <1>6. CASE ~(rec.h <= ix.pruned) /\ ~IsPrune(rec)
    <2>1. new = addLiveEntry(ix, num, rec)
      BY <1>3, <1>6
    <2>2. rec.h > ix.pruned /\ rec \in Entry
      BY <1>1, <1>2, <1>6 DEF Heights
    <2>3. IndexOK(new)
      BY Zenon, <2>1, <2>2, AddOK
    <2>4. /\ new.pruned = ix.pruned
          /\ new.entries = [ix.entries EXCEPT ![rec.h] = Append(@, rec)]
          /\ new.byHeight = [ix.byHeight EXCEPT ![rec.h] = @ \union {num}]
      BY <2>1 DEF addLiveEntry
    <2>5. \A h \in Heights :
             IF rec.h = h
             THEN new.entries[h] = Append(ix.entries[h], rec) /\ new.byHeight[h] = ix.byHeight[h] \union {num}
             ELSE new.entries[h] = ix.entries[h] /\ new.byHeight[h] = ix.byHeight[h]
      BY <1>1, <1>2, <2>4
    <2>6. new.pruned = ix.pruned
      BY <2>4
    <2> QED
      BY Zenon, <1>6, <2>3, <2>5, <2>6 DEF Applied
  <1> QED
    BY Zenon, <1>4, <1>5, <1>6

\* The heights of records are numbers, and a record that is no prune is an entry.
LEMMA RecordHeight ==
    ASSUME NEW rec \in Record
    PROVE  rec.h \in Heights /\ rec.h \in Nat /\ rec.h \in Int /\ rec.h # 0 /\ (~IsPrune(rec) => rec \in Entry)
  BY SizesAssumption DEF Record, Heights, Entry, IsPrune

\* Every step of a replay applies its record to an index that is in order.
LEMMA ReplaySteps ==
    ASSUME NEW ix, IndexOK(ix), NEW num \in Nat, NEW recs \in Seq(Record), NEW n \in Nat, n = Len(recs),
           NEW f, Replays(f, n, ix, num, recs)
    PROVE  /\ f[0] = ix
           /\ \A i \in Nat : i <= n => IndexOK(f[i])
           /\ \A i \in Nat : i + 1 <= n => Applied(f[i], f[i + 1], num, recs[i + 1])
  <1>1. f[0] = ix
    BY DEF Replays
  <1>2. ASSUME NEW i \in Nat, i + 1 <= n PROVE f[i + 1] = ApplyRecord(f[i], num, recs[i + 1])
    BY <1>2 DEF Replays
  <1>3. ASSUME NEW i \in Nat, i + 1 <= n, IndexOK(f[i]) PROVE Applied(f[i], f[i + 1], num, recs[i + 1])
    <2>1. recs[i + 1] \in Record
      BY <1>3
    <2>2. Applied(f[i], ApplyRecord(f[i], num, recs[i + 1]), num, recs[i + 1])
      BY Zenon, <1>3, <2>1, RecordApplied
    <2> QED
      BY Zenon, <1>2, <1>3, <2>2
  <1> DEFINE S == {i \in Nat : i <= n => IndexOK(f[i])}
  <1>4. 0 \in S
    BY <1>1
  <1>5. ASSUME NEW i \in Nat, i \in S PROVE i + 1 \in S
    <2>1. ASSUME i + 1 <= n PROVE IndexOK(f[i + 1])
      <3>1. i <= n
        BY <2>1
      <3>2. Applied(f[i], f[i + 1], num, recs[i + 1])
        BY Zenon, <1>3, <1>5, <2>1, <3>1
      <3> QED
        BY Zenon, <3>2 DEF Applied
    <2>2. i + 1 \in Nat
      OBVIOUS
    <2> QED
      BY Zenon, <2>1, <2>2
  <1> HIDE DEF S
  <1>6. \A i \in Nat : i \in S
    BY Zenon, <1>4, <1>5, Induction
  <1>7. \A i \in Nat : i <= n => IndexOK(f[i])
    BY Zenon, <1>6 DEF S
  <1>8. ASSUME NEW i \in Nat, i + 1 <= n PROVE Applied(f[i], f[i + 1], num, recs[i + 1])
    <2>1. i <= n
      BY <1>8
    <2> QED
      BY Zenon, <1>3, <1>7, <1>8, <2>1
  <1> QED
    BY Zenon, <1>1, <1>7, <1>8

\* The watermark after recs: the greatest of what it was and what recs prune up to.
Topped(old, new, recs, n) ==
    /\ old <= new
    /\ new = old \/ \E j \in 1 .. n : IsPrune(recs[j]) /\ recs[j].h = new
    /\ \A j \in 1 .. n : IsPrune(recs[j]) => recs[j].h <= new

\* Nothing is replayed from an empty file.
LEMMA NoIndex == \A j : j \notin 1 .. 0
  OBVIOUS

\* A height at most the pruned height before a record is at most the one after it.
LEMMA AtMostThrough ==
    ASSUME NEW x \in Int, NEW y \in Int, NEW z \in Int, x <= y, y <= z
    PROVE  x <= z
  OBVIOUS

\* A replay raises the pruned height to the highest prune it meets.
LEMMA ToppedUp ==
    ASSUME NEW ix, IndexOK(ix), NEW num \in Nat, NEW recs \in Seq(Record), NEW n \in Nat, n = Len(recs),
           NEW f, Replays(f, n, ix, num, recs)
    PROVE  \A i \in Nat : i <= n => Topped(ix.pruned, f[i].pruned, recs, i)
  <1>1. /\ f[0] = ix
        /\ \A i \in Nat : i <= n => IndexOK(f[i])
        /\ \A i \in Nat : i + 1 <= n => Applied(f[i], f[i + 1], num, recs[i + 1])
    BY Zenon, ReplaySteps
  <1> DEFINE S == {i \in Nat : i <= n => Topped(ix.pruned, f[i].pruned, recs, i)}
  <1>2. 0 \in S
    <2>1. ix.pruned <= ix.pruned
      BY PrunedInt
    <2>2. Topped(ix.pruned, f[0].pruned, recs, 0)
      BY Zenon, <1>1, <2>1, NoIndex DEF Topped
    <2> QED
      BY <2>2
  <1>3. ASSUME NEW i \in Nat, i \in S, i + 1 <= n PROVE Topped(ix.pruned, f[i + 1].pruned, recs, i + 1)
    <2>1. i <= n /\ recs[i + 1] \in Record
      BY <1>3
    <2>2. Topped(ix.pruned, f[i].pruned, recs, i)
      BY Zenon, <1>3, <2>1
    <2>3. f[i + 1].pruned = IF IsPrune(recs[i + 1]) /\ recs[i + 1].h > f[i].pruned THEN recs[i + 1].h ELSE f[i].pruned
      BY Zenon, <1>1, <1>3 DEF Applied
    <2>4. f[i].pruned \in Int /\ ix.pruned \in Int
      <3>1. IndexOK(f[i])
        BY Zenon, <1>1, <2>1
      <3> QED
        BY Zenon, <3>1, PrunedInt
    <2>5. recs[i + 1].h \in Int /\ \A j \in 1 .. i : recs[j].h \in Int
      <3>1. \A j \in 1 .. i : recs[j] \in Record
        BY <2>1
      <3> QED
        BY Zenon, <2>1, <3>1, RecordHeight
    <2> HIDE DEF S
    <2>6. \A j \in 1 .. i + 1 : j \in 1 .. i \/ j = i + 1
      OBVIOUS
    <2>7. \A j \in 1 .. i : j \in 1 .. i + 1
      OBVIOUS
    <2>8. i + 1 \in 1 .. i + 1
      OBVIOUS
    <2> DEFINE a == f[i].pruned
               b == f[i + 1].pruned
               r == recs[i + 1]
    <2>9. a <= b /\ (b = a \/ (IsPrune(r) /\ r.h = b)) /\ (IsPrune(r) => r.h <= b)
      BY <2>3, <2>4, <2>5
    <2>10. b \in Int
      BY <2>3, <2>4, <2>5
    <2> HIDE DEF a, b
    <2>11. ix.pruned <= b
      <3>1. ix.pruned <= a /\ a \in Int
        BY Zenon, <2>2, <2>4 DEF Topped, a
      <3> QED
        BY Zenon, <2>4, <2>9, <2>10, <3>1, AtMostThrough
    <2>12. b = ix.pruned \/ \E j \in 1 .. i + 1 : IsPrune(recs[j]) /\ recs[j].h = b
      BY Zenon, <2>2, <2>7, <2>8, <2>9 DEF Topped, a
    <2>13. ASSUME NEW j \in 1 .. i + 1, IsPrune(recs[j]) PROVE recs[j].h <= b
      <3>1. CASE j = i + 1
        BY Zenon, <2>9, <2>13, <3>1
      <3>2. CASE j \in 1 .. i
        <4>1. recs[j].h <= a /\ recs[j].h \in Int /\ a \in Int
          BY Zenon, <2>2, <2>4, <2>5, <2>13, <3>2 DEF Topped, a
        <4> QED
          BY Zenon, <2>9, <2>10, <4>1, AtMostThrough
      <3> QED
        BY Zenon, <2>6, <3>1, <3>2
    <2> QED
      BY Zenon, <2>11, <2>12, <2>13 DEF Topped, b
  <1>4. ASSUME NEW i \in Nat, i \in S PROVE i + 1 \in S
    <2>1. i + 1 \in Nat
      OBVIOUS
    <2> QED
      BY Zenon, <1>3, <1>4, <2>1
  <1> HIDE DEF S
  <1>5. \A i \in Nat : i \in S
    BY Zenon, <1>2, <1>4, Induction
  <1> QED
    BY Zenon, <1>5 DEF S

\* The entries of a height.
AtHeight(h) == {e \in Entry : e.h = h}

\* A record is an entry of the height it names unless it is a prune.
LEMMA AtHeightIs ==
    ASSUME NEW rec \in Record, NEW h
    PROVE  rec \in AtHeight(h) <=> ~IsPrune(rec) /\ rec.h = h
  BY RecordHeight DEF AtHeight, Entry, IsPrune

\* A sequence extended by another.
Grew(old, new, more) == new = old \o more

\* At a height that stays above the prunes, a replay appends the entries of the batch.
LEMMA EntriesAdded ==
    ASSUME NEW ix, IndexOK(ix), NEW num \in Nat, NEW recs \in Seq(Record), NEW n \in Nat, n = Len(recs),
           NEW f, Replays(f, n, ix, num, recs), NEW h \in Heights, NEW g, Keeps(g, n, recs, AtHeight(h)),
           h > f[n].pruned
    PROVE  Grew(ix.entries[h], f[n].entries[h], g[n])
  <1>1. /\ f[0] = ix
        /\ \A i \in Nat : i <= n => IndexOK(f[i])
        /\ \A i \in Nat : i + 1 <= n => Applied(f[i], f[i + 1], num, recs[i + 1])
    BY Zenon, ReplaySteps
  <1>2. ix.entries[h] \in Seq(Entry) /\ ix.entries[h] \in Seq(Record)
    <2>1. ix.entries \in [Heights -> Seq(Entry)]
      BY Zenon DEF IndexOK
    <2>2. ix.entries[h] \in Seq(Entry)
      BY <2>1
    <2>3. Entry \subseteq Record
      <3>1. 1 .. MaxEntries \subseteq 0 .. MaxEntries
        BY SizesAssumption
      <3> QED
        BY <3>1 DEF Entry, Record
    <2> QED
      BY <2>2, <2>3
  <1> DEFINE S == {i \in Nat : i <= n /\ h > f[i].pruned => f[i].entries[h] = ix.entries[h] \o g[i]}
  <1>3. 0 \in S
    <2>1. g[0] = <<>>
      BY Zenon, KeepBase
    <2>2. ix.entries[h] \o <<>> = ix.entries[h]
      BY <1>2
    <2>3. f[0].entries[h] = ix.entries[h] \o g[0]
      BY Zenon, <1>1, <2>1, <2>2
    <2> QED
      BY Zenon, <2>3
  <1>4. ASSUME NEW i \in Nat, i \in S, i + 1 <= n, h > f[i + 1].pruned
        PROVE  f[i + 1].entries[h] = ix.entries[h] \o g[i + 1]
    <2> DEFINE r == recs[i + 1]
    <2>1. i <= n /\ r \in Record /\ i \in 0 .. Len(recs)
      BY <1>4
    <2>2. Applied(f[i], f[i + 1], num, r)
      BY Zenon, <1>1, <1>4
    <2>3. f[i].pruned \in Int /\ r.h \in Int
      <3>1. IndexOK(f[i])
        BY Zenon, <1>1, <2>1
      <3>2. f[i].pruned \in 0 .. MaxHeight
        BY Zenon, <3>1 DEF IndexOK
      <3> QED
        BY <2>1, <3>2, RecordHeight
    <2>4. f[i + 1].pruned = IF IsPrune(r) /\ r.h > f[i].pruned THEN r.h ELSE f[i].pruned
      BY Zenon, <2>2 DEF Applied
    <2> HIDE DEF r
    <2>5. h > f[i].pruned
      <3>1. h \in Int
        BY DEF Heights
      <3>2. CASE IsPrune(r) /\ r.h > f[i].pruned
        BY Zenon, <1>4, <2>3, <2>4, <3>1, <3>2, Exceeds
      <3>3. CASE ~(IsPrune(r) /\ r.h > f[i].pruned)
        BY Zenon, <1>4, <2>4, <3>3
      <3> QED
        BY Zenon, <3>2, <3>3
    <2>6. f[i].entries[h] = ix.entries[h] \o g[i]
      BY Zenon, <1>4, <2>1, <2>5
    <2>7. g[i + 1] = Grown(g[i], r, AtHeight(h))
      <3>1. g[i + 1] = Grown(g[i], recs[i + 1], AtHeight(h))
        <4>1. GrowsAt(g, i, recs, AtHeight(h))
          BY Zenon, <1>4, KeepGrows
        <4> QED
          BY Zenon, <4>1 DEF GrowsAt
      <3> QED
        BY Zenon, <3>1 DEF r
    <2>8. g[i] \in Seq(Record)
      BY Zenon, <2>1, KeptType
    <2>9. CASE ~IsPrune(r) /\ r.h = h
      <3>1. f[i + 1].entries[h] = Append(f[i].entries[h], r)
        BY Zenon, <1>4, <2>2, <2>9 DEF Applied
      <3>2. g[i + 1] = Append(g[i], r)
        BY Zenon, <2>1, <2>7, <2>9, AtHeightIs DEF Grown
      <3> DEFINE x == ix.entries[h]
                 y == g[i]
      <3>3. x \in Seq(Record) /\ y \in Seq(Record)
        BY Zenon, <1>2, <2>8
      <3> HIDE DEF x, y
      <3>4. x \o Append(y, r) = Append(x \o y, r)
        BY <2>1, <3>3, AppendAfter
      <3> QED
        BY Zenon, <2>6, <3>1, <3>2, <3>4 DEF x, y
    <2>10. CASE ~(~IsPrune(r) /\ r.h = h)
      <3>1. f[i + 1].entries[h] = f[i].entries[h]
        BY Zenon, <1>4, <2>2, <2>10 DEF Applied
      <3>2. g[i + 1] = g[i]
        BY Zenon, <2>1, <2>7, <2>10, AtHeightIs DEF Grown
      <3> QED
        BY Zenon, <2>6, <3>1, <3>2
    <2> QED
      BY Zenon, <2>9, <2>10
  <1>5. ASSUME NEW i \in Nat, i \in S PROVE i + 1 \in S
    <2>1. i + 1 \in Nat
      OBVIOUS
    <2> QED
      BY Zenon, <1>4, <1>5, <2>1
  <1> HIDE DEF S
  <1>6. \A i \in Nat : i \in S
    BY Zenon, <1>3, <1>5, Induction
  <1>7. n <= n
    OBVIOUS
  <1> QED
    BY Zenon, <1>6, <1>7 DEF S, Grew

\* At such a height a replay records the file of every entry.
LEMMA FilesAdded ==
    ASSUME NEW ix, IndexOK(ix), NEW num \in Nat, NEW recs \in Seq(Record), NEW n \in Nat, n = Len(recs),
           NEW f, Replays(f, n, ix, num, recs), NEW h \in Heights
    PROVE  \A i \in Nat : i <= n /\ h > f[i].pruned =>
              /\ ix.byHeight[h] \subseteq f[i].byHeight[h]
              /\ \A j \in 1 .. i : ~IsPrune(recs[j]) /\ recs[j].h = h => num \in f[i].byHeight[h]
  <1>1. /\ f[0] = ix
        /\ \A i \in Nat : i <= n => IndexOK(f[i])
        /\ \A i \in Nat : i + 1 <= n => Applied(f[i], f[i + 1], num, recs[i + 1])
    BY Zenon, ReplaySteps
  <1> DEFINE Has(i) == /\ ix.byHeight[h] \subseteq f[i].byHeight[h]
                       /\ \A j \in 1 .. i : ~IsPrune(recs[j]) /\ recs[j].h = h => num \in f[i].byHeight[h]
             S == {i \in Nat : i <= n /\ h > f[i].pruned => Has(i)}
  <1>2. 0 \in S
    BY <1>1
  <1>3. ASSUME NEW i \in Nat, i \in S, i + 1 <= n, h > f[i + 1].pruned
        PROVE  Has(i + 1)
    <2> DEFINE r == recs[i + 1]
    <2>1. i <= n /\ r \in Record
      BY <1>3
    <2>2. Applied(f[i], f[i + 1], num, r)
      BY Zenon, <1>1, <1>3
    <2>3. f[i].pruned \in Int /\ r.h \in Int
      <3>1. IndexOK(f[i])
        BY Zenon, <1>1, <2>1
      <3>2. f[i].pruned \in 0 .. MaxHeight
        BY Zenon, <3>1 DEF IndexOK
      <3> QED
        BY <2>1, <3>2, RecordHeight
    <2>4. f[i + 1].pruned = IF IsPrune(r) /\ r.h > f[i].pruned THEN r.h ELSE f[i].pruned
      BY Zenon, <2>2 DEF Applied
    <2> HIDE DEF r
    <2>5. h > f[i].pruned
      BY <1>3, <2>3, <2>4 DEF Heights
    <2>6. Has(i)
      BY Zenon, <1>3, <2>1, <2>5
    <2>7. \A j \in 1 .. i + 1 : j \in 1 .. i \/ j = i + 1
      OBVIOUS
    <2>8. /\ f[i].byHeight[h] \subseteq f[i + 1].byHeight[h]
          /\ ~IsPrune(r) /\ r.h = h => num \in f[i + 1].byHeight[h]
      BY Zenon, <1>3, <2>2 DEF Applied
    <2> QED
      BY Zenon, <2>6, <2>7, <2>8 DEF r
  <1> HIDE DEF Has
  <1>4. ASSUME NEW i \in Nat, i \in S PROVE i + 1 \in S
    <2>1. i + 1 \in Nat
      OBVIOUS
    <2> QED
      BY Zenon, <1>3, <1>4, <2>1
  <1> HIDE DEF S
  <1>5. \A i \in Nat : i \in S
    BY Zenon, <1>2, <1>4, Induction
  <1> QED
    BY Zenon, <1>5 DEF S, Has

\* What applying recs of file num to ix amounts to.
Written(ix, new, num, recs) ==
    /\ IndexOK(new)
    /\ Topped(ix.pruned, new.pruned, recs, Len(recs))
    /\ \A h \in Heights : h > new.pruned =>
          /\ new.entries[h] = ix.entries[h] \o Kept(recs, AtHeight(h))
          /\ ix.byHeight[h] \subseteq new.byHeight[h]
          /\ \A j \in 1 .. Len(recs) : ~IsPrune(recs[j]) /\ recs[j].h = h => num \in new.byHeight[h]

\* What ApplyRecords does, for a batch of any length.
LEMMA RecordsApplied ==
    ASSUME NEW ix, IndexOK(ix), NEW num \in Nat, NEW recs \in Seq(Record)
    PROVE  Written(ix, ApplyRecords(ix, num, recs), num, recs)
  <1> DEFINE n == Len(recs)
             new == ApplyRecords(ix, num, recs)
  <1>1. n \in Nat /\ n <= n /\ n = Len(recs)
    OBVIOUS
  <1>2. PICK f : Replays(f, n, ix, num, recs) /\ new = f[n]
    BY Zenon, <1>1, ReplayIs
  <1> HIDE DEF n, new
  <1>3. IndexOK(new)
    BY Zenon, <1>1, <1>2, ReplaySteps
  <1>4. Topped(ix.pruned, new.pruned, recs, n)
    BY Zenon, <1>1, <1>2, ToppedUp
  <1>5. ASSUME NEW h \in Heights, h > new.pruned
        PROVE  /\ new.entries[h] = ix.entries[h] \o Kept(recs, AtHeight(h))
               /\ ix.byHeight[h] \subseteq new.byHeight[h]
               /\ \A j \in 1 .. n : ~IsPrune(recs[j]) /\ recs[j].h = h => num \in new.byHeight[h]
    <2>1. PICK g : Keeps(g, n, recs, AtHeight(h)) /\ Kept(recs, AtHeight(h)) = g[n]
      BY Zenon, <1>1, KeptIs
    <2>2. h > f[n].pruned
      BY Zenon, <1>2, <1>5
    <2>3. f[n].entries[h] = ix.entries[h] \o g[n]
      <3>1. Replays(f, n, ix, num, recs)
        BY <1>2
      <3>2. Keeps(g, n, recs, AtHeight(h))
        BY <2>1
      <3>3. Grew(ix.entries[h], f[n].entries[h], g[n])
        BY Zenon, <1>1, <2>2, <3>1, <3>2, EntriesAdded
      <3> QED
        BY Zenon, <3>3 DEF Grew
    <2>4. /\ ix.byHeight[h] \subseteq f[n].byHeight[h]
          /\ \A j \in 1 .. n : ~IsPrune(recs[j]) /\ recs[j].h = h => num \in f[n].byHeight[h]
      BY Zenon, <1>1, <1>2, <2>2, FilesAdded
    <2> QED
      BY Zenon, <1>2, <2>1, <2>3, <2>4
  <1> QED
    BY Zenon, <1>1, <1>3, <1>4, <1>5 DEF Written, new

-----------------------------------------------------------------------------
\* Loading: the files in order of their numbers.
\* Loading one more file number, and the index after each of the first n.
OneMore(ix, k, fs) == IF k \in DOMAIN fs THEN ApplyRecords(ix, k, fs[k]) ELSE ix
Loads(f, n, fs, mark) == f = [k \in 0 .. n |-> IF k = 0 THEN Fresh(mark) ELSE OneMore(f[k - 1], k, fs)]

\* A load exists for every number of files.
LEMMA LoadExists ==
    ASSUME NEW fs, NEW mark
    PROVE  \A n \in Nat : \E f : Loads(f, n, fs, mark)
  <1> DEFINE S == {n \in Nat : \E f : Loads(f, n, fs, mark)}
  <1>1. 0 \in S
    <2>1. Loads([i \in 0 .. 0 |-> Fresh(mark)], 0, fs, mark)
      BY DEF Loads
    <2> QED
      BY <2>1
  <1>2. ASSUME NEW n \in Nat, n \in S PROVE n + 1 \in S
    <2>1. PICK f : Loads(f, n, fs, mark)
      BY <1>2
    <2> DEFINE g == [i \in 0 .. n + 1 |-> IF i = n + 1 THEN OneMore(f[n], n + 1, fs) ELSE f[i]]
    <2>2. Loads(g, n + 1, fs, mark)
      BY <2>1 DEF Loads
    <2> QED
      BY <2>2
  <1> HIDE DEF S
  <1>3. \A n \in Nat : n \in S
    BY Zenon, <1>1, <1>2, Induction
  <1> QED
    BY <1>3 DEF S

\* A load starts from an empty index at the watermark.
LEMMA LoadBase ==
    ASSUME NEW fs, NEW mark, NEW n \in Nat, NEW f, Loads(f, n, fs, mark)
    PROVE  f[0] = Fresh(mark)
  BY DEF Loads

\* A load takes the files in order.
LEMMA LoadStep ==
    ASSUME NEW fs, NEW mark, NEW n \in Nat, NEW f, Loads(f, n, fs, mark), NEW i \in Nat, i + 1 <= n
    PROVE  f[i + 1] = OneMore(f[i], i + 1, fs)
  BY DEF Loads

\* Files of records, with numbers up to n.
FilesOK(fs, n) ==
    /\ n \in Nat /\ DOMAIN fs \subseteq 1 .. n
    /\ \A k \in DOMAIN fs : fs[k] \in Seq(Record)

\* Loading stops at the latest file; going on to a greater number changes nothing.
LEMMA LoadedIs ==
    ASSUME NEW fs, NEW n, FilesOK(fs, n), NEW mark
    PROVE  \E f : Loads(f, n, fs, mark) /\ Loaded(fs, mark) = f[n]
  <1> DEFINE l == Latest(fs)
  <1>1. l \in DOMAIN fs \union {0} /\ \A k \in DOMAIN fs : k <= l
    <2>1. n \in Nat /\ DOMAIN fs \subseteq Nat /\ \A k \in DOMAIN fs : k <= n
      BY DEF FilesOK
    <2> QED
      BY Zenon, <2>1, LatestIsGreatest
  <1>2. n \in Nat /\ l \in Nat /\ l <= n
    BY <1>1 DEF FilesOK
  <1> DEFINE D(f) == f = [k \in 0 .. l |->
                          IF k = 0 THEN Fresh(mark)
                          ELSE IF k \in DOMAIN fs THEN Once(f[k - 1], LAMBDA ix : ApplyRecords(ix, k, fs[k]))
                          ELSE f[k - 1]]
             e == CHOOSE f : D(f)
  <1>3. Loads(e, l, fs, mark)
    <2>1. \A f : D(f) <=> Loads(f, l, fs, mark)
      BY Zenon DEF Once, Loads, OneMore
    <2>2. \E f : Loads(f, l, fs, mark)
      BY Zenon, <1>2, LoadExists
    <2> QED
      BY Zenon, <2>1, <2>2
  <1>4. Loaded(fs, mark) = e[l]
    BY Zenon DEF Loaded
  <1> HIDE DEF l, e
  <1>5. PICK f : Loads(f, n, fs, mark)
    BY Zenon, <1>2, LoadExists
  <1> DEFINE S == {i \in Nat : i <= l => e[i] = f[i]}
  <1>6. 0 \in S
    <2>1. e[0] = f[0]
      BY Zenon, <1>2, <1>3, <1>5, LoadBase
    <2> QED
      BY Zenon, <2>1
  <1>7. ASSUME NEW i \in Nat, i \in S PROVE i + 1 \in S
    <2>1. ASSUME i + 1 <= l PROVE e[i + 1] = f[i + 1]
      <3>1. i <= l /\ i + 1 <= n
        BY <1>2, <2>1
      <3>2. e[i + 1] = OneMore(e[i], i + 1, fs)
        BY <1>2, <1>3, <2>1, LoadStep
      <3>3. f[i + 1] = OneMore(f[i], i + 1, fs)
        BY <1>2, <1>5, <3>1, LoadStep
      <3> QED
        BY Zenon, <1>7, <3>1, <3>2, <3>3
    <2>2. i + 1 \in Nat
      OBVIOUS
    <2> QED
      BY Zenon, <2>1, <2>2
  <1> HIDE DEF S
  <1>8. \A i \in Nat : i \in S
    BY Zenon, <1>6, <1>7, Induction
  <1>9. e[l] = f[l]
    <2>1. l <= l
      BY <1>2
    <2> QED
      BY Zenon, <1>2, <1>8, <2>1 DEF S
  <1> DEFINE R == {i \in Nat : l + i <= n => f[l + i] = f[l]}
  <1>10. 0 \in R
    <2>1. l + 0 = l
      BY <1>2
    <2> QED
      BY Zenon, <2>1
  <1>11. ASSUME NEW i \in Nat, i \in R PROVE i + 1 \in R
    <2>1. ASSUME l + (i + 1) <= n PROVE f[l + (i + 1)] = f[l]
      <3> DEFINE j == l + i
      <3>1. j \in Nat /\ j + 1 <= n /\ j + 1 = l + (i + 1) /\ l + i <= n /\ ~(j + 1 <= l)
        BY <1>2, <2>1
      <3>2. f[j] = f[l]
        BY Zenon, <1>11, <3>1
      <3> HIDE DEF j
      <3>3. f[j + 1] = OneMore(f[j], j + 1, fs)
        BY <1>2, <1>5, <3>1, LoadStep
      <3>4. j + 1 \notin DOMAIN fs
        BY Zenon, <1>1, <3>1
      <3> QED
        BY Zenon, <3>1, <3>2, <3>3, <3>4 DEF OneMore
    <2>2. i + 1 \in Nat
      OBVIOUS
    <2> QED
      BY Zenon, <2>1, <2>2
  <1> HIDE DEF R
  <1>12. \A i \in Nat : i \in R
    BY Zenon, <1>10, <1>11, Induction
  <1>13. f[n] = f[l]
    <2>1. n - l \in Nat /\ l + (n - l) = n /\ l + (n - l) <= n
      BY <1>2
    <2>2. n - l \in R
      BY Zenon, <1>12, <2>1
    <2> QED
      BY Zenon, <2>1, <2>2 DEF R
  <1> QED
    BY Zenon, <1>4, <1>5, <1>9, <1>13

\* The same, as a predicate.
HasLoad(fs, n, mark) == \E f : Loads(f, n, fs, mark) /\ Loaded(fs, mark) = f[n]

\* Whatever else is known of the files.
LEMMA LoadedHas ==
    ASSUME NEW fs, NEW n, FilesOK(fs, n), NEW mark
    PROVE  HasLoad(fs, n, mark)
  BY Zenon, LoadedIs DEF HasLoad

\* The empty index is in order.
LEMMA FreshOK ==
    ASSUME NEW mark \in 0 .. MaxHeight
    PROVE  /\ IndexOK(Fresh(mark)) /\ Fresh(mark).pruned = mark
           /\ \A h \in Heights : Fresh(mark).entries[h] = <<>>
  <1>1. /\ Fresh(mark).entries = [h \in Heights |-> <<>>] /\ Fresh(mark).byHeight = [h \in Heights |-> {}]
        /\ Fresh(mark).refs = <<>> /\ Fresh(mark).pruned = mark
    BY DEF Fresh
  <1>2. IsIndex(Fresh(mark))
    BY DEF Fresh, IsIndex
  <1>3. /\ Fresh(mark).entries \in [Heights -> Seq(Entry)] /\ Fresh(mark).byHeight \in [Heights -> SUBSET Nat]
        /\ DOMAIN Fresh(mark).refs = {}
    BY <1>1
  <1>4. \A k : HeightsIn(Fresh(mark), k) = {}
    BY <1>1 DEF HeightsIn
  <1>5. \A h \in Heights : Fresh(mark).entries[h] = <<>> /\ Fresh(mark).byHeight[h] = {}
    BY <1>1
  <1>6. \A k : k \in DOMAIN Fresh(mark).refs <=> HeightsIn(Fresh(mark), k) # {}
    BY <1>3, <1>4
  <1>7. Fresh(mark).pruned = mark
    BY <1>1
  <1> QED
    BY Zenon, <1>2, <1>3, <1>5, <1>6, <1>7 DEF IndexOK

\* One file number of a load: the file is replayed, or there is none.
OneLoaded(old, new, k, fs) == IF k \in DOMAIN fs THEN Written(old, new, k, fs[k]) ELSE new = old
Steps(f, n, fs) ==
    /\ \A i \in Nat : i <= n => IndexOK(f[i])
    /\ \A i \in Nat : i + 1 <= n => OneLoaded(f[i], f[i + 1], i + 1, fs)

\* Every step of a load (loadExistingEntries) replays its file.
LEMMA LoadSteps ==
    ASSUME NEW fs, NEW n, FilesOK(fs, n), NEW mark \in 0 .. MaxHeight, NEW f, Loads(f, n, fs, mark)
    PROVE  Steps(f, n, fs)
  <1>0. n \in Nat
    BY DEF FilesOK
  <1>1. f[0] = Fresh(mark)
    BY Zenon, <1>0, LoadBase
  <1>2. ASSUME NEW i \in Nat, i + 1 <= n, IndexOK(f[i])
        PROVE  OneLoaded(f[i], f[i + 1], i + 1, fs)
    <2>1. f[i + 1] = OneMore(f[i], i + 1, fs)
      BY <1>0, <1>2, LoadStep
    <2>2. CASE i + 1 \in DOMAIN fs
      <3>1. fs[i + 1] \in Seq(Record) /\ i + 1 \in Nat
        BY <2>2 DEF FilesOK
      <3>2. Written(f[i], ApplyRecords(f[i], i + 1, fs[i + 1]), i + 1, fs[i + 1])
        BY Zenon, <1>2, <3>1, RecordsApplied
      <3> QED
        BY Zenon, <2>1, <2>2, <3>2 DEF OneMore, OneLoaded
    <2>3. CASE i + 1 \notin DOMAIN fs
      BY Zenon, <2>1, <2>3 DEF OneMore, OneLoaded
    <2> QED
      BY Zenon, <2>2, <2>3
  <1> DEFINE S == {i \in Nat : i <= n => IndexOK(f[i])}
  <1>3. 0 \in S
    BY Zenon, <1>1, FreshOK
  <1>4. ASSUME NEW i \in Nat, i \in S PROVE i + 1 \in S
    <2>1. ASSUME i + 1 <= n PROVE IndexOK(f[i + 1])
      <3>1. i <= n
        BY <1>0, <2>1
      <3>2. IndexOK(f[i])
        BY Zenon, <1>4, <3>1
      <3> QED
        BY Zenon, <1>2, <2>1, <3>2 DEF OneLoaded, Written
    <2>2. i + 1 \in Nat
      OBVIOUS
    <2> QED
      BY Zenon, <2>1, <2>2
  <1> HIDE DEF S
  <1>5. \A i \in Nat : i \in S
    BY Zenon, <1>3, <1>4, Induction
  <1>6. \A i \in Nat : i <= n => IndexOK(f[i])
    BY Zenon, <1>5 DEF S
  <1>7. ASSUME NEW i \in Nat, i + 1 <= n
        PROVE  OneLoaded(f[i], f[i + 1], i + 1, fs)
    <2>1. i <= n
      BY <1>0, <1>7
    <2> QED
      BY Zenon, <1>2, <1>6, <1>7, <2>1
  <1> QED
    BY Zenon, <1>6, <1>7 DEF Steps

\* A record is accounted for: it is below the watermark, or its file is known to hold its height.
CoveredBy(rec, k, ix) == rec.h <= ix.pruned \/ k \in ix.byHeight[rec.h]
Covers(ix, fs) == \A k \in DOMAIN fs : \A j \in 1 .. Len(fs[k]) : CoveredBy(fs[k][j], k, ix)
\* Records that a store pruned up to the height mark has no use for.
Below(recs, mark) == \A j \in 1 .. Len(recs) : recs[j].h <= mark
\* The same contents; the files they are in may differ.
Same(a, b) == a.entries = b.entries /\ a.pruned = b.pruned

\* What the index covers it still covers after another batch.
LEMMA WrittenKeeps ==
    ASSUME NEW ix, IndexOK(ix), NEW new, NEW num, NEW recs, Written(ix, new, num, recs),
           NEW rec \in Record, NEW k, CoveredBy(rec, k, ix)
    PROVE  CoveredBy(rec, k, new)
  <1>1. /\ ix.pruned \in Int /\ new.pruned \in Int /\ ix.pruned <= new.pruned
        /\ rec.h \in Heights /\ rec.h \in Int
    <2>1. IndexOK(new) /\ ix.pruned <= new.pruned
      BY Zenon DEF Written, Topped
    <2> QED
      BY Zenon, <2>1, PrunedInt, RecordHeight
  <1>2. CASE rec.h <= ix.pruned
    BY Zenon, <1>1, <1>2, AtMost DEF CoveredBy
  <1>3. CASE k \in ix.byHeight[rec.h]
    <2>1. CASE rec.h > new.pruned
      BY <1>1, <1>3, <2>1 DEF Written, CoveredBy
    <2>2. CASE ~(rec.h > new.pruned)
      BY <1>1, <2>2 DEF CoveredBy
    <2> QED
      BY <2>1, <2>2
  <1> QED
    BY <1>2, <1>3 DEF CoveredBy

\* The index covers the records of a batch once they are applied.
LEMMA WrittenCovers ==
    ASSUME NEW ix, NEW new, NEW num, NEW recs \in Seq(Record), Written(ix, new, num, recs),
           NEW j \in 1 .. Len(recs)
    PROVE  CoveredBy(recs[j], num, new)
  <1>1. recs[j] \in Record
    OBVIOUS
  <1>2. new.pruned \in Int /\ recs[j].h \in Heights /\ recs[j].h \in Int
    <2>1. IndexOK(new)
      BY Zenon DEF Written
    <2> QED
      BY Zenon, <1>1, <2>1, PrunedInt, RecordHeight
  <1>3. CASE IsPrune(recs[j])
    BY <1>3 DEF Written, Topped, CoveredBy
  <1>4. CASE ~IsPrune(recs[j])
    <2>1. CASE recs[j].h > new.pruned
      BY <1>2, <1>4, <2>1 DEF Written, CoveredBy
    <2>2. CASE ~(recs[j].h > new.pruned)
      BY <1>2, <2>2 DEF CoveredBy
    <2> QED
      BY <2>1, <2>2
  <1> QED
    BY <1>3, <1>4

\* Every file written so far is covered after each step of the load.
LEMMA LoadCovers ==
    ASSUME NEW fs, NEW n, FilesOK(fs, n), NEW mark \in 0 .. MaxHeight, NEW f, Loads(f, n, fs, mark)
    PROVE  Covers(f[n], fs)
  <1>0. n \in Nat /\ DOMAIN fs \subseteq 1 .. n /\ \A k \in DOMAIN fs : fs[k] \in Seq(Record)
    BY DEF FilesOK
  <1>1. Steps(f, n, fs)
    BY Zenon, LoadSteps
  <1> DEFINE S == {i \in Nat : i <= n => \A k \in DOMAIN fs : k <= i =>
                                  \A j \in 1 .. Len(fs[k]) : CoveredBy(fs[k][j], k, f[i])}
  <1>2. 0 \in S
    BY <1>0
  <1>3. ASSUME NEW i \in Nat, i \in S PROVE i + 1 \in S
    <2>1. ASSUME i + 1 <= n, NEW k \in DOMAIN fs, k <= i + 1, NEW j \in 1 .. Len(fs[k])
          PROVE  CoveredBy(fs[k][j], k, f[i + 1])
      <3>1. i <= n /\ k \in Nat /\ (k <= i \/ k = i + 1)
        BY <1>0, <2>1
      <3>2. IndexOK(f[i])
        BY Zenon, <1>1, <3>1 DEF Steps
      <3>3. fs[k] \in Seq(Record)
        BY Zenon, <1>0
      <3>4. fs[k][j] \in Record
        BY <3>3
      <3>5. CASE k <= i
        <4>1. CoveredBy(fs[k][j], k, f[i])
          BY Zenon, <1>3, <3>1, <3>5
        <4>2. CASE i + 1 \in DOMAIN fs
          <5>1. Written(f[i], f[i + 1], i + 1, fs[i + 1])
            BY Zenon, <1>1, <2>1, <4>2 DEF Steps, OneLoaded
          <5> QED
            BY <3>2, <3>4, <4>1, <5>1, WrittenKeeps
        <4>3. CASE i + 1 \notin DOMAIN fs
          BY Zenon, <1>1, <2>1, <4>1, <4>3 DEF Steps, OneLoaded
        <4> QED
          BY Zenon, <4>2, <4>3
      <3>6. CASE k = i + 1
        <4>1. Written(f[i], f[i + 1], k, fs[k])
          BY Zenon, <1>1, <2>1, <3>6 DEF Steps, OneLoaded
        <4> QED
          BY Zenon, <3>3, <4>1, WrittenCovers
      <3> QED
        BY Zenon, <3>1, <3>5, <3>6
    <2>2. i + 1 \in Nat
      OBVIOUS
    <2> QED
      BY Zenon, <2>1, <2>2
  <1> HIDE DEF S
  <1>4. n \in S
    BY Zenon, <1>0, <1>2, <1>3, Induction
  <1>5. n <= n /\ \A k \in DOMAIN fs : k <= n
    BY <1>0
  <1> QED
    BY Zenon, <1>4, <1>5 DEF S, Covers

\* The watermark only rises while files are loaded.
LEMMA LoadRises ==
    ASSUME NEW fs, NEW n, FilesOK(fs, n), NEW mark \in 0 .. MaxHeight, NEW f, Loads(f, n, fs, mark)
    PROVE  /\ \A i \in Nat : i <= n => mark <= f[i].pruned /\ f[i].pruned \in 0 .. MaxHeight
           /\ \A i \in Nat : i + 1 <= n => f[i].pruned <= f[i + 1].pruned
  <1>0. n \in Nat
    BY DEF FilesOK
  <1>1. Steps(f, n, fs)
    BY Zenon, LoadSteps
  <1>2. \A i \in Nat : i <= n => f[i].pruned \in 0 .. MaxHeight
    BY Zenon, <1>1 DEF IndexOK, Steps
  <1>3. ASSUME NEW i \in Nat, i + 1 <= n PROVE f[i].pruned <= f[i + 1].pruned
    <2>1. i <= n
      BY <1>0, <1>3
    <2>2. f[i].pruned <= f[i].pruned
      BY <1>2, <2>1
    <2> QED
      BY Zenon, <1>1, <1>3, <2>2 DEF Written, Topped, Steps, OneLoaded
  <1> DEFINE S == {i \in Nat : i <= n => mark <= f[i].pruned}
  <1>4. 0 \in S
    <2>1. f[0].pruned = mark
      <3>1. f[0] = Fresh(mark)
        BY Zenon, <1>0, LoadBase
      <3> QED
        BY Zenon, <3>1, FreshOK
    <2>2. mark <= mark
      OBVIOUS
    <2> QED
      BY Zenon, <2>1, <2>2
  <1>5. ASSUME NEW i \in Nat, i \in S PROVE i + 1 \in S
    <2>1. ASSUME i + 1 <= n PROVE mark <= f[i + 1].pruned
      <3>1. i <= n /\ i + 1 \in Nat
        BY <1>0, <2>1
      <3>2. mark <= f[i].pruned /\ f[i].pruned <= f[i + 1].pruned
        BY Zenon, <1>3, <1>5, <2>1, <3>1
      <3>3. f[i].pruned \in 0 .. MaxHeight /\ f[i + 1].pruned \in 0 .. MaxHeight
        BY Zenon, <1>2, <2>1, <3>1
      <3> QED
        BY <3>2, <3>3
    <2>2. i + 1 \in Nat
      OBVIOUS
    <2> QED
      BY Zenon, <2>1, <2>2
  <1> HIDE DEF S
  <1>6. \A i \in Nat : i \in S
    BY Zenon, <1>4, <1>5, Induction
  <1> QED
    BY Zenon, <1>2, <1>3, <1>6 DEF S

\* What the load of a directory comes to.
LEMMA LoadedOK ==
    ASSUME NEW fs, NEW n, FilesOK(fs, n), NEW mark \in 0 .. MaxHeight
    PROVE  /\ IndexOK(Loaded(fs, mark)) /\ Covers(Loaded(fs, mark), fs)
           /\ mark <= Loaded(fs, mark).pruned
  <1>1. PICK f : Loads(f, n, fs, mark) /\ Loaded(fs, mark) = f[n]
    BY Zenon, LoadedIs
  <1>2. Loads(f, n, fs, mark)
    BY Zenon, <1>1
  <1>3. n \in Nat /\ n <= n
    BY DEF FilesOK
  <1>4. Steps(f, n, fs)
    BY Zenon, <1>2, LoadSteps
  <1>5. IndexOK(f[n])
    BY Zenon, <1>3, <1>4 DEF Steps
  <1>6. Covers(f[n], fs)
    BY Zenon, <1>2, LoadCovers
  <1>7. \A i \in Nat : i <= n => mark <= f[i].pruned /\ f[i].pruned \in 0 .. MaxHeight
    BY Zenon, <1>2, LoadRises
  <1> QED
    BY Zenon, <1>1, <1>3, <1>5, <1>6, <1>7

\* Records that are all below the watermark change nothing.
Ignored(ix, num, recs) == ApplyRecords(ix, num, recs) = ix

\* Records at or below the pruned height change nothing.
LEMMA BelowIgnored ==
    ASSUME NEW ix, NEW num, NEW recs \in Seq(Record), Below(recs, ix.pruned)
    PROVE  Ignored(ix, num, recs)
  <1> DEFINE n == Len(recs)
  <1>1. n \in Nat
    OBVIOUS
  <1>2. PICK f : Replays(f, n, ix, num, recs) /\ ApplyRecords(ix, num, recs) = f[n]
    BY Zenon, <1>1, ReplayIs
  <1> DEFINE S == {i \in Nat : i <= n => f[i] = ix}
  <1>3. 0 \in S
    BY <1>1, <1>2 DEF Replays
  <1>4. ASSUME NEW i \in Nat, i \in S PROVE i + 1 \in S
    <2>1. ASSUME i + 1 <= n PROVE f[i + 1] = ix
      <3>1. f[i] = ix /\ i + 1 \in 1 .. Len(recs)
        BY <1>1, <1>4, <2>1
      <3>2. f[i + 1] = ApplyRecord(f[i], num, recs[i + 1])
        BY <1>1, <1>2, <2>1 DEF Replays
      <3>3. recs[i + 1].h <= ix.pruned
        BY Zenon, <3>1 DEF Below
      <3> QED
        BY Zenon, <3>1, <3>2, <3>3 DEF ApplyRecord
    <2>2. i + 1 \in Nat
      OBVIOUS
    <2> QED
      BY Zenon, <2>1, <2>2
  <1> HIDE DEF S
  <1>5. n \in S
    BY Zenon, <1>1, <1>3, <1>4, Induction
  <1>6. n <= n
    BY <1>1
  <1> QED
    BY Zenon, <1>2, <1>5, <1>6 DEF S, Ignored

\* Two directories that differ only in files with nothing above the watermark.
AlikeAt(fs, gs, k, mark) ==
    \/ k \in DOMAIN fs /\ k \in DOMAIN gs /\ fs[k] = gs[k]
    \/ /\ k \in DOMAIN fs => Below(fs[k], mark)
       /\ k \in DOMAIN gs => Below(gs[k], mark)

\* Nor does a file of such records when it is loaded.
LEMMA OneIgnored ==
    ASSUME NEW fs, NEW n, FilesOK(fs, n), NEW k, NEW mark \in 0 .. MaxHeight, NEW ix,
           ix.pruned \in 0 .. MaxHeight, mark <= ix.pruned, k \in DOMAIN fs => Below(fs[k], mark)
    PROVE  OneMore(ix, k, fs) = ix
  <1>1. CASE k \notin DOMAIN fs
    BY Zenon, <1>1 DEF OneMore
  <1>2. CASE k \in DOMAIN fs
    <2>1. fs[k] \in Seq(Record)
      BY Zenon, <1>2 DEF FilesOK
    <2>2. Below(fs[k], ix.pruned)
      <3>1. ASSUME NEW j \in 1 .. Len(fs[k]) PROVE fs[k][j].h <= ix.pruned
        <4>1. fs[k][j] \in Record
          BY <2>1
        <4>2. fs[k][j].h \in Int
          BY <4>1, RecordHeight
        <4>3. fs[k][j].h <= mark
          BY Zenon, <1>2 DEF Below
        <4> QED
          BY <4>2, <4>3
      <3> QED
        BY Zenon, <3>1 DEF Below
    <2>3. Ignored(ix, k, fs[k])
      BY Zenon, <2>1, <2>2, BelowIgnored
    <2> QED
      BY Zenon, <1>2, <2>3 DEF Ignored, OneMore
  <1> QED
    BY Zenon, <1>1, <1>2

\* Directories that differ only in such files load to the same index.
LEMMA LoadedAlike ==
    ASSUME NEW fs, NEW gs, NEW n, FilesOK(fs, n), FilesOK(gs, n), NEW mark \in 0 .. MaxHeight,
           \A k \in 1 .. n : AlikeAt(fs, gs, k, mark)
    PROVE  Loaded(gs, mark) = Loaded(fs, mark)
  <1>1. PICK f : Loads(f, n, fs, mark) /\ Loaded(fs, mark) = f[n]
    BY Zenon, LoadedIs
  <1>2. PICK g : Loads(g, n, gs, mark) /\ Loaded(gs, mark) = g[n]
    BY Zenon, LoadedIs
  <1>3. Loads(f, n, fs, mark)
    BY Zenon, <1>1
  <1>4. Loads(g, n, gs, mark)
    BY Zenon, <1>2
  <1>5. n \in Nat /\ n <= n
    BY DEF FilesOK
  <1>6. \A i \in Nat : i <= n => mark <= f[i].pruned /\ f[i].pruned \in 0 .. MaxHeight
    BY Zenon, <1>3, LoadRises
  <1> DEFINE S == {i \in Nat : i <= n => g[i] = f[i]}
  <1>7. 0 \in S
    <2>1. f[0] = Fresh(mark)
      BY Zenon, <1>3, <1>5, LoadBase
    <2>2. g[0] = Fresh(mark)
      BY Zenon, <1>4, <1>5, LoadBase
    <2> QED
      BY Zenon, <2>1, <2>2
  <1>8. ASSUME NEW i \in Nat, i \in S PROVE i + 1 \in S
    <2>1. ASSUME i + 1 <= n PROVE g[i + 1] = f[i + 1]
      <3> DEFINE k == i + 1
      <3>1. i <= n /\ k \in 1 .. n
        BY <1>5, <2>1
      <3>2. g[i] = f[i] /\ mark <= f[i].pruned /\ f[i].pruned \in 0 .. MaxHeight
        BY Zenon, <1>6, <1>8, <3>1
      <3>3. f[i + 1] = OneMore(f[i], i + 1, fs)
        BY <1>3, <1>5, <2>1, LoadStep
      <3>4. g[i + 1] = OneMore(g[i], i + 1, gs)
        BY <1>4, <1>5, <2>1, LoadStep
      <3>5. AlikeAt(fs, gs, k, mark)
        BY Zenon, <3>1
      <3>6. f[k] = OneMore(f[i], k, fs) /\ g[k] = OneMore(f[i], k, gs)
        BY Zenon, <3>2, <3>3, <3>4
      <3> DEFINE ix == f[i]
      <3> SUFFICES g[k] = f[k]
        OBVIOUS
      <3> HIDE DEF k, ix
      <3>7. CASE k \in DOMAIN fs /\ k \in DOMAIN gs /\ fs[k] = gs[k]
        BY Zenon, <3>6, <3>7 DEF OneMore
      <3>8. CASE /\ k \in DOMAIN fs => Below(fs[k], mark)
                 /\ k \in DOMAIN gs => Below(gs[k], mark)
        <4>1. mark <= ix.pruned /\ ix.pruned \in 0 .. MaxHeight
          BY Zenon, <3>2 DEF ix
        <4>2. OneMore(ix, k, fs) = ix
          BY Zenon, <3>8, <4>1, OneIgnored
        <4>3. OneMore(ix, k, gs) = ix
          BY Zenon, <3>8, <4>1, OneIgnored
        <4> QED
          BY Zenon, <3>6, <4>2, <4>3 DEF ix
      <3> QED
        BY Zenon, <3>5, <3>7, <3>8 DEF AlikeAt
    <2>2. i + 1 \in Nat
      OBVIOUS
    <2> QED
      BY Zenon, <2>1, <2>2
  <1> HIDE DEF S
  <1>9. n \in S
    BY Zenon, <1>5, <1>7, <1>8, Induction
  <1> QED
    BY Zenon, <1>1, <1>2, <1>5, <1>9 DEF S

-----------------------------------------------------------------------------
\* A watermark that lags behind the pruned height.
\* b has the contents of a above a watermark that is m or that of a.
Lagging(a, b, m) ==
    /\ a.pruned <= b.pruned /\ m <= b.pruned
    /\ b.pruned = m \/ b.pruned = a.pruned
    /\ \A h \in Heights : h > b.pruned => b.entries[h] = a.entries[h]

\* One batch brings two pruned heights together, or leaves the second at the mark.
LEMMA ToppedLagging ==
    ASSUME NEW recs \in Seq(Record), NEW m \in Int, NEW fp \in Int, NEW gp \in Int, NEW fq \in Int, NEW gq \in Int,
           Topped(fp, fq, recs, Len(recs)), Topped(gp, gq, recs, Len(recs)),
           fp <= gp, m <= gp, gp = m \/ gp = fp
    PROVE  fq <= gq /\ m <= gq /\ (gq = m \/ gq = fq)
  <1>1. fq <= gq
    <2>1. CASE fq = fp
      BY <2>1 DEF Topped
    <2>2. CASE fq # fp
      BY <2>2 DEF Topped
    <2> QED
      BY <2>1, <2>2
  <1>2. m <= gq /\ fp <= fq
    BY DEF Topped
  <1>3. CASE gq = gp
    BY <1>1, <1>2, <1>3
  <1>4. CASE gq # gp
    <2>1. gq <= fq
      BY <1>4 DEF Topped
    <2> QED
      BY <1>1, <1>2, <2>1
  <1> QED
    BY <1>1, <1>2, <1>3, <1>4

\* A batch applied to two indexes that agree above the mark.
LEMMA WrittenLagging ==
    ASSUME NEW a, IndexOK(a), NEW b, IndexOK(b), NEW c, NEW d, NEW i, NEW j, NEW recs \in Seq(Record),
           Written(a, c, i, recs), Written(b, d, j, recs), NEW m \in 0 .. MaxHeight, Lagging(a, b, m)
    PROVE  Lagging(c, d, m)
  <1>1. /\ a.pruned \in Int /\ b.pruned \in Int /\ c.pruned \in Int /\ d.pruned \in Int /\ m \in Int
    <2>1. IndexOK(c) /\ IndexOK(d)
      BY Zenon DEF Written
    <2>2. m \in Int
      OBVIOUS
    <2> QED
      BY Zenon, <2>1, <2>2, PrunedInt
  <1>2. /\ Topped(a.pruned, c.pruned, recs, Len(recs)) /\ Topped(b.pruned, d.pruned, recs, Len(recs))
        /\ a.pruned <= b.pruned /\ m <= b.pruned /\ (b.pruned = m \/ b.pruned = a.pruned)
    BY Zenon DEF Written, Lagging
  <1>3. c.pruned <= d.pruned /\ m <= d.pruned /\ (d.pruned = m \/ d.pruned = c.pruned)
    BY Zenon, <1>1, <1>2, ToppedLagging
  <1>4. ASSUME NEW h \in Heights, h > d.pruned PROVE d.entries[h] = c.entries[h]
    <2>1. b.pruned <= d.pruned
      BY Zenon, <1>2 DEF Topped
    <2>2. h > c.pruned /\ h > b.pruned
      BY <1>1, <1>3, <1>4, <2>1 DEF Heights
    <2>3. d.entries[h] = b.entries[h] \o Kept(recs, AtHeight(h))
      BY Zenon, <1>4 DEF Written
    <2>4. c.entries[h] = a.entries[h] \o Kept(recs, AtHeight(h))
      BY Zenon, <2>2 DEF Written
    <2> QED
      BY Zenon, <2>2, <2>3, <2>4 DEF Lagging
  <1> QED
    BY Zenon, <1>3, <1>4 DEF Lagging

\* Once the first index has passed the mark as well, the two have the same contents.
LEMMA LaggingSame ==
    ASSUME NEW a, IndexOK(a), NEW b, IndexOK(b), NEW m \in 0 .. MaxHeight, Lagging(a, b, m), m <= a.pruned
    PROVE  Same(b, a)
  <1>1. a.pruned \in Int /\ b.pruned \in Int /\ a.pruned = b.pruned
    BY DEF IndexOK, Lagging
  <1>2. ASSUME NEW h \in Heights PROVE b.entries[h] = a.entries[h]
    <2>1. CASE h > b.pruned
      BY Zenon, <2>1 DEF Lagging
    <2>2. CASE ~(h > b.pruned)
      <3>1. h <= b.pruned /\ h <= a.pruned
        BY <1>1, <2>2 DEF Heights
      <3>2. b.entries[h] = <<>>
        BY <3>1 DEF IndexOK
      <3>3. a.entries[h] = <<>>
        BY <3>1 DEF IndexOK
      <3> QED
        BY Zenon, <3>2, <3>3
    <2> QED
      BY Zenon, <2>1, <2>2
  <1>3. a.entries \in [Heights -> Seq(Entry)] /\ b.entries \in [Heights -> Seq(Entry)]
    BY Zenon DEF IndexOK
  <1>4. a.entries = b.entries
    BY <1>2, <1>3
  <1> QED
    BY Zenon, <1>1, <1>4 DEF Same

\* Indexes with the same contents agree above every height.
LEMMA SameLagging ==
    ASSUME NEW a, IndexOK(a), NEW b, Same(b, a)
    PROVE  Lagging(a, b, 0)
  <1>1. a.pruned \in Nat /\ a.pruned = b.pruned /\ a.entries = b.entries
    BY SizesAssumption DEF IndexOK, Same
  <1>2. a.pruned <= b.pruned /\ 0 <= b.pruned
    BY <1>1
  <1> QED
    BY Zenon, <1>1, <1>2 DEF Lagging

\* The same records applied to the same contents, whatever files they are in.
LEMMA SameWritten ==
    ASSUME NEW a, IndexOK(a), NEW b, IndexOK(b), Same(b, a), NEW i \in Nat, NEW j \in Nat, NEW recs \in Seq(Record)
    PROVE  Same(ApplyRecords(b, j, recs), ApplyRecords(a, i, recs))
  <1> DEFINE c == ApplyRecords(a, i, recs)
             d == ApplyRecords(b, j, recs)
  <1>1. Written(a, c, i, recs)
    BY Zenon, RecordsApplied
  <1>2. Written(b, d, j, recs)
    BY Zenon, RecordsApplied
  <1> SUFFICES Same(d, c)
    OBVIOUS
  <1> HIDE DEF c, d
  <1>3. 0 \in 0 .. MaxHeight
    BY SizesAssumption
  <1>4. Lagging(c, d, 0)
    <2>1. Lagging(a, b, 0)
      BY Zenon, SameLagging
    <2> QED
      BY Zenon, <1>1, <1>2, <1>3, <2>1, WrittenLagging
  <1>5. IndexOK(c) /\ IndexOK(d)
    BY Zenon, <1>1, <1>2 DEF Written
  <1>6. 0 <= c.pruned
    BY Zenon, <1>5, PrunedInt
  <1> QED
    BY Zenon, <1>3, <1>4, <1>5, <1>6, LaggingSame

\* Loading above a watermark that the records have anyway.
LEMMA LoadedMark ==
    ASSUME NEW fs, NEW n, FilesOK(fs, n), NEW mark \in 0 .. MaxHeight, NEW top \in 0 .. MaxHeight,
           mark <= top, top <= Loaded(fs, mark).pruned
    PROVE  Same(Loaded(fs, top), Loaded(fs, mark))
  <1>1. PICK f : Loads(f, n, fs, mark) /\ Loaded(fs, mark) = f[n]
    BY Zenon, LoadedIs
  <1>2. PICK g : Loads(g, n, fs, top) /\ Loaded(fs, top) = g[n]
    BY Zenon, LoadedIs
  <1>3. Loads(f, n, fs, mark)
    BY Zenon, <1>1
  <1>4. Loads(g, n, fs, top)
    BY Zenon, <1>2
  <1>5. n \in Nat /\ n <= n /\ 0 <= n /\ \A k \in DOMAIN fs : fs[k] \in Seq(Record)
    BY DEF FilesOK
  <1>6. Steps(f, n, fs)
    BY Zenon, <1>3, LoadSteps
  <1>7. Steps(g, n, fs)
    BY Zenon, <1>4, LoadSteps
  <1> DEFINE S == {i \in Nat : i <= n => Lagging(f[i], g[i], top)}
  <1>8. 0 \in S
    <2>1. f[0] = Fresh(mark)
      BY Zenon, <1>3, <1>5, LoadBase
    <2>2. g[0] = Fresh(top)
      BY Zenon, <1>4, <1>5, LoadBase
    <2>3. f[0].pruned = mark /\ \A h \in Heights : f[0].entries[h] = <<>>
      BY <2>1 DEF Fresh
    <2>4. g[0].pruned = top /\ \A h \in Heights : g[0].entries[h] = <<>>
      BY <2>2 DEF Fresh
    <2>5. top <= top
      OBVIOUS
    <2>6. Lagging(f[0], g[0], top)
      BY Zenon, <2>3, <2>4, <2>5 DEF Lagging
    <2> QED
      BY Zenon, <2>6
  <1>9. ASSUME NEW i \in Nat, i \in S PROVE i + 1 \in S
    <2>1. ASSUME i + 1 <= n PROVE Lagging(f[i + 1], g[i + 1], top)
      <3>1. i <= n
        BY <1>5, <2>1
      <3>2. Lagging(f[i], g[i], top)
        BY Zenon, <1>9, <3>1
      <3>3. IndexOK(f[i])
        BY Zenon, <1>6, <3>1 DEF Steps
      <3>4. IndexOK(g[i])
        BY Zenon, <1>7, <3>1 DEF Steps
      <3>5. CASE i + 1 \notin DOMAIN fs
        BY Zenon, <1>6, <1>7, <2>1, <3>2, <3>5 DEF Steps, OneLoaded
      <3>6. CASE i + 1 \in DOMAIN fs
        <4>1. Written(f[i], f[i + 1], i + 1, fs[i + 1])
          BY Zenon, <1>6, <2>1, <3>6 DEF Steps, OneLoaded
        <4>2. Written(g[i], g[i + 1], i + 1, fs[i + 1])
          BY Zenon, <1>7, <2>1, <3>6 DEF Steps, OneLoaded
        <4>3. fs[i + 1] \in Seq(Record)
          BY Zenon, <1>5, <3>6
        <4> DEFINE k == i + 1
                   more == fs[k]
                   a == f[i]
                   b == g[i]
                   c == f[k]
                   d == g[k]
        <4>4. /\ IndexOK(a) /\ IndexOK(b) /\ more \in Seq(Record) /\ Lagging(a, b, top)
              /\ Written(a, c, k, more) /\ Written(b, d, k, more)
          BY Zenon, <3>2, <3>3, <3>4, <4>1, <4>2, <4>3
        <4> SUFFICES Lagging(c, d, top)
          BY Zenon
        <4> HIDE DEF k, more, a, b, c, d
        <4> QED
          BY Zenon, <4>4, WrittenLagging
      <3> QED
        BY Zenon, <3>5, <3>6
    <2>2. i + 1 \in Nat
      OBVIOUS
    <2> QED
      BY Zenon, <2>1, <2>2
  <1> HIDE DEF S
  <1>10. n \in S
    BY Zenon, <1>5, <1>8, <1>9, Induction
  <1>11. Lagging(f[n], g[n], top)
    BY Zenon, <1>5, <1>10 DEF S
  <1>12. IndexOK(f[n])
    BY Zenon, <1>5, <1>6 DEF Steps
  <1>13. IndexOK(g[n])
    BY Zenon, <1>5, <1>7 DEF Steps
  <1>14. top <= f[n].pruned
    BY Zenon, <1>1
  <1>15. Same(g[n], f[n])
    BY Zenon, <1>11, <1>12, <1>13, <1>14, LaggingSame
  <1> QED
    BY Zenon, <1>1, <1>2, <1>15

\* One more record of a replay.
LEMMA ReplayStep ==
    ASSUME NEW ix, NEW num, NEW recs, NEW n \in Nat, NEW f, Replays(f, n, ix, num, recs), NEW i \in Nat, i + 1 <= n
    PROVE  f[i + 1] = ApplyRecord(f[i], num, recs[i + 1])
  BY DEF Replays

\* Two batches applied as one.
AsOne(ix, num, a, b) == ApplyRecords(ix, num, a \o b) = ApplyRecords(ApplyRecords(ix, num, a), num, b)

\* A file that was written in two batches is replayed like one.
LEMMA ApplyConcat ==
    ASSUME NEW ix, NEW num, NEW T, NEW a \in Seq(T), NEW b \in Seq(T)
    PROVE  AsOne(ix, num, a, b)
  <1> DEFINE c == a \o b
             la == Len(a)
             lb == Len(b)
             iy == ApplyRecords(ix, num, a)
  <1>1. la \in Nat /\ lb \in Nat /\ la + lb \in Nat /\ la <= la /\ lb <= lb /\ la + 0 = la
    OBVIOUS
  <1>2. Len(c) = la + lb /\ \A i \in Nat : i + 1 <= la => a[i + 1] = c[i + 1]
    OBVIOUS
  <1>3. \A i \in Nat : i + 1 <= lb => c[la + (i + 1)] = b[i + 1]
    OBVIOUS
  <1>4. PICK f : Replays(f, la, ix, num, a) /\ iy = f[la]
    BY Zenon, <1>1, ReplayIs
  <1>5. PICK g : Replays(g, lb, iy, num, b) /\ ApplyRecords(iy, num, b) = g[lb]
    <2> HIDE DEF iy
    <2> QED
      BY Zenon, <1>1, ReplayIs
  <1>6. PICK e : Replays(e, Len(c), ix, num, c) /\ ApplyRecords(ix, num, c) = e[Len(c)]
    BY Zenon, <1>1, <1>2, ReplayIs
  <1>7. Replays(e, la + lb, ix, num, c) /\ ApplyRecords(ix, num, c) = e[la + lb]
    BY Zenon, <1>2, <1>6
  <1> SUFFICES ApplyRecords(ix, num, c) = ApplyRecords(iy, num, b)
    BY Zenon DEF AsOne
  <1> HIDE DEF c, la, lb, iy
  <1>8. Replays(f, la, ix, num, a)
    BY <1>4
  <1>9. Replays(g, lb, iy, num, b)
    BY <1>5
  <1>10. Replays(e, la + lb, ix, num, c)
    BY <1>7
  <1>11. f[0] = ix /\ g[0] = iy /\ e[0] = ix
    BY <1>1, <1>8, <1>9, <1>10 DEF Replays
  <1> DEFINE S == {i \in Nat : i <= la => e[i] = f[i]}
  <1>12. 0 \in S
    BY Zenon, <1>11
  <1>13. ASSUME NEW i \in Nat, i \in S PROVE i + 1 \in S
    <2>1. ASSUME i + 1 <= la PROVE e[i + 1] = f[i + 1]
      <3>1. i <= la /\ i + 1 <= la + lb
        BY <1>1, <2>1
      <3>2. e[i + 1] = ApplyRecord(e[i], num, c[i + 1])
        BY <1>1, <1>10, <3>1, ReplayStep
      <3>3. f[i + 1] = ApplyRecord(f[i], num, a[i + 1])
        BY <1>1, <1>8, <2>1, ReplayStep
      <3> QED
        BY Zenon, <1>2, <1>13, <2>1, <3>1, <3>2, <3>3
    <2>2. i + 1 \in Nat
      OBVIOUS
    <2> QED
      BY Zenon, <2>1, <2>2
  <1> HIDE DEF S
  <1>14. la \in S
    BY Zenon, <1>1, <1>12, <1>13, Induction
  <1>15. e[la] = iy
    BY Zenon, <1>1, <1>4, <1>14 DEF S
  <1> DEFINE R == {i \in Nat : i <= lb => e[la + i] = g[i]}
  <1>16. 0 \in R
    BY Zenon, <1>1, <1>11, <1>15
  <1>17. ASSUME NEW i \in Nat, i \in R PROVE i + 1 \in R
    <2>1. ASSUME i + 1 <= lb PROVE e[la + (i + 1)] = g[i + 1]
      <3> DEFINE j == la + i
      <3>1. j \in Nat /\ j + 1 <= la + lb /\ j + 1 = la + (i + 1) /\ i <= lb
        BY <1>1, <2>1
      <3>2. e[j] = g[i]
        BY Zenon, <1>17, <3>1
      <3> HIDE DEF j
      <3>3. e[j + 1] = ApplyRecord(e[j], num, c[j + 1])
        BY <1>1, <1>10, <3>1, ReplayStep
      <3>4. g[i + 1] = ApplyRecord(g[i], num, b[i + 1])
        BY <1>1, <1>9, <2>1, ReplayStep
      <3> QED
        BY Zenon, <1>3, <2>1, <3>1, <3>2, <3>3, <3>4
    <2>2. i + 1 \in Nat
      OBVIOUS
    <2> QED
      BY Zenon, <2>1, <2>2
  <1> HIDE DEF R
  <1>18. lb \in R
    BY Zenon, <1>1, <1>16, <1>17, Induction
  <1>19. e[la + lb] = g[lb]
    BY Zenon, <1>1, <1>18 DEF R
  <1> QED
    BY Zenon, <1>5, <1>7, <1>19

\* A batch appended to the latest file is loaded last.
LoadedLast(gs, fs, mark, k, recs) == Loaded(gs, mark) = ApplyRecords(Loaded(fs, mark), k, recs)

\* Records appended to the latest file are applied last.
LEMMA LoadedAppend ==
    ASSUME NEW fs, NEW gs, NEW k \in Nat \ {0}, FilesOK(fs, k), FilesOK(gs, k), NEW mark,
           NEW recs \in Seq(Record), k \in DOMAIN fs, DOMAIN gs = DOMAIN fs,
           gs[k] = fs[k] \o recs, \A j \in DOMAIN fs : j # k => gs[j] = fs[j]
    PROVE  LoadedLast(gs, fs, mark, k, recs)
  <1>1. PICK f : Loads(f, k, fs, mark) /\ Loaded(fs, mark) = f[k]
    <2>1. HasLoad(fs, k, mark)
      BY Zenon, LoadedHas
    <2> QED
      BY Zenon, <2>1 DEF HasLoad
  <1>2. PICK g : Loads(g, k, gs, mark) /\ Loaded(gs, mark) = g[k]
    <2>1. HasLoad(gs, k, mark)
      BY Zenon, LoadedHas
    <2> QED
      BY Zenon, <2>1 DEF HasLoad
  <1>3. Loads(f, k, fs, mark)
    BY Zenon, <1>1
  <1>4. Loads(g, k, gs, mark)
    BY Zenon, <1>2
  <1> DEFINE l == k - 1
  <1>5. l \in Nat /\ l + 1 = k /\ k \in Nat /\ l + 1 <= k /\ l <= l
    OBVIOUS
  <1> HIDE DEF l
  <1> DEFINE S == {i \in Nat : i <= l => g[i] = f[i]}
  <1>7. 0 \in S
    <2>1. f[0] = Fresh(mark)
      BY Zenon, <1>3, <1>5, LoadBase
    <2>2. g[0] = Fresh(mark)
      BY Zenon, <1>4, <1>5, LoadBase
    <2> QED
      BY Zenon, <2>1, <2>2
  <1>8. ASSUME NEW i \in Nat, i \in S PROVE i + 1 \in S
    <2>1. ASSUME i + 1 <= l PROVE g[i + 1] = f[i + 1]
      <3>1. i <= l /\ i + 1 <= k /\ i + 1 # k
        BY <1>5, <2>1
      <3>2. g[i] = f[i]
        BY Zenon, <1>8, <3>1
      <3>3. f[i + 1] = OneMore(f[i], i + 1, fs)
        BY <1>3, <1>5, <3>1, LoadStep
      <3>4. g[i + 1] = OneMore(g[i], i + 1, gs)
        BY <1>4, <1>5, <3>1, LoadStep
      <3>5. OneMore(f[i], i + 1, gs) = OneMore(f[i], i + 1, fs)
        <4>1. CASE i + 1 \in DOMAIN fs
          <5>1. gs[i + 1] = fs[i + 1]
            BY Zenon, <3>1, <4>1
          <5> QED
            BY Zenon, <4>1, <5>1 DEF OneMore
        <4>2. CASE i + 1 \notin DOMAIN fs
          BY Zenon, <4>2 DEF OneMore
        <4> QED
          BY Zenon, <4>1, <4>2
      <3> QED
        BY Zenon, <3>2, <3>3, <3>4, <3>5
    <2>2. i + 1 \in Nat
      OBVIOUS
    <2> QED
      BY Zenon, <2>1, <2>2
  <1> HIDE DEF S
  <1>9. l \in S
    BY Zenon, <1>5, <1>7, <1>8, Induction
  <1>10. g[l] = f[l]
    BY Zenon, <1>5, <1>9 DEF S
  <1>11. f[l + 1] = OneMore(f[l], l + 1, fs)
    BY <1>3, <1>5, LoadStep
  <1>12. g[l + 1] = OneMore(g[l], l + 1, gs)
    BY <1>4, <1>5, LoadStep
  <1>13. f[k] = ApplyRecords(f[l], k, fs[k]) /\ g[k] = ApplyRecords(f[l], k, fs[k] \o recs)
    BY Zenon, <1>5, <1>10, <1>11, <1>12 DEF OneMore
  <1>14. fs[k] \in Seq(Record)
    BY Zenon DEF FilesOK
  <1>15. AsOne(f[l], k, fs[k], recs)
    BY Zenon, <1>14, ApplyConcat
  <1> QED
    BY Zenon, <1>1, <1>2, <1>13, <1>15 DEF AsOne, LoadedLast

-----------------------------------------------------------------------------
\* Batches, as the promise sees them.
\* No batch has two prune records (DeleteWALEntries raises the one that is pending).
OnePrune(recs) == \A i, j \in DOMAIN recs : IsPrune(recs[i]) /\ IsPrune(recs[j]) => i = j

\* The batch that records stand for: the entries by height, and the one prune.
LEMMA BatchIs ==
    ASSUME NEW recs
    PROVE  /\ Batch(recs).entries = [h \in Heights |-> Kept(recs, AtHeight(h))]
           /\ (\A i \in DOMAIN recs : ~IsPrune(recs[i])) => Batch(recs).upTo = 0
           /\ OnePrune(recs) => \A i \in DOMAIN recs : IsPrune(recs[i]) => Batch(recs).upTo = recs[i].h
           /\ Batch(recs) = [entries |-> Batch(recs).entries, upTo |-> Batch(recs).upTo]
  <1>1. Batch(recs).entries = [h \in Heights |-> Kept(recs, AtHeight(h))]
    BY Zenon DEF Batch, AtHeight
  <1>2. Batch(recs).upTo = IF \E i \in DOMAIN recs : IsPrune(recs[i])
                           THEN recs[CHOOSE i \in DOMAIN recs : IsPrune(recs[i])].h ELSE 0
    BY Zenon DEF Batch
  <1>3. ASSUME OnePrune(recs), NEW i \in DOMAIN recs, IsPrune(recs[i])
        PROVE  Batch(recs).upTo = recs[i].h
    <2> DEFINE c == CHOOSE j \in DOMAIN recs : IsPrune(recs[j])
    <2>1. c \in DOMAIN recs /\ IsPrune(recs[c])
      BY Zenon, <1>3
    <2>2. c = i
      BY Zenon, <1>3, <2>1 DEF OnePrune
    <2> QED
      BY Zenon, <1>2, <1>3, <2>2
  <1>4. Batch(recs) = [entries |-> Batch(recs).entries, upTo |-> Batch(recs).upTo]
    BY Zenon DEF Batch
  <1> QED
    BY Zenon, <1>1, <1>2, <1>3, <1>4

\* A batch is what its entries and its height are.
LEMMA BatchEqual ==
    ASSUME NEW a, NEW E, NEW u, Batch(a).entries = E, Batch(a).upTo = u
    PROVE  Batch(a) = [entries |-> E, upTo |-> u]
  BY Zenon, BatchIs

\* No records, no batch.
LEMMA BatchNothing == Batch(<<>>) = Promise!Nothing
  <1>1. \A h \in Heights : Kept(<<>>, AtHeight(h)) = <<>>
    BY Zenon, KeptNone
  <1>2. Batch(<<>>).entries = [h \in Heights |-> <<>>]
    <2>1. Batch(<<>>).entries = [h \in Heights |-> Kept(<<>>, AtHeight(h))]
      BY Zenon, BatchIs
    <2> QED
      BY Zenon, <1>1, <2>1
  <1>3. Batch(<<>>).upTo = 0
    <2>1. \A i \in DOMAIN <<>> : ~IsPrune(<<>>[i])
      OBVIOUS
    <2> QED
      BY Zenon, <2>1, BatchIs
  <1> QED
    BY Zenon, <1>2, <1>3, BatchEqual DEF Promise!Nothing, Promise!NoEntries

\* An entry that is in a batch is in what the batch keeps.
LEMMA KeptSome ==
    ASSUME NEW recs \in Seq(Record), NEW K, NEW i \in 1 .. Len(recs), recs[i] \in K
    PROVE  Kept(recs, K) # <<>>
  <1> DEFINE n == Len(recs)
  <1>1. n \in Nat /\ n <= n /\ i \in Nat /\ 1 <= i /\ i <= n
    OBVIOUS
  <1>2. PICK g : Keeps(g, n, recs, K) /\ Kept(recs, K) = g[n]
    BY Zenon, <1>1, KeptIs
  <1>3. Keeps(g, n, recs, K)
    BY <1>2
  <1>4. \A j \in 0 .. n : g[j] \in Seq(Record)
    BY Zenon, <1>3, KeptType
  <1> DEFINE S == {j \in Nat : j <= n /\ i <= j => g[j] # <<>>}
  <1>5. 0 \in S
    BY <1>1
  <1>6. ASSUME NEW j \in Nat, j \in S PROVE j + 1 \in S
    <2>1. ASSUME j + 1 <= n, i <= j + 1 PROVE g[j + 1] # <<>>
      <3>1. g[j + 1] = Grown(g[j], recs[j + 1], K)
        BY <1>1, <1>3, <2>1, KeepStep
      <3>2. j \in 0 .. n /\ j <= n /\ (i <= j \/ i = j + 1)
        BY <1>1, <2>1
      <3>3. g[j] \in Seq(Record) /\ recs[j + 1] \in Record
        BY <1>1, <1>4, <2>1, <3>2
      <3>4. Append(g[j], recs[j + 1]) # <<>>
        BY <3>3
      <3> QED
        BY Zenon, <1>6, <3>1, <3>2, <3>4 DEF Grown
    <2>2. j + 1 \in Nat
      OBVIOUS
    <2> QED
      BY Zenon, <2>1, <2>2
  <1> HIDE DEF S
  <1>7. n \in S
    BY Zenon, <1>1, <1>5, <1>6, Induction
  <1> QED
    BY Zenon, <1>1, <1>2, <1>7 DEF S

\* Records always hand something in.
LEMMA BatchSome ==
    ASSUME NEW recs \in Seq(Record), OnePrune(recs), recs # <<>>
    PROVE  Batch(recs) # Promise!Nothing
  <1>1. 1 \in 1 .. Len(recs) /\ 1 \in DOMAIN recs /\ recs[1] \in Record
    OBVIOUS
  <1>2. recs[1].h \in Heights /\ recs[1].h # 0
    BY Zenon, <1>1, RecordHeight
  <1>3. CASE IsPrune(recs[1])
    <2>1. Batch(recs).upTo = recs[1].h
      BY Zenon, <1>1, <1>3, BatchIs
    <2>2. Promise!Nothing.upTo = 0
      BY Zenon DEF Promise!Nothing
    <2> QED
      BY Zenon, <1>2, <2>1, <2>2
  <1>4. CASE ~IsPrune(recs[1])
    <2> DEFINE h == recs[1].h
    <2>1. recs[1] \in AtHeight(h)
      BY Zenon, <1>1, <1>4, AtHeightIs
    <2>2. Kept(recs, AtHeight(h)) # <<>>
      BY Zenon, <1>1, <2>1, KeptSome
    <2>3. Batch(recs).entries[h] = Kept(recs, AtHeight(h))
      <3>1. h \in Heights
        BY Zenon, <1>2
      <3> HIDE DEF h
      <3> QED
        BY Zenon, <3>1, BatchIs
    <2>4. Promise!Nothing.entries[h] = <<>>
      BY Zenon, <1>2 DEF Promise!Nothing, Promise!NoEntries
    <2> QED
      BY Zenon, <2>2, <2>3, <2>4
  <1> QED
    BY Zenon, <1>3, <1>4

\* Applying a batch to the index does to the contents what Write does to the log.
Wrote(ix, new, recs) ==
    /\ new.pruned = Promise!Max2(ix.pruned, Batch(recs).upTo)
    /\ new.entries = [h \in Heights |-> IF h <= new.pruned THEN <<>> ELSE ix.entries[h] \o Batch(recs).entries[h]]

\* Applying records is the Write of the promise.
LEMMA WrittenIsWrite ==
    ASSUME NEW ix, IndexOK(ix), NEW new, NEW num, NEW recs \in Seq(Record), OnePrune(recs),
           Written(ix, new, num, recs)
    PROVE  Wrote(ix, new, recs)
  <1>1. ix.pruned \in Int /\ new.pruned \in Int /\ 0 <= ix.pruned /\ IndexOK(new)
    <2>1. IndexOK(new)
      BY Zenon DEF Written
    <2> QED
      BY Zenon, <2>1, PrunedInt
  <1>2. Topped(ix.pruned, new.pruned, recs, Len(recs)) /\ DOMAIN recs = 1 .. Len(recs)
    <2>1. DOMAIN recs = 1 .. Len(recs)
      OBVIOUS
    <2> QED
      BY Zenon, <2>1 DEF Written
  <1>3. new.pruned = Promise!Max2(ix.pruned, Batch(recs).upTo)
    <2>1. CASE \A i \in DOMAIN recs : ~IsPrune(recs[i])
      <3>1. Batch(recs).upTo = 0
        BY Zenon, <2>1, BatchIs
      <3>2. new.pruned = ix.pruned
        BY Zenon, <1>2, <2>1 DEF Topped
      <3> QED
        BY <1>1, <3>1, <3>2 DEF Promise!Max2
    <2>2. ASSUME NEW i \in DOMAIN recs, IsPrune(recs[i]) PROVE new.pruned = Promise!Max2(ix.pruned, Batch(recs).upTo)
      <3>1. Batch(recs).upTo = recs[i].h
        BY Zenon, <2>2, BatchIs
      <3>2. recs[i] \in Record
        BY <1>2
      <3>3. recs[i].h \in Int
        BY <3>2, RecordHeight
      <3>4. recs[i].h <= new.pruned /\ ix.pruned <= new.pruned
        BY Zenon, <1>2, <2>2 DEF Topped
      <3>5. new.pruned = ix.pruned \/ new.pruned = recs[i].h
        BY Zenon, <1>2, <2>2 DEF Topped, OnePrune
      <3> QED
        BY <1>1, <3>1, <3>3, <3>4, <3>5 DEF Promise!Max2
    <2> QED
      BY Zenon, <2>1, <2>2
  <1>4. ASSUME NEW h \in Heights
        PROVE  new.entries[h] = IF h <= new.pruned THEN <<>> ELSE ix.entries[h] \o Batch(recs).entries[h]
    <2>1. CASE h <= new.pruned
      BY Zenon, <1>1, <2>1 DEF IndexOK
    <2>2. CASE ~(h <= new.pruned)
      <3>1. h > new.pruned
        BY <1>1, <2>2 DEF Heights
      <3>2. new.entries[h] = ix.entries[h] \o Kept(recs, AtHeight(h))
        BY Zenon, <3>1 DEF Written
      <3>3. Batch(recs).entries[h] = Kept(recs, AtHeight(h))
        BY Zenon, BatchIs
      <3> QED
        BY Zenon, <2>2, <3>2, <3>3
    <2> QED
      BY Zenon, <2>1, <2>2
  <1>5. new.entries = [h \in Heights |-> new.entries[h]]
    BY <1>1 DEF IndexOK
  <1>6. new.entries = [h \in Heights |-> IF h <= new.pruned THEN <<>> ELSE ix.entries[h] \o Batch(recs).entries[h]]
    BY Zenon, <1>4, <1>5
  <1> QED
    BY Zenon, <1>3, <1>6 DEF Wrote

\* SetWALEntry: the entry comes last at its height.
LEMMA BatchEntry ==
    ASSUME NEW recs \in Seq(Record), NEW e \in Entry
    PROVE  /\ Batch(Append(recs, e)) = [Batch(recs) EXCEPT !.entries[e.h] = Append(@, e)]
           /\ Batch(Append(recs, e)) # Batch(recs)
           /\ OnePrune(recs) => OnePrune(Append(recs, e))
  <1> DEFINE new == Append(recs, e)
  <1>1. e \in Record /\ ~IsPrune(e) /\ e.h \in Heights
    BY SizesAssumption DEF Entry, Record, IsPrune
  <1>2. /\ DOMAIN new = DOMAIN recs \union {Len(recs) + 1} /\ new[Len(recs) + 1] = e
        /\ \A i \in DOMAIN recs : new[i] = recs[i]
    OBVIOUS
  <1>3. \A h : e \in AtHeight(h) <=> e.h = h
    BY Zenon, <1>1, AtHeightIs
  <1>4. ASSUME NEW h \in Heights
        PROVE  Kept(new, AtHeight(h)) = IF h = e.h THEN Append(Kept(recs, AtHeight(h)), e) ELSE Kept(recs, AtHeight(h))
    <2>1. Kept(new, AtHeight(h)) = Grown(Kept(recs, AtHeight(h)), e, AtHeight(h))
      BY <1>1, KeptAppend
    <2> QED
      BY Zenon, <1>3, <2>1 DEF Grown
  <1> SUFFICES /\ Batch(new) = [Batch(recs) EXCEPT !.entries[e.h] = Append(@, e)]
               /\ Batch(new) # Batch(recs)
               /\ OnePrune(recs) => OnePrune(new)
    OBVIOUS
  <1> HIDE DEF new
  <1>5. OnePrune(recs) => OnePrune(new)
    BY Zenon, <1>1, <1>2 DEF OnePrune
  <1>6. /\ Batch(recs).entries = [h \in Heights |-> Kept(recs, AtHeight(h))]
        /\ Batch(new).entries = [h \in Heights |-> Kept(new, AtHeight(h))]
    BY Zenon, BatchIs
  <1> DEFINE A == Batch(recs).entries
             B == Batch(new).entries
  <1>31. \A h \in Heights : A[h] = Kept(recs, AtHeight(h)) /\ B[h] = Kept(new, AtHeight(h))
    BY Zenon, <1>6
  <1>32. \A h \in Heights : B[h] = IF h = e.h THEN Append(A[h], e) ELSE A[h]
    BY Zenon, <1>4, <1>31
  <1>7. Batch(new).entries = [Batch(recs).entries EXCEPT ![e.h] = Append(@, e)]
    <2>1. A = [h \in Heights |-> A[h]] /\ B = [h \in Heights |-> B[h]]
      BY Zenon, <1>6
    <2> SUFFICES B = [A EXCEPT ![e.h] = Append(@, e)]
      BY Zenon
    <2> HIDE DEF A, B
    <2> QED
      BY <1>1, <1>32, <2>1
  <1>8. Batch(new).upTo = Batch(recs).upTo
    <2>1. \A i \in DOMAIN new : IsPrune(new[i]) <=> i \in DOMAIN recs /\ IsPrune(recs[i])
      BY Zenon, <1>1, <1>2
    <2>2. (\E i \in DOMAIN new : IsPrune(new[i])) <=> (\E i \in DOMAIN recs : IsPrune(recs[i]))
      BY Zenon, <1>2, <2>1
    <2>3. (CHOOSE i \in DOMAIN new : IsPrune(new[i])) = (CHOOSE i \in DOMAIN recs : IsPrune(recs[i]))
      BY Zenon, <1>2, <2>1
    <2>4. (\E i \in DOMAIN recs : IsPrune(recs[i])) => (CHOOSE i \in DOMAIN recs : IsPrune(recs[i])) \in DOMAIN recs
      BY Zenon
    <2> QED
      BY Zenon, <1>2, <2>2, <2>3, <2>4 DEF Batch
  <1>9. Batch(new) = [Batch(recs) EXCEPT !.entries[e.h] = Append(@, e)]
    <2> DEFINE b == Batch(recs)
               c == Batch(new)
    <2>1. b = [entries |-> b.entries, upTo |-> b.upTo] /\ c = [entries |-> c.entries, upTo |-> c.upTo]
      BY Zenon, BatchIs
    <2>2. c.entries = [b.entries EXCEPT ![e.h] = Append(@, e)] /\ c.upTo = b.upTo
      BY Zenon, <1>7, <1>8
    <2> HIDE DEF b, c
    <2>3. c = [b EXCEPT !.entries[e.h] = Append(@, e)]
      BY <2>1, <2>2
    <2> QED
      BY Zenon, <2>3 DEF b, c
  <1>10. Batch(new) # Batch(recs)
    <2>1. Kept(recs, AtHeight(e.h)) \in Seq(Record)
      BY <1>1, KeptSeq
    <2>2. Append(Kept(recs, AtHeight(e.h)), e) # Kept(recs, AtHeight(e.h))
      BY <1>1, <2>1
    <2>3. Batch(new).entries[e.h] # Batch(recs).entries[e.h]
      <3>1. A[e.h] = Kept(recs, AtHeight(e.h)) /\ B[e.h] = Append(A[e.h], e)
        BY Zenon, <1>1, <1>31, <1>32
      <3> QED
        BY Zenon, <2>2, <3>1
    <2> QED
      BY Zenon, <2>3
  <1> QED
    BY Zenon, <1>5, <1>9, <1>10

\* DeleteWALEntries: the pending prune is raised, or the first one comes last.
Raised(recs, h) ==
    IF \E i \in DOMAIN recs : IsPrune(recs[i])
    THEN [i \in DOMAIN recs |-> IF IsPrune(recs[i]) /\ recs[i].h < h THEN PruneRecord(h) ELSE recs[i]]
    ELSE Append(recs, PruneRecord(h))

\* A prune in the buffer is raised in place: one prune in a batch (DeleteWALEntries).
LEMMA BatchPrune ==
    ASSUME NEW recs \in Seq(Record), OnePrune(recs), NEW h \in Heights
    PROVE  /\ Raised(recs, h) \in Seq(Record) /\ OnePrune(Raised(recs, h))
           /\ Batch(Raised(recs, h)) = [Batch(recs) EXCEPT !.upTo = Promise!Max2(@, h)]
  <1> DEFINE new == Raised(recs, h)
             p == PruneRecord(h)
  <1>1. p \in Record /\ IsPrune(p) /\ p.h = h /\ h \in Nat /\ h # 0
    BY SizesAssumption DEF PruneRecord, Record, IsPrune, Heights
  <1>2. \A k : p \notin AtHeight(k)
    BY Zenon, <1>1, AtHeightIs
  <1>3. /\ new \in Seq(Record) /\ OnePrune(new)
        /\ \A k \in Heights : Kept(new, AtHeight(k)) = Kept(recs, AtHeight(k))
        /\ Batch(new).upTo = Promise!Max2(Batch(recs).upTo, h)
    <2>1. CASE \E i \in DOMAIN recs : IsPrune(recs[i])
      <3>1. new = [i \in DOMAIN recs |-> IF IsPrune(recs[i]) /\ recs[i].h < h THEN p ELSE recs[i]]
        BY Zenon, <2>1 DEF Raised
      <3>2. DOMAIN recs = 1 .. Len(recs) /\ Len(recs) \in Nat /\ \A i \in DOMAIN recs : recs[i] \in Record
        OBVIOUS
      <3> HIDE DEF new, p
      <3>3. \A i \in DOMAIN recs : new[i] = IF IsPrune(recs[i]) /\ recs[i].h < h THEN p ELSE recs[i]
        BY Zenon, <3>1
      <3>4. \A i \in DOMAIN recs : new[i] \in Record /\ (IsPrune(new[i]) <=> IsPrune(recs[i]))
        BY Zenon, <1>1, <3>2, <3>3
      <3>5. new \in Seq(Record) /\ Len(new) = Len(recs) /\ DOMAIN new = DOMAIN recs
        <4>1. new \in [1 .. Len(recs) -> Record]
          BY Zenon, <3>1, <3>2, <3>4
        <4> QED
          BY <3>2, <4>1
      <3>6. OnePrune(new)
        BY Zenon, <3>4, <3>5 DEF OnePrune
      <3>7. ASSUME NEW k \in Heights PROVE Kept(new, AtHeight(k)) = Kept(recs, AtHeight(k))
        <4>1. Alike(new, recs, Len(new), AtHeight(k))
          <5>1. ASSUME NEW i \in 1 .. Len(new)
                PROVE  \/ new[i] = recs[i]
                       \/ new[i] \notin AtHeight(k) /\ recs[i] \notin AtHeight(k)
            <6>1. i \in DOMAIN recs
              BY Zenon, <3>2, <3>5
            <6>2. IsPrune(recs[i]) => recs[i] \notin AtHeight(k)
              BY Zenon, <3>2, <6>1, AtHeightIs
            <6> QED
              BY Zenon, <1>2, <3>3, <6>1, <6>2
          <5> QED
            BY Zenon, <5>1 DEF Alike
        <4> QED
          BY Zenon, <3>5, <4>1, KeptAlike
      <3>8. PICK i \in DOMAIN recs : IsPrune(recs[i])
        BY Zenon, <2>1
      <3>9. Batch(recs).upTo = recs[i].h /\ Batch(new).upTo = new[i].h
        BY Zenon, <3>4, <3>5, <3>6, <3>8, BatchIs
      <3>10. recs[i].h \in Nat
        BY <3>2, <3>8, RecordHeight
      <3>11. new[i].h = IF recs[i].h < h THEN h ELSE recs[i].h
        BY Zenon, <1>1, <3>3, <3>8
      <3>12. Batch(new).upTo = Promise!Max2(Batch(recs).upTo, h)
        BY <1>1, <3>9, <3>10, <3>11 DEF Promise!Max2
      <3> QED
        BY Zenon, <3>5, <3>6, <3>7, <3>12
    <2>2. CASE ~\E i \in DOMAIN recs : IsPrune(recs[i])
      <3>1. new = Append(recs, p)
        BY Zenon, <2>2 DEF Raised
      <3> HIDE DEF new, p
      <3>2. /\ new \in Seq(Record) /\ DOMAIN new = DOMAIN recs \union {Len(recs) + 1} /\ new[Len(recs) + 1] = p
            /\ \A i \in DOMAIN recs : new[i] = recs[i]
        BY <1>1, <3>1
      <3>3. OnePrune(new)
        BY Zenon, <2>2, <3>2 DEF OnePrune
      <3>4. ASSUME NEW k \in Heights PROVE Kept(new, AtHeight(k)) = Kept(recs, AtHeight(k))
        <4>1. Kept(Append(recs, p), AtHeight(k)) = Grown(Kept(recs, AtHeight(k)), p, AtHeight(k))
          BY <1>1, KeptAppend
        <4> QED
          BY Zenon, <1>2, <3>1, <4>1 DEF Grown
      <3>5. Batch(recs).upTo = 0 /\ Batch(new).upTo = p.h
        BY Zenon, <1>1, <2>2, <3>2, <3>3, BatchIs
      <3>6. Batch(new).upTo = Promise!Max2(Batch(recs).upTo, h)
        BY <1>1, <3>5 DEF Promise!Max2
      <3> QED
        BY Zenon, <3>2, <3>3, <3>4, <3>6
    <2> QED
      BY Zenon, <2>1, <2>2
  <1> SUFFICES Batch(new) = [Batch(recs) EXCEPT !.upTo = Promise!Max2(@, h)]
    BY Zenon, <1>3
  <1> HIDE DEF new
  <1> DEFINE b == Batch(recs)
             c == Batch(new)
  <1>4. b = [entries |-> b.entries, upTo |-> b.upTo] /\ c = [entries |-> c.entries, upTo |-> c.upTo]
    BY Zenon, BatchIs
  <1>5. c.entries = b.entries
    <2>1. b.entries = [k \in Heights |-> Kept(recs, AtHeight(k))] /\ c.entries = [k \in Heights |-> Kept(new, AtHeight(k))]
      BY Zenon, BatchIs
    <2> QED
      BY Zenon, <1>3, <2>1
  <1>6. c.upTo = Promise!Max2(b.upTo, h)
    BY Zenon, <1>3
  <1> SUFFICES c = [b EXCEPT !.upTo = Promise!Max2(@, h)]
    BY Zenon
  <1> HIDE DEF b, c
  <1> QED
    BY <1>4, <1>5, <1>6

-----------------------------------------------------------------------------
\* The store keeps its promise: one lemma per call.
\* What is on disk and what is buffered are records.
Recorded ==
    /\ \A k \in DOMAIN files : files[k] \in Seq(Record)
    /\ \A k \in DOMAIN unlinked : unlinked[k] \in Seq(Record)
    /\ dirty.recs \in Seq(Record) /\ pending \in Seq(Record)
    /\ OnePrune(dirty.recs) /\ OnePrune(pending)
    /\ watermark \in 0 .. MaxHeight /\ nextEntry \in Nat \ {0}

\* The index is what the files would be loaded to, and knows which files it needs;
\* removed files, should they come back, add nothing to it.
InStep ==
    /\ IndexOK(index) /\ Same(index, Loaded(files, watermark)) /\ Covers(index, files)
    /\ \A k \in DOMAIN unlinked : k \notin DOMAIN files /\ Below(unlinked[k], watermark)

\* Which files and bytes there are at which step of a call.
Staged ==
    /\ queue \union toDelete \subseteq DOMAIN files /\ queue \intersect toDelete = {}
    /\ currentWALNum # 0 => currentWALNum \in DOMAIN files
    /\ repairRequired => currentWALNum = 0
    /\ mode = "writing" => dirty = [file |-> currentWALNum, recs |-> pending] /\ pending # <<>>
                           /\ currentWALNum # 0 /\ ~repairRequired
    /\ dirty.recs # <<>> => /\ dirty.file \in DOMAIN files
                            /\ mode = "writing" \/ (repairRequired /\ mode \in {"up", "closing"})
    /\ mode \in {"rotate", "remove"} => watermark = index.pruned
    /\ mode = "remove" => currentWALNum = 0 /\ \A k \in toDelete : Below(files[k], watermark)

\* The inductive invariant: records everywhere; while the store is open the index is in
\* step with the disk; while it is down nothing is left over.
DurableInv ==
    /\ TailsOnlyAtEnd /\ Recorded
    /\ mode \in Running => InStep /\ Staged
    /\ mode = "down" => pending = <<>> /\ dirty.recs = <<>> /\ DOMAIN unlinked = {}
                        /\ queue = {} /\ toDelete = {} /\ currentWALNum = 0 /\ ~repairRequired

\* A step of the promise, or none.
Refines == [Promise!Next]_(Promise!logVars)

\* While the store is open the promise is about its index.
LEMMA OpenView ==
    ASSUME mode \in Running
    PROVE  Contents = index /\ mode \notin {"down", "failed"}
  BY DEF Running, Contents

\* The same of the next state.
LEMMA OpenViewNext ==
    ASSUME mode' \in Running
    PROVE  Contents' = index' /\ mode' \notin {"down", "failed"}
  BY DEF Running, Contents

\* A step of the store that its promise does not tell.
LEMMA Unseen ==
    ASSUME mode \in Running, mode' \in Running, pending' = pending, dirty'.recs = dirty.recs, index' = index
    PROVE  Refines
  <1>1. Contents' = Contents /\ mode \notin {"down", "failed"} /\ mode' \notin {"down", "failed"}
    BY Zenon, OpenView, OpenViewNext
  <1>2. Batch(pending)' = Batch(pending) /\ Batch(dirty.recs)' = Batch(dirty.recs)
    BY Zenon DEF Batch
  <1> QED
    BY Zenon, <1>1, <1>2 DEF Refines, Promise!logVars

\* Of an open store: its files, and the watermark that lags behind the index.
LEMMA FilesKnown ==
    ASSUME DurableInv, mode \in Running
    PROVE  /\ FilesOK(files, nextWALNum) /\ nextWALNum \in Nat \ {0} /\ ~(nextWALNum \in DOMAIN files)
           /\ watermark \in 0 .. MaxHeight /\ watermark <= index.pruned
           /\ \A k \in DOMAIN files : k \in Nat \ {0} /\ k < nextWALNum
  <1>1. /\ nextWALNum \in Nat \ {0} /\ \A k \in DOMAIN files : k \in Nat \ {0} /\ k < nextWALNum
    BY Zenon DEF DurableInv, TailsOnlyAtEnd
  <1>2. \A k \in DOMAIN files : files[k] \in Seq(Record)
    BY Zenon DEF DurableInv, Recorded
  <1>3. FilesOK(files, nextWALNum) /\ ~(nextWALNum \in DOMAIN files)
    BY <1>1, <1>2 DEF FilesOK
  <1>4. watermark \in 0 .. MaxHeight /\ index.pruned = Loaded(files, watermark).pruned
    BY Zenon DEF DurableInv, Recorded, InStep, Same
  <1>5. watermark <= Loaded(files, watermark).pruned
    BY Zenon, <1>3, <1>4, LoadedOK
  <1> QED
    BY Zenon, <1>1, <1>3, <1>4, <1>5

\* Only the buffer changes.
LEMMA Buffered ==
    ASSUME DurableInv, TailsOnlyAtEnd', mode = "up", pending' \in Seq(Record), OnePrune(pending'),
           nextEntry' \in Nat \ {0},
           UNCHANGED <<disk, mode, caller, index, writer, cleanup, crashes, failures>>
    PROVE  DurableInv'
  <1>1. UNCHANGED <<files, dirty, torn, unlinked, watermark, mode, index, nextWALNum, currentWALNum, repairRequired,
                    queue, toDelete>>
    BY Zenon DEF disk, writer, cleanup
  <1>2. Recorded'
    BY Zenon, <1>1 DEF DurableInv, Recorded
  <1>3. mode \in Running /\ mode' \in Running /\ mode # "writing" /\ mode # "down"
    BY DEF Running
  <1>4. InStep'
    BY Zenon, <1>1, <1>3 DEF DurableInv, InStep
  <1>5. Staged'
    BY Zenon, <1>1, <1>3 DEF DurableInv, Staged
  <1> QED
    BY Zenon, <1>1, <1>2, <1>3, <1>4, <1>5 DEF DurableInv

\* SetWALEntry hands an entry in, or does nothing the promise can tell.
LEMMA SetKeeps ==
    ASSUME DurableInv, TailsOnlyAtEnd', NEW h \in Heights, SetWALEntry(h)
    PROVE  DurableInv' /\ Refines
  <1> DEFINE e == [h |-> h, n |-> nextEntry]
  <1>1. /\ mode = "up" /\ nextEntry <= MaxEntries /\ nextEntry' = nextEntry + 1
        /\ pending' = IF h <= index.pruned THEN pending ELSE Append(pending, e)
        /\ UNCHANGED <<disk, mode, caller, index, writer, cleanup, crashes, failures>>
        /\ dirty' = dirty
    BY Zenon DEF SetWALEntry, disk
  <1>2. mode \in Running /\ mode' \in Running
    BY <1>1 DEF Running
  <1>3. /\ nextEntry \in Nat \ {0} /\ pending \in Seq(Record) /\ OnePrune(pending)
        /\ index.pruned \in 0 .. MaxHeight
    BY Zenon, <1>2 DEF DurableInv, Recorded, InStep, IndexOK
  <1>4. nextEntry' \in Nat \ {0} /\ e \in Entry /\ e \in Record /\ e.h = h
    BY <1>1, <1>3, SizesAssumption DEF Entry, Record
  <1>5. CASE h <= index.pruned
    <2>1. DurableInv'
      BY Zenon, <1>1, <1>3, <1>4, <1>5, Buffered
    <2>2. Refines
      BY Zenon, <1>1, <1>2, <1>5, Unseen
    <2> QED
      BY Zenon, <2>1, <2>2
  <1>6. CASE ~(h <= index.pruned)
    <2> HIDE DEF e
    <2>1. pending' = Append(pending, e) /\ e.h > index.pruned
      BY <1>1, <1>3, <1>4, <1>6 DEF Heights
    <2>2. pending' \in Seq(Record)
      BY <1>3, <1>4, <2>1
    <2>3. /\ Batch(pending') = [Batch(pending) EXCEPT !.entries[e.h] = Append(@, e)]
          /\ Batch(pending') # Batch(pending) /\ OnePrune(pending')
      BY Zenon, <1>3, <1>4, <2>1, BatchEntry
    <2>4. DurableInv'
      BY Zenon, <1>1, <1>4, <2>2, <2>3, Buffered
    <2>5. Contents = index /\ Contents' = index /\ mode \notin {"down", "failed"} /\ mode' = mode
      BY Zenon, <1>1, <1>2, OpenView, OpenViewNext
    <2>6. Promise!HandIn
      BY Zenon, <1>1, <1>4, <2>1, <2>3, <2>5 DEF Promise!HandIn
    <2> QED
      BY Zenon, <2>4, <2>6 DEF Refines, Promise!Next
  <1> QED
    BY Zenon, <1>5, <1>6

\* DeleteWALEntries hands a prune in.
LEMMA DeleteKeeps ==
    ASSUME DurableInv, TailsOnlyAtEnd', NEW h \in Heights, DeleteWALEntries(h)
    PROVE  DurableInv' /\ Refines
  <1>1. /\ mode = "up" /\ h > index.pruned /\ pending' = Raised(pending, h)
        /\ UNCHANGED <<disk, mode, caller, index, writer, cleanup, nextEntry, crashes, failures>>
        /\ dirty' = dirty
    BY Zenon DEF DeleteWALEntries, disk, Raised
  <1>2. mode \in Running /\ mode' \in Running
    BY <1>1 DEF Running
  <1>3. nextEntry' \in Nat \ {0} /\ pending \in Seq(Record) /\ OnePrune(pending)
    BY Zenon, <1>1 DEF DurableInv, Recorded
  <1>4. /\ pending' \in Seq(Record) /\ OnePrune(pending')
        /\ Batch(pending') = [Batch(pending) EXCEPT !.upTo = Promise!Max2(@, h)]
    BY Zenon, <1>1, <1>3, BatchPrune
  <1>5. DurableInv'
    BY Zenon, <1>1, <1>3, <1>4, Buffered
  <1>6. Contents = index /\ Contents' = index /\ mode \notin {"down", "failed"} /\ mode' = mode
    BY Zenon, <1>1, <1>2, OpenView, OpenViewNext
  <1>7. CASE Batch(pending') = Batch(pending)
    BY Zenon, <1>1, <1>5, <1>6, <1>7 DEF Refines, Promise!logVars
  <1>8. CASE Batch(pending') # Batch(pending)
    <2>1. Promise!HandIn
      BY Zenon, <1>1, <1>4, <1>6, <1>8 DEF Promise!HandIn
    <2> QED
      BY Zenon, <1>5, <2>1 DEF Refines, Promise!Next
  <1> QED
    BY Zenon, <1>5, <1>7, <1>8

\* Files that come and go with nothing above the watermark leave the index in step.
LEMMA StaysSame ==
    ASSUME DurableInv, mode \in Running, NEW n, FilesOK(files, n), FilesOK(files', n),
           \A k \in 1 .. n : AlikeAt(files, files', k, watermark), index' = index, watermark' = watermark
    PROVE  Same(index', Loaded(files', watermark'))
  <1>1. Same(index, Loaded(files, watermark)) /\ watermark \in 0 .. MaxHeight
    BY Zenon DEF DurableInv, InStep, Recorded
  <1> DEFINE gs == files'
  <1>2. FilesOK(gs, n) /\ \A k \in 1 .. n : AlikeAt(files, gs, k, watermark)
    BY Zenon
  <1> HIDE DEF gs
  <1>3. Loaded(gs, watermark) = Loaded(files, watermark)
    BY Zenon, <1>1, <1>2, LoadedAlike
  <1> QED
    BY Zenon, <1>1, <1>3 DEF gs

\* Flush attempts the batch; a file it creates is empty.
LEMMA FlushKeeps ==
    ASSUME DurableInv, TailsOnlyAtEnd', NEW to \in {"up", "closing"}, Flush(to)
    PROVE  DurableInv' /\ Refines
  <1>1. /\ mode = "up" /\ pending # <<>> /\ ~repairRequired /\ mode' = "writing"
        /\ dirty' = [file |-> currentWALNum', recs |-> pending]
        /\ UNCHANGED <<torn, watermark, index, pending, toDelete, nextEntry, repairRequired>>
    BY Zenon DEF Flush, cleanup, writer
  <1>2. mode \in Running /\ mode' \in Running /\ mode # "writing" /\ mode # "remove" /\ mode # "rotate"
        /\ mode' # "down" /\ mode' # "remove" /\ mode' # "rotate"
    BY <1>1 DEF Running
  <1>3. InStep /\ Staged /\ Recorded
    BY Zenon, <1>2 DEF DurableInv
  <1>4. /\ FilesOK(files, nextWALNum) /\ nextWALNum \in Nat \ {0} /\ nextWALNum \notin DOMAIN files
        /\ watermark \in 0 .. MaxHeight
    BY Zenon, <1>2, FilesKnown
  <1>5. dirty'.recs = pending /\ dirty'.file = currentWALNum' /\ dirty.recs = <<>>
    BY Zenon, <1>1, <1>2, <1>3 DEF Staged
  <1>6. Refines
    <2>1. Contents = index /\ Contents' = index /\ mode \notin {"down", "failed"} /\ mode' \notin {"down", "failed"}
      BY Zenon, <1>1, <1>2, OpenView, OpenViewNext
    <2>2. Batch(dirty.recs) = Promise!Nothing /\ Batch(pending) # Promise!Nothing
      BY Zenon, <1>1, <1>3, <1>5, BatchNothing, BatchSome DEF Recorded
    <2>3. Batch(dirty'.recs) = Batch(pending) /\ Batch(pending') = Batch(pending)
      BY Zenon, <1>1, <1>5
    <2>4. Promise!Attempt
      BY Zenon, <2>1, <2>2, <2>3 DEF Promise!Attempt
    <2> QED
      BY Zenon, <2>4 DEF Refines, Promise!Next
  <1>7. CASE currentWALNum # 0
    <2>1. UNCHANGED <<files, unlinked, nextWALNum, currentWALNum, queue>>
      BY Zenon, <1>7 DEF Flush, writer
    <2>2. Recorded'
      BY Zenon, <1>1, <1>3, <1>5, <2>1 DEF Recorded
    <2>3. InStep'
      BY Zenon, <1>1, <1>3, <2>1 DEF InStep
    <2>4. Staged'
      BY Zenon, <1>1, <1>2, <1>3, <1>5, <1>7, <2>1 DEF Staged
    <2> QED
      BY Zenon, <1>2, <1>6, <2>2, <2>3, <2>4 DEF DurableInv
  <1>8. CASE currentWALNum = 0
    <2>1. /\ files' = [k \in DOMAIN files \union {nextWALNum} |-> IF k = nextWALNum THEN <<>> ELSE files[k]]
          /\ currentWALNum' = nextWALNum /\ queue' = queue \union {nextWALNum} /\ unlinked' = <<>>
      BY Zenon, <1>8 DEF Flush
    <2>2. /\ DOMAIN files' = DOMAIN files \union {nextWALNum} /\ files'[nextWALNum] = <<>>
          /\ \A k \in DOMAIN files : files'[k] = files[k]
      BY Zenon, <1>4, <2>1
    <2>3. <<>> \in Seq(Record) /\ Len(<<>>) = 0 /\ DOMAIN unlinked' = {} /\ \A i : i \notin 1 .. 0
      BY <2>1
    <2>4. \A k \in DOMAIN files' : files'[k] \in Seq(Record)
      BY Zenon, <1>3, <2>2, <2>3 DEF Recorded
    <2>5. Recorded'
      BY Zenon, <1>1, <1>3, <1>5, <2>3, <2>4 DEF Recorded
    <2>6. FilesOK(files', nextWALNum)
      <3>1. nextWALNum \in Nat /\ DOMAIN files \subseteq 1 .. nextWALNum /\ nextWALNum \in 1 .. nextWALNum
        BY <1>4 DEF FilesOK
      <3> QED
        BY Zenon, <2>2, <2>4, <3>1 DEF FilesOK
    <2>7. ASSUME NEW k \in 1 .. nextWALNum PROVE AlikeAt(files, files', k, watermark)
      <3>1. CASE k \in DOMAIN files
        BY Zenon, <2>2, <3>1 DEF AlikeAt
      <3>2. CASE k \notin DOMAIN files
        <4>1. k \in DOMAIN files' => Below(files'[k], watermark)
          BY Zenon, <2>2, <2>3, <3>2 DEF Below
        <4> QED
          BY Zenon, <3>2, <4>1 DEF AlikeAt
      <3> QED
        BY Zenon, <3>1, <3>2
    <2>8. Same(index', Loaded(files', watermark'))
      BY Zenon, <1>1, <1>2, <1>4, <2>6, <2>7, StaysSame
    <2>9. Covers(index', files')
      BY Zenon, <1>1, <1>3, <2>2, <2>3 DEF InStep, Covers
    <2>10. InStep'
      BY Zenon, <1>1, <1>3, <2>3, <2>8, <2>9 DEF InStep
    <2>11. Staged'
      <3>1. queue' \union toDelete' \subseteq DOMAIN files' /\ queue' \intersect toDelete' = {}
        BY Zenon, <1>1, <1>3, <1>4, <2>1, <2>2 DEF Staged
      <3>2. currentWALNum' # 0 /\ currentWALNum' \in DOMAIN files'
        BY Zenon, <1>4, <2>1, <2>2
      <3> QED
        BY Zenon, <1>1, <1>2, <1>5, <3>1, <3>2 DEF Staged
    <2> QED
      BY Zenon, <1>2, <1>6, <2>5, <2>10, <2>11 DEF DurableInv
  <1> QED
    BY Zenon, <1>7, <1>8

\* What a committed batch does to the index is what it does to the files.
LEMMA SyncedInStep ==
    ASSUME DurableInv, Synced
    PROVE  InStep'
  <1>1. /\ mode = "writing" /\ files' = [files EXCEPT ![currentWALNum] = @ \o pending]
        /\ index' = ApplyRecords(index, currentWALNum, pending) /\ UNCHANGED <<unlinked, watermark>>
    BY Zenon DEF Synced
  <1>2. mode \in Running
    BY <1>1 DEF Running
  <1>3. InStep /\ Staged /\ Recorded
    BY Zenon, <1>2 DEF DurableInv
  <1>4. currentWALNum # 0 /\ currentWALNum \in DOMAIN files
    BY Zenon, <1>1, <1>3 DEF Staged
  <1>5. currentWALNum \in Nat \ {0} /\ currentWALNum + 1 = nextWALNum
    BY Zenon, <1>2, <1>4 DEF DurableInv, TailsOnlyAtEnd
  <1>6. /\ FilesOK(files, nextWALNum) /\ watermark \in 0 .. MaxHeight
        /\ \A k \in DOMAIN files : k \in Nat \ {0} /\ k < nextWALNum
    BY Zenon, <1>2, FilesKnown
  <1>7. pending \in Seq(Record) /\ \A k \in DOMAIN files : files[k] \in Seq(Record)
    BY Zenon, <1>3 DEF Recorded
  <1> DEFINE gs == files'
             cur == currentWALNum
             old == Loaded(files, watermark)
             new == ApplyRecords(index, cur, pending)
  <1>8. /\ DOMAIN gs = DOMAIN files /\ gs[cur] = files[cur] \o pending
        /\ \A j \in DOMAIN files : j # cur => gs[j] = files[j]
    BY Zenon, <1>1, <1>4
  <1>9. \A k \in DOMAIN files : k \in 1 .. cur
    BY <1>5, <1>6
  <1> HIDE DEF gs
  <1>10. gs[cur] \in Seq(Record)
    <2>1. files[cur] \in Seq(Record)
      BY Zenon, <1>4, <1>7
    <2> QED
      BY <1>7, <1>8, <2>1
  <1>11. FilesOK(files, cur) /\ FilesOK(gs, cur)
    <2>1. cur \in Nat
      BY <1>5
    <2>2. \A k \in DOMAIN gs : gs[k] \in Seq(Record)
      BY Zenon, <1>7, <1>8, <1>10
    <2> QED
      BY Zenon, <1>7, <1>8, <1>9, <2>1, <2>2 DEF FilesOK
  <1>12. Loaded(gs, watermark) = ApplyRecords(old, cur, pending)
    <2>1. LoadedLast(gs, files, watermark, cur, pending)
      BY Zenon, <1>4, <1>5, <1>7, <1>8, <1>11, LoadedAppend
    <2> QED
      BY Zenon, <2>1 DEF LoadedLast
  <1>13. IndexOK(old) /\ IndexOK(index) /\ Same(index, old) /\ cur \in Nat
    BY Zenon, <1>3, <1>5, <1>6, <1>11, LoadedOK DEF InStep, FilesOK
  <1>14. Written(index, new, cur, pending)
    BY Zenon, <1>7, <1>13, RecordsApplied
  <1>15. Same(new, Loaded(gs, watermark))
    <2> HIDE DEF old, cur, new
    <2>1. Same(ApplyRecords(index, cur, pending), ApplyRecords(old, cur, pending))
      BY Zenon, <1>7, <1>13, SameWritten
    <2> QED
      BY Zenon, <1>12, <2>1 DEF new
  <1>16. IndexOK(new)
    BY Zenon, <1>14 DEF Written
  <1>17. Covers(new, gs)
    <2> HIDE DEF cur, old, new
    <2> SUFFICES ASSUME NEW k \in DOMAIN gs, NEW j \in 1 .. Len(gs[k]) PROVE CoveredBy(gs[k][j], k, new)
      BY Zenon DEF Covers
    <2>1. ASSUME NEW i \in 1 .. Len(files[k]) PROVE CoveredBy(files[k][i], k, new)
      <3>1. CoveredBy(files[k][i], k, index)
        BY Zenon, <1>3, <1>8, <2>1 DEF InStep, Covers
      <3>2. files[k][i] \in Record
        <4>1. files[k] \in Seq(Record)
          BY Zenon, <1>7, <1>8
        <4> QED
          BY <4>1, <2>1
      <3> QED
        BY Zenon, <1>13, <1>14, <3>1, <3>2, WrittenKeeps
    <2>2. CASE k # cur
      BY Zenon, <1>8, <2>1, <2>2
    <2>3. CASE k = cur
      <3> DEFINE fs == files[cur]
      <3>1. fs \in Seq(Record) /\ gs[k] = fs \o pending /\ j \in 1 .. Len(gs[k])
        BY Zenon, <1>4, <1>7, <1>8, <2>3 DEF cur
      <3>2. \A i \in 1 .. Len(fs) : CoveredBy(fs[i], k, new)
        BY Zenon, <2>1, <2>3
      <3>3. \A i \in 1 .. Len(pending) : CoveredBy(pending[i], k, new)
        BY Zenon, <1>7, <1>14, <2>3, WrittenCovers
      <3> HIDE DEF fs
      <3>4. (j \in 1 .. Len(fs) /\ gs[k][j] = fs[j])
            \/ (j - Len(fs) \in 1 .. Len(pending) /\ gs[k][j] = pending[j - Len(fs)])
        BY <1>7, <3>1
      <3> QED
        BY Zenon, <3>2, <3>3, <3>4
    <2> QED
      BY Zenon, <2>2, <2>3
  <1>18. index' = new /\ files' = gs /\ watermark' = watermark /\ unlinked' = unlinked
    BY Zenon, <1>1 DEF gs
  <1>19. \A k \in DOMAIN unlinked' : k \notin DOMAIN files' /\ Below(unlinked'[k], watermark')
    <2> HIDE DEF cur, old, new
    <2> QED
      BY Zenon, <1>3, <1>8, <1>18 DEF InStep
  <1> QED
    <2> HIDE DEF cur, old, new
    <2> QED
      BY Zenon, <1>15, <1>16, <1>17, <1>18, <1>19 DEF InStep

\* A successful sync commits the batch.
LEMMA SyncedKeeps ==
    ASSUME DurableInv, TailsOnlyAtEnd', Synced
    PROVE  DurableInv' /\ Refines
  <1>1. /\ mode = "writing" /\ files' = [files EXCEPT ![currentWALNum] = @ \o pending]
        /\ index' = ApplyRecords(index, currentWALNum, pending) /\ dirty' = Clean /\ pending' = <<>>
        /\ mode' \in {"watermark", caller}
        /\ UNCHANGED <<unlinked, watermark, nextWALNum, currentWALNum, repairRequired, queue, toDelete, nextEntry>>
    BY Zenon DEF Synced, writer
  <1>2. caller \in {"up", "closing"}
    BY Zenon DEF DurableInv, TailsOnlyAtEnd
  <1>3. mode \in Running /\ mode' \in Running /\ mode' \notin {"writing", "rotate", "remove", "down"}
    BY <1>1, <1>2 DEF Running
  <1>4. InStep /\ Staged /\ Recorded
    BY Zenon, <1>3 DEF DurableInv
  <1>5. dirty'.recs = <<>> /\ <<>> \in Seq(Record) /\ OnePrune(<<>>)
    BY <1>1 DEF Clean, OnePrune
  <1>6. dirty.recs = pending /\ pending # <<>> /\ currentWALNum \in DOMAIN files /\ currentWALNum \in Nat
    <2>1. dirty = [file |-> currentWALNum, recs |-> pending] /\ pending # <<>> /\ currentWALNum # 0
      BY Zenon, <1>1, <1>4 DEF Staged
    <2>2. dirty.recs = pending
      BY Zenon, <2>1
    <2>3. currentWALNum \in DOMAIN files /\ currentWALNum \in Nat
      BY Zenon, <1>4, <2>1 DEF Staged, DurableInv, TailsOnlyAtEnd
    <2> QED
      BY Zenon, <2>1, <2>2, <2>3
  <1>7. pending \in Seq(Record) /\ OnePrune(pending) /\ files[currentWALNum] \in Seq(Record)
    BY Zenon, <1>4, <1>6 DEF Recorded
  <1>8. DOMAIN files' = DOMAIN files /\ \A k \in DOMAIN files : files'[k] \in Seq(Record)
    <2>1. files[currentWALNum] \o pending \in Seq(Record)
      BY <1>7
    <2>2. \A k \in DOMAIN files : files[k] \in Seq(Record)
      BY Zenon, <1>4 DEF Recorded
    <2> QED
      BY Zenon, <1>1, <2>1, <2>2
  <1>9. Recorded'
    BY Zenon, <1>1, <1>4, <1>5, <1>8 DEF Recorded
  <1>10. InStep'
    BY Zenon, SyncedInStep
  <1>11. Staged'
    BY Zenon, <1>1, <1>3, <1>4, <1>5, <1>8 DEF Staged
  <1>12. Refines
    <2>1. Contents = index /\ Contents' = index' /\ mode \notin {"down", "failed"} /\ mode' \notin {"down", "failed"}
      BY Zenon, <1>3, OpenView, OpenViewNext
    <2>2. Written(index, index', currentWALNum, pending) /\ IndexOK(index)
      BY Zenon, <1>1, <1>4, <1>6, <1>7, RecordsApplied DEF InStep
    <2>3. Wrote(index, index', pending)
      BY Zenon, <1>7, <2>2, WrittenIsWrite
    <2>4. Batch(dirty.recs) = Batch(pending) /\ Batch(pending) # Promise!Nothing
      BY Zenon, <1>6, <1>7, BatchSome
    <2>5. Batch(dirty'.recs) = Promise!Nothing /\ Batch(pending') = Promise!Nothing
      BY Zenon, <1>1, <1>5, BatchNothing
    <2>6. Promise!Write(Batch(dirty.recs))
      BY Zenon, <2>1, <2>3, <2>4 DEF Wrote, Promise!Write
    <2>7. Promise!Commit
      BY Zenon, <2>1, <2>4, <2>5, <2>6 DEF Promise!Commit
    <2> QED
      BY Zenon, <2>7 DEF Refines, Promise!Next
  <1> QED
    BY Zenon, <1>3, <1>9, <1>10, <1>11, <1>12 DEF DurableInv

\* abortUncommitted gives the batch up, or leaves it in flight for the next start to find.
LEMMA AbortKeeps ==
    ASSUME DurableInv, TailsOnlyAtEnd', abortUncommitted
    PROVE  DurableInv' /\ Refines
  <1>1. /\ mode = "writing" /\ currentWALNum' = 0 /\ mode' = caller
        /\ \/ dirty' = Clean /\ repairRequired' = repairRequired
           \/ repairRequired' = TRUE /\ dirty' = dirty
        /\ UNCHANGED <<files, unlinked, watermark, index, pending, queue, toDelete, nextEntry>>
    BY Zenon DEF abortUncommitted, cleanup
  <1>2. caller \in {"up", "closing"}
    BY Zenon DEF DurableInv, TailsOnlyAtEnd
  <1>3. mode \in Running /\ mode' \in Running /\ mode' \in {"up", "closing"}
        /\ mode' \notin {"writing", "rotate", "remove", "down"}
    BY <1>1, <1>2 DEF Running
  <1>4. InStep /\ Staged /\ Recorded
    BY Zenon, <1>3 DEF DurableInv
  <1>5. <<>> \in Seq(Record) /\ OnePrune(<<>>) /\ Clean.recs = <<>>
    BY DEF Clean, OnePrune
  <1>6. Recorded'
    BY Zenon, <1>1, <1>4, <1>5 DEF Recorded
  <1>7. InStep'
    BY Zenon, <1>1, <1>4 DEF InStep
  <1>8. Staged'
    BY Zenon, <1>1, <1>3, <1>4, <1>5 DEF Staged
  <1>9. Refines
    <2>1. CASE dirty' = dirty
      BY Zenon, <1>1, <1>3, <2>1, Unseen
    <2>2. CASE dirty' = Clean
      <3>1. dirty.recs = pending /\ pending # <<>> /\ pending \in Seq(Record) /\ OnePrune(pending)
        <4>1. dirty = [file |-> currentWALNum, recs |-> pending] /\ pending # <<>>
          BY Zenon, <1>1, <1>4 DEF Staged
        <4>2. dirty.recs = pending
          BY Zenon, <4>1
        <4> QED
          BY Zenon, <1>4, <4>1, <4>2 DEF Recorded
      <3>2. Batch(dirty.recs) # Promise!Nothing /\ Batch(dirty'.recs) = Promise!Nothing /\ Batch(pending') = Batch(pending)
        BY Zenon, <1>1, <1>5, <2>2, <3>1, BatchSome, BatchNothing
      <3>3. Contents = index /\ Contents' = index /\ mode \notin {"down", "failed"} /\ mode' \notin {"down", "failed"}
        BY Zenon, <1>1, <1>3, OpenView, OpenViewNext
      <3>4. Promise!Abort
        BY Zenon, <3>2, <3>3 DEF Promise!Abort
      <3> QED
        BY Zenon, <3>4 DEF Refines, Promise!Next
    <2> QED
      BY Zenon, <1>1, <2>1, <2>2
  <1> QED
    BY Zenon, <1>3, <1>6, <1>7, <1>8, <1>9 DEF DurableInv

\* A watermark that rises to what is pruned loads to the same contents.
LEMMA WatermarkKeeps ==
    ASSUME DurableInv, TailsOnlyAtEnd', writePruneWatermark
    PROVE  DurableInv' /\ Refines
  <1>1. /\ mode = "watermark" /\ watermark' \in {watermark, index.pruned}
        /\ \/ watermark' = index.pruned /\ mode' = "rotate"
           \/ mode' = caller
        /\ UNCHANGED <<files, dirty, unlinked, index, pending, nextWALNum, currentWALNum, repairRequired, queue,
                       toDelete, nextEntry>>
    BY Zenon DEF writePruneWatermark, writer, cleanup
  <1>2. caller \in {"up", "closing"}
    BY Zenon DEF DurableInv, TailsOnlyAtEnd
  <1>3. mode \in Running /\ mode' \in Running /\ mode' \notin {"writing", "remove", "down"}
        /\ mode \notin {"writing", "up", "closing"}
        /\ (mode' = "rotate" => watermark' = index.pruned)
    BY <1>1, <1>2 DEF Running
  <1>4. InStep /\ Staged /\ Recorded
    BY Zenon, <1>3 DEF DurableInv
  <1>5. /\ FilesOK(files, nextWALNum) /\ watermark \in 0 .. MaxHeight /\ watermark <= index.pruned
        /\ index.pruned \in 0 .. MaxHeight
    BY Zenon, <1>3, <1>4, FilesKnown DEF InStep, IndexOK
  <1>6. watermark' \in 0 .. MaxHeight /\ watermark <= watermark' /\ watermark' <= index.pruned
    BY <1>1, <1>5, SizesAssumption
  <1>7. Recorded'
    BY Zenon, <1>1, <1>4, <1>6 DEF Recorded
  <1>8. Same(index, Loaded(files, watermark'))
    <2> DEFINE top == watermark'
    <2>1. top \in 0 .. MaxHeight /\ watermark <= top /\ top <= index.pruned
      BY Zenon, <1>6
    <2> HIDE DEF top
    <2>2. Same(index, Loaded(files, watermark)) /\ index.pruned = Loaded(files, watermark).pruned
      BY Zenon, <1>4 DEF InStep, Same
    <2>3. Same(Loaded(files, top), Loaded(files, watermark))
      BY Zenon, <1>5, <2>1, <2>2, LoadedMark
    <2>4. Same(index, Loaded(files, top))
      BY Zenon, <2>2, <2>3 DEF Same
    <2> QED
      BY Zenon, <2>4 DEF top
  <1>9. \A k \in DOMAIN unlinked : Below(unlinked[k], watermark')
    <2> SUFFICES ASSUME NEW k \in DOMAIN unlinked, NEW j \in 1 .. Len(unlinked[k])
                 PROVE  unlinked[k][j].h <= watermark'
      BY Zenon DEF Below
    <2>1. unlinked[k][j].h <= watermark
      BY Zenon, <1>4 DEF InStep, Below
    <2>2. unlinked[k] \in Seq(Record)
      BY Zenon, <1>4 DEF Recorded
    <2>3. unlinked[k][j] \in Record
      BY <2>2
    <2>4. unlinked[k][j].h \in Int
      BY Zenon, <2>3, RecordHeight
    <2> QED
      BY <1>5, <1>6, <2>1, <2>4
  <1>10. InStep'
    BY Zenon, <1>1, <1>4, <1>8, <1>9 DEF InStep
  <1>11. Staged'
    BY Zenon, <1>1, <1>3, <1>4 DEF Staged
  <1>12. Refines
    BY Zenon, <1>1, <1>3, Unseen
  <1> QED
    BY Zenon, <1>3, <1>7, <1>10, <1>11, <1>12 DEF DurableInv

\* What nothing refers to has no record above the watermark.
LEMMA RotateKeeps ==
    ASSUME DurableInv, TailsOnlyAtEnd', Rotate
    PROVE  DurableInv' /\ Refines
  <1>1. /\ mode = "rotate" /\ mode' = "remove" /\ currentWALNum' = 0
        /\ dirty' = dirty \/ dirty' = [file |-> currentWALNum, recs |-> <<>>]
        /\ toDelete' = {k \in queue : k < nextWALNum /\ \A j \in DOMAIN index.refs : k < j}
        /\ queue' = queue \ toDelete'
        /\ UNCHANGED <<files, unlinked, watermark, index, pending, nextEntry>>
    BY Zenon DEF Rotate
  <1>2. mode \in Running /\ mode' \in Running /\ mode' \notin {"writing", "rotate", "down"}
        /\ mode \notin {"writing", "up", "closing"}
    BY <1>1 DEF Running
  <1>3. InStep /\ Staged /\ Recorded
    BY Zenon, <1>2 DEF DurableInv
  <1>4. dirty.recs = <<>> /\ dirty'.recs = <<>> /\ watermark = index.pruned
    <2>1. dirty.recs = <<>> /\ watermark = index.pruned
      BY Zenon, <1>1, <1>2, <1>3 DEF Staged
    <2>2. dirty'.recs = <<>>
      BY <1>1, <2>1
    <2> QED
      BY Zenon, <2>1, <2>2
  <1>5. Recorded'
    BY Zenon, <1>1, <1>3, <1>4 DEF Recorded
  <1>6. InStep'
    BY Zenon, <1>1, <1>3 DEF InStep
  <1>7. ASSUME NEW k \in toDelete' PROVE Below(files[k], watermark)
    <2> SUFFICES ASSUME NEW j \in 1 .. Len(files[k]) PROVE files[k][j].h <= watermark
      BY Zenon DEF Below
    <2>1. k \in DOMAIN files /\ \A i \in DOMAIN index.refs : k < i
      BY Zenon, <1>1, <1>3 DEF Staged
    <2>2. k \in Nat /\ ~(k < k)
      <3>1. k \in Nat
        BY Zenon, <1>2, <2>1, FilesKnown
      <3> QED
        BY <3>1
    <2>3. k \notin DOMAIN index.refs
      BY Zenon, <2>1, <2>2
    <2>4. files[k] \in Seq(Record)
      BY Zenon, <1>3, <2>1 DEF Recorded
    <2>5. files[k][j] \in Record
      BY <2>4
    <2>6. files[k][j].h \in Heights
      BY Zenon, <2>5, RecordHeight
    <2>7. HeightsIn(index, k) = {}
      BY Zenon, <1>3, <2>3 DEF InStep, IndexOK
    <2>8. k \notin index.byHeight[files[k][j].h]
      BY Zenon, <2>6, <2>7 DEF HeightsIn
    <2>9. CoveredBy(files[k][j], k, index)
      BY Zenon, <1>3, <2>1 DEF InStep, Covers
    <2> QED
      BY Zenon, <1>4, <2>8, <2>9 DEF CoveredBy
  <1>8. Staged'
    <2>1. queue' \union toDelete' \subseteq DOMAIN files /\ queue' \intersect toDelete' = {}
      BY Zenon, <1>1, <1>3 DEF Staged
    <2> QED
      BY Zenon, <1>1, <1>2, <1>4, <1>7, <2>1 DEF Staged
  <1>9. Refines
    BY Zenon, <1>1, <1>2, <1>4, Unseen
  <1> QED
    BY Zenon, <1>2, <1>5, <1>6, <1>8, <1>9 DEF DurableInv

\* A file that is removed, and may come back, holds nothing above the watermark.
LEMMA RemoveKeeps ==
    ASSUME DurableInv, TailsOnlyAtEnd', RemoveObsolete
    PROVE  DurableInv' /\ Refines
  <1>1. PICK k \in toDelete :
           \/ /\ files' = [j \in DOMAIN files \ {k} |-> files[j]]
              /\ unlinked' = [j \in DOMAIN unlinked \union {k} |-> IF j = k THEN files[k] ELSE unlinked[j]]
              /\ toDelete' = toDelete \ {k} /\ mode' = mode
           \/ mode' = caller /\ toDelete' = {} /\ files' = files /\ unlinked' = unlinked
    BY Zenon DEF RemoveObsolete
  <1>2. /\ mode = "remove"
        /\ UNCHANGED <<dirty, watermark, index, pending, nextWALNum, currentWALNum, repairRequired, queue, nextEntry>>
    BY Zenon DEF RemoveObsolete, writer
  <1>3. caller \in {"up", "closing"}
    BY Zenon DEF DurableInv, TailsOnlyAtEnd
  <1>4. mode \in Running /\ mode' \in Running /\ mode \notin {"writing", "up", "closing"}
        /\ mode' \notin {"writing", "rotate", "down"} /\ (mode' = caller => mode' # "remove")
    BY <1>1, <1>2, <1>3 DEF Running
  <1>5. InStep /\ Staged /\ Recorded
    BY Zenon, <1>4 DEF DurableInv
  <1>6. Refines
    BY Zenon, <1>2, <1>4, Unseen
  <1>7. /\ k \in DOMAIN files /\ k \notin queue /\ Below(files[k], watermark) /\ currentWALNum = 0
        /\ dirty.recs = <<>> /\ watermark = index.pruned
    BY Zenon, <1>2, <1>4, <1>5 DEF Staged
  <1>8. CASE mode' = caller /\ toDelete' = {} /\ files' = files /\ unlinked' = unlinked
    <2>1. Recorded'
      BY Zenon, <1>2, <1>5, <1>8 DEF Recorded
    <2>2. InStep'
      BY Zenon, <1>2, <1>5, <1>8 DEF InStep
    <2>3. Staged'
      BY Zenon, <1>2, <1>4, <1>5, <1>7, <1>8 DEF Staged
    <2> QED
      BY Zenon, <1>4, <1>6, <2>1, <2>2, <2>3 DEF DurableInv
  <1>9. CASE /\ files' = [j \in DOMAIN files \ {k} |-> files[j]]
             /\ unlinked' = [j \in DOMAIN unlinked \union {k} |-> IF j = k THEN files[k] ELSE unlinked[j]]
             /\ toDelete' = toDelete \ {k} /\ mode' = mode
    <2>1. DOMAIN files' = DOMAIN files \ {k} /\ \A j \in DOMAIN files' : files'[j] = files[j]
      BY Zenon, <1>9
    <2>2. /\ DOMAIN unlinked' = DOMAIN unlinked \union {k} /\ unlinked'[k] = files[k]
          /\ \A j \in DOMAIN unlinked : j # k => unlinked'[j] = unlinked[j]
      BY Zenon, <1>9
    <2>3. Recorded'
      BY Zenon, <1>2, <1>5, <1>7, <2>1, <2>2 DEF Recorded
    <2>4. FilesOK(files, nextWALNum)
      BY Zenon, <1>4, FilesKnown
    <2>5. FilesOK(files', nextWALNum)
      BY Zenon, <2>1, <2>4 DEF FilesOK
    <2>6. ASSUME NEW j \in 1 .. nextWALNum PROVE AlikeAt(files, files', j, watermark)
      BY Zenon, <1>7, <2>1 DEF AlikeAt
    <2>7. Same(index', Loaded(files', watermark'))
      BY Zenon, <1>2, <1>4, <2>4, <2>5, <2>6, StaysSame
    <2>8. Covers(index', files')
      BY Zenon, <1>2, <1>5, <2>1 DEF InStep, Covers
    <2>9. \A j \in DOMAIN unlinked' : j \notin DOMAIN files' /\ Below(unlinked'[j], watermark')
      BY Zenon, <1>2, <1>5, <1>7, <2>1, <2>2 DEF InStep
    <2>10. InStep'
      BY Zenon, <1>2, <1>5, <2>7, <2>8, <2>9 DEF InStep
    <2>11. Staged'
      <3>1. queue' \union toDelete' \subseteq DOMAIN files' /\ queue' \intersect toDelete' = {}
        BY Zenon, <1>2, <1>5, <1>7, <1>9, <2>1 DEF Staged
      <3>2. \A j \in toDelete' : Below(files'[j], watermark')
        BY Zenon, <1>2, <1>5, <2>1, <3>1, <1>9 DEF Staged
      <3> QED
        BY Zenon, <1>2, <1>4, <1>7, <3>1, <3>2 DEF Staged
    <2> QED
      BY Zenon, <1>4, <1>6, <2>3, <2>10, <2>11 DEF DurableInv
  <1> QED
    BY Zenon, <1>1, <1>8, <1>9

\* The end of a cleanup changes nothing the promise can tell.
LEMMA RemovedKeeps ==
    ASSUME DurableInv, TailsOnlyAtEnd', Removed
    PROVE  DurableInv' /\ Refines
  <1>1. /\ mode = "remove" /\ mode' = caller
        /\ UNCHANGED <<files, dirty, unlinked, watermark, index, pending, currentWALNum, repairRequired, queue,
                       toDelete, nextEntry>>
    BY Zenon DEF Removed, disk, writer
  <1>2. caller \in {"up", "closing"}
    BY Zenon DEF DurableInv, TailsOnlyAtEnd
  <1>3. mode \in Running /\ mode' \in Running /\ mode \notin {"writing", "up", "closing"}
        /\ mode' \notin {"writing", "rotate", "remove", "down"}
    BY <1>1, <1>2 DEF Running
  <1>4. InStep /\ Staged /\ Recorded
    BY Zenon, <1>3 DEF DurableInv
  <1>5. Recorded'
    BY Zenon, <1>1, <1>4 DEF Recorded
  <1>6. InStep'
    BY Zenon, <1>1, <1>4 DEF InStep
  <1>7. Staged'
    BY Zenon, <1>1, <1>3, <1>4 DEF Staged
  <1>8. Refines
    BY Zenon, <1>1, <1>3, Unseen
  <1> QED
    BY Zenon, <1>3, <1>5, <1>6, <1>7, <1>8 DEF DurableInv

\* Starting loads the index that the promise was stated with while the store was down.
LEMMA StartKeeps ==
    ASSUME DurableInv, TailsOnlyAtEnd', NewTendermintWALStore
    PROVE  DurableInv' /\ Refines
  <1>1. /\ mode = "down" /\ mode' = (IF torn' = {} THEN "up" ELSE "failed")
        /\ index' = (IF torn' = {} THEN Loaded(files, watermark) ELSE index)
        /\ queue' = DOMAIN files
        /\ UNCHANGED <<files, dirty, unlinked, watermark, pending, currentWALNum, repairRequired, toDelete, nextEntry>>
    BY Zenon DEF NewTendermintWALStore, cleanup
  <1>2. mode' # "failed"
    BY Zenon DEF TailsOnlyAtEnd, Running
  <1>3. mode' = "up" /\ index' = Loaded(files, watermark)
    BY Zenon, <1>1, <1>2
  <1>4. mode' \in Running /\ mode' \notin {"writing", "rotate", "remove", "down"}
    BY <1>3 DEF Running
  <1>5. /\ Recorded /\ dirty.recs = <<>> /\ DOMAIN unlinked = {} /\ toDelete = {} /\ currentWALNum = 0
        /\ ~repairRequired
    BY Zenon, <1>1 DEF DurableInv
  <1>6. FilesOK(files, Latest(files))
    <2>1. /\ DOMAIN files \subseteq Nat \ {0} /\ Latest(files) \in DOMAIN files \union {0}
          /\ \A k \in DOMAIN files : k <= Latest(files)
      BY Zenon, <1>1 DEF DurableInv, TailsOnlyAtEnd
    <2>2. Latest(files) \in Nat /\ DOMAIN files \subseteq 1 .. Latest(files)
      BY <2>1
    <2> QED
      BY Zenon, <1>5, <2>2 DEF FilesOK, Recorded
  <1>7. IndexOK(index') /\ Covers(index', files)
    BY Zenon, <1>3, <1>5, <1>6, LoadedOK DEF Recorded
  <1>8. Recorded'
    BY Zenon, <1>1, <1>5 DEF Recorded
  <1>9. InStep'
    BY Zenon, <1>1, <1>3, <1>5, <1>7 DEF InStep, Same
  <1>10. Staged'
    BY Zenon, <1>1, <1>4, <1>5 DEF Staged
  <1>11. Refines
    <2>1. Contents = Loaded(files, watermark) /\ Contents' = Loaded(files, watermark)
      BY Zenon, <1>1, <1>3, <1>4, OpenViewNext DEF Contents
    <2>2. ~(mode \notin {"down", "failed"}) /\ mode' \notin {"down", "failed"}
      BY Zenon, <1>1, <1>4, OpenViewNext
    <2>3. Batch(pending') = Batch(pending) /\ Batch(dirty'.recs) = Batch(dirty.recs)
      BY Zenon, <1>1
    <2>4. Promise!Start
      BY Zenon, <2>1, <2>2, <2>3 DEF Promise!Start
    <2> QED
      BY Zenon, <2>4 DEF Refines, Promise!Next
  <1> QED
    BY Zenon, <1>4, <1>8, <1>9, <1>10, <1>11 DEF DurableInv

\* The files after a stop, but for the bytes that were not synced.
Returned(back) == [k \in DOMAIN files \union back |-> IF k \in back THEN unlinked[k] ELSE files[k]]

\* Removals that are undone change nothing that is loaded.
LEMMA ReturnedLoads ==
    ASSUME DurableInv, mode \in Running, NEW back \in SUBSET DOMAIN unlinked
    PROVE  /\ FilesOK(Returned(back), nextWALNum) /\ DOMAIN Returned(back) = DOMAIN files \union back
           /\ \A k \in DOMAIN Returned(back) : k \in Nat \ {0} /\ k < nextWALNum
           /\ \A k \in DOMAIN files : k \notin back /\ Returned(back)[k] = files[k]
           /\ Loaded(Returned(back), watermark) = Loaded(files, watermark)
  <1>1. InStep /\ Recorded
    BY Zenon DEF DurableInv
  <1>2. FilesOK(files, nextWALNum) /\ nextWALNum \in Nat \ {0} /\ watermark \in 0 .. MaxHeight
    BY Zenon, FilesKnown
  <1>3. \A k \in DOMAIN files \union DOMAIN unlinked : k \in Nat \ {0} /\ k < nextWALNum
    BY Zenon DEF DurableInv, TailsOnlyAtEnd
  <1> DEFINE gs == Returned(back)
  <1>4. /\ DOMAIN gs = DOMAIN files \union back /\ \A k \in back : gs[k] = unlinked[k]
        /\ \A k \in DOMAIN files : k \notin back /\ gs[k] = files[k]
    BY Zenon, <1>1 DEF Returned, InStep
  <1> HIDE DEF gs
  <1>5. \A k \in DOMAIN gs : k \in Nat \ {0} /\ k < nextWALNum /\ gs[k] \in Seq(Record)
    BY Zenon, <1>1, <1>3, <1>4 DEF Recorded
  <1>6. FilesOK(gs, nextWALNum)
    <2>1. nextWALNum \in Nat /\ DOMAIN gs \subseteq 1 .. nextWALNum
      BY <1>2, <1>5
    <2> QED
      BY Zenon, <1>5, <2>1 DEF FilesOK
  <1>7. ASSUME NEW k \in 1 .. nextWALNum PROVE AlikeAt(files, gs, k, watermark)
    BY Zenon, <1>1, <1>4 DEF AlikeAt, InStep
  <1>8. Loaded(gs, watermark) = Loaded(files, watermark)
    BY Zenon, <1>2, <1>6, <1>7, LoadedAlike
  <1> QED
    BY Zenon, <1>4, <1>5, <1>6, <1>8 DEF gs

\* What is loaded after a stop: what was loaded before, and the batch in flight or not.
LEMMA SettledLoads ==
    ASSUME DurableInv, mode \in Running, Settle
    PROVE  /\ \A k \in DOMAIN files' : files'[k] \in Seq(Record)
           /\ \/ Loaded(files', watermark) = Loaded(files, watermark)
              \/ Wrote(Loaded(files, watermark), Loaded(files', watermark), dirty.recs)
  <1>1. PICK back \in SUBSET DOMAIN unlinked, fate \in Fates :
           files' = [k \in DOMAIN files \union back |->
                       IF k \in back THEN unlinked[k]
                       ELSE IF k = dirty.file /\ fate = "kept" THEN files[k] \o dirty.recs
                       ELSE files[k]]
    BY Zenon DEF Settle
  <1> DEFINE gs == files'
             mid == Returned(back)
             cur == dirty.file
  <1>2. Recorded /\ Staged /\ dirty.recs \in Seq(Record) /\ OnePrune(dirty.recs) /\ watermark \in 0 .. MaxHeight
    BY Zenon DEF DurableInv, Recorded
  <1>3. /\ FilesOK(mid, nextWALNum) /\ DOMAIN mid = DOMAIN files \union back
        /\ \A k \in DOMAIN mid : k \in Nat \ {0} /\ k < nextWALNum
        /\ \A k \in DOMAIN files : k \notin back /\ mid[k] = files[k]
        /\ Loaded(mid, watermark) = Loaded(files, watermark)
    BY Zenon, ReturnedLoads
  <1>4. \A k \in DOMAIN mid : mid[k] \in Seq(Record)
    BY Zenon, <1>3 DEF FilesOK
  <1>5. CASE fate # "kept" \/ cur \notin DOMAIN files \/ dirty.recs = <<>>
    <2>1. ASSUME NEW k \in DOMAIN files PROVE files[k] \o <<>> = files[k]
      <3>1. files[k] \in Seq(Record)
        BY Zenon, <1>2, <2>1 DEF Recorded
      <3> QED
        BY <3>1
    <2>2. ASSUME NEW k \in DOMAIN files \union back
          PROVE  (IF k \in back THEN unlinked[k]
                  ELSE IF k = dirty.file /\ fate = "kept" THEN files[k] \o dirty.recs ELSE files[k])
                 = IF k \in back THEN unlinked[k] ELSE files[k]
      BY Zenon, <1>5, <2>1, <2>2
    <2>3. files' = mid
      BY Zenon, <1>1, <2>2 DEF Returned
    <2> HIDE DEF mid
    <2> QED
      BY Zenon, <1>3, <1>4, <2>3
  <1>6. CASE fate = "kept" /\ cur \in DOMAIN files /\ dirty.recs # <<>>
    <2>1. /\ DOMAIN gs = DOMAIN mid /\ gs[cur] = mid[cur] \o dirty.recs
          /\ \A j \in DOMAIN mid : j # cur => gs[j] = mid[j]
      <3>1. cur \notin back /\ cur \in DOMAIN mid /\ mid[cur] = files[cur]
        BY Zenon, <1>3, <1>6
      <3>2. DOMAIN gs = DOMAIN mid
        BY Zenon, <1>1, <1>3
      <3>3. gs[cur] = files[cur] \o dirty.recs
        BY Zenon, <1>1, <1>6, <3>1
      <3>4. ASSUME NEW j \in DOMAIN mid, j # cur PROVE gs[j] = mid[j]
        BY Zenon, <1>1, <1>3, <3>4 DEF Returned
      <3> QED
        BY Zenon, <3>1, <3>2, <3>3, <3>4
    <2>2. cur \in DOMAIN mid /\ cur \in Nat \ {0}
      BY Zenon, <1>3, <1>6
    <2>3. cur + 1 = nextWALNum
      <3>1. cur # 0
        BY <2>2
      <3> QED
        BY Zenon, <3>1 DEF DurableInv, TailsOnlyAtEnd
    <2> HIDE DEF gs, mid, cur
    <2>4. \A k \in DOMAIN mid : k \in 1 .. cur
      BY <1>3, <2>2, <2>3
    <2>5. gs[cur] \in Seq(Record)
      <3>1. mid[cur] \in Seq(Record)
        BY Zenon, <1>4, <2>2
      <3> QED
        BY <1>2, <2>1, <3>1
    <2>6. \A k \in DOMAIN gs : gs[k] \in Seq(Record)
      BY Zenon, <1>4, <2>1, <2>5
    <2>7. FilesOK(mid, cur) /\ FilesOK(gs, cur)
      <3>1. cur \in Nat
        BY <2>2
      <3> QED
        BY Zenon, <1>4, <2>1, <2>4, <2>6, <3>1 DEF FilesOK
    <2>8. Loaded(gs, watermark) = ApplyRecords(Loaded(mid, watermark), cur, dirty.recs)
      <3>1. LoadedLast(gs, mid, watermark, cur, dirty.recs)
        BY Zenon, <1>2, <2>1, <2>2, <2>7, LoadedAppend
      <3> QED
        BY Zenon, <3>1 DEF LoadedLast
    <2> DEFINE old == Loaded(mid, watermark)
               new == Loaded(gs, watermark)
    <2>9. IndexOK(old) /\ cur \in Nat
      BY Zenon, <1>2, <2>7, LoadedOK DEF FilesOK
    <2>10. new = ApplyRecords(old, cur, dirty.recs)
      BY Zenon, <2>8
    <2> HIDE DEF old, new
    <2>11. Written(old, new, cur, dirty.recs)
      BY Zenon, <1>2, <2>9, <2>10, RecordsApplied
    <2>12. Wrote(old, new, dirty.recs)
      BY Zenon, <1>2, <2>9, <2>11, WrittenIsWrite
    <2> QED
      BY Zenon, <1>3, <2>6, <2>12 DEF old, new, gs
  <1> QED
    BY Zenon, <1>5, <1>6

\* A stop, orderly or not.
LEMMA StopKeeps ==
    ASSUME DurableInv, TailsOnlyAtEnd', mode \in Running, Settle, Forget, UNCHANGED <<watermark, nextEntry>>
    PROVE  DurableInv' /\ Refines
  <1>1. InStep /\ Recorded
    BY Zenon DEF DurableInv
  <1>2. dirty' = Clean /\ unlinked' = <<>>
    BY Zenon DEF Settle
  <1>3. /\ mode' = "down" /\ pending' = <<>> /\ toDelete' = {} /\ queue' = {} /\ currentWALNum' = 0
        /\ repairRequired' = FALSE
    BY Zenon DEF Forget
  <1>4. DOMAIN unlinked' = {} /\ dirty'.recs = <<>> /\ <<>> \in Seq(Record) /\ OnePrune(<<>>)
        /\ mode' \notin Running
    BY <1>2, <1>3 DEF Clean, OnePrune, Running
  <1>5. /\ \A k \in DOMAIN files' : files'[k] \in Seq(Record)
        /\ \/ Loaded(files', watermark) = Loaded(files, watermark)
           \/ Wrote(Loaded(files, watermark), Loaded(files', watermark), dirty.recs)
    BY Zenon, SettledLoads
  <1>6. Recorded'
    BY Zenon, <1>1, <1>3, <1>4, <1>5 DEF Recorded
  <1>7. DurableInv'
    BY Zenon, <1>3, <1>4, <1>6 DEF DurableInv
  <1>8. Contents = index /\ mode \notin {"down", "failed"} /\ Contents' = Loaded(files', watermark)
        /\ ~(mode' \notin {"down", "failed"})
    BY Zenon, <1>3, OpenView DEF Contents
  <1>9. Batch(pending') = Promise!Nothing /\ Batch(dirty'.recs) = Promise!Nothing
    BY Zenon, <1>3, <1>4, BatchNothing
  <1>10. index.entries = Loaded(files, watermark).entries /\ index.pruned = Loaded(files, watermark).pruned
    BY Zenon, <1>1 DEF InStep, Same
  <1>11. Promise!Write(Batch(dirty.recs))
         \/ (Contents'.entries = Contents.entries /\ Contents'.pruned = Contents.pruned)
    <2>1. CASE Loaded(files', watermark) = Loaded(files, watermark)
      BY Zenon, <1>8, <1>10, <2>1
    <2>2. CASE Wrote(Loaded(files, watermark), Loaded(files', watermark), dirty.recs)
      BY Zenon, <1>8, <1>10, <2>2 DEF Wrote, Promise!Write
    <2> QED
      BY Zenon, <1>5, <2>1, <2>2
  <1>12. Promise!Stop
    BY Zenon, <1>8, <1>9, <1>11 DEF Promise!Stop
  <1> QED
    BY Zenon, <1>7, <1>12 DEF Refines, Promise!Next

\* Every step of the store keeps the invariant and is a step of the promise.
LEMMA DurableStep ==
    ASSUME DurableInv, TailsOnlyAtEnd', [Next]_vars
    PROVE  DurableInv' /\ Refines
  <1>1. ASSUME NEW h \in Heights, SetWALEntry(h) \/ DeleteWALEntries(h) PROVE DurableInv' /\ Refines
    BY Zenon, <1>1, SetKeeps, DeleteKeeps
  <1>2. ASSUME NEW to \in {"up", "closing"}, Flush(to) PROVE DurableInv' /\ Refines
    BY Zenon, <1>2, FlushKeeps
  <1>3. ASSUME Crash \/ Close PROVE DurableInv' /\ Refines
    <2>1. mode \in Running /\ Settle /\ Forget /\ UNCHANGED <<watermark, nextEntry>>
      BY Zenon, <1>3 DEF Crash, Close, DurableInv, TailsOnlyAtEnd, Running
    <2> QED
      BY Zenon, <2>1, StopKeeps
  <1>4. ASSUME UNCHANGED vars PROVE DurableInv' /\ Refines
    <2>1. UNCHANGED <<files, dirty, unlinked, watermark, mode, index, pending, currentWALNum, repairRequired, queue,
                      toDelete, nextEntry>>
      BY Zenon, <1>4 DEF vars, disk, writer, cleanup
    <2>2. Recorded' = Recorded /\ InStep' = InStep /\ Staged' = Staged
      BY Zenon, <2>1 DEF Recorded, InStep, Staged
    <2>3. DurableInv'
      BY Zenon, <2>1, <2>2 DEF DurableInv
    <2>4. Contents' = Contents /\ Batch(pending)' = Batch(pending) /\ Batch(dirty.recs)' = Batch(dirty.recs)
      BY Zenon, <2>1 DEF Contents, Batch
    <2> QED
      BY Zenon, <2>1, <2>3, <2>4 DEF Refines, Promise!logVars
  <1> QED
    BY Zenon, <1>1, <1>2, <1>3, <1>4, SyncedKeeps, AbortKeeps, WatermarkKeeps, RotateKeeps, RemoveKeeps,
       RemovedKeeps, StartKeeps DEF Next

\* A new store keeps the invariant, and its promise begins.
LEMMA DurableInit ==
    ASSUME Init
    PROVE  DurableInv /\ Promise!Init
  <1>1. /\ files = <<>> /\ dirty = Clean /\ torn = {} /\ unlinked = <<>> /\ watermark = 0
        /\ mode = "up" /\ caller = "up" /\ index = Empty /\ pending = <<>>
        /\ nextWALNum = 1 /\ currentWALNum = 0 /\ repairRequired = FALSE /\ queue = {}
        /\ toDelete = {} /\ nextEntry = 1
    BY Zenon DEF Init
  <1>2. TailsOnlyAtEnd
    BY <1>1 DEF TailsOnlyAtEnd, Running, Clean
  <1>3. /\ DOMAIN files = {} /\ DOMAIN unlinked = {} /\ dirty.recs = <<>> /\ <<>> \in Seq(Record) /\ OnePrune(<<>>)
        /\ 0 \in 0 .. MaxHeight /\ 1 \in Nat \ {0} /\ 0 \in Nat
    BY <1>1, SizesAssumption DEF Clean, OnePrune
  <1>4. Recorded
    BY Zenon, <1>1, <1>3 DEF Recorded
  <1>5. FilesOK(files, 0)
    BY Zenon, <1>3 DEF FilesOK
  <1>6. Loaded(files, 0) = Fresh(0)
    <2>1. PICK f : Loads(f, 0, files, 0) /\ Loaded(files, 0) = f[0]
      BY Zenon, <1>5, LoadedIs
    <2> QED
      BY Zenon, <1>3, <2>1, LoadBase
  <1>7. IndexOK(Fresh(0)) /\ Fresh(0).pruned = 0
    BY Zenon, <1>3, FreshOK
  <1>8. InStep
    BY Zenon, <1>1, <1>3, <1>6, <1>7 DEF InStep, Same, Covers, Empty
  <1>9. mode \notin {"writing", "rotate", "remove", "down", "failed"}
    BY <1>1
  <1>10. Staged
    BY Zenon, <1>1, <1>3, <1>9 DEF Staged
  <1>11. DurableInv
    BY Zenon, <1>2, <1>4, <1>8, <1>9, <1>10 DEF DurableInv
  <1>12. Contents = Fresh(0)
    BY Zenon, <1>1, <1>9 DEF Contents, Empty
  <1>13. Contents.entries = Promise!NoEntries /\ Contents.pruned = 0
    BY Zenon, <1>7, <1>12 DEF Fresh, Promise!NoEntries
  <1>14. Batch(pending) = Promise!Nothing /\ Batch(dirty.recs) = Promise!Nothing
    BY Zenon, <1>1, <1>3, BatchNothing
  <1>15. (mode \notin {"down", "failed"}) = TRUE
    BY Zenon, <1>9
  <1> QED
    BY Zenon, <1>11, <1>13, <1>14, <1>15 DEF Promise!Init

\* The store implements DurableLog: through crashes at any point, failed writes, cleanups
\* whose removals are undone and restarts, no committed entry is lost, doubled or reordered,
\* no pruned entry comes back, and a batch that was in flight is there whole or not at all.
THEOREM StoreIsDurable == Spec => Durable
  <1>1. Init => DurableInv /\ Promise!Init
    BY Zenon, DurableInit
  <1>2. DurableInv => TailsOnlyAtEnd
    BY Zenon DEF DurableInv
  <1>3. DurableInv /\ [Next]_vars => DurableInv' /\ [Promise!Next]_(Promise!logVars)
    BY Zenon, <1>2, StepTails, DurableStep DEF Refines
  <1> QED
    BY <1>1, <1>3, PTL DEF Spec, Durable, Promise!Spec

-----------------------------------------------------------------------------
\* What CleanupComplete rests on: before the first I/O error the manager knows of
\* every file, and what a cleanup leaves to it is referred to.
Accounted ==
    /\ failures \in Nat
    /\ mode # "remove" => toDelete = {}
    /\ mode \in Running /\ failures = 0 => DOMAIN files \subseteq queue \union toDelete
    /\ mode = "remove" =>
          \A k \in queue : k < nextWALNum => \E j \in DOMAIN index.refs : j <= k

-----------------------------------------------------------------------------
\* Every step keeps the account; a cleanup (Rotate) settles it.
LEMMA StepAccounted ==
    ASSUME DurableInv, TailsOnlyAtEnd, Accounted, [Next]_vars
    PROVE  Accounted'
  <1> USE DEF Running, disk, writer, cleanup
  <1>1. ASSUME NEW h \in Heights, SetWALEntry(h) \/ DeleteWALEntries(h) PROVE Accounted'
    BY Zenon, <1>1 DEF Accounted, SetWALEntry, DeleteWALEntries
  <1>2. ASSUME NEW to \in {"up", "closing"}, Flush(to) PROVE Accounted'
    <2>1. mode = "up" /\ mode' = "writing" /\ UNCHANGED <<toDelete, failures>>
      BY Zenon, <1>2 DEF Flush
    <2>2. DOMAIN files' \subseteq DOMAIN files \union queue' /\ queue \subseteq queue'
      BY Zenon, <1>2 DEF Flush
    <2> QED
      BY Zenon, <2>1, <2>2 DEF Accounted, TailsOnlyAtEnd
  <1>3. ASSUME Synced PROVE Accounted'
    <2>1. DOMAIN files' = DOMAIN files /\ mode = "writing"
          /\ mode' \in {"watermark", caller}
          /\ UNCHANGED <<queue, toDelete, failures>>
      BY Zenon, <1>3 DEF Synced
    <2> QED
      BY Zenon, <2>1 DEF Accounted, TailsOnlyAtEnd
  <1>4. ASSUME abortUncommitted PROVE Accounted'
    <2>1. /\ mode = "writing" /\ mode' = caller /\ failures' = failures + 1 /\ UNCHANGED <<files, queue, toDelete>>
      BY Zenon, <1>4 DEF abortUncommitted, Fails
    <2>2. failures' \in Nat /\ failures' # 0
      BY <2>1 DEF Accounted
    <2> QED
      BY Zenon, <2>1, <2>2 DEF Accounted, TailsOnlyAtEnd
  <1>5. ASSUME writePruneWatermark PROVE Accounted'
    <2>1. /\ mode = "watermark" /\ mode' \in {"rotate", caller} /\ failures' \in {failures, failures + 1}
          /\ UNCHANGED <<files, queue, toDelete>>
      BY Zenon, <1>5 DEF writePruneWatermark, Fails
    <2>2. failures' \in Nat /\ (failures' = 0 => failures = 0)
      BY <2>1 DEF Accounted
    <2> QED
      BY Zenon, <2>1, <2>2 DEF Accounted, TailsOnlyAtEnd
  <1>6. ASSUME Rotate PROVE Accounted'
    <2>1. /\ mode = "rotate" /\ mode' = "remove"
          /\ failures' \in {failures, failures + 1}
          /\ toDelete' = {k \in queue : k < nextWALNum /\ \A j \in DOMAIN index.refs : k < j}
          /\ queue' = queue \ toDelete'
          /\ UNCHANGED <<files, index, nextWALNum>>
      BY Zenon, <1>6 DEF Rotate, Fails
    <2>2. ASSUME NEW k \in queue', k < nextWALNum
          PROVE  \E j \in DOMAIN index.refs : j <= k
      <3>1. k \in Nat /\ k \in queue /\ k \notin toDelete'
        BY Zenon, <2>1, <2>2 DEF TailsOnlyAtEnd
      <3>2. PICK j \in DOMAIN index.refs : ~(k < j)
        BY Zenon, <2>1, <2>2, <3>1
      <3>3. IndexOK(index)
        BY Zenon, <2>1 DEF DurableInv, InStep
      <3>4. PICK h \in Heights : j \in index.byHeight[h]
        BY Zenon, <3>2, <3>3 DEF IndexOK, HeightsIn
      <3>5. j \in Nat
        BY Zenon, <3>3, <3>4 DEF IndexOK
      <3>6. j <= k
        BY <3>1, <3>2, <3>5
      <3> QED
        BY Zenon, <3>2, <3>6
    <2>3. failures' \in Nat /\ (failures' = 0 => failures = 0)
      BY <2>1 DEF Accounted
    <2>4. failures' = 0 => DOMAIN files' \subseteq queue' \union toDelete'
      BY Zenon, <2>1, <2>3 DEF Accounted
    <2> QED
      BY Zenon, <2>1, <2>2, <2>3, <2>4 DEF Accounted
  <1>7. ASSUME RemoveObsolete PROVE Accounted'
    <2>1. PICK k \in toDelete :
             \/ /\ DOMAIN files' = DOMAIN files \ {k} /\ toDelete' = toDelete \ {k}
                /\ UNCHANGED <<mode, failures>>
             \/ failures' = failures + 1 /\ mode' = caller /\ toDelete' = {}
      BY Zenon, <1>7 DEF RemoveObsolete, Fails
    <2>2. mode = "remove" /\ UNCHANGED <<queue, index, nextWALNum>>
      BY Zenon, <1>7 DEF RemoveObsolete
    <2> QED
      BY <2>1, <2>2 DEF Accounted, TailsOnlyAtEnd
  <1>8. ASSUME Removed PROVE Accounted'
    BY Zenon, <1>8 DEF Removed, Accounted, TailsOnlyAtEnd
  <1>9. ASSUME Crash \/ Close PROVE Accounted'
    BY Zenon, <1>9 DEF Crash, Close, Forget, Accounted
  <1>10. ASSUME NewTendermintWALStore PROVE Accounted'
    BY Zenon, <1>10 DEF NewTendermintWALStore, Accounted, TailsOnlyAtEnd
  <1>11. ASSUME UNCHANGED vars PROVE Accounted'
    BY Zenon, <1>11 DEF vars, Accounted
  <1> QED
    BY Zenon, <1>1, <1>2, <1>3, <1>4, <1>5, <1>6, <1>7, <1>8, <1>9, <1>10, <1>11 DEF Next

\* Only the end of a cleanup leaves the mode "remove" for a caller without an error.
LEMMA CleanupStep ==
    ASSUME TailsOnlyAtEnd, Accounted, [Next]_vars,
           mode = "remove", mode' \in {"up", "closing"}, failures' = 0,
           NEW k \in DOMAIN files'
    PROVE  \E j \in DOMAIN index.refs : j <= k
  <1> USE DEF Running, disk, writer, cleanup
  <1>1. RemoveObsolete \/ Removed
    BY Zenon DEF Next, vars, SetWALEntry, DeleteWALEntries, Flush, Synced, abortUncommitted,
           writePruneWatermark, Rotate, Crash, Close, Forget, NewTendermintWALStore
  <1>2. ~RemoveObsolete
    <2>1. RemoveObsolete => mode' = mode \/ failures' = failures + 1
      BY Zenon DEF RemoveObsolete, Fails
    <2> QED
      BY <2>1 DEF Accounted
  <1>3. toDelete = {} /\ files' = files /\ failures' = failures
    BY Zenon, <1>1, <1>2 DEF Removed
  <1>4. k \in queue /\ k < nextWALNum
    BY Zenon, <1>3 DEF Accounted, TailsOnlyAtEnd
  <1> QED
    BY Zenon, <1>4 DEF Accounted

\* A cleanup that has met no error leaves only files that a live entry needs, the
\* files of earlier processes included (cleanupObsoleteWALs, removeObsoleteWALFiles).
THEOREM CleansUp == Spec => CleanupComplete
  <1>1. Init => DurableInv /\ Accounted
    <2>1. Init => Accounted
      BY DEF Init, Accounted, Running
    <2> QED
      BY Zenon, <2>1, DurableInit
  <1>2. DurableInv => TailsOnlyAtEnd
    BY Zenon DEF DurableInv
  <1>3. DurableInv /\ Accounted /\ [Next]_vars =>
           [mode = "remove" /\ mode' \in {"up", "closing"} /\ failures' = 0 =>
              \A k \in DOMAIN files' : \E j \in DOMAIN index.refs : j <= k]_vars
    BY Zenon, <1>2, CleanupStep
  <1>4. DurableInv /\ Accounted /\ [Next]_vars => DurableInv' /\ Accounted'
    BY Zenon, <1>2, StepTails, DurableStep, StepAccounted
  <1> QED
    BY <1>1, <1>3, <1>4, PTL DEF Spec, CleanupComplete
=============================================================================
