------------------------- MODULE SynchronizerProofs -------------------------
(***************************************************************************)
(* The synchronizer's chain is linked, whoever follows its announcements   *)
(* has it, and it reverts no block that the data source still has: for     *)
(* every number of workers, length of chains, number of changes and faults.*)
(***************************************************************************)
EXTENDS Synchronizer, SequenceTheorems, TLAPS

Task == [h : Nat, st : {"fetching", "fetched", "checking", "revert"}, block : Seq(Forks),
         last : Nat \union {None}, at : Nat \union {None}]

Shapes ==
    /\ remote \in Seq(Forks) /\ Len(remote) \in 1 .. MaxLen
    /\ changes \in Nat
    /\ local \in Seq(Seq(Forks)) /\ Len(local) <= MaxLen
    /\ tasks \in Seq(Task)
    /\ nextHeight \in Nat
    /\ reverting \in RevertTask \union {None}
    /\ currReorg \in ReorgRange \union {None}
    /\ revertFaults \in Nat

\* The streams keep the order of the heights.
Ordered ==
    \A i \in DOMAIN tasks : /\ tasks[i].h < nextHeight
                            /\ \A j \in DOMAIN tasks : i < j => tasks[i].h < tasks[j].h

\* What a verdict "revert down to last" asserts while the data source has not
\* changed: the local blocks above last are not blocks of the data source.
Orphans(last) ==
    \A i \in DOMAIN local : i - 1 > last => i > Len(remote) \/ RemoteBlock(i - 1) # local[i]

\* What a task knows, if the data source has not changed since it asked.
TaskTrue(t) ==
    /\ t.st # "fetching" => t.at \in Nat /\ t.at <= changes
    /\ t.st = "fetched" =>
          /\ Number(t.block) = t.h /\ t.h < MaxLen
          /\ t.at = changes => t.h < Len(remote) /\ t.block = RemoteBlock(t.h)
    /\ t.st = "checking" =>
          /\ Len(t.block) \in 1 .. MaxLen
          /\ t.at = changes => t.block = remote
    /\ t.st = "revert" =>
          /\ t.last \in Nat
          /\ t.at = changes => Orphans(t.last)

\* A task that has looked at the local chain waits for no block: nothing is stored
\* before it has its turn.
NoneBefore(t) ==
    t.st \in {"checking", "revert"} /\ ~cancelled /\ reverting = None => t.h <= Len(local)

TasksTrue == \A i \in DOMAIN tasks : TaskTrue(tasks[i]) /\ NoneBefore(tasks[i])

RevertTrue ==
    reverting # None => /\ reverting.at <= changes
                        /\ reverting.at = changes => Orphans(reverting.last)

Followed ==
    revertFaults = 0 =>
       /\ view \in Seq(Seq(Forks))
       /\ currReorg = None => view = local
       /\ currReorg # None =>
             /\ currReorg.start = Len(local) /\ currReorg.start <= Len(view)
             /\ local = SubSeq(view, 1, currReorg.start)
             /\ currReorg.end = Len(view) - 1

IInv == Shapes /\ Ordered /\ TasksTrue /\ RevertTrue /\ ChainLinked /\ Followed











-----------------------------------------------------------------------------
LEMMA Prefix ==
    ASSUME NEW S, NEW s \in Seq(S), NEW n \in 0 .. Len(s)
    PROVE  /\ SubSeq(s, 1, n) \in Seq(S) /\ Len(SubSeq(s, 1, n)) = n
           /\ \A i \in 1 .. n : SubSeq(s, 1, n)[i] = s[i]
  <1>1. n \in Int /\ \A i \in 1 .. n : s[i] \in S
    BY ElementOfSeq
  <1>2. /\ SubSeq(s, 1, n) \in Seq(S) /\ Len(SubSeq(s, 1, n)) = IF 1 <= n THEN n - 1 + 1 ELSE 0
        /\ \A i \in 1 .. n - 1 + 1 : SubSeq(s, 1, n)[i] = s[1 + i - 1]
    BY <1>1, SubSeqProperties
  <1> QED
    BY <1>2

LEMMA PrefixOfPrefix ==
    ASSUME NEW S, NEW s \in Seq(S), NEW n \in 0 .. Len(s), NEW m \in 0 .. n
    PROVE  SubSeq(SubSeq(s, 1, n), 1, m) = SubSeq(s, 1, m)
  <1>1. m \in 0 .. Len(s)
    BY LenProperties
  <1>2. /\ SubSeq(s, 1, n) \in Seq(S) /\ Len(SubSeq(s, 1, n)) = n
        /\ \A i \in 1 .. n : SubSeq(s, 1, n)[i] = s[i]
    BY Zenon, Prefix
  <1>3. /\ SubSeq(s, 1, m) \in Seq(S) /\ Len(SubSeq(s, 1, m)) = m
        /\ \A i \in 1 .. m : SubSeq(s, 1, m)[i] = s[i]
    BY Zenon, <1>1, Prefix
  <1>4. m \in 0 .. Len(SubSeq(s, 1, n))
    BY Zenon, <1>2
  <1>5. /\ SubSeq(SubSeq(s, 1, n), 1, m) \in Seq(S) /\ Len(SubSeq(SubSeq(s, 1, n), 1, m)) = m
        /\ \A i \in 1 .. m : SubSeq(SubSeq(s, 1, n), 1, m)[i] = SubSeq(s, 1, n)[i]
    BY Zenon, <1>2, <1>4, Prefix
  <1>6. \A i \in 1 .. m : SubSeq(SubSeq(s, 1, n), 1, m)[i] = SubSeq(s, 1, m)[i]
    BY <1>1, <1>2, <1>3, <1>5
  <1> QED
    BY Zenon, <1>3, <1>5, <1>6, SeqEqual

LEMMA TurnOf ==
    ASSUME Shapes, tasks # <<>>, tasks' = Tail(tasks)
    PROVE  /\ task \in Task /\ 1 \in DOMAIN tasks /\ task = tasks[1] /\ tasks' \in Seq(Task)
           /\ \A i \in DOMAIN tasks' : i \in Nat /\ i + 1 \in DOMAIN tasks /\ i + 1 > 1 /\ tasks'[i] = tasks[i + 1]
  <1>1. tasks \in Seq(Task) /\ Len(tasks) \in Nat \ {0} /\ DOMAIN tasks = 1 .. Len(tasks)
    BY Zenon, EmptySeq, LenProperties DEF Shapes
  <1>2. /\ Head(tasks) \in Task /\ tasks' \in Seq(Task) /\ Len(tasks') = Len(tasks) - 1
        /\ \A i \in 1 .. Len(tasks') : tasks'[i] = tasks[i + 1]
    BY Zenon, <1>1, HeadTailProperties
  <1>3. DOMAIN tasks' = 1 .. Len(tasks')
    BY Zenon, <1>2, LenProperties
  <1>4. Head(tasks) = tasks[1]
    BY <1>1
  <1> QED
    BY <1>1, <1>2, <1>3, <1>4 DEF task

\* The blocks of a linked chain: the block at the head is numbered with its place.
LEMMA HeadNumber ==
    ASSUME Shapes, ChainLinked, local # <<>>
    PROVE  /\ Len(local) \in Nat \ {0} /\ DOMAIN local = 1 .. Len(local) /\ Len(local) \in DOMAIN local
           /\ Head_ \in Seq(Forks) /\ Len(Head_) = Len(local) /\ Number(Head_) = Len(local) - 1
  <1>1. local \in Seq(Seq(Forks)) /\ Len(local) \in Nat \ {0} /\ DOMAIN local = 1 .. Len(local)
    BY Zenon, EmptySeq, LenProperties DEF Shapes
  <1>2. local[Len(local)] \in Seq(Forks) /\ Len(local[Len(local)]) = Len(local)
    BY SMTT(40), <1>1, ElementOfSeq DEF ChainLinked
  <1> QED
    BY <1>1, <1>2 DEF Head_, Number

-----------------------------------------------------------------------------
\* Tasks leave the streams, or stay as they are.
LEMMA FewerTasks ==
    ASSUME Ordered, TasksTrue, UNCHANGED <<remote, changes, local, nextHeight>>,
           ~cancelled' /\ reverting' = None => ~cancelled /\ reverting = None,
           tasks' = tasks \/ (Shapes /\ tasks # <<>> /\ tasks' = Tail(tasks))
    PROVE  Ordered' /\ TasksTrue'
  <1>1. CASE tasks' = tasks
    BY <1>1 DEF Ordered, TasksTrue, TaskTrue, NoneBefore, Orphans, RemoteBlock
  <1>2. CASE Shapes /\ tasks # <<>> /\ tasks' = Tail(tasks)
    <2>1. \A i \in DOMAIN tasks' : i \in Nat /\ i + 1 \in DOMAIN tasks /\ tasks'[i] = tasks[i + 1]
      BY Zenon, <1>2, TurnOf
    <2>2. Ordered'
      <3>1. ASSUME NEW i \in DOMAIN tasks'
            PROVE  tasks'[i].h < nextHeight' /\ \A j \in DOMAIN tasks' : i < j => tasks'[i].h < tasks'[j].h
        <4>1. i + 1 \in DOMAIN tasks /\ tasks'[i] = tasks[i + 1] /\ i \in Nat
          BY Zenon, <2>1
        <4>2. ASSUME NEW j \in DOMAIN tasks', i < j PROVE tasks'[i].h < tasks'[j].h
          <5>1. j + 1 \in DOMAIN tasks /\ tasks'[j] = tasks[j + 1] /\ i + 1 < j + 1
            BY <2>1, <4>1, <4>2
          <5> QED
            BY Zenon, <4>1, <5>1 DEF Ordered
        <4> QED
          BY Zenon, <4>1, <4>2 DEF Ordered
      <3> QED
        BY Zenon, <3>1 DEF Ordered
    <2>3. ASSUME NEW t, TaskTrue(t), NoneBefore(t)
          PROVE  TaskTrue(t)' /\ NoneBefore(t)'
      BY Zenon, <2>3 DEF TaskTrue, NoneBefore, Orphans, RemoteBlock
    <2>4. TasksTrue'
      BY Zenon, <2>1, <2>3 DEF TasksTrue
    <2> QED
      BY Zenon, <2>2, <2>4
  <1> QED
    BY Zenon, <1>1, <1>2

LEMMA KeepRevert ==
    ASSUME RevertTrue, UNCHANGED <<remote, changes, local>>, reverting' \in {reverting, None}
    PROVE  RevertTrue'
  BY Zenon DEF RevertTrue, Orphans, RemoteBlock

LEMMA KeepChain ==
    ASSUME ChainLinked, Followed, UNCHANGED <<local, currReorg, view, revertFaults>>
    PROVE  ChainLinked' /\ Followed'
  BY Zenon DEF ChainLinked, Followed

LEMMA KeepAll ==
    ASSUME IInv, UNCHANGED <<remote, changes, local, tasks, nextHeight, cancelled, reverting,
                             currReorg, view, revertFaults>>
    PROVE  IInv'
  <1>1. Shapes'
    BY Zenon DEF IInv, Shapes
  <1>2. Ordered' /\ TasksTrue'
    BY Zenon, FewerTasks DEF IInv
  <1>3. RevertTrue'
    BY Zenon, KeepRevert DEF IInv
  <1> QED
    BY Zenon, <1>1, <1>2, <1>3, KeepChain DEF IInv

LEMMA RemoteStep ==
    ASSUME IInv, RemoteChange
    PROVE  IInv'
  <1>1. Shapes /\ Ordered /\ TasksTrue /\ RevertTrue
    BY Zenon DEF IInv
  <1>2. remote \in Seq(Forks) /\ Len(remote) \in 1 .. MaxLen /\ MaxLen \in Nat
    BY Zenon, <1>1, Parameters DEF Shapes
  <1>3. remote' \in Seq(Forks) /\ Len(remote') \in 1 .. MaxLen
    <2>1. ASSUME Len(remote) < MaxLen, NEW fork \in Forks, remote' = Append(remote, fork)
          PROVE  remote' \in Seq(Forks) /\ Len(remote') \in 1 .. MaxLen
      BY <1>2, <2>1, AppendProperties
    <2>2. ASSUME NEW keep \in 1 .. Len(remote) - 1
          PROVE  /\ SubSeq(remote, 1, keep) \in Seq(Forks) /\ Len(SubSeq(remote, 1, keep)) = keep
                 /\ keep \in Nat /\ keep \in 1 .. MaxLen /\ keep + 1 \in 1 .. MaxLen
      <3>1. keep \in 0 .. Len(remote)
        BY <1>2
      <3> QED
        BY <1>2, <3>1, Prefix
    <2>3. ASSUME NEW keep \in 1 .. Len(remote) - 1, NEW fork \in Forks,
                 remote' = Append(SubSeq(remote, 1, keep), fork)
          PROVE  remote' \in Seq(Forks) /\ Len(remote') \in 1 .. MaxLen
      <3>1. Append(SubSeq(remote, 1, keep), fork) \in Seq(Forks)
            /\ Len(Append(SubSeq(remote, 1, keep), fork)) = Len(SubSeq(remote, 1, keep)) + 1
        BY Zenon, <2>2, AppendProperties
      <3> QED
        BY Zenon, <2>2, <2>3, <3>1
    <2> QED
      BY Zenon, <2>1, <2>2, <2>3 DEF RemoteChange
  <1>4. changes \in Nat /\ changes' = changes + 1
        /\ UNCHANGED <<local, tasks, nextHeight, cancelled, reverting, currReorg, view, revertFaults>>
    BY Zenon, <1>1 DEF RemoteChange, Shapes, streams
  <1>5. Shapes'
    BY <1>1, <1>3, <1>4 DEF Shapes
  <1>6. Ordered'
    BY Zenon, <1>1, <1>4 DEF Ordered
  <1>7. TasksTrue'
    <2>1. ASSUME NEW t, TaskTrue(t), NoneBefore(t)
          PROVE  TaskTrue(t)' /\ NoneBefore(t)'
      <3>1. t.st # "fetching" => t.at \in Nat /\ t.at <= changes' /\ t.at # changes'
        BY <1>4, <2>1 DEF TaskTrue
      <3>2. TaskTrue(t)'
        BY Zenon, <2>1, <3>1 DEF TaskTrue
      <3> QED
        BY Zenon, <1>4, <2>1, <3>2 DEF NoneBefore
    <2> QED
      BY Zenon, <1>1, <1>4, <2>1 DEF TasksTrue
  <1>8. RevertTrue'
    <2>1. reverting # None => reverting.at \in Nat
      BY Zenon, <1>1 DEF Shapes, RevertTask
    <2> QED
      BY <1>1, <1>4, <2>1 DEF RevertTrue
  <1> QED
    BY Zenon, <1>4, <1>5, <1>6, <1>7, <1>8, KeepChain DEF IInv

LEMMA StartFetchStep ==
    ASSUME IInv, StartFetch
    PROVE  IInv'
  <1>1. Shapes /\ Ordered /\ TasksTrue /\ RevertTrue
    BY Zenon DEF IInv
  <1>3. PICK t \in Task : t.h = nextHeight /\ t.st = "fetching" /\ tasks' = Append(tasks, t)
    <2>1. nextHeight \in Nat /\ <<>> \in Seq(Forks)
      BY Zenon, <1>1, EmptySeq DEF Shapes
    <2> DEFINE u == [h |-> nextHeight, st |-> "fetching", block |-> <<>>, last |-> None, at |-> None]
    <2>2. u \in Task /\ u.h = nextHeight /\ u.st = "fetching"
      BY Zenon, <2>1 DEF Task
    <2> QED
      BY Zenon, <2>2 DEF StartFetch
  <1>2. /\ tasks' = Append(tasks, t) /\ nextHeight' = nextHeight + 1
        /\ UNCHANGED <<remote, changes, local, cancelled, reverting, currReorg, view, revertFaults>>
    BY Zenon, <1>3 DEF StartFetch
  <1>4. /\ tasks' \in Seq(Task) /\ Len(tasks') = Len(tasks) + 1 /\ tasks'[Len(tasks) + 1] = t
        /\ \A i \in 1 .. Len(tasks) : tasks'[i] = tasks[i]
    BY <1>1, <1>2, <1>3, AppendProperties DEF Shapes
  <1>5. Len(tasks) \in Nat /\ DOMAIN tasks = 1 .. Len(tasks) /\ DOMAIN tasks' = 1 .. Len(tasks) + 1
    BY Zenon, <1>1, <1>4, LenProperties DEF Shapes
  <1>6. Shapes'
    BY <1>1, <1>2, <1>4 DEF Shapes
  <1>7. \A i \in DOMAIN tasks' : (i \in DOMAIN tasks /\ tasks'[i] = tasks[i]) \/ (i = Len(tasks) + 1 /\ tasks'[i] = t)
    BY <1>4, <1>5
  <1>8. Ordered'
    <2>1. \A i \in DOMAIN tasks' : tasks'[i].h < nextHeight'
      <3>1. \A i \in DOMAIN tasks : tasks[i].h \in Nat /\ tasks[i].h < nextHeight
        <4>1. \A i \in DOMAIN tasks : tasks[i] \in Task
          BY Zenon, <1>1, <1>5, ElementOfSeq DEF Shapes
        <4> QED
          BY Zenon, <1>1, <4>1 DEF Task, Ordered
      <3>2. nextHeight \in Nat /\ nextHeight < nextHeight'
        BY <1>1, <1>2 DEF Shapes
      <3> QED
        BY <1>2, <1>3, <1>7, <3>1, <3>2
    <2>2. ASSUME NEW i \in DOMAIN tasks', NEW j \in DOMAIN tasks', i < j
          PROVE  tasks'[i].h < tasks'[j].h
      <3>1. i \in DOMAIN tasks /\ tasks'[i] = tasks[i]
        BY <1>4, <1>5, <2>2
      <3> QED
        BY Zenon, <1>1, <1>3, <1>7, <2>2, <3>1 DEF Ordered
    <2> QED
      BY Zenon, <2>1, <2>2 DEF Ordered
  <1>9. TasksTrue'
    <2>1. ASSUME NEW u, TaskTrue(u), NoneBefore(u)
          PROVE  TaskTrue(u)' /\ NoneBefore(u)'
      BY Zenon, <1>2, <2>1 DEF TaskTrue, NoneBefore, Orphans, RemoteBlock
    <2>2. TaskTrue(t)' /\ NoneBefore(t)'
      BY Zenon, <1>3 DEF TaskTrue, NoneBefore
    <2> QED
      BY Zenon, <1>1, <1>7, <2>1, <2>2 DEF TasksTrue
  <1>10. RevertTrue'
    BY Zenon, <1>1, <1>2, KeepRevert
  <1> QED
    BY Zenon, <1>2, <1>6, <1>8, <1>9, <1>10, KeepChain DEF IInv

\* One task learns something, and keeps its height.
LEMMA TaskStep ==
    ASSUME IInv, NEW i \in DOMAIN tasks, NEW t \in Task, tasks' = [tasks EXCEPT ![i] = t],
           t.h = tasks[i].h, TaskTrue(t), NoneBefore(t),
           UNCHANGED <<remote, changes, local, nextHeight, cancelled, reverting, currReorg, view,
                       revertFaults>>
    PROVE  IInv'
  <1>1. Shapes /\ Ordered /\ TasksTrue /\ RevertTrue
    BY Zenon DEF IInv
  <1>2. DOMAIN tasks = 1 .. Len(tasks)
    BY Zenon, <1>1, LenProperties DEF Shapes
  <1>3. /\ tasks' \in Seq(Task) /\ Len(tasks') = Len(tasks)
        /\ \A j \in 1 .. Len(tasks) : tasks'[j] = IF j = i THEN t ELSE tasks[j]
    BY Zenon, <1>1, <1>2, ExceptSeq DEF Shapes
  <1>4. DOMAIN tasks' = DOMAIN tasks
    BY Zenon, <1>2, <1>3, LenProperties
  <1>5. Shapes'
    BY Zenon, <1>1, <1>3 DEF Shapes
  <1>6. Ordered'
    <2>1. \A j \in DOMAIN tasks : tasks'[j].h = tasks[j].h
      BY Zenon, <1>2, <1>3
    <2> QED
      BY <1>1, <1>4, <2>1 DEF Ordered
  <1>7. TasksTrue'
    <2>1. ASSUME NEW u, TaskTrue(u), NoneBefore(u)
          PROVE  TaskTrue(u)' /\ NoneBefore(u)'
      BY Zenon, <2>1 DEF TaskTrue, NoneBefore, Orphans, RemoteBlock
    <2> QED
      BY Zenon, <1>1, <1>2, <1>3, <1>4, <2>1 DEF TasksTrue
  <1>8. RevertTrue'
    BY Zenon, <1>1, KeepRevert
  <1> QED
    BY Zenon, <1>5, <1>6, <1>7, <1>8, KeepChain DEF IInv

LEMMA FetchedStep ==
    ASSUME IInv, NEW i \in DOMAIN tasks, Fetched(i)
    PROVE  IInv'
  <1>1. Shapes /\ tasks[i] \in Task
    <2>1. Shapes
      BY Zenon DEF IInv
    <2> QED
      BY Zenon, <2>1, LenProperties, ElementOfSeq DEF Shapes
  <1>2. tasks[i].h \in Nat /\ tasks[i].h < Len(remote) /\ Len(remote) \in 1 .. MaxLen /\ MaxLen \in Nat
        /\ changes \in Nat /\ remote \in Seq(Forks)
    BY Zenon, <1>1, Parameters DEF Shapes, Task, Fetched
  <1>3. RemoteBlock(tasks[i].h) \in Seq(Forks) /\ Len(RemoteBlock(tasks[i].h)) = tasks[i].h + 1
    <2>1. tasks[i].h + 1 \in 0 .. Len(remote)
      BY <1>2
    <2> QED
      BY Zenon, <1>2, <2>1, Prefix DEF RemoteBlock
  <1>4. PICK t \in Task : /\ t.h = tasks[i].h /\ t.st = "fetched" /\ t.block = RemoteBlock(tasks[i].h)
                          /\ t.at = changes /\ tasks' = [tasks EXCEPT ![i] = t]
    <2> DEFINE u == [h |-> tasks[i].h, st |-> "fetched", block |-> RemoteBlock(tasks[i].h),
                     last |-> None, at |-> changes]
    <2>1. u \in Task
      BY Zenon, <1>1, <1>2, <1>3 DEF Task
    <2>2. tasks' = [tasks EXCEPT ![i] = u]
      BY Zenon, <1>1 DEF Fetched
    <2> QED
      BY Zenon, <2>1, <2>2
  <1>5. Number(t.block) = t.h /\ t.h < MaxLen
    BY <1>2, <1>3, <1>4 DEF Number
  <1>6. TaskTrue(t) /\ NoneBefore(t)
    BY <1>2, <1>4, <1>5 DEF TaskTrue, NoneBefore
  <1> QED
    BY Zenon, <1>4, <1>6, TaskStep DEF Fetched

LEMMA CheckRemoteStep ==
    ASSUME IInv, NEW i \in DOMAIN tasks, CheckRemote(i)
    PROVE  IInv'
  <1>1. Shapes /\ tasks[i] \in Task
    <2>1. Shapes
      BY Zenon DEF IInv
    <2> QED
      BY Zenon, <2>1, LenProperties, ElementOfSeq DEF Shapes
  <1>2. /\ tasks[i].h \in Nat /\ Len(remote) \in 1 .. MaxLen /\ changes \in Nat /\ remote \in Seq(Forks)
        /\ Len(local) = tasks[i].h
    BY Zenon, <1>1 DEF Shapes, Task, CheckRemote, nothingNewer
  <1>3. PICK t \in Task : /\ t.h = tasks[i].h /\ t.st = "checking" /\ t.block = remote
                          /\ t.at = changes /\ tasks' = [tasks EXCEPT ![i] = t]
    <2> DEFINE u == [h |-> tasks[i].h, st |-> "checking", block |-> remote,
                     last |-> None, at |-> changes]
    <2>1. u \in Task
      BY Zenon, <1>1, <1>2 DEF Task
    <2>2. tasks' = [tasks EXCEPT ![i] = u]
      BY Zenon, <1>1 DEF CheckRemote
    <2> QED
      BY Zenon, <2>1, <2>2
  <1>4. TaskTrue(t) /\ NoneBefore(t)
    BY <1>2, <1>3 DEF TaskTrue, NoneBefore
  <1> QED
    BY Zenon, <1>3, <1>4, TaskStep DEF CheckRemote

LEMMA CheckLocalStep ==
    ASSUME IInv, NEW i \in DOMAIN tasks, CheckLocal(i)
    PROVE  IInv'
  <1>1. Shapes /\ tasks[i] \in Task /\ TaskTrue(tasks[i]) /\ NoneBefore(tasks[i]) /\ tasks[i].st = "checking"
    <2>1. Shapes /\ TaskTrue(tasks[i]) /\ NoneBefore(tasks[i])
      BY Zenon DEF IInv, TasksTrue
    <2> QED
      BY Zenon, <2>1, LenProperties, ElementOfSeq DEF Shapes, CheckLocal
  <1> DEFINE block == tasks[i].block
  <1>2. CASE Len(block) <= Len(local) /\ local[Len(block)] # block
    <2>1. /\ Len(block) \in 1 .. MaxLen /\ MaxLen \in Nat /\ block \in Seq(Forks)
          /\ Len(local) \in Nat /\ Len(local) <= MaxLen /\ DOMAIN local = 1 .. Len(local)
      BY Zenon, <1>1, LenProperties, Parameters DEF Shapes, Task, TaskTrue
    <2>2. Minus(Number(block), 1) \in Nat
          /\ \A n \in 1 .. MaxLen : n - 1 > Minus(Number(block), 1) => n >= Len(block)
      BY <2>1 DEF Minus, Number, Wrapped
    <2>3. PICK t \in Task : /\ t.h = tasks[i].h /\ t.st = "revert" /\ t.last = Minus(Number(block), 1)
                            /\ t.at = tasks[i].at /\ tasks' = [tasks EXCEPT ![i] = t]
      <3> DEFINE u == [h |-> tasks[i].h, st |-> "revert", block |-> block,
                       last |-> Minus(Number(block), 1), at |-> tasks[i].at]
      <3>1. u \in Task
        BY Zenon, <1>1, <2>1, <2>2 DEF Task
      <3>2. tasks' = [tasks EXCEPT ![i] = u]
        BY Zenon, <1>1, <1>2 DEF CheckLocal
      <3> QED
        BY Zenon, <3>1, <3>2
    <2>4. ASSUME t.at = changes
          PROVE  Orphans(t.last)
      <3>1. block = remote /\ remote \in Seq(Forks)
        BY Zenon, <1>1, <2>3, <2>4 DEF TaskTrue, Shapes
      <3>2. ASSUME NEW n \in DOMAIN local, n - 1 > t.last
            PROVE  n > Len(remote) \/ RemoteBlock(n - 1) # local[n]
        <4>1. n \in 1 .. MaxLen /\ n >= Len(remote) /\ Len(remote) \in Nat
          BY <2>1, <2>2, <2>3, <3>1, <3>2
        <4>2. n = Len(remote) => RemoteBlock(n - 1) = remote
          BY <3>1, <4>1, SubSeqFull DEF RemoteBlock
        <4> QED
          BY <1>2, <3>1, <4>1, <4>2
      <3> QED
        BY Zenon, <3>2 DEF Orphans
    <2>5. TaskTrue(t)
      BY Zenon, <1>1, <2>2, <2>3, <2>4 DEF TaskTrue
    <2>6. NoneBefore(t)
      BY Zenon, <1>1, <2>3 DEF NoneBefore
    <2> QED
      BY Zenon, <2>3, <2>5, <2>6, TaskStep DEF CheckLocal
  <1>3. CASE ~(Len(block) <= Len(local) /\ local[Len(block)] # block)
    <2>1. PICK t \in Task : /\ t.h = tasks[i].h /\ t.st = "fetching" /\ tasks' = [tasks EXCEPT ![i] = t]
      <3> DEFINE u == [h |-> tasks[i].h, st |-> "fetching", block |-> <<>>, last |-> None,
                       at |-> None]
      <3>1. u \in Task
        BY Zenon, <1>1, EmptySeq DEF Task
      <3>2. tasks' = [tasks EXCEPT ![i] = u]
        BY Zenon, <1>1, <1>3 DEF CheckLocal
      <3> QED
        BY Zenon, <3>1, <3>2
    <2>2. TaskTrue(t) /\ NoneBefore(t)
      BY Zenon, <2>1 DEF TaskTrue, NoneBefore
    <2> QED
      BY Zenon, <2>1, <2>2, TaskStep DEF CheckLocal
  <1> QED
    BY Zenon, <1>2, <1>3

-----------------------------------------------------------------------------
LEMMA DropStep ==
    ASSUME IInv, Turn, tasks' = Tail(tasks), cancelled' \in {cancelled, TRUE},
           UNCHANGED <<remote, changes, local, nextHeight, reverting, currReorg, view, revertFaults>>
    PROVE  IInv'
  <1>1. Shapes /\ Ordered /\ TasksTrue /\ RevertTrue /\ tasks # <<>>
    BY Zenon DEF IInv, Turn
  <1>2. tasks' \in Seq(Task)
    BY Zenon, <1>1, TurnOf
  <1>3. Shapes'
    BY Zenon, <1>1, <1>2 DEF Shapes
  <1>6. ~cancelled' => ~cancelled
    BY Zenon
  <1>4. Ordered' /\ TasksTrue'
    BY Zenon, <1>1, <1>6, FewerTasks
  <1>5. RevertTrue'
    BY Zenon, <1>1, KeepRevert
  <1> QED
    BY Zenon, <1>3, <1>4, <1>5, KeepChain DEF IInv

LEMMA BeginRevert ==
    ASSUME IInv, Turn, tasks' = Tail(tasks), NEW l \in Nat, NEW a \in Nat, a <= changes,
           a = changes => Orphans(l), reverting' = [last |-> l, at |-> a],
           UNCHANGED <<remote, changes, local, nextHeight, cancelled, currReorg, view, revertFaults>>
    PROVE  IInv'
  <1>1. Shapes /\ Ordered /\ TasksTrue /\ tasks # <<>>
    BY Zenon DEF IInv, Turn
  <1>2. tasks' \in Seq(Task)
    BY Zenon, <1>1, TurnOf
  <1>3. reverting' \in RevertTask /\ reverting' # None /\ reverting'.last = l /\ reverting'.at = a
    BY Parameters DEF RevertTask
  <1>4. Shapes'
    BY Zenon, <1>1, <1>2, <1>3 DEF Shapes
  <1>5. Ordered' /\ TasksTrue'
    BY Zenon, <1>1, <1>3, FewerTasks
  <1>6. RevertTrue'
    <2>1. a = changes' => \A n : n = l => Orphans(n)'
      BY Zenon DEF Orphans, RemoteBlock
    <2> QED
      BY Zenon, <1>3, <2>1 DEF RevertTrue
  <1> QED
    BY Zenon, <1>4, <1>5, <1>6, KeepChain DEF IInv

LEMMA MismatchStep ==
    ASSUME IInv, Mismatch
    PROVE  IInv'
  <1>1. /\ Turn /\ tasks' = Tail(tasks) /\ task.st = "fetched" /\ Number(task.block) = Len(local)
        /\ local # <<>> /\ Parent(task.block) # Head_
        /\ reverting' = [last |-> Minus(Number(task.block), 2), at |-> task.at]
        /\ UNCHANGED <<remote, changes, local, nextHeight, cancelled, currReorg, view, revertFaults>>
    BY Zenon DEF Mismatch
  <1>2. Shapes /\ ChainLinked /\ tasks # <<>>
    BY Zenon, <1>1 DEF IInv, Turn
  <1>3. task \in Task /\ TaskTrue(task)
    BY Zenon, <1>1, <1>2, TurnOf DEF IInv, TasksTrue
  <1>4. /\ Len(local) \in Nat \ {0} /\ DOMAIN local = 1 .. Len(local) /\ Len(local) \in DOMAIN local
        /\ Len(local) <= MaxLen /\ MaxLen \in Nat
    BY Zenon, <1>1, <1>2, HeadNumber, Parameters DEF Shapes
  <1>5. /\ Minus(Number(task.block), 2) \in Nat
        /\ \A n \in DOMAIN local : n - 1 > Minus(Number(task.block), 2) => n = Len(local)
    BY <1>1, <1>4 DEF Minus, Wrapped
  <1>6. task.at \in Nat /\ task.at <= changes
    BY Zenon, <1>1, <1>3 DEF TaskTrue
  <1>7. ASSUME task.at = changes
        PROVE  Orphans(Minus(Number(task.block), 2))
    <2>1. /\ task.h \in Nat /\ task.h < Len(remote) /\ task.block = RemoteBlock(task.h)
          /\ Number(task.block) = task.h
      BY Zenon, <1>1, <1>3, <1>7 DEF TaskTrue, Task
    <2>2. remote \in Seq(Forks) /\ Len(remote) \in Nat
      BY Zenon, <1>2, LenProperties DEF Shapes
    <2>3. task.h = Len(local) /\ Len(local) + 1 \in 0 .. Len(remote)
          /\ Len(local) \in 0 .. Len(local) + 1
      BY <1>1, <1>4, <2>1, <2>2
    <2>4. task.block = SubSeq(remote, 1, Len(local) + 1)
      BY Zenon, <2>1, <2>3 DEF RemoteBlock
    <2>5. Len(task.block) = Len(local) + 1
      BY <2>2, <2>3, <2>4, Prefix
    <2>6. Parent(task.block) = SubSeq(SubSeq(remote, 1, Len(local) + 1), 1, Len(local))
      BY <1>4, <2>4, <2>5 DEF Parent
    <2>7. Parent(task.block) = SubSeq(remote, 1, Len(local))
      BY Zenon, <2>2, <2>3, <2>6, PrefixOfPrefix
    <2>8. RemoteBlock(Len(local) - 1) # local[Len(local)]
      <3>1. Len(local) - 1 + 1 = Len(local)
        BY <1>4
      <3> QED
        BY Zenon, <1>1, <2>7, <3>1 DEF RemoteBlock, Head_
    <2> QED
      BY Zenon, <1>5, <2>8 DEF Orphans
  <1> QED
    BY Zenon, <1>1, <1>5, <1>6, <1>7, BeginRevert

LEMMA StartRevertStep ==
    ASSUME IInv, StartRevert
    PROVE  IInv'
  <1>1. /\ Turn /\ tasks' = Tail(tasks) /\ task.st = "revert"
        /\ reverting' = [last |-> task.last, at |-> task.at]
        /\ UNCHANGED <<remote, changes, local, nextHeight, cancelled, currReorg, view, revertFaults>>
    BY Zenon DEF StartRevert
  <1>2. Shapes /\ tasks # <<>>
    BY Zenon, <1>1 DEF IInv, Turn
  <1>3. TaskTrue(task)
    BY Zenon, <1>1, <1>2, TurnOf DEF IInv, TasksTrue
  <1>4. /\ task.last \in Nat /\ task.at \in Nat /\ task.at <= changes
        /\ task.at = changes => Orphans(task.last)
    BY Zenon, <1>1, <1>3 DEF TaskTrue
  <1> QED
    BY Zenon, <1>1, <1>4, BeginRevert

\* A block is stored only while no later task has looked at the local chain.
LEMMA StoreStep ==
    ASSUME IInv, storeTask
    PROVE  IInv'
  <1>1. /\ Turn /\ ~cancelled /\ task.st = "fetched" /\ Number(task.block) = Len(local)
        /\ local # <<>> => Parent(task.block) = Head_
        /\ tasks' = Tail(tasks) /\ local' = Append(local, task.block)
        /\ Announce(task.block)
        /\ UNCHANGED <<remote, changes, nextHeight, reverting, revertFaults>>
    BY Zenon DEF storeTask
  <1>2. Shapes /\ Ordered /\ TasksTrue /\ ChainLinked /\ Followed /\ tasks # <<>> /\ reverting = None
    BY Zenon, <1>1 DEF IInv, Turn
  <1>3. /\ task \in Task /\ 1 \in DOMAIN tasks /\ task = tasks[1] /\ tasks' \in Seq(Task)
        /\ \A i \in DOMAIN tasks' : i \in Nat /\ i + 1 \in DOMAIN tasks /\ i + 1 > 1 /\ tasks'[i] = tasks[i + 1]
    BY Zenon, <1>1, <1>2, TurnOf
  <1>4. /\ task.block \in Seq(Forks) /\ task.h \in Nat /\ task.h = Len(local) /\ task.h < MaxLen
        /\ Len(task.block) \in Nat
    BY Zenon, <1>1, <1>2, <1>3, LenProperties DEF Task, TasksTrue, TaskTrue
  <1>5. /\ local \in Seq(Seq(Forks)) /\ Len(local) \in Nat /\ DOMAIN local = 1 .. Len(local)
        /\ MaxLen \in Nat
    BY Zenon, <1>2, LenProperties, Parameters DEF Shapes
  <1>6. /\ local' \in Seq(Seq(Forks)) /\ Len(local') = Len(local) + 1
        /\ \A i \in 1 .. Len(local) : local'[i] = local[i]
        /\ local'[Len(local) + 1] = task.block
    BY <1>1, <1>4, <1>5, AppendProperties
  <1>7. DOMAIN local' = 1 .. Len(local) + 1
    BY Zenon, <1>6, LenProperties
  <1>8. Shapes'
    <2>1. Len(local') <= MaxLen
      BY <1>4, <1>5, <1>6
    <2> QED
      BY Zenon, <1>1, <1>2, <1>3, <1>6, <2>1 DEF Shapes, Announce
  <1>9. Ordered'
    <2>1. ASSUME NEW i \in DOMAIN tasks', NEW j \in DOMAIN tasks', i < j
          PROVE  tasks'[i].h < tasks'[j].h
      <3>1. i + 1 \in DOMAIN tasks /\ j + 1 \in DOMAIN tasks /\ i + 1 < j + 1
        BY SMTT(40), <1>3, <2>1
      <3> QED
        BY Zenon, <1>2, <1>3, <3>1 DEF Ordered
    <2> QED
      BY Zenon, <1>1, <1>2, <1>3, <2>1 DEF Ordered
  <1>10. ASSUME NEW t, NEW i \in DOMAIN tasks', t = tasks'[i]
         PROVE  TaskTrue(t)' /\ NoneBefore(t)'
    <2>1. i + 1 \in DOMAIN tasks /\ t = tasks[i + 1] /\ tasks[1].h < t.h
      BY Zenon, <1>2, <1>3, <1>10 DEF Ordered
    <2>2. TaskTrue(t) /\ NoneBefore(t) /\ t \in Task
      BY Zenon, <1>2, <2>1, LenProperties, ElementOfSeq DEF TasksTrue, Shapes
    <2>3. t.st \notin {"checking", "revert"}
      <3> SUFFICES ASSUME t.st \in {"checking", "revert"} PROVE FALSE
        BY Zenon
      <3>1. t.h <= Len(local)
        BY Zenon, <1>1, <1>2, <2>2 DEF NoneBefore
      <3>2. Len(local) < t.h
        BY Zenon, <1>3, <1>4, <2>1
      <3>3. t.h \in Nat
        BY Zenon, <2>2 DEF Task
      <3> QED
        BY <1>5, <3>1, <3>2, <3>3
    <2> QED
      BY Zenon, <1>1, <2>2, <2>3 DEF TaskTrue, NoneBefore, RemoteBlock
  <1>11. TasksTrue'
    BY Zenon, <1>10 DEF TasksTrue
  <1>12. RevertTrue'
    BY Zenon, <1>1, <1>2 DEF RevertTrue
  <1>13. ChainLinked'
    <2>1. ASSUME NEW i \in 1 .. Len(local)
          PROVE  Len(local'[i]) = i /\ (i > 1 => Parent(local'[i]) = local'[i - 1])
      <3>1. local'[i] = local[i] /\ (i > 1 => local'[i - 1] = local[i - 1])
        <4>1. i > 1 => i - 1 \in 1 .. Len(local)
          BY <1>5
        <4> QED
          BY Zenon, <1>6, <4>1
      <3> QED
        BY Zenon, <1>2, <1>5, <3>1 DEF ChainLinked
    <2>2. Len(task.block) = Len(local) + 1
      BY <1>1, <1>4, <1>5 DEF Number
    <2>3. Len(local) + 1 > 1 => Parent(task.block) = local'[Len(local)]
      <3> SUFFICES ASSUME Len(local) + 1 > 1 PROVE Parent(task.block) = local'[Len(local)]
        BY Zenon
      <3>1. local # <<>> /\ Len(local) \in 1 .. Len(local)
        BY <1>5, EmptySeq
      <3> QED
        BY Zenon, <1>1, <1>6, <3>1 DEF Head_
    <2>4. ASSUME NEW i \in 1 .. Len(local) + 1
          PROVE  Len(local'[i]) = i /\ (i > 1 => Parent(local'[i]) = local'[i - 1])
      <3>1. CASE i \in 1 .. Len(local)
        BY Zenon, <2>1, <3>1
      <3>2. CASE i = Len(local) + 1
        <4>1. i - 1 = Len(local) /\ local'[i] = task.block
          BY <1>5, <1>6, <3>2
        <4> QED
          BY Zenon, <2>2, <2>3, <3>2, <4>1
      <3> QED
        BY <1>5, <3>1, <3>2
    <2> QED
      BY Zenon, <1>7, <2>4 DEF ChainLinked
  <1>14. Followed'
    <2>1. currReorg' = None
      BY Zenon, <1>1 DEF Announce
    <2>2. revertFaults' = 0 => view' = local'
      BY Zenon, <1>1, <1>2 DEF Announce, Followed
    <2> QED
      BY Zenon, <1>6, <2>1, <2>2 DEF Followed
  <1> QED
    BY Zenon, <1>8, <1>9, <1>11, <1>12, <1>13, <1>14 DEF IInv

-----------------------------------------------------------------------------
\* revertHead, in a revert that goes on or ends.
LEMMA RevertHeadStep ==
    ASSUME IInv, local # <<>>, reverting # None, revertHead,
           \/ reverting' = reverting
           \/ reverting' = None /\ cancelled' = TRUE,
           UNCHANGED <<remote, changes, tasks, nextHeight, view>>
    PROVE  IInv'
  <1>1. Shapes /\ Ordered /\ TasksTrue /\ RevertTrue /\ ChainLinked /\ Followed
    BY Zenon DEF IInv
  <1>2. /\ Len(local) \in Nat \ {0} /\ DOMAIN local = 1 .. Len(local)
        /\ Number(Head_) = Len(local) - 1 /\ local \in Seq(Seq(Forks)) /\ Len(local) <= MaxLen
    BY Zenon, <1>1, HeadNumber DEF Shapes
  <1> DEFINE n == Len(local) - 1
  <1>3. n \in Nat /\ n \in 0 .. Len(local) /\ n <= MaxLen
    BY <1>2, Parameters
  <1>4. /\ SubSeq(local, 1, n) \in Seq(Seq(Forks)) /\ Len(SubSeq(local, 1, n)) = n
        /\ DOMAIN SubSeq(local, 1, n) = 1 .. n
        /\ \A i \in 1 .. n : SubSeq(local, 1, n)[i] = local[i]
    BY <1>2, <1>3, Prefix, LenProperties
  <1>5. currReorg' = IF currReorg = None THEN [start |-> n, end |-> n]
                     ELSE [start |-> n, end |-> currReorg.end]
    BY Zenon, <1>2 DEF revertHead, NoteReorg
  <1>6. \/ local' = SubSeq(local, 1, n) /\ revertFaults' = revertFaults
        \/ local' = local /\ revertFaults' = revertFaults + 1
    BY Zenon DEF revertHead
  <1>7. /\ local' \in Seq(Seq(Forks)) /\ Len(local') <= MaxLen
        /\ \A i \in DOMAIN local' : i \in DOMAIN local /\ local'[i] = local[i]
        /\ \A i \in DOMAIN local' : i - 1 \in DOMAIN local => i - 1 \in DOMAIN local'
    <2>1. CASE local' = SubSeq(local, 1, n)
      BY SMTT(40), <1>2, <1>3, <1>4, <2>1
    <2>2. CASE local' = local
      BY Zenon, <1>2, <2>2
    <2> QED
      BY Zenon, <1>6, <2>1, <2>2
  <1>8. currReorg' \in ReorgRange /\ currReorg' # None /\ currReorg'.start = n
        /\ currReorg'.end = IF currReorg = None THEN n ELSE currReorg.end
    <2>1. currReorg # None => currReorg.end \in Nat
      BY Zenon, <1>1 DEF Shapes, ReorgRange
    <2> QED
      BY <1>3, <1>5, <2>1, Parameters DEF ReorgRange
  <1>9. revertFaults \in Nat /\ revertFaults' \in Nat
    BY <1>1, <1>6 DEF Shapes
  <1>10. Shapes'
    BY Zenon, <1>1, <1>7, <1>8, <1>9 DEF Shapes
  <1>11. Ordered'
    BY Zenon, <1>1 DEF Ordered
  <1>12. ASSUME NEW l, Orphans(l) PROVE Orphans(l)'
    BY Zenon, <1>7, <1>12 DEF Orphans, RemoteBlock
  <1>13. TasksTrue'
    <2>1. ASSUME NEW t, TaskTrue(t) PROVE TaskTrue(t)'
      <3>1. t.st = "revert" => /\ t.last \in Nat
                               /\ t.at = changes => \A l : l = t.last => Orphans(l)'
        BY Zenon, <1>12, <2>1 DEF TaskTrue
      <3> QED
        BY Zenon, <2>1, <3>1 DEF TaskTrue, RemoteBlock
    <2>2. ASSUME NEW t PROVE NoneBefore(t)'
      BY Zenon DEF NoneBefore
    <2> QED
      BY Zenon, <1>1, <2>1, <2>2 DEF TasksTrue
  <1>14. RevertTrue'
    BY Zenon, <1>1, <1>12 DEF RevertTrue
  <1>15. ChainLinked'
    <2>1. ASSUME NEW i \in DOMAIN local'
          PROVE  Len(local'[i]) = i /\ (i > 1 => Parent(local'[i]) = local'[i - 1])
      <3>1. i \in DOMAIN local /\ local'[i] = local[i]
        BY Zenon, <1>7
      <3>2. i > 1 => i - 1 \in DOMAIN local
        BY <1>2, <3>1
      <3>3. i > 1 => local'[i - 1] = local[i - 1]
        BY Zenon, <1>7, <3>2
      <3> QED
        BY Zenon, <1>1, <3>1, <3>3 DEF ChainLinked
    <2> QED
      BY Zenon, <2>1 DEF ChainLinked
  <1>16. Followed'
    <2> SUFFICES ASSUME revertFaults' = 0
                 PROVE  /\ view \in Seq(Seq(Forks))
                        /\ n = Len(local') /\ n <= Len(view) /\ local' = SubSeq(view, 1, n)
                        /\ currReorg'.end = Len(view) - 1
      BY Zenon, <1>8 DEF Followed
    <2>1. revertFaults = 0 /\ local' = SubSeq(local, 1, n)
      BY <1>6, <1>9
    <2>2. view \in Seq(Seq(Forks)) /\ Len(view) \in Nat
      BY Zenon, <1>1, <2>1, LenProperties DEF Followed
    <2>3. CASE currReorg = None
      BY <1>1, <1>2, <1>3, <1>4, <1>8, <2>1, <2>2, <2>3 DEF Followed
    <2>4. CASE currReorg # None
      <3>1. /\ currReorg.start = Len(local) /\ Len(local) <= Len(view)
            /\ local = SubSeq(view, 1, Len(local)) /\ currReorg.end = Len(view) - 1
        BY Zenon, <1>1, <2>1, <2>4 DEF Followed
      <3>2. Len(local) \in 0 .. Len(view) /\ n \in 0 .. Len(local)
        BY <1>2, <1>3, <2>2, <3>1
      <3>3. SubSeq(SubSeq(view, 1, Len(local)), 1, n) = SubSeq(view, 1, n)
        BY Zenon, <2>2, <3>2, PrefixOfPrefix
      <3>4. n <= Len(view)
        BY <1>2, <2>2, <3>1
      <3> QED
        BY Zenon, <1>4, <1>8, <2>1, <2>2, <2>4, <3>1, <3>3, <3>4
    <2> QED
      BY Zenon, <2>3, <2>4
  <1> QED
    BY Zenon, <1>10, <1>11, <1>13, <1>14, <1>15, <1>16 DEF IInv

LEMMA RevertSteps ==
    ASSUME IInv, Revert
    PROVE  IInv'
  <1>1. CASE RevertCertain
    BY Zenon, <1>1, RevertHeadStep DEF RevertCertain, Certain, streams
  <1>2. CASE RevertChecked
    BY Zenon, <1>2, RevertHeadStep DEF RevertChecked, EndRevert, streams
  <1>3. CASE RevertStop
    <2>1. /\ reverting' = None /\ cancelled' = TRUE
          /\ UNCHANGED <<remote, changes, local, tasks, nextHeight, currReorg, view, revertFaults>>
      BY Zenon, <1>3 DEF RevertStop, EndRevert, streams
    <2>2. Shapes'
      BY Zenon, <2>1 DEF IInv, Shapes
    <2>3. Ordered' /\ TasksTrue'
      BY Zenon, <2>1, FewerTasks DEF IInv
    <2>4. RevertTrue'
      BY Zenon, <2>1 DEF RevertTrue
    <2> QED
      BY Zenon, <2>1, <2>2, <2>3, <2>4, KeepChain DEF IInv
  <1> QED
    BY Zenon, <1>1, <1>2, <1>3 DEF Revert

LEMMA RestartStep ==
    ASSUME IInv, Restart
    PROVE  IInv'
  <1>1. /\ tasks = <<>> /\ nextHeight' = Len(local)
        /\ UNCHANGED <<remote, changes, local, tasks, reverting, currReorg, view, revertFaults>>
    BY Zenon DEF Restart
  <1>2. Shapes'
    BY Zenon, <1>1, LenProperties DEF IInv, Shapes
  <1>3. Ordered' /\ TasksTrue'
    BY <1>1 DEF Ordered, TasksTrue
  <1>4. RevertTrue'
    BY Zenon, <1>1, KeepRevert DEF IInv
  <1> QED
    BY Zenon, <1>1, <1>2, <1>3, <1>4, KeepChain DEF IInv

LEMMA NextIInv ==
    ASSUME IInv, [Next]_vars
    PROVE  IInv'
  <1>1. CASE RemoteChange \/ StartFetch \/ Revert \/ Restart
    BY Zenon, <1>1, RemoteStep, StartFetchStep, RevertSteps, RestartStep
  <1>2. CASE PollRequest \/ PollStore \/ UNCHANGED vars
    BY Zenon, <1>2, KeepAll DEF PollRequest, PollStore, vars, streams
  <1>3. CASE Fetch
    BY Zenon, <1>3, FetchedStep, CheckRemoteStep, CheckLocalStep DEF Fetch, FetchStep
  <1>4. CASE Dropped \/ Rejected
    BY Zenon, <1>4, DropStep DEF Dropped, Rejected
  <1>5. CASE Mismatch \/ storeTask \/ StartRevert
    BY Zenon, <1>5, MismatchStep, StoreStep, StartRevertStep
  <1> QED
    BY Zenon, <1>1, <1>2, <1>3, <1>4, <1>5 DEF Next, Callback

LEMMA InitIInv ==
    ASSUME Init
    PROVE  IInv
  <1>1. remote \in Seq(Forks) /\ Len(remote) = StartLen /\ StartLen \in Nat /\ StartLen >= 1
    <2>1. remote \in [1 .. StartLen -> Forks] /\ StartLen \in Nat /\ StartLen >= 1
      BY Parameters DEF Init
    <2> QED
      BY <2>1
  <1>2. RemoteBlock(0) \in Seq(Forks) /\ Len(RemoteBlock(0)) = 1
    <2>1. 1 \in 0 .. Len(remote)
      BY <1>1
    <2> QED
      BY <1>1, <2>1, Prefix DEF RemoteBlock
  <1>3. local = <<RemoteBlock(0)>> /\ local \in Seq(Seq(Forks)) /\ Len(local) = 1 /\ DOMAIN local = {1}
        /\ local[1] = RemoteBlock(0)
    BY <1>2 DEF Init
  <1>4. Shapes
    BY <1>1, <1>3, EmptySeq, Parameters DEF Init, Shapes
  <1>5. Ordered /\ TasksTrue /\ RevertTrue
    BY DEF Init, Ordered, TasksTrue, RevertTrue
  <1>6. ChainLinked
    <2>1. ASSUME NEW i \in DOMAIN local
          PROVE  Len(local[i]) = i /\ ~(i > 1)
      <3>1. i = 1
        BY Zenon, <1>3
      <3>2. Len(local[1]) = 1
        BY <1>2, <1>3, Zenon
      <3> QED
        BY <3>1, <3>2
    <2> QED
      BY Zenon, <2>1 DEF ChainLinked
  <1>7. Followed
    BY Zenon, <1>3 DEF Init, Followed
  <1> QED
    BY Zenon, <1>4, <1>5, <1>6, <1>7 DEF IInv

\* The blockchain that the parallel fetches, the resets and the reverts leave is a
\* chain of consecutive blocks, each the parent of the next.
THEOREM StaysLinked ==
    Spec => []ChainLinked
  <1>1. Init => IInv
    BY Zenon, InitIInv
  <1>2. IInv /\ [Next]_vars => IInv'
    BY Zenon, NextIInv
  <1>3. IInv => ChainLinked
    BY Zenon DEF IInv
  <1> QED
    BY <1>1, <1>2, <1>3, PTL DEF Spec

\* A follower of newHeads and reorgFeed has the local chain, up to the reverts that
\* wait to be announced, as long as no RevertHead has failed.
THEOREM FollowersFollow ==
    Spec => []FollowersAgree
  <1>1. Init => IInv
    BY Zenon, InitIInv
  <1>2. IInv /\ [Next]_vars => IInv'
    BY Zenon, NextIInv
  <1>3. IInv => FollowersAgree
    BY Zenon DEF IInv, Followed, FollowersAgree
  <1> QED
    BY <1>1, <1>2, <1>3, PTL DEF Spec

LEMMA RevertedAreOrphans ==
    ASSUME IInv, [Next]_vars
    PROVE  [RevertOrphan]_vars
  <1> SUFFICES ASSUME Len(local') < Len(local), reverting.at = changes
               PROVE  Number(Head_) >= Len(remote) \/ RemoteBlock(Number(Head_)) # Head_
    BY Zenon DEF RevertOrphan
  <1>1. local \in Seq(Seq(Forks)) /\ Len(local) \in Nat /\ ChainLinked /\ Shapes
    BY Zenon, LenProperties DEF IInv, Shapes
  <1>2. local' # local
    BY <1>1
  <1>3. ASSUME storeTask PROVE FALSE
    <2>1. Turn /\ tasks' = Tail(tasks) /\ local' = Append(local, task.block)
      BY Zenon, <1>3 DEF storeTask
    <2>2. task \in Task
      BY Zenon, <1>1, <2>1, TurnOf DEF Turn
    <2>3. Len(local') = Len(local) + 1
      BY <1>1, <2>1, <2>2, AppendProperties DEF Task
    <2> QED
      BY <1>1, <2>3
  <1>4. ASSUME RevertCertain
        PROVE  Number(Head_) >= Len(remote) \/ RemoteBlock(Number(Head_)) # Head_
    <2>1. local # <<>> /\ reverting # None /\ Number(Head_) > reverting.last
      BY Zenon, <1>4 DEF RevertCertain, Certain
    <2>2. Orphans(reverting.last)
      BY Zenon, <2>1 DEF IInv, RevertTrue
    <2>3. Len(local) \in Nat \ {0} /\ Len(local) \in DOMAIN local /\ Number(Head_) = Len(local) - 1
      BY Zenon, <1>1, <2>1, HeadNumber
    <2>4. Len(local) > Len(remote) \/ RemoteBlock(Len(local) - 1) # local[Len(local)]
      BY Zenon, <2>1, <2>2, <2>3 DEF Orphans
    <2>5. Len(remote) \in Nat
      BY Zenon, <1>1, LenProperties DEF Shapes
    <2> QED
      BY <2>3, <2>4, <2>5 DEF Head_
  <1>5. ASSUME RevertChecked
        PROVE  RemoteBlock(Number(Head_)) # Head_
    BY Zenon, <1>5 DEF RevertChecked
  <1>6. storeTask \/ RevertCertain \/ RevertChecked
    BY Zenon, <1>2 DEF Next, vars, RemoteChange, PollRequest, PollStore, StartFetch, Fetch, FetchStep, Fetched,
                CheckRemote, CheckLocal, Callback, Dropped, Rejected, Mismatch, StartRevert, Revert,
                RevertStop, Restart
  <1> QED
    BY Zenon, <1>3, <1>4, <1>5, <1>6

\* A block that the data source still has is not reverted, unless the data source
\* has changed since the verdict to revert was reached.
THEOREM RevertsJustified ==
    Spec => RevertsOnlyOrphans
  <1>1. Init => IInv
    BY Zenon, InitIInv
  <1>2. IInv /\ [Next]_vars => IInv'
    BY Zenon, NextIInv
  <1>3. IInv /\ [Next]_vars => [RevertOrphan]_vars
    BY Zenon, RevertedAreOrphans
  <1> QED
    BY <1>1, <1>2, <1>3, PTL DEF Spec, RevertsOnlyOrphans
=============================================================================
