----------------------- MODULE TradingSnapshotsProof -----------------------
(***************************************************************************)
(* Proofs about TradingSnapshots, for every set of entries, requests and   *)
(* calls, every nesting of two levels and every lag of REST.               *)
(***************************************************************************)
EXTENDS TradingSnapshots, SequenceTheorems, TLAPS

\* A task is the coroutine of a call or the one nested in it.
LEMMA Tasks ==
  /\ \A t \in Task : /\ t[1] \in Reader /\ Own(t[1]) \in Task /\ Inner(t) \in Task
                     /\ IsOwn(t) => t = Own(t[1]) /\ Inner(t) # t
                     /\ ~IsOwn(t) => t = Inner(Own(t[1])) /\ Inner(t) = t /\ t # Own(t[1])
  /\ \A r \in Reader : /\ Own(r) \in Task /\ Inner(Own(r)) \in Task
                       /\ IsOwn(Own(r)) /\ ~IsOwn(Inner(Own(r)))
                       /\ Own(r)[1] = r /\ Inner(Own(r))[1] = r
                       /\ Inner(Own(r)) # Own(r)
BY DEF Task, Own, Inner, IsOwn

\* Versions and revisions are numbers.
LEMMA Numbers ==
  ASSUME SnapshotAssumption, TypeOK
  PROVE  /\ account \in Nat /\ revision \in Nat /\ Lag \in Nat
         /\ \A n \in 0..revision : at[n] \in Nat
         /\ at[revision] \in Nat
         /\ \A v \in Version : v \in Nat
<1>1. /\ account \in Version /\ revision \in 0..MaxRevision /\ at \in [0..MaxRevision -> Version]
  BY DEF TypeOK
<1>2. MaxVersion \in Nat /\ MaxRevision \in Nat /\ Lag \in Nat
  BY DEF SnapshotAssumption
<1>3. \A v \in Version : v \in Nat
  BY <1>2 DEF Version
<1>4. revision \in Nat /\ revision \in 0..MaxRevision /\ 0..revision \subseteq 0..MaxRevision
  BY <1>1, <1>2
<1> QED  BY <1>1, <1>2, <1>3, <1>4

\* What a coroutine that ends leaves behind has the types of its variables.
LEMMA EndedType ==
  ASSUME SnapshotAssumption, TypeOK, NEW T, Ended(T)
  PROVE  /\ place' \in [Task -> {"idle", "wait", "fetch", "done", "over"}]
         /\ label' \in [Task -> 0..MaxRevision]
         /\ due' \in [Task -> SUBSET UNION {Requests[e] : e \in Entry}]
         /\ oldest' \in [Task -> Version]
         /\ \A t \in Task : place'[t] = "fetch" => t \notin T /\ place[t] = "fetch"
BY DEF SnapshotAssumption, TypeOK, Ended, Version

\* The next owner of a lock, or nobody.
LEMMA TailType ==
  ASSUME NEW q \in Seq(Task), q # <<>>
  PROVE  Tail(q) \in Seq(Task)
OBVIOUS

LEMMA AppendType ==
  ASSUME NEW q \in Seq(Task), NEW t \in Task
  PROVE  /\ Append(q, t) \in Seq(Task) /\ Append(q, t) # <<>>
         /\ q # <<>> => Head(Append(q, t)) = Head(q)
<1>1. /\ Append(q, t) \in Seq(Task) /\ Append(q, t) # <<>>
      /\ \A i \in 1..Len(q) : Append(q, t)[i] = q[i]
  BY AppendProperties
<1>2. q # <<>> => Len(q) \in Nat /\ Len(q) # 0
  BY EmptySeq, LenProperties
<1> QED  BY <1>1, <1>2

-----------------------------------------------------------------------------
(* Types, and who owns a lock *)

LEMMA ChangedType ==
  ASSUME SnapshotAssumption, TypeOK, Changed
  PROVE  /\ cache' \in [Entry -> Answers \cup {NoEntry}]
         /\ revision' \in 0..MaxRevision /\ revision' = revision + 1
         /\ at' \in [0..MaxRevision -> Version]
         /\ at'[revision'] = account
         /\ \A n \in 0..revision : at'[n] = at[n]
BY DEF SnapshotAssumption, TypeOK, Changed

\* t leaves the lock of its entry: the others that fetch still own theirs.
LEMMA ReturnType ==
  ASSUME SnapshotAssumption, TypeOK, NEW t \in Task, NEW a \in Answers,
         place[t] \in {"wait", "fetch"}, entry[t] \in Entry, HasLock(t),
         Return(t, a), UNCHANGED entry
  PROVE  /\ lock' \in [Entry -> Seq(Task)]
         /\ place' \in [Task -> {"idle", "wait", "fetch", "done", "over"}]
         /\ label' \in [Task -> 0..MaxRevision]
         /\ due' \in [Task -> SUBSET UNION {Requests[e] : e \in Entry}]
         /\ oldest' \in [Task -> Version]
         /\ answer' \in [Reader -> Answers \cup {NoEntry}]
         /\ \A u \in Task : place'[u] = "fetch" => u # t /\ place[u] = "fetch"
         /\ \A u \in Task : place'[u] = "fetch" =>
              entry'[u] \in Entry /\ lock'[entry'[u]] # <<>> /\ Head(lock'[entry'[u]]) = u
<1>1. /\ lock[entry[t]] \in Seq(Task) /\ lock[entry[t]] # <<>> /\ Head(lock[entry[t]]) = t
      /\ lock' = [lock EXCEPT ![entry[t]] = Tail(lock[entry[t]])]
  BY DEF TypeOK, HasLock, Return, Release
<1>2. lock' \in [Entry -> Seq(Task)]
  BY <1>1, TailType DEF TypeOK
<1>3. /\ place' \in [Task -> {"idle", "wait", "fetch", "done", "over"}]
      /\ label' \in [Task -> 0..MaxRevision]
      /\ due' \in [Task -> SUBSET UNION {Requests[e] : e \in Entry}]
      /\ oldest' \in [Task -> Version]
      /\ \A u \in Task : place'[u] = "fetch" => u # t /\ place[u] = "fetch"
  <2>1. CASE Handed(t, a)
    <3>1. a.version \in Version
      BY DEF Answers
    <3> QED  BY <2>1, <3>1 DEF Handed, TypeOK
  <2>2. CASE \E T : t \in T /\ Ended(T)
    BY <2>2, EndedType
  <2> QED
    BY <2>1, <2>2 DEF Return
<1>4. answer' \in [Reader -> Answers \cup {NoEntry}]
  BY Tasks DEF Return, TypeOK
<1>5. ASSUME NEW u \in Task, place'[u] = "fetch"
      PROVE  entry'[u] \in Entry /\ lock'[entry'[u]] # <<>> /\ Head(lock'[entry'[u]]) = u
  <2>1. u # t /\ place[u] = "fetch"
    BY <1>3, <1>5
  <2>2. entry[u] \in Entry /\ lock[entry[u]] # <<>> /\ Head(lock[entry[u]]) = u
    BY <2>1 DEF TypeOK
  <2>3. entry[u] # entry[t] /\ lock'[entry[u]] = lock[entry[u]]
    BY <1>1, <2>1, <2>2 DEF TypeOK
  <2> QED  BY <2>2, <2>3
<1> QED  BY <1>2, <1>3, <1>4, <1>5

LEMMA TypeKept ==
  ASSUME SnapshotAssumption, TypeOK, FetchInv, CacheInv, [Next]_vars
  PROVE  TypeOK'
<1>1. CASE AccountChange
  <2>1. account' \in Version /\ channel' \in Seq({"order", "subscriptions"})
    BY <1>1 DEF AccountChange, TypeOK, Version, SnapshotAssumption
  <2> QED  BY <1>1, <2>1 DEF AccountChange, TypeOK, shared, local
<1>2. CASE LocalChange
  BY <1>2, ChangedType DEF LocalChange, TypeOK, external, local
<1>3. CASE Connect
  BY <1>3 DEF Connect, TypeOK, shared, local
<1>4. CASE Subscribe
  <2>1. channel' \in Seq({"order", "subscriptions"})
    BY <1>4 DEF Subscribe, TypeOK
  <2> QED  BY <1>4, <2>1 DEF Subscribe, TypeOK, shared, local
<1>5. CASE LinkDies
  BY <1>5 DEF LinkDies, TypeOK, shared, local
<1>6. CASE Receive
  <2>1. channel' \in Seq({"order", "subscriptions"})
    BY <1>6 DEF Receive, TypeOK
  <2> QED  BY <1>6, <2>1, ChangedType DEF Receive, TypeOK, local
<1>7. CASE Disconnect
  BY <1>7, ChangedType DEF Disconnect, TypeOK, local
<1>8. ASSUME NEW r \in Reader, NEW e \in Entry, Call(r, e)
      PROVE  TypeOK'
  <2>1. Own(r) \in Task /\ lock[e] \in Seq(Task)
    BY Tasks DEF TypeOK
  <2>2. /\ lock' \in [Entry -> Seq(Task)]
        /\ \A d \in Entry : lock[d] # <<>> => lock'[d] # <<>> /\ Head(lock'[d]) = Head(lock[d])
    BY <1>8, <2>1, AppendType DEF Call, TypeOK
  <2>3. \A t \in Task : place'[t] = "fetch" => place[t] = "fetch" /\ entry'[t] = entry[t]
    BY <1>8, <2>1 DEF Call, TypeOK
  <2> QED  BY <1>8, <2>1, <2>2, <2>3 DEF Call, TypeOK, shared, external
<1>9. ASSUME NEW t \in Task, Hit(t)
      PROVE  TypeOK'
  <2>1. entry[t] \in Entry /\ cache[entry[t]] \in Answers
    BY <1>9 DEF Hit, FetchInv, TaskInv, TypeOK
  <2> QED  BY <1>9, <2>1, ReturnType DEF Hit, TypeOK, shared, external
<1>10. ASSUME NEW t \in Task, Fetch(t)
       PROVE  TypeOK'
  <2>1. entry[t] \in Entry /\ HasLock(t) /\ Inner(t) \in Task
    BY <1>10, Tasks DEF Fetch, FetchInv, TaskInv
  <2>2. /\ label' \in [Task -> 0..MaxRevision]
        /\ due' \in [Task -> SUBSET UNION {Requests[e] : e \in Entry}]
        /\ oldest' \in [Task -> Version]
    BY <1>10, <2>1 DEF Fetch, TypeOK, SnapshotAssumption, Version
  <2>3. CASE Nested[entry[t]] = NoEntry
    BY <1>10, <2>1, <2>2, <2>3 DEF Fetch, TypeOK, HasLock, shared, external
  <2>4. CASE Nested[entry[t]] # NoEntry
    <3>1. Nested[entry[t]] \in Entry /\ Nested[entry[t]] # entry[t]
      BY <2>1, <2>4 DEF SnapshotAssumption
    <3>2. /\ lock' \in [Entry -> Seq(Task)]
          /\ \A d \in Entry : lock[d] # <<>> => lock'[d] # <<>> /\ Head(lock'[d]) = Head(lock[d])
      <4>1. lock' = [lock EXCEPT ![Nested[entry[t]]] = Append(@, Inner(t))]
        BY <1>10, <2>4 DEF Fetch
      <4>2. lock \in [Entry -> Seq(Task)]
        BY DEF TypeOK
      <4> QED  BY <2>1, <3>1, <4>1, <4>2, AppendType
    <3>3. /\ place' = [place EXCEPT ![t] = "fetch", ![Inner(t)] = "wait"]
          /\ entry' = [entry EXCEPT ![Inner(t)] = Nested[entry[t]]]
      BY <1>10, <2>4 DEF Fetch
    <3>4. \A u \in Task : place'[u] = "fetch" => entry'[u] = entry[u] /\ (u = t \/ place[u] = "fetch")
      BY <2>1, <3>3 DEF TypeOK
    <3>5. \A u \in Task : place'[u] = "fetch" =>
            entry'[u] \in Entry /\ lock'[entry'[u]] # <<>> /\ Head(lock'[entry'[u]]) = u
      BY <2>1, <3>2, <3>4 DEF TypeOK, HasLock
    <3>6. /\ place' \in [Task -> {"idle", "wait", "fetch", "done", "over"}]
          /\ entry' \in [Task -> Entry \cup {NoEntry}]
      BY <3>1, <3>3 DEF TypeOK
    <3> QED  BY <1>10, <2>2, <3>2, <3>5, <3>6 DEF Fetch, TypeOK, shared, external
  <2> QED  BY <2>3, <2>4
<1>11. ASSUME NEW t \in Task, NEW q \in due[t], Serve(t, q)
       PROVE  TypeOK'
  <2>1. PICK v \in Version : oldest' = [oldest EXCEPT ![t] = Lower(v, oldest[t])]
    BY <1>11 DEF Serve
  <2>2. Lower(v, oldest[t]) \in Version
    BY DEF Lower, TypeOK
  <2>3. /\ oldest' \in [Task -> Version]
        /\ due' \in [Task -> SUBSET UNION {Requests[e] : e \in Entry}]
    BY <1>11, <2>1, <2>2 DEF Serve, TypeOK
  <2> QED  BY <1>11, <2>3 DEF Serve, TypeOK, shared, external
<1>12. ASSUME NEW t \in Task, Finish(t)
       PROVE  TypeOK'
  <2> DEFINE a == [version |-> Oldest(t), label |-> label[t]]
  <2>1. entry[t] \in Entry /\ HasLock(t) /\ place[t] = "fetch" /\ Return(t, a)
    BY <1>12 DEF Finish, Complete, TypeOK, HasLock
  <2>2. Oldest(t) \in Version
    BY Tasks DEF Oldest, Lower, TypeOK
  <2>3. a \in Answers
    BY <2>2 DEF Answers, TypeOK
  <2>4. cache' \in [Entry -> Answers \cup {NoEntry}]
    BY <1>12, <2>1, <2>3 DEF Finish, TypeOK
  <2> HIDE DEF a
  <2> QED  BY <1>12, <2>1, <2>3, <2>4, ReturnType DEF Finish, TypeOK, external
<1>13. ASSUME NEW t \in Task, Fail(t)
       PROVE  TypeOK'
  <2> DEFINE caller == Own(t[1])
             failed == {t} \cup {u \in {caller} : place[u] = "fetch"}
             gone == failed \cup {u \in {Inner(t)} : IsOwn(t) /\ place[u] = "done"}
  <2>1. /\ Ended(gone)
        /\ lock' = [e \in Entry |-> IF \E u \in failed : entry[u] = e THEN Tail(lock[e]) ELSE lock[e]]
    BY <1>13 DEF Fail
  <2>2. \A u \in failed : u \in Task /\ place[u] = "fetch"
    BY <1>13, Tasks DEF Fail
  <2>3. lock' \in [Entry -> Seq(Task)]
    <3> SUFFICES ASSUME NEW e \in Entry
                 PROVE  (IF \E u \in failed : entry[u] = e THEN Tail(lock[e]) ELSE lock[e]) \in Seq(Task)
      BY <2>1
    <3>1. lock[e] \in Seq(Task) /\ ((\E u \in failed : entry[u] = e) => lock[e] # <<>>)
      BY <2>2 DEF TypeOK
    <3> QED  BY <3>1, TailType
  <2>4. ASSUME NEW u \in Task, place'[u] = "fetch"
        PROVE  entry'[u] \in Entry /\ lock'[entry'[u]] # <<>> /\ Head(lock'[entry'[u]]) = u
    <3>1. u \notin failed /\ place[u] = "fetch" /\ entry' = entry
      BY <1>13, <2>1, <2>4, EndedType DEF Fail
    <3>2. entry[u] \in Entry /\ lock[entry[u]] # <<>> /\ Head(lock[entry[u]]) = u
      BY <3>1 DEF TypeOK
    <3>3. \A w \in failed : entry[w] # entry[u]
      BY <2>2, <3>1, <3>2 DEF TypeOK
    <3>4. lock'[entry[u]] = lock[entry[u]]
      BY <2>1, <3>2, <3>3
    <3> QED  BY <3>1, <3>2, <3>4
  <2> HIDE DEF gone, failed, caller
  <2> QED  BY <1>13, <2>1, <2>3, <2>4, EndedType DEF Fail, TypeOK, shared, external
<1>14. ASSUME NEW e \in Entry, Expire(e)
       PROVE  TypeOK'
  BY <1>14 DEF Expire, TypeOK, local, external
<1>15. CASE UNCHANGED vars
  BY <1>15 DEF vars, TypeOK, shared, local, external
<1> QED
  BY <1>1, <1>2, <1>3, <1>4, <1>5, <1>6, <1>7, <1>8, <1>9, <1>10, <1>11, <1>12, <1>13, <1>14, <1>15
  DEF Next, Step

-----------------------------------------------------------------------------
(* Where the coroutines are *)

\* What the caches, the websocket and the account do leaves the coroutines
\* alone, and at is extended only.
LEMMA FetchQuiet ==
  ASSUME SnapshotAssumption, TypeOK, FetchInv, UNCHANGED local,
         revision' \in Nat, revision <= revision',
         \A n \in 0..revision : at'[n] = at[n]
  PROVE  FetchInv'
<1>1. /\ revision \in Nat
      /\ \A t \in Task : label[t] \in Nat /\ label[t] <= revision
      /\ \A r \in Reader : called[r] \in Nat
  BY DEF TypeOK, FetchInv, TaskInv, SnapshotAssumption
<1>2. /\ place' = place /\ entry' = entry /\ label' = label /\ oldest' = oldest
      /\ answer' = answer /\ called' = called
  BY DEF local
<1>3. ASSUME NEW t \in Task
      PROVE  TaskInv(t)'
  BY <1>1, <1>2 DEF FetchInv, TaskInv, Since
<1>4. ASSUME NEW r \in Reader
      PROVE  CallInv(r)'
  BY <1>1, <1>2, Tasks DEF FetchInv, CallInv, Since
<1> QED  BY <1>3, <1>4 DEF FetchInv

\* An answer leaves: the caller of a nested coroutine gets one that has seen
\* what the caller noted.
LEMMA FetchReturn ==
  ASSUME SnapshotAssumption, TypeOK, FetchInv, NEW t \in Task, NEW a \in Answers,
         place[t] \in {"wait", "fetch"}, Return(t, a),
         UNCHANGED <<entry, called, revision, at>>,
         ~IsOwn(t) /\ place[Own(t[1])] = "fetch" => Since(a.version, label[Own(t[1])])
  PROVE  FetchInv'
<1>1. a.version \in Version
  BY DEF Answers
<1>2. CASE IsOwn(t)
  <2> DEFINE T == {t} \cup {u \in {Inner(t)} : place[u] = "done"}
  <2>1. /\ answer' = [answer EXCEPT ![t[1]] = a]
        /\ Ended(T)
    BY <1>2 DEF Return
  <2>2. ASSUME NEW u \in Task
        PROVE  TaskInv(u)'
    BY <2>1 DEF Ended, FetchInv, TaskInv, Since, TypeOK, SnapshotAssumption
  <2>3. ASSUME NEW r \in Reader
        PROVE  CallInv(r)'
    BY <1>2, <2>1, Tasks DEF Ended, FetchInv, CallInv, Since, TypeOK
  <2> QED  BY <2>2, <2>3 DEF FetchInv
<1>3. CASE ~IsOwn(t) /\ place[Own(t[1])] = "fetch"
  <2>1. Handed(t, a) /\ UNCHANGED answer
    BY <1>3 DEF Return
  <2>2. ASSUME NEW u \in Task
        PROVE  TaskInv(u)'
    BY <2>1 DEF Handed, FetchInv, TaskInv, Since, TypeOK
  <2>3. ASSUME NEW r \in Reader
        PROVE  CallInv(r)'
    BY <1>3, <2>1, Tasks DEF Handed, FetchInv, CallInv, Since, TypeOK
  <2> QED  BY <2>2, <2>3 DEF FetchInv
<1>4. CASE ~IsOwn(t) /\ place[Own(t[1])] # "fetch"
  <2>1. Ended({t}) /\ UNCHANGED answer
    BY <1>4 DEF Return
  <2>2. ASSUME NEW u \in Task
        PROVE  TaskInv(u)'
    BY <2>1 DEF Ended, FetchInv, TaskInv, Since, TypeOK, SnapshotAssumption
  <2>3. ASSUME NEW r \in Reader
        PROVE  CallInv(r)'
    BY <1>4, <2>1, Tasks DEF Ended, FetchInv, CallInv, Since, TypeOK
  <2> QED  BY <2>2, <2>3 DEF FetchInv
<1> QED  BY <1>2, <1>3, <1>4

\* What has seen revision n has seen the revisions before it.
LEMMA SinceEarlier ==
  ASSUME SnapshotAssumption, TypeOK, CacheInv, NEW v \in Version,
         NEW m \in 0..revision, NEW n \in 0..revision, m <= n, Since(v, n)
  PROVE  Since(v, m)
<1>1. at[m] <= at[n]
  BY DEF CacheInv
<1>2. /\ at[m] \in Nat /\ at[n] \in Nat /\ v \in Nat /\ Lag \in Nat
  BY Numbers
<1> QED  BY <1>1, <1>2 DEF Since

\* The answer of a complete fetch has seen the revision its coroutine noted.
LEMMA OldestSince ==
  ASSUME SnapshotAssumption, TypeOK, FetchInv, NEW t \in Task, Complete(t)
  PROVE  Oldest(t) \in Version /\ Since(Oldest(t), label[t])
<1>1. Since(oldest[t], label[t]) /\ oldest[t] \in Version /\ oldest[Inner(t)] \in Version
  BY Tasks DEF Complete, FetchInv, TaskInv, TypeOK
<1>2. Nested[entry[t]] # NoEntry => place[Inner(t)] = "done" /\ place[t] = "fetch"
  BY DEF Complete
<1>3. Nested[entry[t]] # NoEntry => Since(oldest[Inner(t)], label[t])
  BY <1>2, Tasks DEF FetchInv, CallInv
<1> QED  BY <1>1, <1>3 DEF Oldest, Lower

LEMMA FetchKept ==
  ASSUME SnapshotAssumption, TypeOK, FetchInv, CacheInv, [Next]_vars
  PROVE  FetchInv'
<1> revision \in Nat
  BY DEF TypeOK, SnapshotAssumption
<1>1. CASE AccountChange \/ Connect \/ Subscribe \/ LinkDies \/ UNCHANGED vars
  BY <1>1, FetchQuiet
  DEF AccountChange, Connect, Subscribe, LinkDies, vars, shared
<1>2. CASE LocalChange \/ Receive \/ Disconnect
  BY <1>2, FetchQuiet, ChangedType DEF LocalChange, Receive, Disconnect
<1>3. ASSUME NEW e \in Entry, Expire(e)
      PROVE  FetchInv'
  BY <1>3, FetchQuiet DEF Expire
<1>4. ASSUME NEW r \in Reader, NEW e \in Entry, Call(r, e)
      PROVE  FetchInv'
  <2>1. ASSUME NEW u \in Task
        PROVE  TaskInv(u)'
    BY <1>4, Tasks DEF Call, FetchInv, TaskInv, Since, TypeOK, shared
  <2>2. ASSUME NEW s \in Reader
        PROVE  CallInv(s)'
    BY <1>4, Tasks DEF Call, FetchInv, CallInv, Since, TypeOK, shared
  <2> QED  BY <2>1, <2>2 DEF FetchInv
<1>5. ASSUME NEW t \in Task, Hit(t)
      PROVE  FetchInv'
  <2>1. entry[t] \in Entry /\ cache[entry[t]] \in Answers
    BY <1>5 DEF Hit, FetchInv, TaskInv, TypeOK
  <2>2. ASSUME ~IsOwn(t), place[Own(t[1])] = "fetch"
        PROVE  Since(cache[entry[t]].version, label[Own(t[1])])
    <3>1. cache[entry[t]].version \in Version /\ Since(cache[entry[t]].version, revision)
      BY <1>5, <2>1 DEF Hit, CacheInv, Answers
    <3>2. label[Own(t[1])] \in 0..revision
      BY Tasks DEF FetchInv, TaskInv, TypeOK
    <3> QED  BY <3>1, <3>2, SinceEarlier
  <2> QED  BY <1>5, <2>1, <2>2, FetchReturn DEF Hit, shared
<1>6. ASSUME NEW t \in Task, Fetch(t)
      PROVE  FetchInv'
  <2>1. entry[t] \in Entry /\ place[t] = "wait" /\ Inner(t) \in Task
    BY <1>6, Tasks DEF Fetch, FetchInv, TaskInv
  <2>2. Since(MaxVersion, revision)
    BY DEF Since, TypeOK, SnapshotAssumption, Version
  <2>3. CASE Nested[entry[t]] = NoEntry
    <3>1. ASSUME NEW u \in Task
          PROVE  TaskInv(u)'
      BY <1>6, <2>1, <2>2, <2>3 DEF Fetch, FetchInv, TaskInv, Since, TypeOK, shared
    <3>2. ASSUME NEW s \in Reader
          PROVE  CallInv(s)'
      BY <1>6, <2>1, <2>3, Tasks DEF Fetch, FetchInv, CallInv, TaskInv, Since, TypeOK, shared
    <3> QED  BY <3>1, <3>2 DEF FetchInv
  <2>4. CASE Nested[entry[t]] # NoEntry
    <3>1. /\ Nested[entry[t]] \in Entry /\ Nested[Nested[entry[t]]] = NoEntry
      BY <2>1, <2>4 DEF SnapshotAssumption
    <3>2. IsOwn(t) /\ t = Own(t[1]) /\ Inner(t) # t
      BY <2>1, <2>4, Tasks DEF FetchInv, CallInv
    <3>3. /\ place' = [place EXCEPT ![t] = "fetch", ![Inner(t)] = "wait"]
          /\ entry' = [entry EXCEPT ![Inner(t)] = Nested[entry[t]]]
      BY <1>6, <2>4 DEF Fetch
    <3>4. /\ label' = [label EXCEPT ![t] = revision]
          /\ oldest' = [oldest EXCEPT ![t] = MaxVersion]
          /\ UNCHANGED <<answer, called, revision, at>>
      BY <1>6 DEF Fetch, shared
    <3>5. ASSUME NEW u \in Task
          PROVE  TaskInv(u)'
      BY <2>1, <2>2, <3>1, <3>2, <3>3, <3>4 DEF FetchInv, TaskInv, Since, TypeOK
    <3>6. ASSUME NEW s \in Reader
          PROVE  CallInv(s)'
      <4>1. CASE s = t[1]
        <5>1. place'[Own(s)] = "fetch" /\ place'[Inner(Own(s))] = "wait"
          BY <2>1, <3>2, <3>3, <4>1 DEF TypeOK
        <5>2. called[s] <= revision
          BY DEF FetchInv, CallInv
        <5> QED  BY <2>1, <3>1, <3>2, <3>3, <3>4, <4>1, <5>1, <5>2 DEF CallInv, TypeOK
      <4>2. CASE s # t[1]
        <5>1. /\ Own(s) # t /\ Own(s) # Inner(t)
              /\ Inner(Own(s)) # t /\ Inner(Own(s)) # Inner(t)
              /\ Own(s) \in Task /\ Inner(Own(s)) \in Task
          BY <3>2, <4>2, Tasks
        <5> QED  BY <3>3, <3>4, <5>1 DEF FetchInv, CallInv, Since, TypeOK
      <4> QED  BY <4>1, <4>2
    <3> QED  BY <3>5, <3>6 DEF FetchInv
  <2> QED  BY <2>3, <2>4
<1>7. ASSUME NEW t \in Task, NEW q \in due[t], Serve(t, q)
      PROVE  FetchInv'
  <2>1. PICK v \in Version :
          /\ account - Lag <= v
          /\ oldest' = [oldest EXCEPT ![t] = Lower(v, oldest[t])]
    BY <1>7 DEF Serve
  <2>2. Since(v, revision)
    <3>1. at[revision] <= account
      BY DEF CacheInv
    <3>2. v \in Nat /\ account \in Nat /\ at[revision] \in Nat /\ Lag \in Nat
      BY Numbers
    <3> QED  BY <2>1, <3>1, <3>2 DEF Since
  <2>3. label[t] \in 0..revision /\ Since(oldest[t], label[t]) /\ oldest[t] \in Version
    BY <1>7 DEF Serve, FetchInv, TaskInv, TypeOK
  <2>4. Since(Lower(v, oldest[t]), label[t])
    <3>1. Since(v, label[t])
      BY <2>2, <2>3, SinceEarlier
    <3> QED  BY <2>3, <3>1 DEF Lower
  <2>5. ASSUME NEW u \in Task
        PROVE  TaskInv(u)'
    BY <1>7, <2>1, <2>4 DEF Serve, FetchInv, TaskInv, Since, TypeOK, shared
  <2>6. ASSUME NEW s \in Reader
        PROVE  CallInv(s)'
    BY <1>7, <2>1, Tasks DEF Serve, FetchInv, CallInv, Since, TypeOK, shared
  <2> QED  BY <2>5, <2>6 DEF FetchInv
<1>8. ASSUME NEW t \in Task, Finish(t)
      PROVE  FetchInv'
  <2> DEFINE a == [version |-> Oldest(t), label |-> label[t]]
  <2>1. Complete(t) /\ Return(t, a) /\ place[t] = "fetch"
    BY <1>8 DEF Finish, Complete
  <2>2. a \in Answers /\ a.version = Oldest(t) /\ Since(Oldest(t), label[t])
    BY <2>1, OldestSince DEF Answers, TypeOK
  <2>3. ASSUME ~IsOwn(t), place[Own(t[1])] = "fetch"
        PROVE  Since(a.version, label[Own(t[1])])
    <3>1. /\ label[Own(t[1])] \in 0..revision /\ label[t] \in 0..revision
          /\ label[Own(t[1])] <= label[t]
      BY <2>1, <2>3, Tasks DEF FetchInv, TaskInv, CallInv, TypeOK
    <3>2. Oldest(t) \in Version
      BY <2>1, OldestSince
    <3> QED  BY <2>2, <3>1, <3>2, SinceEarlier
  <2> HIDE DEF a
  <2> QED  BY <1>8, <2>1, <2>2, <2>3, FetchReturn DEF Finish
<1>9. ASSUME NEW t \in Task, Fail(t)
      PROVE  FetchInv'
  <2> DEFINE failed == {t} \cup {u \in {Own(t[1])} : place[u] = "fetch"}
             gone == failed \cup {u \in {Inner(t)} : IsOwn(t) /\ place[u] = "done"}
  <2>1. Ended(gone) /\ place[t] = "fetch" /\ UNCHANGED <<entry, answer, called, revision, at>>
    BY <1>9 DEF Fail, shared
  <2>2. ASSUME NEW u \in Task
        PROVE  TaskInv(u)'
    <3> HIDE DEF gone, failed
    <3> QED
      BY <2>1 DEF Ended, FetchInv, TaskInv, Since, TypeOK, SnapshotAssumption
  <2>3. ASSUME NEW r \in Reader
        PROVE  CallInv(r)'
    BY <2>1, Tasks DEF Ended, FetchInv, CallInv, Since, TypeOK
  <2> QED  BY <2>2, <2>3 DEF FetchInv
<1> QED
  BY <1>1, <1>2, <1>3, <1>4, <1>5, <1>6, <1>7, <1>8, <1>9 DEF Next, Step

-----------------------------------------------------------------------------
(* What the caches and the answers have seen *)

\* A change clears the caches and records how new the account is.
LEMMA CacheChanged ==
  ASSUME SnapshotAssumption, TypeOK, CacheInv, Changed, account' = account,
         UNCHANGED <<answer, called>>, \A r \in Reader : called[r] <= revision
  PROVE  CacheInv'
<1>1. /\ revision' = revision + 1 /\ revision \in Nat
      /\ at'[revision'] = account /\ account \in Nat
      /\ \A n \in 0..revision : at'[n] = at[n] /\ at[n] \in Nat /\ at[n] <= account
  <2>1. \A n \in 0..revision : at[n] \in Nat
    BY Numbers
  <2>2. revision \in Nat /\ account \in Nat
    BY Numbers
  <2>3. \A n \in 0..revision : at[n] <= at[revision] /\ at[revision] <= account
    BY <2>2 DEF CacheInv
  <2> QED  BY <2>1, <2>2, <2>3, ChangedType
<1>2. \A m, n \in 0..revision' : m <= n => at'[m] <= at'[n]
  <2> SUFFICES ASSUME NEW m \in 0..revision', NEW n \in 0..revision', m <= n
               PROVE  at'[m] <= at'[n]
    OBVIOUS
  <2>1. CASE n \in 0..revision
    <3>1. m \in 0..revision
      BY <1>1, <2>1
    <3>2. at[m] <= at[n]
      BY <2>1, <3>1 DEF CacheInv
    <3> QED  BY <1>1, <2>1, <3>1, <3>2
  <2>2. CASE n = revision'
    BY <1>1, <2>2
  <2> QED  BY <1>1, <2>1, <2>2
<1>3. \A e \in Entry : cache'[e] = NoEntry
  BY DEF Changed
<1>4. ASSUME NEW r \in Reader, answer'[r] # NoEntry
      PROVE  /\ answer'[r].label <= revision'
             /\ Since(answer[r].version, answer[r].label)'
             /\ Since(answer[r].version, called[r])'
  <2>1. answer' = answer /\ called' = called
    OBVIOUS
  <2>2. answer[r] \in Answers /\ called[r] \in 0..revision
    BY <1>1, <1>4, <2>1 DEF TypeOK
  <2>3. answer[r].label \in 0..revision
    BY <1>1, <1>4, <2>1, <2>2 DEF CacheInv, Answers
  <2>4. Since(answer[r].version, answer[r].label) /\ Since(answer[r].version, called[r])
    BY <1>4, <2>1 DEF CacheInv, LabelIsTrue, AnswerIsRecent
  <2> QED  BY <1>1, <2>1, <2>2, <2>3, <2>4 DEF Since
<1> QED  BY <1>1, <1>2, <1>3, <1>4 DEF CacheInv, LabelIsTrue, AnswerIsRecent

\* An answer that has seen what its coroutine noted may be cached under the
\* current revision, and given to the call that waited for it.
LEMMA CacheReturn ==
  ASSUME SnapshotAssumption, TypeOK, FetchInv, CacheInv, NEW t \in Task, NEW a \in Answers,
         Return(t, a), UNCHANGED <<account, link, channel, revision, at, called>>,
         cache' = cache \/ (a.label = revision /\ cache' = [cache EXCEPT ![entry[t]] = a]),
         a.label <= revision, Since(a.version, a.label),
         IsOwn(t) => called[t[1]] <= a.label
  PROVE  CacheInv'
<1>1. ASSUME NEW e \in Entry, cache'[e] # NoEntry
      PROVE  /\ cache'[e].label = revision /\ Since(cache'[e].version, revision)
  BY <1>1 DEF CacheInv, TypeOK
<1>2. ASSUME NEW r \in Reader, answer'[r] # NoEntry
      PROVE  /\ answer'[r].label <= revision
             /\ Since(answer'[r].version, answer'[r].label)
             /\ Since(answer'[r].version, called[r])
  <2>1. CASE answer'[r] = answer[r]
    BY <1>2, <2>1 DEF CacheInv, LabelIsTrue, AnswerIsRecent
  <2>2. CASE answer'[r] # answer[r]
    <3>1. IsOwn(t) /\ r = t[1] /\ answer'[r] = a
      BY <2>2, Tasks DEF Return, TypeOK
    <3>2. a.label \in 0..revision /\ a.version \in Version
      BY DEF TypeOK, Answers
    <3>3. called[r] \in 0..revision
      BY DEF TypeOK, FetchInv, CallInv
    <3>4. called[r] <= a.label
      BY <3>1
    <3>5. Since(a.version, called[r])
      BY <3>2, <3>3, <3>4, SinceEarlier
    <3> QED  BY <3>1, <3>5
  <2> QED  BY <2>1, <2>2
<1>3. UNCHANGED <<account, link, channel, revision, at, called>>
  OBVIOUS
<1> QED  BY <1>1, <1>2, <1>3 DEF CacheInv, LabelIsTrue, AnswerIsRecent, Since

LEMMA CacheKept ==
  ASSUME SnapshotAssumption, TypeOK, FetchInv, CacheInv, [Next]_vars
  PROVE  CacheInv'
<1>1. CASE AccountChange
  <2>1. /\ at[revision] <= account' /\ ~(link' = "subscribed" /\ channel' = <<>>)
    <3>1. account' = account + 1 /\ link' = link
          /\ (link = "subscribed" => channel' = Append(channel, "order"))
      BY <1>1 DEF AccountChange
    <3>2. at[revision] <= account
      BY DEF CacheInv
    <3>3. account \in Nat /\ at[revision] \in Nat
      BY Numbers
    <3>4. Append(channel, "order") # <<>>
      <4>1. channel \in Seq({"order", "subscriptions"})
        BY DEF TypeOK
      <4> QED  BY <4>1, AppendProperties
    <3> QED  BY <3>1, <3>2, <3>3, <3>4
  <2> QED
    BY <1>1, <2>1 DEF AccountChange, CacheInv, LabelIsTrue, AnswerIsRecent, Since, shared, local
<1>2. CASE Connect \/ Subscribe \/ LinkDies
  <2>1. ~(link' = "subscribed" /\ channel' = <<>>)
    BY <1>2 DEF Connect, Subscribe, LinkDies, TypeOK
  <2> QED
    BY <1>2, <2>1
    DEF Connect, Subscribe, LinkDies, CacheInv, LabelIsTrue, AnswerIsRecent, Since, shared, local
<1>3. CASE LocalChange \/ Receive \/ Disconnect
  BY <1>3, CacheChanged
  DEF LocalChange, Receive, Disconnect, FetchInv, CallInv, external, local
<1>4. ASSUME NEW e \in Entry, Expire(e)
      PROVE  CacheInv'
  BY <1>4 DEF Expire, CacheInv, LabelIsTrue, AnswerIsRecent, Since, TypeOK, external, local
<1>5. ASSUME NEW r \in Reader, NEW e \in Entry, Call(r, e)
      PROVE  CacheInv'
  <2>1. answer[r] = NoEntry
    BY <1>5 DEF Call, FetchInv, CallInv
  <2> QED
    BY <1>5, <2>1 DEF Call, CacheInv, LabelIsTrue, AnswerIsRecent, Since, TypeOK, shared, external
<1>6. ASSUME NEW t \in Task, Hit(t)
      PROVE  CacheInv'
  <2>1. entry[t] \in Entry /\ cache[entry[t]] \in Answers
    BY <1>6 DEF Hit, FetchInv, TaskInv, TypeOK
  <2>2. /\ cache[entry[t]].label = revision
        /\ Since(cache[entry[t]].version, revision)
        /\ revision <= revision
    BY <1>6, <2>1 DEF Hit, CacheInv, TypeOK
  <2>3. called[t[1]] <= revision
    BY Tasks DEF FetchInv, CallInv
  <2> QED  BY <1>6, <2>1, <2>2, <2>3, CacheReturn DEF Hit, shared, external
<1>7. ASSUME NEW t \in Task, Finish(t)
      PROVE  CacheInv'
  <2> DEFINE a == [version |-> Oldest(t), label |-> label[t]]
  <2>1. Complete(t) /\ Return(t, a) /\ place[t] = "fetch"
    BY <1>7 DEF Finish, Complete
  <2>2. /\ a \in Answers /\ a.label = label[t] /\ a.label <= revision
        /\ Since(a.version, a.label)
    BY <2>1, OldestSince DEF Answers, TypeOK, FetchInv, TaskInv
  <2>3. IsOwn(t) => called[t[1]] <= a.label
    BY <2>1, Tasks DEF FetchInv, CallInv
  <2>4. cache' = cache \/ (a.label = revision /\ cache' = [cache EXCEPT ![entry[t]] = a])
    BY <1>7 DEF Finish, TypeOK
  <2> HIDE DEF a
  <2> QED  BY <1>7, <2>1, <2>2, <2>3, <2>4, CacheReturn DEF Finish, external
<1>8. ASSUME NEW t \in Task, Fetch(t) \/ (\E q \in due[t] : Serve(t, q)) \/ Fail(t)
      PROVE  CacheInv'
  BY <1>8 DEF Fetch, Serve, Fail, CacheInv, LabelIsTrue, AnswerIsRecent, Since, shared, external
<1>9. CASE UNCHANGED vars
  BY <1>9 DEF vars, CacheInv, LabelIsTrue, AnswerIsRecent, Since, shared, local, external
<1> QED
  BY <1>1, <1>2, <1>3, <1>4, <1>5, <1>6, <1>7, <1>8, <1>9 DEF Next, Step

-----------------------------------------------------------------------------
(* The theorems *)

LEMMA InitInv == SnapshotAssumption /\ Init => TypeOK /\ FetchInv /\ CacheInv
<1> SUFFICES ASSUME SnapshotAssumption, Init
             PROVE  TypeOK /\ FetchInv /\ CacheInv
  OBVIOUS
<1>1. TypeOK
  BY DEF SnapshotAssumption, Init, TypeOK, Version
<1>2. FetchInv
  BY <1>1, Tasks DEF Init, FetchInv, TaskInv, CallInv, TypeOK
<1>3. CacheInv
  BY DEF SnapshotAssumption, Init, CacheInv, LabelIsTrue, AnswerIsRecent
<1> QED  BY <1>1, <1>2, <1>3

\* Whatever the websocket loses, whatever REST requests are under way and
\* whatever fails, the service keeps its state well-formed, the coroutines where
\* their locks are, and the caches at the current revision.
THEOREM SnapshotsAreKept == Spec => [](TypeOK /\ FetchInv /\ CacheInv)
<1>1. Init => TypeOK /\ FetchInv /\ CacheInv
  BY InitInv, SnapshotAssumption
<1>2. TypeOK /\ FetchInv /\ CacheInv /\ [Next]_vars => (TypeOK /\ FetchInv /\ CacheInv)'
  BY TypeKept, FetchKept, CacheKept, SnapshotAssumption
<1> QED  BY <1>1, <1>2, PTL DEF Spec

\* The revision that an answer of order_state, balances or holdings carries is
\* one whose changes the answer has seen, for every interleaving of requests,
\* changes and nested answers.
THEOREM LabelledTruly == Spec => []LabelIsTrue
<1>1. CacheInv => LabelIsTrue
  BY DEF CacheInv
<1> QED  BY <1>1, SnapshotsAreKept, PTL

\* No call of the service is answered from before a change that the service knew
\* of when the call began, for any number of calls and entries.
THEOREM AnsweredRecently == Spec => []AnswerIsRecent
<1>1. CacheInv => AnswerIsRecent
  BY DEF CacheInv
<1> QED  BY <1>1, SnapshotsAreKept, PTL

\* While the subscription stands and nothing is under way, the caches are as new
\* as the account, after any history of lost frames and broken connections.
THEOREM QuietIsCurrent == Spec => []QuietMeansCurrent
<1>1. CacheInv => QuietMeansCurrent
  BY DEF CacheInv, QuietMeansCurrent, Since
<1> QED  BY <1>1, SnapshotsAreKept, PTL
=============================================================================
