------------------------ MODULE KiwoomTradingProof ------------------------
(***************************************************************************)
(* Proofs about KiwoomTrading, for every set of commands and orders, every *)
(* ancestry, every cohort limit and every number of crashes.               *)
(*                                                                         *)
(* First the gate on its own (module KiwoomCodeGate), whose theorems are   *)
(* about GateSpec and take nothing from the command path; then the path,   *)
(* whose steps are steps of the gate or leave it alone.                    *)
(*                                                                         *)
(*   TaskInv    a task past the gate is a member of the epoch;             *)
(*   MemberInv  a follower or a proven member has passed the account       *)
(*              check, or joined behind one that had;                      *)
(*   RecordInv  what the row of a task says of its request;                *)
(*   DoubtInv   which rows in doubt may stand beside a member;             *)
(*   PriorInv   the operations before an order's current one are over;     *)
(*   BulkInv    a bulk cancel and its frozen targets.                      *)
(***************************************************************************)
EXTENDS KiwoomTrading, SequenceTheorems, TLAPS

(***************************************************************************)
(* The queue: a ticket is appended, or one is taken out of its place.      *)
(***************************************************************************)
LEMMA TailDrops ==
  ASSUME NEW q \in Seq(Lease), q # <<>>
  PROVE  1 \in DOMAIN q /\ q[1] = Head(q) /\ Tail(q) = DropAt(q, 1)
<1>1. /\ Len(q) \in Nat /\ DOMAIN q = 1..Len(q) /\ Len(q) # 0
      /\ Tail(q) \in Seq(Lease) /\ Len(Tail(q)) = Len(q) - 1
      /\ \A i \in 1..Len(Tail(q)) : Tail(q)[i] = q[i + 1]
      /\ Head(q) = q[1]
  BY HeadTailProperties, LenProperties, EmptySeq
<1>2. Tail(q) = [i \in 1..(Len(q) - 1) |-> Tail(q)[i]]
  <2>1. Tail(q) \in [1..(Len(q) - 1) -> Lease]
    BY <1>1, LenProperties
  <2> QED  BY <2>1
<1>3. \A i \in 1..(Len(q) - 1) : ~(i < 1) /\ Tail(q)[i] = q[i + 1]
  BY <1>1
<1>4. DropAt(q, 1) = [i \in 1..(Len(q) - 1) |-> Tail(q)[i]]
  BY <1>3 DEF DropAt
<1> QED  BY <1>1, <1>2, <1>4

LEMMA DropType ==
  ASSUME NEW q \in Seq(Lease), NEW i \in DOMAIN q
  PROVE  /\ DropAt(q, i) \in Seq(Lease)
         /\ DOMAIN DropAt(q, i) = 1..(Len(q) - 1)
         /\ DOMAIN q = 1..Len(q) /\ Len(q) \in Nat \ {0}
<1>1. Len(q) \in Nat \ {0} /\ DOMAIN q = 1..Len(q) /\ \A j \in 1..Len(q) : q[j] \in Lease
  BY LenProperties, ElementOfSeq
<1>2. DropAt(q, i) \in [1..(Len(q) - 1) -> Lease]
  BY <1>1 DEF DropAt
<1> QED  BY <1>1, <1>2, SeqDef

\* Taking out a ticket that stops waiting keeps the queue right.
LEMMA DropKeepsQueue ==
  ASSUME GateTypeOK, QueueInv, NEW i \in DOMAIN queue, queue' = DropAt(queue, i),
         place'[queue[i]] \notin {"queued", "asleep"},
         \A x \in Lease : x # queue[i] => (Waiting(x)' <=> Waiting(x))
  PROVE  QueueInv'
<1>1. /\ Len(queue) \in Nat \ {0} /\ DOMAIN queue = 1..Len(queue)
      /\ DOMAIN queue' = 1..(Len(queue) - 1)
      /\ \A j \in DOMAIN queue : queue[j] \in Lease
  BY DropType, ElementOfSeq DEF GateTypeOK
<1>2. \A j \in DOMAIN queue' : /\ j < i => j \in DOMAIN queue /\ queue'[j] = queue[j]
                               /\ ~(j < i) => j + 1 \in DOMAIN queue /\ queue'[j] = queue[j + 1]
  BY <1>1 DEF DropAt
<1>3. \A j \in DOMAIN queue' : \E k \in DOMAIN queue :
        k # i /\ queue'[j] = queue[k] /\ k = IF j < i THEN j ELSE j + 1
  BY <1>1, <1>2
<1>4. \A k \in DOMAIN queue : k # i => \E j \in DOMAIN queue' : queue'[j] = queue[k]
  <2> SUFFICES ASSUME NEW k \in DOMAIN queue, k # i
               PROVE  \E j \in DOMAIN queue' : queue'[j] = queue[k]
    OBVIOUS
  <2>1. CASE k < i
    BY <1>1, <1>2, <2>1
  <2>2. CASE k > i
    <3>1. k - 1 \in DOMAIN queue' /\ ~(k - 1 < i) /\ (k - 1) + 1 = k
      BY <1>1, <2>2
    <3> QED  BY <1>2, <3>1
  <2> QED  BY <1>1, <2>1, <2>2
<1>5. \A x \in Lease : Waiting(x)' => \E j \in DOMAIN queue' : queue'[j] = x
  <2> SUFFICES ASSUME NEW x \in Lease, Waiting(x)'
               PROVE  \E j \in DOMAIN queue' : queue'[j] = x
    OBVIOUS
  <2>1. x # queue[i] /\ Waiting(x)
    BY DEF Waiting
  <2>2. PICK k \in DOMAIN queue : queue[k] = x
    BY <2>1 DEF QueueInv
  <2> QED  BY <1>4, <2>1, <2>2
<1>6. \A j \in DOMAIN queue' : Waiting(queue[j])'
  <2> SUFFICES ASSUME NEW j \in DOMAIN queue'
               PROVE  place'[queue'[j]] \in {"queued", "asleep"}
    BY DEF Waiting
  <2>1. PICK k \in DOMAIN queue : k # i /\ queue'[j] = queue[k]
    BY <1>3
  <2>2. queue[k] # queue[i] /\ queue[k] \in Lease /\ Waiting(queue[k])
    BY <1>1, <2>1 DEF QueueInv
  <2> QED  BY <2>1, <2>2 DEF Waiting
<1>7. \A j, k \in DOMAIN queue' : queue'[j] = queue'[k] => j = k
  <2> SUFFICES ASSUME NEW j \in DOMAIN queue', NEW k \in DOMAIN queue', queue'[j] = queue'[k]
               PROVE  j = k
    OBVIOUS
  <2>1. PICK a \in DOMAIN queue : queue'[j] = queue[a] /\ a = IF j < i THEN j ELSE j + 1
    BY <1>3
  <2>2. PICK b \in DOMAIN queue : queue'[k] = queue[b] /\ b = IF k < i THEN k ELSE k + 1
    BY <1>3
  <2>3. a = b
    BY <2>1, <2>2 DEF QueueInv
  <2> QED  BY <1>1, <2>1, <2>2, <2>3
<1> QED  BY <1>5, <1>6, <1>7 DEF QueueInv

\* A new ticket at the end keeps the queue right.
LEMMA AppendKeepsQueue ==
  ASSUME GateTypeOK, QueueInv, NEW l \in Lease, Enter(l)
  PROVE  /\ QueueInv' /\ queue' \in Seq(Lease)
         /\ queue # <<>> => Head(queue') = Head(queue)
<1>1. /\ queue' \in Seq(Lease) /\ Len(queue) \in Nat
      /\ DOMAIN queue = 1..Len(queue) /\ DOMAIN queue' = 1..(Len(queue) + 1)
      /\ \A i \in DOMAIN queue : queue'[i] = queue[i] /\ queue[i] \in Lease
      /\ queue'[Len(queue) + 1] = l
      /\ queue # <<>> => Len(queue) # 0
  BY AppendProperties, LenProperties, ElementOfSeq, EmptySeq DEF GateTypeOK, Enter
<1>2. /\ place[l] = "out" /\ place'[l] = "queued"
      /\ \A x \in Lease : x # l => place'[x] = place[x]
  BY DEF GateTypeOK, Enter
<1>3. \A i \in DOMAIN queue : queue[i] # l
  BY <1>2 DEF QueueInv, Waiting
<1>4. \A i \in DOMAIN queue' : i \in DOMAIN queue \/ i = Len(queue) + 1
  BY <1>1
<1>5. \A x \in Lease : Waiting(x)' => \E i \in DOMAIN queue' : queue'[i] = x
  <2> SUFFICES ASSUME NEW x \in Lease, Waiting(x)'
               PROVE  \E i \in DOMAIN queue' : queue'[i] = x
    OBVIOUS
  <2>1. CASE x = l
    BY <1>1, <2>1
  <2>2. CASE x # l
    <3>1. PICK i \in DOMAIN queue : queue[i] = x
      BY <1>2, <2>2 DEF QueueInv, Waiting
    <3> QED  BY <1>1, <3>1
  <2> QED  BY <2>1, <2>2
<1>6. \A i \in DOMAIN queue' : Waiting(queue[i])'
  BY <1>1, <1>2, <1>3, <1>4 DEF QueueInv, Waiting
<1>7. \A i, j \in DOMAIN queue' : queue'[i] = queue'[j] => i = j
  BY <1>1, <1>3, <1>4 DEF QueueInv
<1>8. queue # <<>> => Head(queue') = Head(queue)
  BY <1>1 DEF GateTypeOK
<1> QED  BY <1>1, <1>5, <1>6, <1>7, <1>8 DEF QueueInv

(***************************************************************************)
(* Types.                                                                  *)
(***************************************************************************)
LEMMA GateTypeInit == GateInit => GateTypeOK
BY GateAssumption, EmptySeq DEF GateInit, GateTypeOK

\* A grant starts an epoch or joins one that is open and below its limit.
LEMMA GrantCounts ==
  ASSUME GateTypeOK, EpochInv, NEW l \in Lease, Grant(l)
  PROVE  /\ granted' \in 1..MaxGranted
         /\ admission = "open"
         /\ admission' = IF granted' = MaxGranted THEN "sealed" ELSE admission
         /\ (active = {} /\ GrantLeader(l)) \/ (CanJoin(l) /\ GrantFollower(l))
         /\ active' = active \cup {l}
         /\ queue' = Tail(queue) /\ Head(queue) = l
<1> USE GateAssumption
<1>1. CASE GrantLeader(l)
  BY <1>1 DEF GateTypeOK, EpochInv, Grant, MayEnter, GrantLeader
<1>2. CASE GrantFollower(l)
  <2>1. CanJoin(l) /\ granted # MaxGranted /\ admission = "open"
    BY <1>2 DEF Grant, MayEnter, GrantFollower, CanJoin, EpochInv
  <2> QED  BY <1>2, <2>1 DEF GateTypeOK, Grant, MayEnter, GrantFollower
<1> QED  BY <1>1, <1>2 DEF Grant

LEMMA NotifyPlaces ==
  ASSUME GateTypeOK, NEW l \in Lease, NEW p \in {"active", "observed", "gone"}, Notify(l, p)
  PROVE  /\ place' \in [Lease -> {"out", "queued", "asleep", "active", "observed", "gone"}]
         /\ place'[l] = p
         /\ \A x \in Lease : /\ place'[x] # "asleep"
                             /\ x # l => /\ Waiting(x)' <=> Waiting(x)
                                         /\ ~Waiting(x) => place'[x] = place[x]
<1>1. Lease = DOMAIN place
  BY DEF GateTypeOK
<1>2. place' = [x \in Lease |-> IF x = l THEN p
                               ELSE IF place[x] = "asleep" THEN "queued" ELSE place[x]]
  BY DEF Notify, GateTypeOK
<1> QED  BY <1>2 DEF GateTypeOK, Waiting

LEMMA GateTypeNext ==
  ASSUME GateTypeOK, GateInv, [GateNext]_gateVars
  PROVE  GateTypeOK'
<1> USE DEF GateInv
<1>1. ASSUME NEW l \in Lease, Enter(l)
      PROVE  GateTypeOK'
  BY <1>1, AppendKeepsQueue DEF Enter, GateTypeOK
<1>2. ASSUME NEW l \in Lease, Grant(l)
      PROVE  GateTypeOK'
  <2>1. queue' \in Seq(Lease)
    <3>1. queue # <<>>
      BY <1>2, EmptySeq, LenProperties DEF Grant, QueueInv, Waiting, GateTypeOK
    <3> QED  BY <1>2, <3>1, HeadTailProperties DEF Grant, GateTypeOK
  <2>2. place' \in [Lease -> {"out", "queued", "asleep", "active", "observed", "gone"}]
    BY <1>2, NotifyPlaces DEF Grant
  <2> QED  BY <1>2, <2>1, <2>2, GrantCounts DEF GrantLeader, GrantFollower, GateTypeOK
<1>3. ASSUME NEW l \in Lease, Sleep(l)
      PROVE  GateTypeOK'
  BY <1>3 DEF Sleep, GateTypeOK
<1>4. ASSUME NEW l \in Lease, Expire(l)
      PROVE  GateTypeOK'
  BY <1>4, DropType, NotifyPlaces DEF Expire, GateTypeOK
<1>5. ASSUME NEW l \in Lease, NEW s \in SUBSET Ref, ObserveLeader(l, s)
      PROVE  GateTypeOK'
  BY <1>5, NotifyPlaces DEF ObserveLeader, GateTypeOK
<1>6. ASSUME NEW l \in Lease, NEW s \in SUBSET Ref, ObserveFollower(l, s)
      PROVE  GateTypeOK'
  BY <1>6 DEF ObserveFollower, GateTypeOK
<1>7. ASSUME NEW l \in Lease, NEW frozen \in BOOLEAN, Exit(l, frozen)
      PROVE  GateTypeOK'
  BY <1>7, NotifyPlaces, GateAssumption DEF Exit, GateTypeOK
<1>8. CASE UNCHANGED gateVars
  BY <1>8 DEF gateVars, GateTypeOK
<1> QED  BY <1>1, <1>2, <1>3, <1>4, <1>5, <1>6, <1>7, <1>8 DEF GateNext, GateStep

(***************************************************************************)
(* The inductive invariant.                                                *)
(***************************************************************************)
LEMMA GateInvInit == GateInit => GateInv
BY GateAssumption DEF GateInit, GateInv, QueueInv, EpochInv, Independent, Waiting

LEMMA QueueNext ==
  ASSUME GateTypeOK, GateInv, [GateNext]_gateVars
  PROVE  QueueInv'
<1> USE DEF GateInv
<1>1. ASSUME NEW l \in Lease, Enter(l)
      PROVE  QueueInv'
  BY <1>1, AppendKeepsQueue
<1>2. ASSUME NEW l \in Lease, Grant(l)
      PROVE  QueueInv'
  <2>1. queue # <<>>
    BY <1>2, EmptySeq, LenProperties DEF Grant, QueueInv, Waiting, GateTypeOK
  <2>2. 1 \in DOMAIN queue /\ queue[1] = l /\ queue' = DropAt(queue, 1)
    BY <1>2, <2>1, TailDrops, GrantCounts DEF GateTypeOK
  <2>3. Notify(l, "active")
    BY <1>2 DEF Grant
  <2> QED  BY <2>2, <2>3, NotifyPlaces, DropKeepsQueue
<1>3. ASSUME NEW l \in Lease, Sleep(l)
      PROVE  QueueInv'
  <2>1. \A x \in Lease : Waiting(x)' <=> Waiting(x)
    BY <1>3 DEF Sleep, Waiting, GateTypeOK
  <2>2. \A i \in DOMAIN queue : queue[i] \in Lease
    BY ElementOfSeq, LenProperties DEF GateTypeOK
  <2> QED  BY <1>3, <2>1, <2>2 DEF Sleep, QueueInv
<1>4. ASSUME NEW l \in Lease, Expire(l)
      PROVE  QueueInv'
  <2>1. PICK i \in DOMAIN queue : queue[i] = l /\ queue' = DropAt(queue, i)
    BY <1>4 DEF Expire
  <2> QED  BY <1>4, <2>1, NotifyPlaces, DropKeepsQueue DEF Expire
<1>5. ASSUME NEW l \in Lease, place[l] \in {"active", "observed"}, UNCHANGED queue,
             \A x \in Lease : x # l => (Waiting(x)' <=> Waiting(x)),
             place'[l] \notin {"queued", "asleep"}
      PROVE  QueueInv'
  <2>1. \A i \in DOMAIN queue : queue[i] \in Lease
    BY ElementOfSeq, LenProperties DEF GateTypeOK
  <2> QED  BY <1>5, <2>1 DEF QueueInv, Waiting
<1>6. ASSUME NEW l \in Lease, NEW s \in SUBSET Ref, ObserveLeader(l, s)
      PROVE  QueueInv'
  BY <1>5, <1>6, NotifyPlaces DEF ObserveLeader
<1>7. ASSUME NEW l \in Lease, NEW s \in SUBSET Ref, ObserveFollower(l, s)
      PROVE  QueueInv'
  BY <1>5, <1>7 DEF ObserveFollower, Waiting, GateTypeOK
<1>8. ASSUME NEW l \in Lease, NEW frozen \in BOOLEAN, Exit(l, frozen)
      PROVE  QueueInv'
  BY <1>5, <1>8, NotifyPlaces DEF Exit, EpochInv
<1>9. CASE UNCHANGED gateVars
  BY <1>9 DEF gateVars, QueueInv, Waiting
<1> QED  BY <1>1, <1>2, <1>3, <1>4, <1>6, <1>7, <1>8, <1>9 DEF GateNext, GateStep

LEMMA EpochNext ==
  ASSUME GateTypeOK, GateInv, [GateNext]_gateVars
  PROVE  EpochInv'
<1> USE DEF GateInv
<1>1. ASSUME NEW l \in Lease, Enter(l) \/ Sleep(l)
      PROVE  EpochInv'
  BY <1>1 DEF Enter, Sleep, EpochInv, GateTypeOK
<1>2. ASSUME NEW l \in Lease, Grant(l)
      PROVE  EpochInv'
  <2>1. /\ place'[l] = "active"
        /\ \A x \in Lease : x # l => (x \in active <=> place'[x] \in {"active", "observed"})
    BY <1>2, NotifyPlaces DEF Grant, EpochInv, Waiting, GateTypeOK
  <2> QED  BY <1>2, <2>1, GrantCounts, GateAssumption DEF EpochInv
<1>3. ASSUME NEW l \in Lease, Expire(l)
      PROVE  EpochInv'
  <2>1. \A x \in Lease : x \in active <=> place'[x] \in {"active", "observed"}
    BY <1>3, NotifyPlaces DEF Expire, EpochInv, Waiting, GateTypeOK
  <2> QED  BY <1>3, <2>1 DEF Expire, EpochInv
<1>4. ASSUME NEW l \in Lease, NEW s \in SUBSET Ref, ObserveLeader(l, s)
      PROVE  EpochInv'
  <2>1. \A x \in Lease : x \in active <=> place'[x] \in {"active", "observed"}
    BY <1>4, NotifyPlaces DEF ObserveLeader, EpochInv, Waiting, GateTypeOK
  <2> QED  BY <1>4, <2>1 DEF ObserveLeader, EpochInv
<1>5. ASSUME NEW l \in Lease, NEW s \in SUBSET Ref, ObserveFollower(l, s)
      PROVE  EpochInv'
  BY <1>5 DEF ObserveFollower, EpochInv, GateTypeOK
<1>6. ASSUME NEW l \in Lease, NEW frozen \in BOOLEAN, Exit(l, frozen)
      PROVE  EpochInv'
  <2>1. \A x \in Lease : x \in active \ {l} <=> place'[x] \in {"active", "observed"}
    BY <1>6, NotifyPlaces DEF Exit, EpochInv, Waiting, GateTypeOK
  <2> QED  BY <1>6, <2>1, GateAssumption DEF Exit, EpochInv
<1>7. CASE UNCHANGED gateVars
  BY <1>7 DEF gateVars, EpochInv
<1> QED  BY <1>1, <1>2, <1>3, <1>4, <1>5, <1>6, <1>7 DEF GateNext, GateStep

LEMMA IndependentNext ==
  ASSUME GateTypeOK, GateInv, [GateNext]_gateVars
  PROVE  Independent'
<1> USE DEF GateInv
<1>1. ASSUME NEW l \in Lease, Grant(l)
      PROVE  Independent'
  <2>1. CASE active = {} /\ GrantLeader(l)
    BY <1>1, <2>1, GrantCounts DEF Independent
  <2>2. CASE CanJoin(l) /\ GrantFollower(l)
    <3>1. active' = active \cup {l} /\ proven' = proven \cup {l}
      BY <1>1, <2>2, GrantCounts DEF GrantFollower
    <3>2. l \in Parallel /\ \A m \in active : m \in Parallel \cap proven /\ Disjoint(l, m)
      BY <2>2 DEF CanJoin
    <3>3. \A m \in active : Disjoint(m, l)
      BY <3>2 DEF Disjoint
    <3>4. \A a, m \in active : a # m => a \in Parallel \cap proven /\ Disjoint(a, m)
      BY DEF Independent
    <3> QED  BY <3>1, <3>2, <3>3, <3>4 DEF Independent
  <2> QED  BY <1>1, <2>1, <2>2, GrantCounts
<1>2. ASSUME NEW l \in Lease, Enter(l) \/ Sleep(l) \/ Expire(l)
      PROVE  Independent'
  BY <1>2 DEF Enter, Sleep, Expire, Independent, Disjoint
<1>3. ASSUME NEW l \in Lease, NEW s \in SUBSET Ref, ObserveLeader(l, s) \/ ObserveFollower(l, s)
      PROVE  Independent'
  BY <1>3 DEF ObserveLeader, ObserveFollower, Independent, Disjoint
<1>4. ASSUME NEW l \in Lease, NEW frozen \in BOOLEAN, Exit(l, frozen)
      PROVE  Independent'
  BY <1>4 DEF Exit, Independent, Disjoint
<1>5. CASE UNCHANGED gateVars
  BY <1>5 DEF gateVars, Independent, Disjoint
<1> QED  BY <1>1, <1>2, <1>3, <1>4, <1>5 DEF GateNext, GateStep

LEMMA GateAlways == GateSpec => [](GateTypeOK /\ GateInv)
<1>1. GateTypeOK /\ GateInv /\ [GateNext]_gateVars => (GateTypeOK /\ GateInv)'
  BY GateTypeNext, QueueNext, EpochNext, IndependentNext DEF GateInv
<1> QED  BY <1>1, GateTypeInit, GateInvInit, PTL DEF GateSpec

\* Every variable keeps its type; an epoch never grants more than its limit.
THEOREM GateTypeCorrect == GateSpec => []GateTypeOK
BY GateAlways, PTL

\* Members of an epoch are modifications of proven, unrelated orders, unless one
\* write is alone.
THEOREM CohortIndependent == GateSpec => []Independent
BY GateAlways, PTL DEF GateInv

(***************************************************************************)
(* What a step may not do.                                                 *)
(***************************************************************************)
\* An epoch that is sealed or frozen takes no member before it has drained.
THEOREM ClosedMeansClosed == GateSpec => ClosedEpochDrains
<1>1. ASSUME GateTypeOK, GateInv, [GateNext]_gateVars, admission # "open"
      PROVE  active' \subseteq active
  <2> USE <1>1 DEF GateInv
  <2>1. ASSUME NEW l \in Lease, Grant(l)
        PROVE  FALSE
    BY <2>1, GrantCounts
  <2> QED  BY <2>1 DEF GateNext, GateStep, Enter, Sleep, Expire, ObserveLeader,
                ObserveFollower, Exit, gateVars
<1>2. GateTypeOK /\ GateInv /\ [GateNext]_gateVars
        => [admission # "open" => active' \subseteq active]_gateVars
  BY <1>1
<1> QED  BY <1>2, GateAlways, PTL DEF GateSpec, ClosedEpochDrains

\* A ticket enters only when all that queued before it have entered or given up.
THEOREM FirstComeFirst == GateSpec => NoOvertaking
<1>1. ASSUME GateTypeOK, GateInv, [GateNext]_gateVars,
             NEW i \in DOMAIN queue, queue[i] \in active' \ active,
             NEW j \in 1..(i - 1)
      PROVE  FALSE
  <2> USE <1>1 DEF GateInv
  <2>1. PICK l \in Lease : Grant(l)
    BY DEF GateNext, GateStep, Enter, Sleep, Expire, ObserveLeader,
       ObserveFollower, Exit, gateVars
  <2>2. queue # <<>> /\ DOMAIN queue = 1..Len(queue) /\ Len(queue) \in Nat
    BY <2>1, EmptySeq, LenProperties DEF Grant, QueueInv, Waiting, GateTypeOK
  <2>3. 1 \in DOMAIN queue /\ queue[1] = l /\ queue[i] = l
    BY <2>1, <2>2, TailDrops, GrantCounts DEF GateTypeOK
  <2> QED  BY <2>2, <2>3 DEF QueueInv
<1>2. GateTypeOK /\ GateInv /\ [GateNext]_gateVars
        => [\A i \in DOMAIN queue : queue[i] \in active' \ active =>
              \A j \in 1..(i - 1) : place'[queue[j]] \notin {"queued", "asleep"}]_gateVars
  BY <1>1
<1> QED  BY <1>2, GateAlways, PTL DEF GateSpec, NoOvertaking

(***************************************************************************)
(* No lost wakeup.                                                         *)
(***************************************************************************)
LEMMA WakeNext ==
  ASSUME GateTypeOK, GateInv, NoLostWakeup, [GateNext]_gateVars
  PROVE  NoLostWakeup'
<1> USE DEF GateInv
<1>1. ASSUME NEW l \in Lease, Enter(l)
      PROVE  NoLostWakeup'
  <2> SUFFICES ASSUME NEW x \in Lease, place'[x] = "asleep"
               PROVE  ~MayEnter(x)'
    BY DEF NoLostWakeup
  <2>1. place[x] = "asleep"
    BY <1>1 DEF Enter, GateTypeOK
  <2>2. queue # <<>>
    BY <2>1, EmptySeq, LenProperties DEF QueueInv, Waiting, GateTypeOK
  <2>3. Head(queue') = Head(queue)
    BY <1>1, <2>2, AppendKeepsQueue
  <2> QED  BY <1>1, <2>1, <2>3 DEF NoLostWakeup, MayEnter, CanJoin, Disjoint, Enter
<1>2. ASSUME NEW l \in Lease, Sleep(l)
      PROVE  NoLostWakeup'
  BY <1>2 DEF Sleep, NoLostWakeup, MayEnter, CanJoin, Disjoint, GateTypeOK
<1>3. ASSUME NEW l \in Lease, NEW s \in SUBSET Ref, ObserveFollower(l, s)
      PROVE  NoLostWakeup'
  BY <1>3 DEF ObserveFollower, NoLostWakeup, MayEnter, CanJoin, Disjoint, GateTypeOK
<1>4. ASSUME NEW l \in Lease, NEW p \in {"active", "observed", "gone"}, Notify(l, p)
      PROVE  NoLostWakeup'
  BY <1>4, NotifyPlaces DEF NoLostWakeup
<1>5. ASSUME NEW l \in Lease, NEW s \in SUBSET Ref, NEW frozen \in BOOLEAN,
             Grant(l) \/ Expire(l) \/ ObserveLeader(l, s) \/ Exit(l, frozen)
      PROVE  NoLostWakeup'
  BY <1>4, <1>5 DEF Grant, Expire, ObserveLeader, Exit
<1>6. CASE UNCHANGED gateVars
  BY <1>6 DEF gateVars, NoLostWakeup, MayEnter, CanJoin, Disjoint
<1> QED  BY <1>1, <1>2, <1>3, <1>5, <1>6 DEF GateNext, GateStep

\* A ticket sleeps only while it may not enter.
THEOREM Woken == GateSpec => []NoLostWakeup
<1>1. GateInit => NoLostWakeup
  BY DEF GateInit, NoLostWakeup
<1> QED  BY <1>1, GateAlways, WakeNext, PTL DEF GateSpec

USE DEF durable, external

-----------------------------------------------------------------------------
(* The inductive invariant *)

\* c has passed the account check.
Checked(c) == pc[c] \in {"read", "ready", "sending", "sent"}

TaskInv ==
  \A c \in Single :
    /\ c \in tasks <=> pc[c] # "idle"
    /\ pc[c] \in {"idle", "gate"} \/ Checked(c)
    /\ Checked(c) => c \in active
    /\ c \in active => c \in tasks

MemberInv ==
  /\ follower \subseteq active \cap Parallel
  /\ proven \subseteq active
  /\ \A m \in proven : m \in follower \/ Checked(m)

RecordInv ==
  \A c \in Single :
    /\ posts[c] \in {0, 1}
    /\ posts[c] = 0 <=> broker[c] = "none"
    /\ journal[c] \in {"none", "prepared"} => posts[c] = 0
    /\ pc[c] \in {"gate", "read", "ready"} => journal[c] = "prepared"
    /\ pc[c] = "sending" => journal[c] = "sending" /\ posts[c] = 0
    /\ pc[c] = "sent" => journal[c] = "sending" /\ posts[c] = 1

\* What c, a member that was checked or joined a cohort, knows of a row d that
\* stays in doubt without a task: when it touches the market as c does, it is a
\* member of c's cohort that failed, and the cohort is frozen.
Beside(c, d) ==
  /\ Kind[c] # "create"
  /\ Checked(c) => OrderOf[d] # OrderOf[c]
  /\ Real /\ Kind[d] \in {"create", "modify"} =>
       Kind[c] = "modify" /\ Kind[d] = "modify" /\ Disjoint(c, d) /\ admission = "frozen"

DoubtInv ==
  \A c \in active : Checked(c) \/ c \in follower =>
    \A d \in Single : InDoubt(d) /\ d \notin tasks => Beside(c, d)

\* Once c has read its order, the accepted operations on it were rejected.
PriorInv ==
  \A c, d \in Single :
    (pc[c] \in {"ready", "sending", "sent"} /\ c # d
       /\ OrderOf[c] \in Order /\ OrderOf[d] = OrderOf[c])
      => ~(journal[d] = "accepted" /\ broker[d] # "undone")

BulkInv ==
  \A b \in Bulk :
    /\ b \in tasks <=> pc[b] # "idle"
    /\ pc[b] \in {"idle", "open", "run", "failed"}
    /\ pc[b] = "open" => journal[b] = "prepared"
    /\ pc[b] \in {"run", "failed"} => journal[b] = "batch"
    /\ left[b] \subseteq targets[b]

KiwoomInv ==
  /\ TypeOK /\ GateInv
  /\ TaskInv /\ MemberInv /\ RecordInv
  /\ DoubtInv /\ PriorInv
  /\ BulkInv /\ FrozenBeforeCancel

-----------------------------------------------------------------------------
(* Constants *)

LEMMA Constants ==
  /\ \A c \in Cmd : c \in Single \/ c \in Bulk
  /\ Single \subseteq Cmd /\ Bulk \subseteq Cmd /\ Single \cap Bulk = {}
  /\ \A c \in Single : Kind[c] \in {"create", "modify", "cancel"}
  /\ \A c \in Single : OrderOf[c] \in Order <=> Kind[c] # "create"
  /\ \A b \in Cmd : \A c \in Children(b) : c \in Single /\ b \in Bulk /\ c # b
  /\ Lease = Single /\ Ref = Order
  /\ \A c \in Single : c \in Parallel => Real /\ Kind[c] = "modify"
  /\ \A c \in Single : Real /\ Kind[c] = "modify" => c \in Parallel
BY PayloadAssumption, KiwoomAssumption DEF Single, Bulk, Children, Modify

\* Two different members of an epoch are modifications of different orders.
LEMMA Apart ==
  ASSUME Independent, NEW c \in Single, NEW d \in Single,
         c \in active, d \in active, c # d
  PROVE  /\ Real /\ Kind[c] = "modify" /\ Kind[d] = "modify"
         /\ Disjoint(c, d) /\ OrderOf[c] # OrderOf[d]
<1>1. c \in Parallel /\ d \in Parallel /\ Disjoint(c, d)
  BY DEF Independent
<1>2. Real /\ Kind[c] = "modify" /\ Kind[d] = "modify" /\ OrderOf[c] \in Order
  BY <1>1, Constants
<1>3. OrderOf[c] # OrderOf[d]
  BY <1>1, <1>2, KiwoomAssumption DEF Disjoint
<1> QED  BY <1>1, <1>2, <1>3

-----------------------------------------------------------------------------
(* The gate *)

\* Every step of the service but a crash is a step of the gate or leaves it alone.
LEMMA GateMoves ==
  ASSUME TypeOK, Next
  PROVE  [GateNext]_gateVars \/ Crash
<1> USE Constants
<1>1. ASSUME NEW c \in Single, Enter(c) \/ Exit(c, TRUE) \/ Exit(c, FALSE) \/ Expire(c)
                               \/ Grant(c) \/ Sleep(c)
      PROVE  GateNext
  BY <1>1 DEF GateNext, GateStep
<1>2. ASSUME NEW c \in Single, NEW s \in {"accepted", "rejected", "unknown", journal[c]},
             NEW u \in BOOLEAN, Leave(c, s, u)
      PROVE  GateNext
  BY <1>1, <1>2 DEF Leave
<1>3. ASSUME NEW c \in Single, Dispatch(c) \/ Step(c) \/ LoseRecord(c)
      PROVE  [GateNext]_gateVars
  <2>1. CASE Dispatch(c)
    BY <1>1, <2>1 DEF Dispatch, StartCommand
  <2>2. CASE WaitTurn(c)
    BY <1>1, <2>2 DEF WaitTurn
  <2>3. CASE CheckUnresolved(c) \/ MarkSending(c) \/ Post(c)
    BY <2>3 DEF CheckUnresolved, MarkSending, Post
  <2>4. CASE ReadOrder(c)
    BY <2>4 DEF ReadOrder, GateNext
  <2>5. CASE Refuse(c) \/ Answer(c) \/ LoseAnswer(c)
    BY <1>2, <2>5 DEF Refuse, Answer, LoseAnswer, Finish
  <2>6. CASE LoseRecord(c)
    BY <1>2, <2>6 DEF LoseRecord
  <2> QED  BY <1>3, <2>1, <2>2, <2>3, <2>4, <2>5, <2>6 DEF Step
<1>4. ASSUME NEW b \in Bulk, BulkBegin(b) \/ BulkFreeze(b) \/ BulkEnd(b)
      PROVE  UNCHANGED gateVars
  BY <1>4 DEF BulkBegin, BulkFreeze, BulkEnd
<1>5. ASSUME NEW b \in Bulk, NEW c \in Cmd, BulkChild(b, c), TypeOK
      PROVE  [GateNext]_gateVars
  BY <1>1, <1>5 DEF BulkChild, StartCommand, TypeOK
<1>6. ASSUME NEW c \in Cmd, Review(c) \/ BrokerStep(c)
      PROVE  UNCHANGED gateVars
  BY <1>6 DEF Review, BrokerStep
<1> QED  BY <1>3, <1>4, <1>5, <1>6 DEF Next, BulkStep

\* A crash empties the gate.
LEMMA GateCrash ==
  ASSUME TypeOK, Crash
  PROVE  GateTypeOK' /\ GateInv'
<1>1. queue' = <<>> /\ queue' \in Seq(Lease) /\ DOMAIN queue' = {}
  BY EmptySeq DEF Crash
<1>2. \A l \in Lease : place'[l] \in {"out", "gone"}
  BY Constants DEF Crash
<1>3. GateTypeOK'
  BY <1>1, GateAssumption, Constants DEF Crash, TypeOK, GateTypeOK
<1>4. QueueInv'
  BY <1>1, <1>2 DEF QueueInv, Waiting
<1>5. EpochInv' /\ Independent'
  BY <1>2, GateAssumption DEF Crash, EpochInv, Independent
<1> QED  BY <1>3, <1>4, <1>5 DEF GateInv

LEMMA GateStays ==
  ASSUME TypeOK, GateInv, [Next]_vars
  PROVE  GateTypeOK' /\ GateInv'
<1>1. [GateNext]_gateVars \/ Crash
  BY GateMoves DEF vars
<1>2. GateTypeOK
  BY DEF TypeOK
<1> QED  BY <1>1, <1>2, GateCrash, GateTypeNext, QueueNext, EpochNext, IndependentNext DEF GateInv

\* Leaving takes a ticket out of every set of members; an uncertain end freezes
\* the epoch for those that remain.
LEMMA LeaveMembers ==
  ASSUME TypeOK, GateInv, MemberInv, NEW c \in Single, NEW u \in BOOLEAN,
         Exit(c, u) \/ Expire(c)
  PROVE  /\ active' = active \ {c}
         /\ follower' = follower \ {c}
         /\ proven' = proven \ {c}
         /\ active' # {} /\ admission = "frozen" => admission' = "frozen"
         /\ active' # {} /\ c \in active /\ u => admission' = "frozen"
<1>1. CASE Exit(c, u)
  BY <1>1 DEF Exit
<1>2. CASE Expire(c)
  <2>1. c \notin active
    BY <1>2, Constants DEF Expire, GateInv, EpochInv
  <2> QED  BY <1>2, <2>1 DEF Expire, MemberInv
<1> QED  BY <1>1, <1>2

\* A grant lets in a leader, alone, or a follower behind proven members.
LEMMA GrantMembers ==
  ASSUME TypeOK, GateInv, NEW c \in Single, Grant(c)
  PROVE  /\ active' = active \cup {c}
         /\ admission = "open"
         /\ \/ active = {} /\ follower' = follower /\ proven' = proven
            \/ /\ active # {} /\ CanJoin(c)
               /\ follower' = follower \cup {c} /\ proven' = proven \cup {c}
<1>1. GateTypeOK /\ EpochInv /\ c \in Lease
  BY Constants DEF TypeOK, GateInv
<1>2. (active = {} /\ GrantLeader(c)) \/ (CanJoin(c) /\ GrantFollower(c))
  BY <1>1, GrantCounts
<1> QED  BY <1>1, <1>2, GrantCounts DEF GrantLeader, GrantFollower

\* Waiting for the turn, or going to sleep, changes no member.
LEMMA TurnMembers ==
  ASSUME TypeOK, GateInv, NEW c \in Single, WaitTurn(c)
  PROVE  \/ Grant(c)
         \/ UNCHANGED <<active, follower, proven, admission>>
BY DEF WaitTurn, Sleep

LEMMA ReadMembers ==
  ASSUME NEW c \in Single, ReadOrder(c)
  PROVE  /\ UNCHANGED <<active, follower, admission>>
         /\ \A m \in proven' : m \in proven \/ m = c
         /\ \A m \in proven' : m \in active \/ m \in proven \/ m = c
BY DEF ReadOrder, ObserveLeader, ObserveFollower, gateVars

-----------------------------------------------------------------------------
(* Types *)

LEMMA TypeInit == Init => TypeOK
<1> SUFFICES ASSUME Init PROVE TypeOK
  OBVIOUS
<1>1. GateTypeOK
  BY GateTypeInit DEF Init
<1>2. /\ journal \in [Cmd -> JournalState] /\ \A c \in Cmd : journal[c] = "none"
      /\ targets \in [Cmd -> SUBSET Cmd] /\ left \in [Cmd -> SUBSET Cmd]
      /\ \A b \in Cmd : targets[b] = {} /\ left[b] = {}
  BY DEF Init, JournalState
<1>3. crashes \in 0..MaxCrashes
  BY KiwoomAssumption DEF Init
<1> QED  BY <1>1, <1>2, <1>3, Constants DEF Init, TypeOK

LEMMA StepTypes ==
  ASSUME TypeOK, GateTypeOK', NEW c \in Single, Dispatch(c) \/ Step(c) \/ LoseRecord(c)
  PROVE  TypeOK'
<1> USE Constants DEF TypeOK, JournalState
<1>1. CASE Dispatch(c)
  BY <1>1 DEF Dispatch, StartCommand, Goto
<1>2. CASE WaitTurn(c) \/ CheckUnresolved(c) \/ ReadOrder(c)
  BY <1>2 DEF WaitTurn, CheckUnresolved, ReadOrder, Goto
<1>3. CASE MarkSending(c)
  BY <1>3 DEF MarkSending, Goto
<1>4. CASE Post(c)
  BY <1>4 DEF Post, Goto
<1>5. CASE Refuse(c) \/ Answer(c) \/ LoseAnswer(c)
  <2>1. PICK s \in {"accepted", "rejected", "unknown"} : journal' = [journal EXCEPT ![c] = s]
    BY <1>5 DEF Refuse, Answer, LoseAnswer, Finish, Leave
  <2>2. /\ tasks' = tasks \ {c} /\ pc' = [pc EXCEPT ![c] = "idle"]
        /\ UNCHANGED <<targets, left, broker, posts, crashes>>
    BY <1>5 DEF Refuse, Answer, LoseAnswer, Finish, Leave, Goto
  <2> QED  BY <2>1, <2>2
<1>6. CASE LoseRecord(c)
  <2>1. journal' = journal /\ tasks' = tasks \ {c}
    BY <1>6 DEF LoseRecord, Leave
  <2>2. pc' \in [Cmd -> {"idle", "gate", "read", "ready", "sending", "sent", "open", "run", "failed"}]
    BY <1>6 DEF LoseRecord
  <2> QED  BY <1>6, <2>1, <2>2 DEF LoseRecord, Leave
<1> QED  BY <1>1, <1>2, <1>3, <1>4, <1>5, <1>6 DEF Step

LEMMA BulkTypes ==
  ASSUME TypeOK, GateTypeOK', NEW b \in Bulk, BulkBegin(b) \/ BulkStep(b)
  PROVE  TypeOK'
<1> USE Constants DEF TypeOK, JournalState
<1>1. CASE BulkBegin(b)
  <2>1. journal' \in [Cmd -> JournalState] /\ left' \in [Cmd -> SUBSET Cmd]
    BY <1>1 DEF BulkBegin
  <2>2. \A x \in Cmd : left'[x] \subseteq Children(x)
    BY <1>1 DEF BulkBegin
  <2> QED  BY <1>1, <2>1, <2>2 DEF BulkBegin, Goto
<1>2. CASE BulkFreeze(b)
  <2>1. PICK T \in SUBSET Children(b) : targets' = [targets EXCEPT ![b] = T]
                                        /\ left' = [left EXCEPT ![b] = T]
    BY <1>2 DEF BulkFreeze
  <2>2. T \in SUBSET Cmd
    BY DEF Children
  <2> QED  BY <1>2, <2>1, <2>2 DEF BulkFreeze, Goto
<1>3. ASSUME NEW c \in Cmd, BulkChild(b, c)
      PROVE  TypeOK'
  <2>1. c \in Single
    BY <1>3 DEF BulkChild
  <2> QED  BY <1>3, <2>1 DEF BulkChild, StartCommand, Goto
<1>4. CASE BulkEnd(b)
  BY <1>4 DEF BulkEnd, Goto
<1> QED  BY <1>1, <1>2, <1>3, <1>4 DEF BulkStep

LEMMA TypeNext ==
  ASSUME TypeOK, GateInv, [Next]_vars
  PROVE  TypeOK'
<1>1. GateTypeOK'
  BY GateStays
<1>2. ASSUME NEW c \in Cmd, Review(c) \/ BrokerStep(c)
      PROVE  TypeOK'
  <2> USE Constants DEF TypeOK, JournalState
  <2>1. CASE Review(c)
    BY <1>1, <2>1 DEF Review
  <2>2. CASE BrokerStep(c)
    BY <1>1, <2>2 DEF BrokerStep
  <2> QED  BY <1>2, <2>1, <2>2
<1>3. CASE Crash
  BY <1>1, <1>3, KiwoomAssumption DEF Crash, TypeOK
<1>4. CASE UNCHANGED vars
  BY <1>1, <1>4 DEF vars, TypeOK
<1> QED  BY <1>1, <1>2, <1>3, <1>4, StepTypes, BulkTypes DEF Next

-----------------------------------------------------------------------------
(* What the steps do to the commands *)

Ends(c) == Refuse(c) \/ Answer(c) \/ LoseAnswer(c) \/ LoseRecord(c)

\* Nothing that concerns a single command changes.
SingleSame ==
  /\ \A x \in Single : journal'[x] = journal[x] /\ pc'[x] = pc[x] /\ (x \in tasks' <=> x \in tasks)
  /\ UNCHANGED <<gateVars, external>>

LEMMA Steps ==
  ASSUME TypeOK, [Next]_vars
  PROVE  \/ \E c \in Single :
              \/ StartCommand(c) \/ WaitTurn(c) \/ CheckUnresolved(c) \/ ReadOrder(c)
              \/ MarkSending(c) \/ Post(c) \/ Ends(c) \/ Review(c)
         \/ \E c \in Cmd : BrokerStep(c)
         \/ SingleSame \/ Crash
<1> USE Constants
<1>1. ASSUME NEW c \in Single, Dispatch(c) \/ Step(c) \/ LoseRecord(c)
      PROVE  \/ StartCommand(c) \/ WaitTurn(c) \/ CheckUnresolved(c) \/ ReadOrder(c)
             \/ MarkSending(c) \/ Post(c) \/ Ends(c)
  BY <1>1 DEF Dispatch, Step, Ends
<1>2. ASSUME NEW b \in Bulk, BulkBegin(b)
      PROVE  SingleSame
  <2>1. journal' = [journal EXCEPT ![b] = "prepared"] \/ journal' = journal
    BY <1>2 DEF BulkBegin
  <2>2. pc' = [pc EXCEPT ![b] = "open"] \/ pc' = [pc EXCEPT ![b] = "run"]
    BY <1>2 DEF BulkBegin, Goto
  <2> QED  BY <1>2, <2>1, <2>2 DEF BulkBegin, SingleSame, TypeOK
<1>3. ASSUME NEW b \in Bulk, BulkFreeze(b)
      PROVE  SingleSame
  BY <1>3 DEF BulkFreeze, SingleSame, Goto, TypeOK
<1>4. ASSUME NEW b \in Bulk, BulkEnd(b)
      PROVE  SingleSame
  BY <1>4 DEF BulkEnd, SingleSame, Goto, TypeOK
<1>5. ASSUME NEW b \in Bulk, NEW c \in Cmd, BulkChild(b, c)
      PROVE  SingleSame \/ (c \in Single /\ StartCommand(c))
  <2>1. c \in Single
    BY <1>5 DEF BulkChild, TypeOK
  <2> QED  BY <1>5, <2>1 DEF BulkChild, SingleSame
<1>6. ASSUME NEW b \in Bulk, Review(b)
      PROVE  SingleSame
  BY <1>6 DEF Review, SingleSame, TypeOK
<1>7. CASE UNCHANGED vars
  BY <1>7 DEF vars, SingleSame
<1>8. CASE Next
  BY <1>1, <1>2, <1>3, <1>4, <1>5, <1>6, <1>8 DEF Next, BulkStep
<1> QED  BY <1>7, <1>8

\* A command starts from nothing.
LEMMA StartDoes ==
  ASSUME KiwoomInv, NEW c \in Single, StartCommand(c)
  PROVE  /\ journal[c] = "none" /\ c \notin tasks /\ c \notin active /\ pc[c] = "idle"
         /\ journal'[c] = "prepared" /\ pc'[c] = "gate" /\ tasks' = tasks \cup {c}
         /\ \A x \in Cmd : x # c => journal'[x] = journal[x] /\ pc'[x] = pc[x]
         /\ UNCHANGED <<active, follower, proven, admission, targets, broker, posts>>
<1> USE Constants
<1>1. journal[c] = "none" /\ journal' = [journal EXCEPT ![c] = "prepared"]
      /\ tasks' = tasks \cup {c} /\ pc' = [pc EXCEPT ![c] = "gate"]
      /\ UNCHANGED <<active, follower, proven, admission, targets, broker, posts>>
  BY DEF StartCommand, IsNew, Enter, Goto
<1>2. c \in tasks <=> pc[c] # "idle"
  BY DEF KiwoomInv, TaskInv
<1>3. pc[c] = "idle" /\ c \notin active
  BY <1>1 DEF KiwoomInv, TaskInv, RecordInv, Checked
<1> QED  BY <1>1, <1>2, <1>3 DEF KiwoomInv, TypeOK

\* A command goes on past the gate.
LEMMA GoDoes ==
  ASSUME KiwoomInv, NEW c \in Single,
         CheckUnresolved(c) \/ ReadOrder(c) \/ MarkSending(c) \/ Post(c)
  PROVE  /\ \/ pc[c] = "gate" /\ c \in active /\ pc'[c] \in {"read", "ready"}
            \/ pc[c] = "read" /\ pc'[c] = "ready"
            \/ pc[c] = "ready" /\ pc'[c] = "sending"
            \/ pc[c] = "sending" /\ pc'[c] = "sent"
         /\ c \in active /\ c \in tasks
         /\ \A x \in Cmd : x # c => journal'[x] = journal[x] /\ pc'[x] = pc[x]
         /\ UNCHANGED <<tasks, targets, left, active, follower, admission>>
         /\ proven \subseteq active => proven' \subseteq active
         /\ \A m \in proven' : m \in proven \/ m = c
<1> USE Constants
<1>1. c \in active /\ c \in tasks
  BY DEF KiwoomInv, TaskInv, Checked, CheckUnresolved, ReadOrder, MarkSending, Post
<1>2. pc \in [Cmd -> {"idle", "gate", "read", "ready", "sending", "sent", "open", "run", "failed"}]
      /\ journal \in [Cmd -> JournalState]
  BY DEF KiwoomInv, TypeOK
<1>3. CASE CheckUnresolved(c)
  BY <1>1, <1>2, <1>3 DEF CheckUnresolved, Goto, gateVars
<1>4. CASE ReadOrder(c)
  BY <1>1, <1>2, <1>4, ReadMembers DEF ReadOrder, Goto
<1>5. CASE MarkSending(c)
  BY <1>1, <1>2, <1>5 DEF MarkSending, Goto, gateVars
<1>6. CASE Post(c)
  BY <1>1, <1>2, <1>6 DEF Post, Goto, gateVars
<1> QED  BY <1>3, <1>4, <1>5, <1>6

\* A command ends: its row tells what happened, or stays as it was; when it
\* stays in doubt the members of its epoch that remain find the epoch frozen.
LEMMA EndDoes ==
  ASSUME KiwoomInv, NEW c \in Single, Ends(c)
  PROVE  /\ tasks' = tasks \ {c} /\ c \in tasks /\ pc'[c] = "idle"
         /\ \A x \in Single : x # c => pc'[x] = pc[x]
         /\ \A x \in Cmd : x # c => journal'[x] = journal[x]
         /\ \/ journal'[c] = journal[c] /\ pc[c] # "sending"
            \/ pc[c] \in {"gate", "read", "ready"} /\ journal'[c] = "rejected"
            \/ pc[c] = "sent" /\ journal'[c] = "unknown"
            \/ pc[c] = "sent" /\ broker[c] \in {"applied", "undone"} /\ journal'[c] = "accepted"
            \/ pc[c] = "sent" /\ broker[c] = "refused" /\ journal'[c] = "rejected"
         /\ UNCHANGED <<targets, left, broker, posts>>
         /\ active' = active \ {c} /\ follower' = follower \ {c} /\ proven' = proven \ {c}
         /\ active' # {} /\ admission = "frozen" => admission' = "frozen"
         /\ active' # {} /\ pc[c] = "sent" /\ journal'[c] \in UnresolvedState
              => admission' = "frozen"
<1> USE Constants
<1>1. /\ TypeOK /\ GateInv /\ MemberInv
      /\ c \in tasks <=> pc[c] # "idle"
      /\ pc[c] = "sent" => c \in active
  BY DEF KiwoomInv, TaskInv, Checked
<1>2. ASSUME NEW s \in JournalState, NEW u \in BOOLEAN, Leave(c, s, u)
      PROVE  /\ tasks' = tasks \ {c}
             /\ journal'[c] = s
             /\ \A x \in Cmd : x # c => journal'[x] = journal[x]
             /\ UNCHANGED <<targets, left, broker, posts>>
             /\ active' = active \ {c} /\ follower' = follower \ {c} /\ proven' = proven \ {c}
             /\ active' # {} /\ admission = "frozen" => admission' = "frozen"
             /\ active' # {} /\ c \in active /\ u => admission' = "frozen"
  <2>1. Exit(c, u) \/ Expire(c)
    BY <1>2 DEF Leave
  <2> QED  BY <1>1, <1>2, <2>1, LeaveMembers DEF Leave, TypeOK
<1>3. ASSUME pc' = [pc EXCEPT ![c] = "idle"]
      PROVE  pc'[c] = "idle" /\ \A x \in Single : x # c => pc'[x] = pc[x]
  BY <1>1, <1>3 DEF TypeOK
<1>4. CASE Refuse(c)
  BY <1>1, <1>2, <1>3, <1>4 DEF Refuse, Finish, Goto, JournalState, UnresolvedState
<1>5. CASE Answer(c)
  BY <1>1, <1>2, <1>3, <1>5 DEF Answer, Finish, Goto, JournalState, UnresolvedState
<1>6. CASE LoseAnswer(c)
  BY <1>1, <1>2, <1>3, <1>6 DEF LoseAnswer, Finish, Goto, JournalState, UnresolvedState
<1>7. CASE LoseRecord(c)
  <2>1. Leave(c, journal[c], pc[c] = "sent") /\ journal[c] \in JournalState
        /\ (pc[c] = "sent") \in BOOLEAN /\ pc[c] \in {"gate", "read", "ready", "sent"}
    BY <1>1, <1>7 DEF LoseRecord, TypeOK
  <2>2. pc'[c] = "idle"
    BY <1>7 DEF LoseRecord
  <2>3. ASSUME NEW x \in Single, x # c
        PROVE  pc'[x] = pc[x]
    <3>1. pc[x] # "run"
      BY DEF KiwoomInv, TaskInv, Checked
    <3> QED  BY <1>7, <2>3, <3>1 DEF LoseRecord
  <2> QED  BY <1>1, <1>2, <2>1, <2>2, <2>3
<1> QED  BY <1>4, <1>5, <1>6, <1>7 DEF Ends

-----------------------------------------------------------------------------
(* Tasks and members *)

LEMMA TaskNext ==
  ASSUME KiwoomInv, [Next]_vars
  PROVE  TaskInv'
<1> SUFFICES ASSUME NEW x \in Single
             PROVE  /\ x \in tasks' <=> pc'[x] # "idle"
                    /\ pc'[x] \in {"idle", "gate"} \/ Checked(x)'
                    /\ Checked(x)' => x \in active'
                    /\ x \in active' => x \in tasks'
  BY DEF TaskInv
<1> USE Constants DEF Checked
<1>0. /\ TypeOK /\ GateInv
      /\ x \in tasks <=> pc[x] # "idle"
      /\ pc[x] \in {"idle", "gate"} \/ Checked(x)
      /\ Checked(x) => x \in active
      /\ x \in active => x \in tasks
  BY DEF KiwoomInv, TaskInv
<1>1. ASSUME NEW c \in Single, StartCommand(c)
      PROVE  /\ x \in tasks' <=> pc'[x] # "idle"
             /\ pc'[x] \in {"idle", "gate"} \/ Checked(x)'
             /\ Checked(x)' => x \in active'
             /\ x \in active' => x \in tasks'
  BY <1>0, <1>1, StartDoes
<1>2. ASSUME NEW c \in Single, WaitTurn(c)
      PROVE  /\ x \in tasks' <=> pc'[x] # "idle"
             /\ pc'[x] \in {"idle", "gate"} \/ Checked(x)'
             /\ Checked(x)' => x \in active'
             /\ x \in active' => x \in tasks'
  <2>1. active' = active \/ active' = active \cup {c}
    BY <1>0, <1>2, TurnMembers, GrantMembers
  <2> QED  BY <1>0, <1>2, <2>1 DEF WaitTurn
<1>3. ASSUME NEW c \in Single, CheckUnresolved(c) \/ ReadOrder(c) \/ MarkSending(c) \/ Post(c)
      PROVE  /\ x \in tasks' <=> pc'[x] # "idle"
             /\ pc'[x] \in {"idle", "gate"} \/ Checked(x)'
             /\ Checked(x)' => x \in active'
             /\ x \in active' => x \in tasks'
  BY <1>0, <1>3, GoDoes
<1>4. ASSUME NEW c \in Single, Ends(c)
      PROVE  /\ x \in tasks' <=> pc'[x] # "idle"
             /\ pc'[x] \in {"idle", "gate"} \/ Checked(x)'
             /\ Checked(x)' => x \in active'
             /\ x \in active' => x \in tasks'
  BY <1>0, <1>4, EndDoes
<1>5. ASSUME NEW c \in Cmd, Review(c) \/ BrokerStep(c)
      PROVE  UNCHANGED <<tasks, pc, active>>
  BY <1>5 DEF Review, BrokerStep, gateVars
<1>6. ASSUME SingleSame
      PROVE  UNCHANGED active /\ pc'[x] = pc[x] /\ (x \in tasks' <=> x \in tasks)
  BY <1>6 DEF SingleSame, gateVars
<1>7. ASSUME Crash
      PROVE  x \notin tasks' /\ x \notin active' /\ pc'[x] = "idle"
  BY <1>7 DEF Crash
<1> QED  BY <1>0, <1>1, <1>2, <1>3, <1>4, <1>5, <1>6, <1>7, Steps

LEMMA MemberNext ==
  ASSUME KiwoomInv, [Next]_vars
  PROVE  MemberInv'
<1> USE Constants DEF Checked
<1>0. TypeOK /\ GateInv /\ MemberInv /\ active \subseteq Single
  BY DEF KiwoomInv, TypeOK, GateTypeOK
<1>1. ASSUME NEW c \in Single, StartCommand(c)
      PROVE  MemberInv'
  BY <1>0, <1>1, StartDoes DEF MemberInv
<1>2. ASSUME NEW c \in Single, WaitTurn(c)
      PROVE  MemberInv'
  <2>1. UNCHANGED pc
    BY <1>2 DEF WaitTurn
  <2>2. CASE Grant(c)
    <3>1. c \in Parallel \/ (follower' = follower /\ proven' = proven)
      BY <1>0, <2>2, GrantMembers DEF CanJoin
    <3>2. /\ active' = active \cup {c}
          /\ \/ follower' = follower /\ proven' = proven
             \/ follower' = follower \cup {c} /\ proven' = proven \cup {c}
      BY <1>0, <2>2, GrantMembers
    <3> QED  BY <1>0, <2>1, <3>1, <3>2 DEF MemberInv
  <2>3. CASE UNCHANGED <<active, follower, proven, admission>>
    BY <1>0, <2>1, <2>3 DEF MemberInv
  <2> QED  BY <1>0, <1>2, <2>2, <2>3, TurnMembers
<1>3. ASSUME NEW c \in Single, CheckUnresolved(c) \/ ReadOrder(c) \/ MarkSending(c) \/ Post(c)
      PROVE  MemberInv'
  BY <1>0, <1>3, GoDoes DEF MemberInv
<1>4. ASSUME NEW c \in Single, Ends(c)
      PROVE  MemberInv'
  BY <1>0, <1>4, EndDoes DEF MemberInv
<1>5. ASSUME NEW c \in Cmd, Review(c) \/ BrokerStep(c)
      PROVE  MemberInv'
  BY <1>0, <1>5 DEF Review, BrokerStep, gateVars, MemberInv
<1>6. CASE SingleSame
  BY <1>0, <1>6 DEF SingleSame, gateVars, MemberInv
<1>7. CASE Crash
  BY <1>7 DEF Crash, MemberInv
<1> QED  BY <1>0, <1>1, <1>2, <1>3, <1>4, <1>5, <1>6, <1>7, Steps

-----------------------------------------------------------------------------
(* The row and the request *)

LEMMA RecordNext ==
  ASSUME KiwoomInv, [Next]_vars
  PROVE  RecordInv'
<1> SUFFICES ASSUME NEW x \in Single
             PROVE  /\ posts'[x] \in {0, 1}
                    /\ posts'[x] = 0 <=> broker'[x] = "none"
                    /\ journal'[x] \in {"none", "prepared"} => posts'[x] = 0
                    /\ pc'[x] \in {"gate", "read", "ready"} => journal'[x] = "prepared"
                    /\ pc'[x] = "sending" => journal'[x] = "sending" /\ posts'[x] = 0
                    /\ pc'[x] = "sent" => journal'[x] = "sending" /\ posts'[x] = 1
  BY DEF RecordInv
<1> DEFINE Record(s, p, n, e) == /\ n \in {0, 1}
                                 /\ n = 0 <=> e = "none"
                                 /\ s \in {"none", "prepared"} => n = 0
                                 /\ p \in {"gate", "read", "ready"} => s = "prepared"
                                 /\ p = "sending" => s = "sending" /\ n = 0
                                 /\ p = "sent" => s = "sending" /\ n = 1
<1> USE Constants
<1>0. TypeOK /\ Record(journal[x], pc[x], posts[x], broker[x])
  BY DEF KiwoomInv, RecordInv
<1>1. ASSUME NEW c \in Single, StartCommand(c)
      PROVE  Record(journal'[x], pc'[x], posts'[x], broker'[x])
  BY <1>0, <1>1, StartDoes
<1>2. ASSUME NEW c \in Single, WaitTurn(c)
      PROVE  Record(journal'[x], pc'[x], posts'[x], broker'[x])
  BY <1>0, <1>2 DEF WaitTurn
<1>3. ASSUME NEW c \in Single, CheckUnresolved(c) \/ ReadOrder(c)
      PROVE  Record(journal'[x], pc'[x], posts'[x], broker'[x])
  <2>1. UNCHANGED <<journal, posts, broker>>
    BY <1>3 DEF CheckUnresolved, ReadOrder
  <2>2. x = c => pc[x] \in {"gate", "read", "ready"} /\ pc'[x] \in {"gate", "read", "ready"}
    BY <1>0, <1>3 DEF CheckUnresolved, ReadOrder, Goto, TypeOK
  <2> QED  BY <1>0, <1>3, <2>1, <2>2, GoDoes
<1>4. ASSUME NEW c \in Single, MarkSending(c)
      PROVE  Record(journal'[x], pc'[x], posts'[x], broker'[x])
  BY <1>0, <1>4 DEF MarkSending, Goto, TypeOK
<1>5. ASSUME NEW c \in Single, Post(c)
      PROVE  Record(journal'[x], pc'[x], posts'[x], broker'[x])
  BY <1>0, <1>5 DEF Post, Goto, TypeOK
<1>6. ASSUME NEW c \in Single, Ends(c)
      PROVE  Record(journal'[x], pc'[x], posts'[x], broker'[x])
  BY <1>0, <1>6, EndDoes
<1>7. ASSUME NEW c \in Single, Review(c)
      PROVE  Record(journal'[x], pc'[x], posts'[x], broker'[x])
  <2>1. x = c => pc[x] = "idle"
    BY <1>7 DEF Review, KiwoomInv, TaskInv
  <2> QED  BY <1>0, <1>7, <2>1 DEF Review, TypeOK
<1>8. ASSUME NEW c \in Cmd, BrokerStep(c)
      PROVE  Record(journal'[x], pc'[x], posts'[x], broker'[x])
  BY <1>0, <1>8 DEF BrokerStep, TypeOK
<1>9. CASE SingleSame
  BY <1>0, <1>9 DEF SingleSame
<1>10. CASE Crash
  BY <1>0, <1>10 DEF Crash
<1>11. Record(journal'[x], pc'[x], posts'[x], broker'[x])
  BY <1>0, <1>1, <1>2, <1>3, <1>4, <1>5, <1>6, <1>7, <1>8, <1>9, <1>10, Steps
<1> QED  BY <1>11

-----------------------------------------------------------------------------
(* What a member of the epoch knows of the rows in doubt *)

LEMMA DoubtNext ==
  ASSUME KiwoomInv, [Next]_vars
  PROVE  DoubtInv'
<1> SUFFICES ASSUME NEW c \in active', Checked(c)' \/ c \in follower',
                    NEW d \in Single, InDoubt(d)', d \notin tasks'
             PROVE  Beside(c, d)'
  BY DEF DoubtInv
<1> USE Constants
<1>0. /\ TypeOK /\ GateInv /\ MemberInv /\ Independent
      /\ TypeOK' /\ active \subseteq Single /\ active' \subseteq Single
      /\ c \in Single
  <2>1. TypeOK /\ GateInv /\ TypeOK'
    BY TypeNext DEF KiwoomInv
  <2> QED  BY <2>1 DEF KiwoomInv, GateInv, TypeOK, GateTypeOK
<1>a. ASSUME NEW m \in active, Checked(m) \/ m \in follower, InDoubt(d), d \notin tasks
      PROVE  Beside(m, d)
  BY <1>a DEF KiwoomInv, DoubtInv
<1>b. ASSUME UNCHANGED <<pc, posts, journal, tasks, active, follower, admission>>
      PROVE  Beside(c, d)'
  BY <1>a, <1>b DEF Beside, Checked, InDoubt
<1>1. ASSUME NEW e \in Single, StartCommand(e)
      PROVE  Beside(c, d)'
  <2>1. d # e /\ c # e /\ pc'[c] = pc[c] /\ journal'[d] = journal[d]
        /\ d \notin tasks /\ UNCHANGED <<posts, active, follower, admission>>
    BY <1>0, <1>1, StartDoes
  <2> QED  BY <1>a, <2>1 DEF Beside, Checked, InDoubt
<1>2. ASSUME NEW e \in Single, WaitTurn(e)
      PROVE  Beside(c, d)'
  <2>1. UNCHANGED <<journal, tasks, pc, posts>> /\ InDoubt(d) /\ d \notin tasks
        /\ (Checked(c)' <=> Checked(c)) /\ pc[e] = "gate"
    BY <1>2 DEF WaitTurn, InDoubt, Checked
  <2>2. CASE Grant(e)
    <3>1. /\ active' = active \cup {e} /\ admission = "open"
          /\ \/ active = {} /\ follower' = follower
             \/ active # {} /\ CanJoin(e) /\ follower' = follower \cup {e}
      BY <1>0, <2>2, GrantMembers
    <3>2. ASSUME NEW m \in active, Checked(m) \/ m \in follower
          PROVE  Kind[m] # "create" /\ ~(Real /\ Kind[d] \in {"create", "modify"})
      BY <1>a, <2>1, <3>1, <3>2 DEF Beside
    <3>3. CASE c \in active /\ (Checked(c) \/ c \in follower)
      <4>1. Beside(c, d)
        BY <1>a, <2>1, <3>3
      <4> QED  BY <2>1, <3>2, <3>3, <4>1 DEF Beside
    <3>4. CASE ~(c \in active /\ (Checked(c) \/ c \in follower))
      <4>1. ~Checked(c) /\ c \in follower' /\ c \notin follower
        BY <1>0, <2>1, <3>1, <3>4 DEF MemberInv, KiwoomInv, TaskInv
      <4>2. c = e /\ active # {} /\ CanJoin(e)
        BY <3>1, <4>1
      <4>3. PICK m \in active : m \in proven
        BY <4>2 DEF CanJoin
      <4>4. Checked(m) \/ m \in follower
        BY <1>0, <4>3 DEF MemberInv
      <4>5. Kind[c] = "modify" /\ ~(Real /\ Kind[d] \in {"create", "modify"})
        BY <1>0, <3>2, <4>2, <4>4 DEF CanJoin
      <4> QED  BY <2>1, <4>1, <4>5 DEF Beside
    <3> QED  BY <3>3, <3>4
  <2>3. CASE UNCHANGED <<active, follower, proven, admission>>
    BY <1>b, <2>1, <2>3
  <2> QED  BY <1>0, <1>2, <2>2, <2>3, TurnMembers
<1>3. ASSUME NEW e \in Single, CheckUnresolved(e)
      PROVE  Beside(c, d)'
  <2>1. /\ UNCHANGED <<journal, tasks, posts, active, follower, admission>>
        /\ InDoubt(d) /\ d \notin tasks
        /\ c # e => pc'[c] = pc[c]
    BY <1>0, <1>3 DEF CheckUnresolved, Goto, gateVars, InDoubt, TypeOK
  <2>2. CASE c # e
    BY <1>a, <2>1, <2>2 DEF Beside, Checked
  <2>3. CASE c = e
    <3>1. d \in UnresolvedNow
      BY <2>1 DEF UnresolvedNow, InDoubt
    <3>2. /\ Kind[c] # "create"
          /\ ~(Real /\ c \notin follower /\ Kind[d] \in {"create", "modify"})
          /\ OrderOf[d] # OrderOf[c]
      BY <1>3, <2>3, <3>1 DEF CheckUnresolved, Blocking
    <3>3. c \in follower => Beside(c, d)
      BY <1>a, <2>1
    <3> QED  BY <2>1, <3>2, <3>3 DEF Beside
  <2> QED  BY <2>2, <2>3
<1>4. ASSUME NEW e \in Single, ReadOrder(e) \/ MarkSending(e) \/ Post(e)
      PROVE  Beside(c, d)'
  <2>1. /\ e \in tasks
        /\ \A x \in Cmd : x # e => journal'[x] = journal[x] /\ pc'[x] = pc[x]
        /\ UNCHANGED <<tasks, active, follower, admission>>
    BY <1>4, GoDoes
  <2>2. d # e /\ posts'[d] = posts[d]
    BY <1>0, <1>4, <2>1 DEF ReadOrder, MarkSending, Post, TypeOK
  <2>3. Checked(c)' <=> Checked(c)
    BY <1>0, <1>4, <2>1 DEF ReadOrder, MarkSending, Post, Goto, Checked, TypeOK
  <2> QED  BY <1>a, <2>1, <2>2, <2>3 DEF Beside, InDoubt
<1>5. ASSUME NEW e \in Single, Ends(e)
      PROVE  Beside(c, d)'
  <2>1. c # e /\ c \in active /\ active' # {} /\ pc'[c] = pc[c]
        /\ (Checked(c)' <=> Checked(c)) /\ (c \in follower' => c \in follower)
        /\ UNCHANGED posts
    BY <1>0, <1>5, EndDoes DEF Checked
  <2>2. CASE d # e
    <3>1. InDoubt(d) /\ d \notin tasks
      BY <1>5, <2>2, EndDoes DEF InDoubt
    <3>2. Beside(c, d) /\ (admission = "frozen" => admission' = "frozen")
      BY <1>a, <1>5, <2>1, <3>1, EndDoes
    <3> QED  BY <2>1, <3>2 DEF Beside
  <2>3. CASE d = e
    <3>1. posts[e] > 0 /\ journal'[e] \in UnresolvedState /\ e \in tasks
      BY <1>5, <2>1, <2>3, EndDoes DEF InDoubt
    <3>2. /\ pc[e] # "idle" /\ (pc[e] = "gate" \/ Checked(e))
          /\ Checked(e) => e \in active
          /\ pc[e] \in {"gate", "read", "ready"} => posts[e] = 0
      BY <3>1 DEF KiwoomInv, TaskInv, RecordInv
    <3>3. pc[e] = "sent"
      BY <1>5, <3>1, <3>2, EndDoes DEF Checked, UnresolvedState
    <3>4. admission' = "frozen" /\ e \in active
      BY <1>5, <2>1, <3>1, <3>2, <3>3, EndDoes DEF Checked
    <3>5. /\ Real /\ Kind[c] = "modify" /\ Kind[d] = "modify"
          /\ Disjoint(c, d) /\ OrderOf[c] # OrderOf[d]
      BY <1>0, <2>1, <2>3, <3>4, Apart
    <3> QED  BY <3>4, <3>5 DEF Beside
  <2> QED  BY <2>2, <2>3
<1>6. ASSUME NEW e \in Single, Review(e)
      PROVE  Beside(c, d)'
  <2>1. UNCHANGED <<pc, posts, tasks, active, follower, admission>>
        /\ (d # e => journal'[d] = journal[d]) /\ (d = e => journal'[d] = "reviewed")
    BY <1>0, <1>6 DEF Review, gateVars, TypeOK
  <2>2. InDoubt(d)
    BY <2>1 DEF InDoubt, UnresolvedState
  <2> QED  BY <1>a, <2>1, <2>2 DEF Beside, Checked
<1>7. ASSUME NEW e \in Cmd, BrokerStep(e)
      PROVE  Beside(c, d)'
  BY <1>b, <1>7 DEF BrokerStep, gateVars
<1>8. CASE SingleSame
  <2>1. UNCHANGED <<posts, active, follower, admission>> /\ pc'[c] = pc[c]
        /\ journal'[d] = journal[d] /\ d \notin tasks
    BY <1>0, <1>8 DEF SingleSame, gateVars
  <2> QED  BY <1>a, <2>1 DEF Beside, Checked, InDoubt
<1>9. CASE Crash
  BY <1>9 DEF Crash
<1> QED  BY <1>0, <1>1, <1>2, <1>3, <1>4, <1>5, <1>6, <1>7, <1>8, <1>9, Steps

LEMMA PriorNext ==
  ASSUME KiwoomInv, [Next]_vars
  PROVE  PriorInv'
<1> SUFFICES ASSUME NEW c \in Single, NEW d \in Single, c # d,
                    pc'[c] \in {"ready", "sending", "sent"},
                    OrderOf[c] \in Order, OrderOf[d] = OrderOf[c],
                    journal'[d] = "accepted"
             PROVE  broker'[d] = "undone"
  BY DEF PriorInv
<1> USE Constants
<1>0. TypeOK /\ Independent
  BY DEF KiwoomInv, GateInv
<1>a. pc[c] \in {"ready", "sending", "sent"} /\ journal[d] = "accepted" => broker[d] = "undone"
  BY DEF KiwoomInv, PriorInv
<1>1. ASSUME NEW e \in Single, StartCommand(e)
      PROVE  broker'[d] = "undone"
  BY <1>a, <1>1, StartDoes
<1>2. ASSUME NEW e \in Single, WaitTurn(e)
      PROVE  broker'[d] = "undone"
  BY <1>a, <1>2 DEF WaitTurn
<1>3. ASSUME NEW e \in Single, CheckUnresolved(e)
      PROVE  broker'[d] = "undone"
  BY <1>0, <1>a, <1>3 DEF CheckUnresolved, Goto, TypeOK
<1>4. ASSUME NEW e \in Single, ReadOrder(e)
      PROVE  broker'[d] = "undone"
  <2>1. UNCHANGED <<journal, broker>> /\ (c # e => pc'[c] = pc[c])
    BY <1>0, <1>4 DEF ReadOrder, Goto, TypeOK
  <2>2. c = e => broker[d] = "undone"
    BY <1>4, <2>1 DEF ReadOrder, PriorOperationsOver
  <2> QED  BY <1>a, <2>1, <2>2
<1>5. ASSUME NEW e \in Single, MarkSending(e) \/ Post(e)
      PROVE  broker'[d] = "undone"
  <2>1. pc[c] \in {"ready", "sending", "sent"}
    BY <1>0, <1>5 DEF MarkSending, Post, Goto, TypeOK
  <2>2. d # e /\ journal[d] = "accepted"
    <3>1. Post(e) => journal[e] = "sending"
      BY DEF Post, KiwoomInv, RecordInv
    <3> QED  BY <1>0, <1>5, <3>1 DEF MarkSending, Post, TypeOK
  <2> QED  BY <1>0, <1>5, <1>a, <2>1, <2>2 DEF MarkSending, Post, TypeOK
<1>6. ASSUME NEW e \in Single, Ends(e)
      PROVE  broker'[d] = "undone"
  <2>1. c # e /\ pc[c] \in {"ready", "sending", "sent"} /\ UNCHANGED broker
    BY <1>6, EndDoes
  <2>2. CASE journal[d] = "accepted"
    BY <1>a, <2>1, <2>2
  <2>3. CASE journal[d] # "accepted"
    <3>1. d = e /\ pc[e] = "sent"
      BY <1>6, <2>3, EndDoes
    <3>2. c \in active /\ e \in active
      BY <2>1, <3>1 DEF KiwoomInv, TaskInv, Checked
    <3> QED  BY <1>0, <2>1, <3>1, <3>2, Apart
  <2> QED  BY <2>2, <2>3
<1>7. ASSUME NEW e \in Single, Review(e)
      PROVE  broker'[d] = "undone"
  BY <1>0, <1>a, <1>7 DEF Review, TypeOK
<1>8. ASSUME NEW e \in Cmd, BrokerStep(e)
      PROVE  broker'[d] = "undone"
  BY <1>0, <1>a, <1>8 DEF BrokerStep, TypeOK
<1>9. CASE SingleSame
  BY <1>a, <1>9 DEF SingleSame
<1>10. CASE Crash
  BY <1>10 DEF Crash
<1> QED  BY <1>0, <1>1, <1>2, <1>3, <1>4, <1>5, <1>6, <1>7, <1>8, <1>9, <1>10, Steps

-----------------------------------------------------------------------------
(* Bulk cancels *)

\* A command that takes a step of its own has a row, and the rows, the tasks and
\* the targets of the others stay as they are; it may end a bulk that awaits it.
LEMMA KeepsRow ==
  ASSUME KiwoomInv, NEW c \in Single, Step(c) \/ LoseRecord(c) \/ Review(c)
  PROVE  /\ journal[c] # "none"
         /\ \A x \in Cmd : x # c => journal'[x] = journal[x]
         /\ UNCHANGED <<targets, left>>
         /\ \A b \in Bulk : /\ b \in tasks' <=> b \in tasks
                            /\ pc'[b] = pc[b] \/ (pc[b] = "run" /\ pc'[b] = "failed")
<1> USE Constants
<1>1. /\ TypeOK
      /\ c \in tasks => journal[c] # "none"
  BY DEF KiwoomInv, TaskInv, RecordInv, Checked
<1>2. CASE WaitTurn(c)
  BY <1>1, <1>2 DEF WaitTurn, KiwoomInv, RecordInv
<1>3. CASE CheckUnresolved(c) \/ ReadOrder(c) \/ MarkSending(c) \/ Post(c)
  <2>1. UNCHANGED <<targets, left, tasks>>
    BY <1>3, GoDoes
  <2>2. \A x \in Cmd : x # c => journal'[x] = journal[x] /\ pc'[x] = pc[x]
    BY <1>3, GoDoes
  <2>3. c \in tasks
    BY <1>3, GoDoes
  <2> QED  BY <1>1, <2>1, <2>2, <2>3
<1>4. CASE Ends(c)
  <2>1. ASSUME NEW b \in Bulk
        PROVE  pc'[b] = pc[b] \/ (pc[b] = "run" /\ pc'[b] = "failed")
    <3>1. CASE LoseRecord(c)
      BY <3>1 DEF LoseRecord
    <3>2. CASE Refuse(c) \/ Answer(c) \/ LoseAnswer(c)
      <4>1. pc' = [pc EXCEPT ![c] = "idle"] /\ b # c
        BY <3>2 DEF Refuse, Answer, LoseAnswer, Finish, Goto
      <4> QED  BY <1>1, <4>1 DEF TypeOK
    <3> QED  BY <1>4, <3>1, <3>2 DEF Ends
  <2> QED  BY <1>1, <1>4, <2>1, EndDoes
<1>5. CASE Review(c)
  BY <1>1, <1>5 DEF Review, Reviewable, UnresolvedState, TypeOK
<1> QED  BY <1>2, <1>3, <1>4, <1>5 DEF Step, Ends

\* A bulk cancel and the rows of its children.
Frozen(b) ==
  /\ b \in tasks <=> pc[b] # "idle"
  /\ pc[b] \in {"idle", "open", "run", "failed"}
  /\ pc[b] = "open" => journal[b] = "prepared"
  /\ pc[b] \in {"run", "failed"} => journal[b] = "batch"
  /\ left[b] \subseteq targets[b]
  /\ \A c \in Children(b) :
       journal[c] # "none" => c \in targets[b] /\ journal[b] \in {"batch", "accepted"}

LEMMA FrozenNext ==
  ASSUME KiwoomInv, [Next]_vars, NEW b \in Bulk
  PROVE  Frozen(b)'
<1> USE Constants
<1>0. /\ TypeOK /\ Frozen(b) /\ Children(b) \subseteq Single /\ b \notin Single
      /\ left[b] \subseteq Children(b) /\ \A e \in Bulk : left[e] \subseteq Children(e)
  BY DEF KiwoomInv, TypeOK, BulkInv, FrozenBeforeCancel, Frozen
<1>1. ASSUME NEW c \in Single, c \notin Children(b) \/ (c \in left[b] /\ pc[b] = "run"),
             StartCommand(c), targets' = targets, left'[b] \subseteq left[b]
      PROVE  Frozen(b)'
  <2>1. /\ \A x \in Cmd : x # c => journal'[x] = journal[x] /\ pc'[x] = pc[x]
        /\ b \in tasks' <=> b \in tasks
    BY <1>0, <1>1, StartDoes DEF KiwoomInv
  <2>2. \A x \in Children(b) : x = c => c \in targets[b] /\ journal[b] = "batch"
    BY <1>0, <1>1 DEF Frozen
  <2> QED  BY <1>0, <1>1, <2>1, <2>2 DEF Frozen
<1>2. ASSUME NEW c \in Single, Dispatch(c)
      PROVE  Frozen(b)'
  <2>1. c \notin Children(b)
    BY <1>2, PayloadAssumption DEF Dispatch, Children
  <2>2. targets' = targets /\ left' = left
    BY <1>2 DEF Dispatch, StartCommand
  <2> QED  BY <1>1, <1>2, <2>1, <2>2 DEF Dispatch
<1>3. ASSUME NEW c \in Single, Step(c) \/ LoseRecord(c) \/ Review(c)
      PROVE  Frozen(b)'
  BY <1>0, <1>3, KeepsRow DEF Frozen
<1>4. ASSUME NEW e \in Bulk, BulkBegin(e)
      PROVE  Frozen(b)'
  <2>1. UNCHANGED targets /\ (b \in tasks' <=> b \in tasks \/ b = e)
        /\ \A x \in Single : journal'[x] = journal[x]
    BY <1>0, <1>4 DEF BulkBegin, TypeOK
  <2>2. CASE b # e
    BY <1>0, <1>4, <2>1, <2>2 DEF BulkBegin, Goto, Frozen, TypeOK
  <2>3. CASE b = e
    <3>1. \/ journal[b] = "none" /\ journal'[b] = "prepared" /\ pc'[b] = "open"
             /\ left'[b] = left[b]
          \/ journal[b] = "batch" /\ journal'[b] = "batch" /\ pc'[b] = "run"
             /\ left'[b] = targets[b]
      BY <1>0, <1>4, <2>3 DEF BulkBegin, IsNew, Goto, TypeOK
    <3> QED  BY <1>0, <2>1, <2>3, <3>1 DEF Frozen
  <2> QED  BY <2>2, <2>3
<1>5. ASSUME NEW e \in Bulk, BulkFreeze(e)
      PROVE  Frozen(b)'
  <2>1. PICK T \in SUBSET Children(e) : targets' = [targets EXCEPT ![e] = T]
                                        /\ left' = [left EXCEPT ![e] = T]
    BY <1>5 DEF BulkFreeze
  <2>2. CASE b # e
    BY <1>0, <1>5, <2>1, <2>2 DEF BulkFreeze, Goto, Frozen, TypeOK
  <2>3. CASE b = e
    <3>1. \A x \in Children(b) : journal[x] = "none" /\ journal'[x] = "none"
      BY <1>0, <1>5, <2>3 DEF BulkFreeze, Frozen, TypeOK
    <3>2. journal'[b] = "batch" /\ pc'[b] = "run" /\ targets'[b] = T /\ left'[b] = T
          /\ b \in tasks' /\ pc[b] = "open"
      BY <1>0, <1>5, <2>1, <2>3 DEF BulkFreeze, Goto, Frozen, TypeOK
    <3> QED  BY <3>1, <3>2 DEF Frozen
  <2> QED  BY <2>2, <2>3
<1>6. ASSUME NEW e \in Bulk, NEW c \in Cmd, BulkChild(e, c)
      PROVE  Frozen(b)'
  <2>1. /\ c \in left[e] /\ c \in Children(e) /\ pc[e] = "run" /\ c \in Single
        /\ left' = [left EXCEPT ![e] = @ \ {c}]
        /\ left'[b] \subseteq left[b]
    BY <1>0, <1>6 DEF BulkChild, TypeOK
  <2>2. CASE StartCommand(c)
    <3>1. targets' = targets
      BY <2>2 DEF StartCommand
    <3>2. c \in Children(b) => b = e
      BY <2>1 DEF Children
    <3> QED  BY <1>1, <2>1, <2>2, <3>1, <3>2
  <2>3. CASE UNCHANGED <<gateVars, durable, tasks, pc, external, crashes>>
    BY <1>0, <2>1, <2>3 DEF Frozen
  <2> QED  BY <1>6, <2>2, <2>3 DEF BulkChild
<1>7. ASSUME NEW e \in Bulk, BulkEnd(e)
      PROVE  Frozen(b)'
  <2>1. /\ UNCHANGED targets /\ \A x \in Single : journal'[x] = journal[x]
        /\ tasks' = tasks \ {e} /\ pc' = [pc EXCEPT ![e] = "idle"]
        /\ left' = [left EXCEPT ![e] = {}]
        /\ journal' = journal \/ (pc[e] = "run" /\ journal' = [journal EXCEPT ![e] = "accepted"])
    BY <1>0, <1>7 DEF BulkEnd, Goto, TypeOK
  <2> QED  BY <1>0, <2>1 DEF Frozen, TypeOK
<1>8. ASSUME NEW e \in Bulk, Review(e)
      PROVE  Frozen(b)'
  <2>1. UNCHANGED <<targets, tasks, pc, left>> /\ e \notin tasks
        /\ journal' = [journal EXCEPT ![e] = "reviewed"]
        /\ journal[e] \in {"sending", "unknown", "reviewed", "prepared"}
    BY <1>8 DEF Review, Reviewable, UnresolvedState
  <2>2. CASE b # e
    BY <1>0, <2>1, <2>2 DEF Frozen, TypeOK
  <2>3. CASE b = e
    <3>1. \A x \in Children(b) : journal[x] = "none" /\ journal'[x] = "none"
      BY <1>0, <2>1, <2>3 DEF Frozen, TypeOK
    <3> QED  BY <1>0, <2>1, <2>3, <3>1 DEF Frozen
  <2> QED  BY <2>2, <2>3
<1>9. ASSUME NEW e \in Cmd, BrokerStep(e)
      PROVE  Frozen(b)'
  BY <1>0, <1>9 DEF BrokerStep, Frozen
<1>10. CASE Crash
  BY <1>0, <1>10 DEF Crash, Frozen
<1>11. CASE UNCHANGED vars
  BY <1>0, <1>11 DEF vars, Frozen
<1>12. CASE Next
  BY <1>2, <1>3, <1>4, <1>5, <1>6, <1>7, <1>8, <1>9, <1>10, <1>12 DEF Next, BulkStep
<1> QED  BY <1>11, <1>12

LEMMA BulkNext ==
  ASSUME KiwoomInv, [Next]_vars
  PROVE  BulkInv' /\ FrozenBeforeCancel'
<1>1. \A b \in Bulk : Frozen(b)'
  BY FrozenNext
<1> QED  BY <1>1 DEF Frozen, BulkInv, FrozenBeforeCancel

-----------------------------------------------------------------------------
(* The theorems *)

LEMMA InvInit == Init => KiwoomInv
<1> SUFFICES ASSUME Init PROVE KiwoomInv
  OBVIOUS
<1>1. TypeOK /\ GateInv
  BY TypeInit, GateInvInit DEF Init
<1>2. /\ \A c \in Cmd : /\ journal[c] = "none" /\ pc[c] = "idle" /\ broker[c] = "none"
                        /\ posts[c] = 0 /\ left[c] = {} /\ targets[c] = {}
      /\ active = {} /\ follower = {} /\ proven = {} /\ tasks = {}
  BY DEF Init, GateInit
<1>3. TaskInv /\ MemberInv /\ RecordInv
  BY <1>2, Constants DEF TaskInv, MemberInv, RecordInv, Checked
<1>4. DoubtInv /\ PriorInv
  BY <1>2, Constants DEF DoubtInv, PriorInv
<1>5. BulkInv /\ FrozenBeforeCancel
  BY <1>2, Constants DEF BulkInv, FrozenBeforeCancel
<1> QED  BY <1>1, <1>3, <1>4, <1>5 DEF KiwoomInv

LEMMA InvNext ==
  ASSUME KiwoomInv, [Next]_vars
  PROVE  KiwoomInv'
<1>1. TypeOK' /\ GateInv'
  BY TypeNext, GateStays DEF KiwoomInv
<1> QED  BY <1>1, TaskNext, MemberNext, RecordNext, DoubtNext, PriorNext, BulkNext DEF KiwoomInv

LEMMA KiwoomAlways == Spec => []KiwoomInv
BY InvInit, InvNext, PTL DEF Spec

\* Every variable of the service and of its gate keeps its type.
THEOREM KiwoomTypeCorrect == Spec => []TypeOK
BY KiwoomAlways, PTL DEF KiwoomInv

\* A row that says "never sent" is true, whenever the process dies.
THEOREM NothingUnrecorded == Spec => []SentIsOnRecord
<1>1. KiwoomInv => SentIsOnRecord
  BY DEF KiwoomInv, RecordInv, SentIsOnRecord
<1> QED  BY <1>1, KiwoomAlways, PTL

LEMMA InDoubtTask ==
  ASSUME KiwoomInv, NEW d \in Single, InDoubt(d), d \in tasks
  PROVE  d \in active
BY DEF KiwoomInv, TaskInv, RecordInv, InDoubt, Checked

LEMMA SoundTogether ==
  ASSUME KiwoomInv, NEW c \in Single, AtBroker(c), NEW d \in Single, c # d
  PROVE  /\ InDoubt(d) => /\ Kind[c] # "create"
                          /\ Real /\ Kind[c] = "cancel" => Kind[d] = "cancel"
                          /\ Real /\ Kind[c] = "modify" /\ Kind[d] # "cancel" =>
                               Kind[d] = "modify" /\ Disjoint(c, d)
                          /\ OrderOf[c] \in Order => OrderOf[d] # OrderOf[c]
         /\ OrderOf[c] \in Order /\ OrderOf[d] = OrderOf[c]
              => ~(journal[d] = "accepted" /\ broker[d] = "applied")
<1> USE Constants
<1>1. Checked(c) /\ c \in active /\ Independent
  BY DEF AtBroker, Checked, KiwoomInv, TaskInv, GateInv
<1>2. CASE InDoubt(d) /\ d \in tasks
  <2>1. d \in active
    BY <1>2, InDoubtTask
  <2> QED  BY <1>1, <1>2, <2>1, Apart DEF InDoubt, UnresolvedState
<1>3. CASE InDoubt(d) /\ d \notin tasks
  <2>1. Beside(c, d)
    BY <1>1, <1>3 DEF KiwoomInv, DoubtInv
  <2> QED  BY <1>1, <1>3, <2>1 DEF Beside, InDoubt, UnresolvedState
<1>4. CASE ~InDoubt(d)
  BY <1>4 DEF KiwoomInv, PriorInv, AtBroker
<1> QED  BY <1>2, <1>3, <1>4

\* Creates are alone at the broker, modifies beside other families only, one
\* operation at a time is on an order, and bulk cancels cancel what they froze,
\* after every crash, lost answer and failed write.
THEOREM WritesAreSound == Spec => []WritesSound
<1>1. KiwoomInv => WritesSound
  <2> SUFFICES ASSUME KiwoomInv PROVE WritesSound
    OBVIOUS
  <2>1. WriteAlone
    BY SoundTogether DEF WriteAlone
  <2>2. FamiliesApart
    <3> SUFFICES ASSUME NEW c \in Single, NEW d \in Single, Real, AtBroker(c),
                        Kind[c] = "modify", c # d, InDoubt(d), Kind[d] # "cancel"
                 PROVE  Kind[d] = "modify" /\ Related[OrderOf[c]] \cap Related[OrderOf[d]] = {}
      BY DEF FamiliesApart
    <3>1. Kind[d] = "modify" /\ Disjoint(c, d)
      BY SoundTogether
    <3> QED  BY <3>1, KiwoomAssumption DEF Disjoint
  <2>3. OneOperationPerOrder
    BY SoundTogether DEF OneOperationPerOrder
  <2> QED  BY <2>1, <2>2, <2>3 DEF KiwoomInv, WritesSound
<1> QED  BY <1>1, KiwoomAlways, PTL

\* Nobody joins a cohort while an outcome that may touch its orders is unknown.
THEOREM JoinsInCertainty == Spec => JoinInCertainty
<1>1. ASSUME KiwoomInv, [Next]_vars, NEW c \in Single, c \in follower' \ follower,
             NEW d \in Single, InDoubt(d), Kind[d] # "cancel"
      PROVE  d \in tasks
  <2> SUFFICES ASSUME d \notin tasks PROVE FALSE
    OBVIOUS
  <2> USE <1>1, Constants
  <2>1. PICK e \in Single : Grant(e)
    <3>1. PICK e \in Single : WaitTurn(e)
      <4>1. ASSUME NEW e \in Single, StartCommand(e) \/ CheckUnresolved(e) \/ ReadOrder(e)
                                     \/ MarkSending(e) \/ Post(e) \/ Ends(e)
            PROVE  follower' \subseteq follower
        BY <4>1, StartDoes, GoDoes, EndDoes
      <4>2. ASSUME NEW e \in Cmd, Review(e) \/ BrokerStep(e)
            PROVE  follower' = follower
        BY <4>2 DEF Review, BrokerStep, gateVars
      <4>3. SingleSame \/ Crash => follower' \subseteq follower
        BY DEF SingleSame, Crash, gateVars
      <4>4. TypeOK
        BY DEF KiwoomInv
      <4> QED  BY <4>1, <4>2, <4>3, <4>4, Steps
    <3> QED  BY <3>1, TurnMembers DEF KiwoomInv
  <2>2. active # {} /\ admission = "open" /\ CanJoin(e)
    BY <2>1, GrantMembers DEF KiwoomInv
  <2>3. PICK m \in active : m \in proven /\ m \in Parallel
    BY <2>2 DEF CanJoin
  <2>4. Beside(m, d)
    BY <2>3 DEF KiwoomInv, MemberInv, DoubtInv
  <2>5. Real
    BY <2>2 DEF CanJoin, KiwoomInv, TypeOK, GateTypeOK
  <2> QED  BY <2>2, <2>4, <2>5 DEF Beside
<1>2. KiwoomInv /\ [Next]_vars =>
        [\A c \in Single : c \in follower' \ follower =>
           \A d \in Single : InDoubt(d) /\ Kind[d] # "cancel" => d \in tasks]_vars
  BY <1>1
<1> QED  BY <1>2, KiwoomAlways, PTL DEF Spec, JoinInCertainty

-----------------------------------------------------------------------------
(* The refinement *)

\* A step that changes nothing a client could be told.
LEMMA Invisible ==
  ASSUME \A d \in Single : /\ Told(journal'[d]) = Told(journal[d])
                           /\ posts'[d] = posts[d]
                           /\ Effect(broker'[d]) = Effect(broker[d])
  PROVE  UNCHANGED Promise!vars
BY DEF Promise!vars

\* A step that changes what is told, submitted or done about c alone.
LEMMA Visible ==
  ASSUME NEW c \in Single,
         \A d \in Single \ {c} : /\ Told(journal'[d]) = Told(journal[d])
                                 /\ posts'[d] = posts[d]
                                 /\ Effect(broker'[d]) = Effect(broker[d])
  PROVE  /\ [d \in Single |-> Told(journal[d])]'
              = [[d \in Single |-> Told(journal[d])] EXCEPT ![c] = Told(journal'[c])]
         /\ [d \in Single |-> posts[d]]'
              = [[d \in Single |-> posts[d]] EXCEPT ![c] = posts'[c]]
         /\ [d \in Single |-> Effect(broker[d])]'
              = [[d \in Single |-> Effect(broker[d])] EXCEPT ![c] = Effect(broker'[c])]
OBVIOUS

LEMMA PromiseNext ==
  ASSUME KiwoomInv, [Next]_vars
  PROVE  [Promise!Next]_Promise!vars
<1> USE Constants
<1>0. TypeOK
  BY DEF KiwoomInv
<1>a. ASSUME NEW c \in Single
      PROVE  /\ posts[c] \in {0, 1}
             /\ posts[c] = 0 <=> broker[c] = "none"
             /\ journal[c] \in {"none", "prepared"} => posts[c] = 0
             /\ pc[c] \in {"gate", "read", "ready"} => journal[c] = "prepared"
             /\ pc[c] = "sending" => journal[c] = "sending" /\ posts[c] = 0
             /\ pc[c] = "sent" => journal[c] = "sending" /\ posts[c] = 1
  BY <1>a DEF KiwoomInv, RecordInv
<1>1. ASSUME NEW c \in Single, StartCommand(c)
      PROVE  Promise!Next
  <2>1. /\ \A d \in Single \ {c} : journal'[d] = journal[d]
        /\ Told(journal[c]) = "nothing" /\ Told(journal'[c]) = "pending"
        /\ UNCHANGED <<posts, broker>>
    BY <1>1, StartDoes DEF Told
  <2>2. Promise!Record(c)
    BY <2>1, Visible DEF Promise!Record
  <2> QED  BY <2>2 DEF Promise!Next
<1>2. ASSUME NEW c \in Single, WaitTurn(c) \/ CheckUnresolved(c) \/ ReadOrder(c)
      PROVE  UNCHANGED Promise!vars
  <2>1. UNCHANGED <<journal, posts, broker>>
    BY <1>2 DEF WaitTurn, CheckUnresolved, ReadOrder
  <2> QED  BY <2>1, Invisible
<1>3. ASSUME NEW c \in Single, MarkSending(c)
      PROVE  UNCHANGED Promise!vars
  <2>1. /\ journal[c] = "prepared" /\ journal' = [journal EXCEPT ![c] = "sending"]
        /\ UNCHANGED <<posts, broker>>
    BY <1>a, <1>3 DEF MarkSending
  <2>2. \A d \in Single : Told(journal'[d]) = Told(journal[d])
    BY <1>0, <2>1 DEF Told, TypeOK
  <2> QED  BY <2>1, <2>2, Invisible
<1>4. ASSUME NEW c \in Single, Post(c)
      PROVE  Promise!Next
  <2>1. journal[c] = "sending" /\ posts[c] = 0 /\ broker[c] = "none"
    BY <1>a, <1>4 DEF Post
  <2>2. /\ journal' = journal
        /\ posts'[c] = 1 /\ broker'[c] = "inflight"
        /\ \A d \in Single \ {c} : posts'[d] = posts[d] /\ broker'[d] = broker[d]
    BY <1>0, <1>4, <2>1 DEF Post, TypeOK
  <2>3. /\ Told(journal[c]) = "pending" /\ Told(journal'[c]) = "pending"
        /\ Effect(broker'[c]) = Effect(broker[c])
    BY <2>1, <2>2 DEF Told, Effect
  <2>4. UNCHANGED [d \in Single |-> Told(journal[d])]
        /\ UNCHANGED [d \in Single |-> Effect(broker[d])]
    BY <2>2, <2>3
  <2>5. [d \in Single |-> posts[d]]' = [[d \in Single |-> posts[d]] EXCEPT ![c] = 1]
    BY <2>2
  <2>6. Promise!Submit(c)
    BY <2>1, <2>3, <2>4, <2>5 DEF Promise!Submit
  <2> QED  BY <2>6 DEF Promise!Next
<1>5. ASSUME NEW c \in Single, Ends(c)
      PROVE  [Promise!Next]_Promise!vars
  <2>1. /\ \A d \in Single \ {c} : journal'[d] = journal[d]
        /\ UNCHANGED <<posts, broker>>
    BY <1>5, EndDoes
  <2>2. CASE journal'[c] = journal[c]
    BY <2>1, <2>2, Invisible
  <2>3. CASE journal'[c] # journal[c]
    <3>1. /\ Told(journal[c]) = "pending"
          /\ \/ journal'[c] = "accepted" /\ Effect(broker[c]) = "taken"
             \/ journal'[c] = "rejected" /\ (Effect(broker[c]) = "refused" \/ posts[c] = 0)
             \/ journal'[c] = "unknown" /\ posts[c] = 1
      BY <1>5, <1>a, <2>3, EndDoes DEF Told, Effect
    <3>2. journal'[c] \in {"accepted", "rejected", "unknown"} => Told(journal'[c]) = journal'[c]
      BY DEF Told
    <3>3. /\ [d \in Single |-> Told(journal[d])]'
                = [[d \in Single |-> Told(journal[d])] EXCEPT ![c] = journal'[c]]
          /\ UNCHANGED [d \in Single |-> posts[d]]
          /\ UNCHANGED [d \in Single |-> Effect(broker[d])]
      BY <2>1, <3>1, <3>2, Visible
    <3>4. Promise!Tell(c)
      BY <3>1, <3>3 DEF Promise!Tell
    <3> QED  BY <3>4 DEF Promise!Next
  <2> QED  BY <2>2, <2>3
<1>6. ASSUME NEW c \in Single, Review(c)
      PROVE  [Promise!Next]_Promise!vars
  <2>1. /\ \A d \in Single \ {c} : journal'[d] = journal[d]
        /\ journal'[c] = "reviewed"
        /\ UNCHANGED <<posts, broker>>
        /\ journal[c] \in {"prepared", "sending", "unknown", "reviewed"}
    BY <1>0, <1>6 DEF Review, Reviewable, UnresolvedState, TypeOK
  <2>2. CASE journal[c] = "reviewed"
    BY <2>1, <2>2, Invisible
  <2>3. CASE journal[c] # "reviewed"
    <3>1. Told(journal[c]) \in {"pending", "unknown"} /\ Told(journal'[c]) = "reviewed"
      BY <2>1, <2>3 DEF Told
    <3>2. Promise!Settle(c)
      BY <2>1, <3>1, Visible DEF Promise!Settle
    <3> QED  BY <3>2 DEF Promise!Next
  <2> QED  BY <2>2, <2>3
<1>7. ASSUME NEW c \in Cmd, BrokerStep(c)
      PROVE  [Promise!Next]_Promise!vars
  <2>1. UNCHANGED <<journal, posts>> /\ \A d \in Cmd : d # c => broker'[d] = broker[d]
    BY <1>0, <1>7 DEF BrokerStep, TypeOK
  <2>2. CASE broker[c] = "inflight" /\ c \in Single
    <3>1. posts[c] = 1 /\ Effect(broker[c]) = "none" /\ Effect(broker'[c]) \in {"taken", "refused"}
      BY <1>0, <1>7, <1>a, <2>2 DEF BrokerStep, Effect, TypeOK
    <3>2. Promise!Decide(c)
      BY <2>1, <2>2, <3>1, Visible DEF Promise!Decide
    <3> QED  BY <2>2, <3>2 DEF Promise!Next
  <2>3. CASE broker[c] # "inflight" \/ c \notin Single
    <3>1. \A d \in Single : Effect(broker'[d]) = Effect(broker[d])
      BY <1>0, <1>7, <2>1, <2>3 DEF BrokerStep, Effect, TypeOK
    <3> QED  BY <2>1, <3>1, Invisible
  <2> QED  BY <2>2, <2>3
<1>8. SingleSame \/ Crash => UNCHANGED Promise!vars
  BY Invisible DEF SingleSame, Crash
<1> QED  BY <1>0, <1>1, <1>2, <1>3, <1>4, <1>5, <1>6, <1>7, <1>8, Steps

\* The Kiwoom path submits a command at most once, tells only what the broker
\* did, and never submits a command that an operator has settled.
THEOREM KiwoomKeepsPromise == Spec => ImplementsPromise
<1>1. Init => Promise!Init
  BY Constants DEF Init, Promise!Init, Told, Effect
<1> QED  BY <1>1, KiwoomAlways, PromiseNext, PTL DEF Spec, ImplementsPromise
=============================================================================
