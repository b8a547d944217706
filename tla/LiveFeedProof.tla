----------------------------- MODULE LiveFeedProof -----------------------------
(***************************************************************************)
(* Proofs about the live feed: the types, and the three invariants.        *)
(***************************************************************************)
EXTENDS LiveFeed, SequenceTheorems, WellFoundedInduction, TLAPS

(* The constants, without the times of the publications.                   *)
LEMMA Sizes ==
  /\ MaxPublished \in Nat /\ MaxDown \in Nat /\ MaxMounts \in Nat /\ MaxFaults \in Nat
  /\ Capacity \in Nat /\ Capacity > 0 /\ Batch \in Nat /\ Batch > 0
  /\ Entry = 1..MaxPublished /\ None = MaxPublished + 1
BY FeedAssumption DEF Entry, None

---------------------------------------------------------------------------
(* Largest elements.                                                       *)

(* A set of natural numbers that is not empty has a least element.         *)
LEMMA Least ==
  ASSUME NEW T \in SUBSET Nat, T # {}
  PROVE  \E x \in T : \A y \in T : x <= y
<1> DEFINE R == OpToRel(<, Nat)
<1>1. IsWellFoundedOn(R, Nat)
  BY NatLessThanWellFounded
<1>2. \A x, y \in Nat : y < x => <<y, x>> \in R
  BY DEF OpToRel
<1> HIDE DEF R
<1>3. PICK x \in T : \A y \in T : <<y, x>> \notin R
  BY <1>1, WFMin
<1>4. ASSUME NEW y \in T PROVE x <= y
  <2>1. x \in Nat /\ y \in Nat
    OBVIOUS
  <2>2. ~(y < x)
    BY <1>2, <1>3, <2>1
  <2> QED BY <2>1, <2>2
<1> QED
  BY <1>4

(* A bounded one has a greatest.                                           *)
LEMMA Greatest ==
  ASSUME NEW T \in SUBSET (0..MaxPublished), T # {}
  PROVE  \E x \in T : \A y \in T : y <= x
<1> DEFINE U == {MaxPublished - y : y \in T}
<1>1. U \in SUBSET Nat /\ U # {}
  <2>1. \A y \in T : MaxPublished - y \in Nat
    BY Sizes
  <2> QED BY <2>1
<1>2. PICK u \in U : \A v \in U : u <= v
  <2> HIDE DEF U
  <2> QED BY <1>1, Least
<1>3. PICK x \in T : u = MaxPublished - x
  BY <1>2
<1>4. \A y \in T : y <= x
  <2> TAKE y \in T
  <2>1. u <= MaxPublished - y
    BY <1>2
  <2> QED BY <2>1, <1>3, Sizes
<1> QED
  BY <1>4

LEMMA MaxIn ==
  ASSUME NEW T \in SUBSET (0..MaxPublished), T # {}
  PROVE  Max(T) \in T
<1>1. \E x \in T : \A y \in T : x >= y
  <2>1. PICK x \in T : \A y \in T : y <= x
    BY Greatest
  <2>2. \A y \in T : x >= y
    BY <2>1, Sizes
  <2> QED BY <2>2
<1> QED
  BY <1>1 DEF Max

---------------------------------------------------------------------------
(* The deliveries.                                                         *)

LEMMA Elements ==
  ASSUME NEW S, NEW s \in Seq(S)
  PROVE  /\ ToSet(s) \subseteq S
         /\ \A i \in 1..Len(s) : s[i] \in ToSet(s)
         /\ \A x \in ToSet(s) : \E i \in 1..Len(s) : x = s[i]
BY DEF ToSet

LEMMA SubElements ==
  ASSUME NEW S, NEW s \in Seq(S), NEW m \in Nat \ {0}, NEW n \in 0..Len(s)
  PROVE  SubSeq(s, m, n) \in Seq(S) /\ ToSet(SubSeq(s, m, n)) \subseteq ToSet(s)
<1>1. Len(s) \in Nat /\ \A i \in m..n : i \in 1..Len(s) /\ s[i] \in S
  BY ElementOfSeq
<1>2. \A i \in m..n : s[i] \in S /\ s[i] \in ToSet(s)
  BY <1>1, Elements
<1>3. SubSeq(s, m, n) \in Seq(S)
  BY <1>2, SubSeqProperties
<1>4. SubSeq(s, m, n) \in Seq(ToSet(s))
  BY <1>2, SubSeqProperties
<1> QED
  BY <1>3, <1>4, Elements

LEMMA PutType ==
  ASSUME NEW d \in Delivery, NEW q \in Seq(Entry)
  PROVE  Put(d, q) \in Delivery
<1> DEFINE all == d.hist \o q
           over == Len(all) - Capacity
           kept == IF over > 0 THEN SubSeq(all, over + 1, Len(all)) ELSE all
           seen == {d.latest} \cup ToSet(q)
<1>1. d.hist \in Seq(Entry) /\ d.latest \in 0..MaxPublished /\ d.dropped \in BOOLEAN
  BY DEF Delivery
<1>2. all \in Seq(Entry) /\ Len(all) \in Nat
  BY <1>1, ConcatProperties
<1>3. kept \in Seq(Entry)
  <2> HIDE DEF all
  <2>1. CASE over > 0
    <3>1. over + 1 \in 1..(Len(all) + 1)
      BY <1>2, <2>1, Sizes
    <3>2. SubSeq(all, over + 1, Len(all)) \in Seq(Entry)
      BY <3>1, <1>2, Sizes, SubSeqProperties
    <3> QED BY <2>1, <3>2
  <2>2. CASE ~(over > 0)
    BY <2>2, <1>2
  <2> QED BY <2>1, <2>2
<1>4. Max(seen) \in 0..MaxPublished
  <2>1. seen \in SUBSET (0..MaxPublished) /\ seen # {}
    <3>1. ToSet(q) \subseteq Entry
      BY Elements
    <3> QED BY <1>1, <3>1, Sizes
  <2> HIDE DEF seen
  <2> QED BY <2>1, MaxIn
<1>5. Put(d, q) = [hist |-> kept, latest |-> Max(seen), dropped |-> d.dropped \/ over > 0]
  BY DEF Put
<1> HIDE DEF kept, seen, over
<1>6. (d.dropped \/ over > 0) \in BOOLEAN
  OBVIOUS
<1> QED
  BY <1>3, <1>4, <1>5, <1>6 DEF Delivery

(* Nothing is lost without a mark, and nothing is made up.                 *)
LEMMA PutKeeps ==
  ASSUME NEW d \in Delivery, NEW q \in Seq(Entry)
  PROVE  /\ d.dropped => Put(d, q).dropped
         /\ ~Put(d, q).dropped => ToSet(d.hist) \cup ToSet(q) \subseteq ToSet(Put(d, q).hist)
         /\ ToSet(Put(d, q).hist) \subseteq ToSet(d.hist) \cup ToSet(q)
<1> DEFINE all == d.hist \o q
           over == Len(all) - Capacity
<1>1. d.hist \in Seq(Entry)
  BY DEF Delivery
<1>2. ToSet(d.hist) \cup ToSet(q) \subseteq ToSet(all)
  <2>1. Len(all) = Len(d.hist) + Len(q) /\ all \in Seq(Entry)
    BY <1>1, ConcatProperties
  <2>2. \A i \in 1..Len(d.hist) : i \in 1..Len(all) /\ all[i] = d.hist[i]
    BY <1>1, <2>1, ConcatProperties
  <2>3. \A i \in 1..Len(q) : Len(d.hist) + i \in 1..Len(all) /\ all[Len(d.hist) + i] = q[i]
    BY <1>1, <2>1
  <2> HIDE DEF all
  <2>4. \A i \in 1..Len(all) : all[i] \in ToSet(all)
    BY <2>1, Elements
  <2>5. ToSet(d.hist) \subseteq ToSet(all)
    <3>1. \A x \in ToSet(d.hist) : \E i \in 1..Len(d.hist) : x = d.hist[i]
      BY <1>1, Elements
    <3> QED BY <3>1, <2>2, <2>4
  <2>6. ToSet(q) \subseteq ToSet(all)
    <3>1. \A x \in ToSet(q) : \E i \in 1..Len(q) : x = q[i]
      BY Elements
    <3> QED BY <3>1, <2>3, <2>4
  <2> QED BY <2>5, <2>6
<1>3. Put(d, q).dropped = (d.dropped \/ over > 0)
  BY DEF Put
<1>4. Put(d, q).hist = IF over > 0 THEN SubSeq(all, over + 1, Len(all)) ELSE all
  BY DEF Put
<1>5. ToSet(all) \subseteq ToSet(d.hist) \cup ToSet(q)
  <2>1. Len(all) = Len(d.hist) + Len(q) /\ Len(d.hist) \in Nat /\ Len(q) \in Nat /\ all \in Seq(Entry)
    BY <1>1, ConcatProperties
  <2>2. \A i \in 1..Len(all) :
          \/ (i \in 1..Len(d.hist) /\ all[i] = d.hist[i])
          \/ (i - Len(d.hist) \in 1..Len(q) /\ all[i] = q[i - Len(d.hist)])
    <3> TAKE i \in 1..Len(all)
    <3>1. CASE i <= Len(d.hist)
      <4>1. i \in 1..Len(d.hist)
        BY <2>1, <3>1
      <4>2. all[i] = d.hist[i]
        BY <1>1, <2>1, <3>1, ConcatProperties
      <4> QED BY <4>1, <4>2
    <3>2. CASE i > Len(d.hist)
      <4>1. i - Len(d.hist) \in 1..Len(q)
        BY <2>1, <3>2
      <4>2. all[i] = q[i - Len(d.hist)]
        BY <1>1, <2>1, <3>2, ConcatProperties
      <4> QED BY <4>1, <4>2
    <3> QED BY <2>1, <3>1, <3>2
  <2> HIDE DEF all
  <2>3. \A x \in ToSet(all) : \E i \in 1..Len(all) : x = all[i]
    BY <2>1, Elements
  <2>4. /\ \A i \in 1..Len(d.hist) : d.hist[i] \in ToSet(d.hist)
        /\ \A i \in 1..Len(q) : q[i] \in ToSet(q)
    BY <1>1, Elements
  <2> QED BY <2>2, <2>3, <2>4
<1>6. over > 0 => ToSet(SubSeq(all, over + 1, Len(all))) \subseteq ToSet(all)
  <2>1. all \in Seq(Entry) /\ Len(all) \in Nat
    BY <1>1, ConcatProperties
  <2> HIDE DEF all
  <2> SUFFICES ASSUME over > 0 PROVE ToSet(SubSeq(all, over + 1, Len(all))) \subseteq ToSet(all)
    OBVIOUS
  <2>2. over + 1 \in Nat \ {0} /\ Len(all) \in 0..Len(all)
    BY <2>1, Sizes
  <2> HIDE DEF over
  <2> QED BY <2>1, <2>2, SubElements
<1> HIDE DEF over, all
<1> QED
  BY <1>2, <1>3, <1>4, <1>5, <1>6

LEMMA MergeType ==
  ASSUME NEW d \in Delivery, NEW b \in Frame
  PROVE  Merge(d, b) \in Delivery
<1>1. b.data \in Seq(Entry) /\ b.latest \in 0..MaxPublished /\ b.dropped \in BOOLEAN
  BY DEF Frame
<1>2. PICK p \in Delivery : p = Put(d, b.data)
  BY <1>1, PutType
<1>3. Merge(d, b) = [p EXCEPT !.latest = Newest(p.latest, b.latest), !.dropped = p.dropped \/ b.dropped]
  BY <1>2 DEF Merge
<1>4. Newest(p.latest, b.latest) \in 0..MaxPublished
  BY <1>1 DEF Newest, Delivery
<1> QED
  BY <1>1, <1>3, <1>4 DEF Delivery

LEMMA MergeKeeps ==
  ASSUME NEW d \in Delivery, NEW b \in Frame
  PROVE  /\ d.dropped \/ b.dropped => Merge(d, b).dropped
         /\ ~Merge(d, b).dropped =>
              ToSet(d.hist) \cup ToSet(b.data) \subseteq ToSet(Merge(d, b).hist)
         /\ ToSet(Merge(d, b).hist) \subseteq ToSet(d.hist) \cup ToSet(b.data)
<1>1. b.data \in Seq(Entry)
  BY DEF Frame
<1>2. PICK p \in Delivery : p = Put(d, b.data)
  BY <1>1, PutType
<1>3. /\ d.dropped => p.dropped
      /\ ~p.dropped => ToSet(d.hist) \cup ToSet(b.data) \subseteq ToSet(p.hist)
      /\ ToSet(p.hist) \subseteq ToSet(d.hist) \cup ToSet(b.data)
  BY <1>1, <1>2, PutKeeps
<1>4. Merge(d, b).dropped = (p.dropped \/ b.dropped) /\ Merge(d, b).hist = p.hist
  BY <1>2 DEF Merge, Delivery
<1> QED
  BY <1>3, <1>4

(* What a batch takes and what it leaves is what there was.                *)
LEMMA BatchSplits ==
  ASSUME NEW d \in Delivery
  PROVE  /\ LeftOf(d) \in Delivery /\ BatchOf(d) \in Frame
         /\ ~LeftOf(d).dropped /\ BatchOf(d).dropped = d.dropped
         /\ ToSet(d.hist) = ToSet(BatchOf(d).data) \cup ToSet(LeftOf(d).hist)
<1> DEFINE h == d.hist
           n == IF Len(h) < Batch THEN Len(h) ELSE Batch
           taken == SubSeq(h, 1, n)
           left == SubSeq(h, Batch + 1, Len(h))
<1>1. h \in Seq(Entry) /\ d.latest \in 0..MaxPublished /\ d.dropped \in BOOLEAN /\ Len(h) \in Nat
  BY DEF Delivery
<1>2. LeftOf(d) = [hist |-> left, latest |-> 0, dropped |-> FALSE]
  <2>1. PICK l : l = left
    OBVIOUS
  <2>2. LeftOf(d) = [NoDelivery EXCEPT !.hist = l]
    BY <2>1 DEF LeftOf
  <2>3. [NoDelivery EXCEPT !.hist = l] = [hist |-> l, latest |-> 0, dropped |-> FALSE]
    <3>1. PICK e, f : e = <<>> /\ f = FALSE
      OBVIOUS
    <3>2. NoDelivery = [hist |-> e, latest |-> 0, dropped |-> f]
      BY <3>1 DEF NoDelivery
    <3>3. [NoDelivery EXCEPT !.hist = l] = [hist |-> l, latest |-> 0, dropped |-> f]
      BY <3>2
    <3> QED BY <3>1, <3>3
  <2> QED BY <2>1, <2>2, <2>3
<1>3. BatchOf(d) = [data |-> taken, latest |-> d.latest, dropped |-> d.dropped]
  BY DEF BatchOf, TakenOf
<1>4. taken \in Seq(Entry) /\ \A i \in 1..n : i \in 1..Len(taken) /\ taken[i] = h[i]
  <2>1. n \in 0..Len(h)
    BY <1>1, Sizes
  <2> HIDE DEF n, h
  <2> QED BY <1>1, <2>1, SubSeqProperties
<1>5. left \in Seq(Entry)
      /\ \A i \in (Batch + 1)..Len(h) : i - Batch \in 1..Len(left) /\ left[i - Batch] = h[i]
  <2>1. CASE Batch + 1 <= Len(h) + 1
    <3> HIDE DEF h
    <3>1. Batch + 1 \in 1..(Len(h) + 1)
      BY <1>1, <2>1, Sizes
    <3>2. left \in Seq(Entry) /\ Len(left) = Len(h) - Batch
          /\ \A j \in 1..(Len(h) - Batch) : left[j] = h[Batch + j]
      <4>1. Len(h) \in 1..(Len(h) + 1) \/ Len(h) = 0
        BY <1>1
      <4>2. Batch + 1 \in Nat /\ Len(h) \in 0..Len(h) /\ Len(h) - (Batch + 1) + 1 = Len(h) - Batch
        BY <1>1, Sizes
      <4>3. \A j \in 1..(Len(h) - Batch) : (Batch + 1) + j - 1 = Batch + j
        BY <1>1, Sizes
      <4> QED BY <1>1, <3>1, <4>1, <4>2, <4>3, SubSeqProperties
    <3> HIDE DEF left
    <3> QED BY <3>2, <1>1, Sizes
  <2>2. CASE ~(Batch + 1 <= Len(h) + 1)
    <3> HIDE DEF h
    <3>1. left = <<>>
      BY <1>1, <2>2, Sizes, SubSeqEmpty
    <3> HIDE DEF left
    <3> QED BY <3>1, <2>2, <1>1, Sizes
  <2> QED BY <2>1, <2>2
<1>6. ToSet(h) \subseteq ToSet(taken) \cup ToSet(left)
  <2>1. \A i \in 1..Len(h) : i \in 1..n \/ i \in (Batch + 1)..Len(h)
    BY <1>1, Sizes
  <2> HIDE DEF h, n, taken, left
  <2>2. DOMAIN h = 1..Len(h) /\ DOMAIN taken = 1..Len(taken) /\ DOMAIN left = 1..Len(left)
    BY <1>1, <1>4, <1>5, LenProperties
  <2>3. SUFFICES ASSUME NEW i \in 1..Len(h) PROVE h[i] \in ToSet(taken) \cup ToSet(left)
    BY <2>2 DEF ToSet
  <2>4. CASE i \in 1..n
    BY <2>4, <1>4, <2>2 DEF ToSet
  <2>5. CASE i \in (Batch + 1)..Len(h)
    BY <2>5, <1>5, <2>2 DEF ToSet
  <2> QED BY <2>1, <2>4, <2>5
<1>7. ToSet(taken) \subseteq ToSet(h) /\ ToSet(left) \subseteq ToSet(h)
  <2>1. n \in 0..Len(h) /\ Len(h) \in 0..Len(h) /\ 1 \in Nat \ {0} /\ Batch + 1 \in Nat \ {0}
    BY <1>1, Sizes
  <2> HIDE DEF h, n
  <2> QED BY <1>1, <2>1, SubElements
<1>8. LeftOf(d) \in Delivery /\ BatchOf(d) \in Frame
  <2> HIDE DEF taken, left
  <2> QED BY <1>1, <1>2, <1>3, <1>4, <1>5, Sizes DEF Delivery, Frame
<1> HIDE DEF taken, left
<1> QED
  BY <1>2, <1>3, <1>6, <1>7, <1>8

---------------------------------------------------------------------------
(* The types.                                                              *)

ServerType ==
  /\ published \in 0..MaxPublished /\ base \in 0..published
  /\ live \in BOOLEAN /\ subscribed \in BOOLEAN
  /\ hub \in Delivery /\ out \in Delivery
SocketType ==
  /\ up \in Seq({"subscribe", "unsubscribe"}) /\ down \in Seq(Frame)
  /\ sock \in {"none", "connecting", "open"}
  /\ timer \in BOOLEAN /\ floor \in 0..MaxPublished
  /\ config \in BOOLEAN /\ limits \in Nat /\ limited \in BOOLEAN
SeriesType ==
  /\ mounted \in BOOLEAN /\ partial \in BOOLEAN /\ gapTimer \in BOOLEAN
  /\ buffer \in [Entry -> Nat] /\ book \in 0..MaxPublished /\ retained \in 0..MaxPublished
QueryType ==
  /\ query \in [entries : (SUBSET Entry) \cup {{None}}, stale : BOOLEAN]
  /\ request \in Asked \cup {Answer(entries) : entries \in SUBSET Entry}
  /\ failed \in BOOLEAN
CountType == mounts \in Nat /\ faults \in Nat
HistoryType ==
  since \in 0..None /\ from \in 0..None /\ dropped \subseteq Entry /\ overlooked \subseteq Entry

LEMMA TypeParts ==
  TypeOK <=> /\ ServerType /\ SocketType /\ SeriesType
             /\ QueryType /\ CountType /\ HistoryType
BY DEF TypeOK, ServerType, SocketType, SeriesType, QueryType, CountType, HistoryType

LEMMA TypePartsNext ==
  /\ ServerType' /\ SocketType' /\ SeriesType' /\ QueryType' /\ CountType' /\ HistoryType'
  => TypeOK'
BY DEF TypeOK, ServerType, SocketType, SeriesType, QueryType, CountType, HistoryType

LEMMA Unmoved ==
  /\ ServerType /\ UNCHANGED serverVars => ServerType'
  /\ SocketType /\ UNCHANGED socketVars => SocketType'
  /\ SeriesType /\ UNCHANGED seriesVars => SeriesType'
  /\ QueryType /\ UNCHANGED queryVars => QueryType'
  /\ CountType /\ UNCHANGED <<mounts, faults>> => CountType'
  /\ HistoryType /\ UNCHANGED history => HistoryType'
BY DEF ServerType, serverVars, SocketType, socketVars, limitVars, SeriesType, seriesVars, QueryType,
       queryVars, CountType, HistoryType, history

LEMMA NoDeliveryType == NoDelivery \in Delivery
<1>1. PICK e, f : e = <<>> /\ f = FALSE
  OBVIOUS
<1>2. f \in BOOLEAN
  BY <1>1
<1>3. e \in Seq(Entry)
  BY <1>1, EmptySeq
<1>4. NoDelivery = [hist |-> e, latest |-> 0, dropped |-> f]
  BY <1>1 DEF NoDelivery
<1>5. 0 \in 0..MaxPublished
  BY Sizes
<1> QED
  BY <1>2, <1>3, <1>4, <1>5 DEF Delivery

LEMMA Zeros ==
  /\ 0 \in 0..MaxPublished /\ None \in 0..None /\ <<>> \in Seq(Frame)
  /\ <<>> \in Seq({"subscribe", "unsubscribe"}) /\ NoBuffer \in [Entry -> Nat]
<1>1. 0 \in 0..MaxPublished /\ None \in 0..None
  BY Sizes
<1>2. NoBuffer \in [Entry -> Nat]
  BY DEF NoBuffer
<1>3. <<>> \in Seq(Frame) /\ <<>> \in Seq({"subscribe", "unsubscribe"})
  BY EmptySeq
<1> QED
  BY <1>1, <1>2, <1>3

LEMMA NewerBookType ==
  ASSUME NEW b \in 0..MaxPublished, NEW T \in SUBSET Entry
  PROVE  NewerBook(b, T) \in 0..MaxPublished
<1>1. LatestOf(T) \subseteq 0..MaxPublished
  <2>1. LatestOf(T) \subseteq T
    BY DEF LatestOf
  <2>2. Entry \subseteq 0..MaxPublished
    BY Sizes
  <2> QED BY <2>1, <2>2
<1>2. CASE \E n \in LatestOf(T) : b = 0 \/ TimeOf[n] > TimeOf[b]
  <2>1. NewerBook(b, T) = CHOOSE n \in LatestOf(T) : TRUE
    BY <1>2 DEF NewerBook
  <2>2. \E n \in LatestOf(T) : TRUE
    BY <1>2
  <2>3. NewerBook(b, T) \in LatestOf(T)
    BY <2>1, <2>2
  <2> QED BY <1>1, <2>3
<1>3. CASE ~\E n \in LatestOf(T) : b = 0 \/ TimeOf[n] > TimeOf[b]
  BY <1>3 DEF NewerBook
<1> QED
  BY <1>2, <1>3

LEMMA MergeInitialType ==
  ASSUME NEW b \in [Entry -> Nat], NEW T
  PROVE  /\ MergeInitial(b, T) \in [Entry -> Nat]
         /\ \A n \in Entry : b[n] > 0 \/ n \in T => MergeInitial(b, T)[n] > 0
BY DEF MergeInitial

LEMMA AnswerIs ==
  ASSUME QueryType, request.kind = "answer"
  PROVE  request.entries \in SUBSET Entry
<1>1. request \notin Asked
  BY DEF Asked
<1>2. PICK T \in SUBSET Entry : request = Answer(T)
  BY <1>1 DEF QueryType
<1> QED
  BY <1>2 DEF Answer

LEMMA AskedType ==
  ASSUME NEW k \in {"none", "sent"}
  PROVE  [kind |-> k] \in Asked \cup {Answer(entries) : entries \in SUBSET Entry}
BY DEF Asked

LEMMA CommandType ==
  ASSUME SocketType, NEW c \in {"subscribe", "unsubscribe"}
  PROVE  Command(c) \in Seq({"subscribe", "unsubscribe"})
BY DEF Command, SocketType

(* Every step of the server and of the socket keeps the types.             *)
LEMMA ServerTypes ==
  ASSUME TypeOK, Publish \/ Pump \/ Send \/ Apply \/ Disconnect
  PROVE  TypeOK'
<1> USE TypeParts
<1>1. CASE Publish
  <2>1. published' = published + 1 /\ published' \in Entry
    BY <1>1, Sizes DEF Publish, ServerType
  <2>2. hub' \in Delivery
    <3>1. <<published'>> \in Seq(Entry)
      BY <2>1
    <3>2. Put(hub, <<published'>>) \in Delivery
      BY <3>1, PutType DEF ServerType
    <3> QED BY <1>1, <3>2 DEF Publish, ServerType
  <2>3. ServerType'
    BY <1>1, <2>1, <2>2, Sizes DEF Publish, ServerType
  <2>4. HistoryType'
    <3>1. ToSet(hub.hist) \subseteq Entry
      BY Elements DEF ServerType, Delivery
    <3> QED BY <1>1, <3>1 DEF Publish, HistoryType
  <2> QED BY <1>1, <2>3, <2>4, Unmoved, TypePartsNext DEF Publish
<1>2. CASE Pump
  <2>1. LeftOf(hub) \in Delivery /\ BatchOf(hub) \in Frame
    BY BatchSplits DEF ServerType
  <2>2. Merge(out, BatchOf(hub)) \in Delivery
    BY <2>1, MergeType DEF ServerType
  <2>3. ServerType'
    BY <1>2, <2>1, <2>2 DEF Pump, ServerType
  <2>4. HistoryType'
    <3>1. ToSet(hub.hist) \subseteq Entry /\ ToSet(out.hist) \subseteq Entry
      BY Elements DEF ServerType, Delivery
    <3> QED BY <1>2, <3>1 DEF Pump, HistoryType
  <2> QED BY <1>2, <2>3, <2>4, Unmoved, TypePartsNext DEF Pump
<1>3. CASE Send
  <2>1. LeftOf(out) \in Delivery /\ BatchOf(out) \in Frame
    BY BatchSplits DEF ServerType
  <2>2. ServerType'
    BY <1>3, <2>1 DEF Send, ServerType
  <2>3. SocketType'
    BY <1>3, <2>1 DEF Send, SocketType, limitVars
  <2> QED BY <1>3, <2>2, <2>3, Unmoved, TypePartsNext DEF Send
<1>4. CASE Apply
  <2>1. ServerType'
    <3>1. subscribed' \in BOOLEAN
      BY <1>4 DEF Apply
    <3> QED BY <1>4, <3>1, NoDeliveryType DEF Apply, ServerType
  <2>2. limits' \in Nat /\ faults' \in Nat
    BY <1>4 DEF Apply, SocketType, CountType
  <2>3. SocketType'
    BY <1>4, <2>2 DEF Apply, SocketType
  <2>4. HistoryType'
    <3>1. since' \in 0..None
      BY <1>4, Sizes DEF Apply, HistoryType, ServerType
    <3> QED BY <1>4, <3>1 DEF Apply, HistoryType
  <2>5. CountType'
    BY <1>4, <2>2 DEF Apply, CountType
  <2> QED BY <1>4, <2>1, <2>3, <2>4, <2>5, Unmoved, TypePartsNext DEF Apply
<1>5. CASE Disconnect
  <2>1. ServerType'
    <3>1. base' \in 0..published
      BY <1>5 DEF Disconnect, ServerType
    <3> QED BY <1>5, <3>1, NoDeliveryType DEF Disconnect, ServerType
  <2>2. down' \in Seq(Frame)
    <3>1. PICK k \in 0..Len(down) : down' = SubSeq(down, 1, k)
      BY <1>5 DEF Disconnect
    <3> QED BY <3>1, SubSeqProperties DEF SocketType
  <2>3. SocketType'
    BY <1>5, <2>2 DEF Disconnect, SocketType
  <2>4. HistoryType'
    BY <1>5, Sizes DEF Disconnect, HistoryType
  <2>5. CountType'
    BY <1>5 DEF Disconnect, CountType
  <2> QED BY <1>5, <2>1, <2>3, <2>4, <2>5, Unmoved, TypePartsNext DEF Disconnect
<1> QED
  BY <1>1, <1>2, <1>3, <1>4, <1>5

LEMMA SocketTypes ==
  ASSUME TypeOK,
         \/ OnOpen \/ ConnectFail \/ OnClose \/ Reconnect \/ OnMessage
         \/ OnLimit \/ AddressFails \/ Listen
  PROVE  TypeOK'
<1> USE TypeParts
<1>1. CASE OnOpen
  <2>1. ServerType'
    BY <1>1 DEF OnOpen, ServerType
  <2>2. up' \in Seq({"subscribe", "unsubscribe"})
    <3>1. <<"subscribe">> \in Seq({"subscribe", "unsubscribe"})
      OBVIOUS
    <3> QED BY <1>1, <3>1, Zeros DEF OnOpen
  <2>3. SocketType'
    BY <1>1, <2>2 DEF OnOpen, SocketType, limitVars
  <2> QED BY <1>1, <2>1, <2>3, Unmoved, TypePartsNext DEF OnOpen
<1>2. CASE ConnectFail
  <2>1. SocketType'
    <3>1. limits' \in Nat /\ limited' \in BOOLEAN
      BY <1>2 DEF ConnectFail, SocketType
    <3>2. timer' \in BOOLEAN /\ config' \in BOOLEAN
      BY <1>2 DEF ConnectFail, SocketType
    <3> QED BY <1>2, <3>1, <3>2, Sizes DEF ConnectFail, SocketType
  <2>2. CountType'
    BY <1>2 DEF ConnectFail, CountType
  <2> QED BY <1>2, <2>1, <2>2, Unmoved, TypePartsNext DEF ConnectFail
<1>3. CASE OnClose
  <2>1. SocketType'
    <3>1. limits' \in Nat /\ limited' \in BOOLEAN
      BY <1>3 DEF OnClose, SocketType
    <3>2. timer' \in BOOLEAN /\ config' \in BOOLEAN
      BY <1>3 DEF OnClose, SocketType
    <3> QED BY <1>3, <3>1, <3>2, Sizes DEF OnClose, SocketType
  <2>2. SeriesType'
    BY <1>3 DEF OnClose, SeriesType
  <2> QED BY <1>3, <2>1, <2>2, Unmoved, TypePartsNext DEF OnClose
<1>4. CASE Reconnect
  <2>1. SocketType'
    BY <1>4 DEF Reconnect, SocketType, limitVars
  <2> QED BY <1>4, <2>1, Unmoved, TypePartsNext DEF Reconnect
<1>5. CASE OnMessage
  <2>1. PICK f \in Frame : f = Head(down)
    BY <1>5 DEF OnMessage, SocketType, limitVars
  <2>2. f.latest \in 0..MaxPublished /\ f.dropped \in BOOLEAN
    BY DEF Frame
  <2>3. floor' \in 0..MaxPublished /\ book' \in 0..MaxPublished
    <3>1. DeliverLatest(f.latest)
      BY <1>5, <2>1 DEF OnMessage
    <3>2. NumberOf(f.latest) \in 0..MaxPublished
      BY <2>2, Sizes DEF NumberOf, ServerType
    <3> QED BY <3>1, <3>2, <2>2 DEF DeliverLatest, SocketType, SeriesType
  <2>4. SocketType'
    BY <1>5, <2>3 DEF OnMessage, SocketType, limitVars
  <2>5. buffer' \in [Entry -> Nat]
    <3>1. buffer' = [n \in Entry |-> IF mounted /\ n \in ToSet(f.data) THEN buffer[n] + 1 ELSE buffer[n]]
      BY <1>5, <2>1 DEF OnMessage
    <3> QED BY <3>1 DEF SeriesType
  <2>6. partial' \in BOOLEAN /\ gapTimer' \in BOOLEAN
    BY <1>5, <2>1, <2>2 DEF OnMessage, SeriesType
  <2>7. SeriesType'
    BY <1>5, <2>3, <2>5, <2>6 DEF OnMessage, SeriesType
  <2> QED BY <1>5, <2>4, <2>7, Unmoved, TypePartsNext DEF OnMessage
<1>6. CASE OnLimit
  <2>1. SocketType'
    BY <1>6 DEF OnLimit, SocketType, SeriesType
  <2> QED BY <1>6, <2>1, Unmoved, TypePartsNext DEF OnLimit
<1>7. CASE AddressFails
  <2>1. SocketType'
    BY <1>7 DEF AddressFails, SocketType, limitVars
  <2>2. CountType'
    BY <1>7 DEF AddressFails, CountType
  <2> QED BY <1>7, <2>1, <2>2, Unmoved, TypePartsNext DEF AddressFails
<1>8. CASE Listen
  <2>1. SocketType'
    BY <1>8 DEF Listen, SocketType, limitVars
  <2> QED BY <1>8, <2>1, Unmoved, TypePartsNext DEF Listen
<1> QED
  BY <1>1, <1>2, <1>3, <1>4, <1>5, <1>6, <1>7, <1>8

LEMMA SeriesTypes ==
  ASSUME TypeOK, Mount \/ Unmount \/ RefetchGap \/ ServeSeries \/ ReceiveSeries \/ FailSeries
  PROVE  TypeOK'
<1> USE TypeParts
<1>1. CASE Mount
  <2> DEFINE cached == IF query.entries = {None} THEN {} ELSE query.entries
  <2>1. cached \in SUBSET Entry
    BY DEF QueryType
  <2>2. buffer' \in [Entry -> Nat]
    <3>1. NoBuffer \in [Entry -> Nat]
      BY DEF NoBuffer
    <3>2. buffer' = MergeInitial(NoBuffer, cached)
      BY <1>1 DEF Mount
    <3> HIDE DEF cached
    <3> QED BY <3>1, <3>2, MergeInitialType
  <2>3. book' \in 0..MaxPublished
    <3>1. PICK b \in {0, retained} : book' = NewerBook(b, cached)
      BY <1>1 DEF Mount
    <3>2. b \in 0..MaxPublished
      BY Sizes DEF SeriesType
    <3> HIDE DEF cached
    <3> QED BY <2>1, <3>1, <3>2, NewerBookType
  <2>4. SeriesType'
    BY <1>1, <2>2, <2>3, Sizes DEF Mount, SeriesType
  <2>5. SocketType'
    BY <1>1, CommandType DEF Mount, SocketType, limitVars
  <2>6. QueryType'
    <3>1. PICK k \in {"none", "sent"} : request' = [kind |-> k]
      BY <1>1 DEF Mount
    <3> QED BY <1>1, <3>1, AskedType DEF Mount, QueryType
  <2>7. CountType'
    BY <1>1 DEF Mount, CountType
  <2> QED BY <1>1, <2>4, <2>5, <2>6, <2>7, Unmoved, TypePartsNext DEF Mount, history
<1>2. CASE Unmount
  <2>1. SeriesType'
    BY <1>2, Zeros DEF Unmount, SeriesType
  <2>2. SocketType'
    <3>1. limits' \in Nat /\ limited' \in BOOLEAN
      BY <1>2 DEF Unmount, SocketType
    <3>2. timer' \in BOOLEAN /\ config' \in BOOLEAN
      BY <1>2 DEF Unmount, SocketType
    <3> QED BY <1>2, <3>1, <3>2, Sizes, CommandType DEF Unmount, SocketType
  <2>3. QueryType'
    BY <1>2, AskedType DEF Unmount, QueryType
  <2>4. HistoryType'
    BY <1>2, Sizes DEF Unmount, HistoryType
  <2> QED BY <1>2, <2>1, <2>2, <2>3, <2>4, Unmoved, TypePartsNext DEF Unmount
<1>3. CASE RefetchGap
  <2>1. SeriesType'
    BY <1>3 DEF RefetchGap, SeriesType
  <2>2. request' \in Asked \cup {Answer(entries) : entries \in SUBSET Entry}
    <3>1. request' = request \/ \E k \in {"none", "sent"} : request' = [kind |-> k]
      BY <1>3 DEF RefetchGap
    <3> QED BY <3>1, AskedType DEF QueryType
  <2>3. QueryType'
    BY <1>3, <2>2 DEF RefetchGap, QueryType
  <2>4. HistoryType'
    <3>1. Missing \subseteq Entry
      BY DEF Missing, HistoryType
    <3> QED BY <1>3, <3>1 DEF RefetchGap, HistoryType
  <2> QED BY <1>3, <2>1, <2>3, <2>4, Unmoved, TypePartsNext DEF RefetchGap
<1>4. CASE ServeSeries
  <2>1. (base + 1)..published \in SUBSET Entry
    BY Sizes DEF ServerType
  <2>2. QueryType'
    BY <1>4, <2>1 DEF ServeSeries, QueryType
  <2>3. SocketType'
    BY <1>4 DEF ServeSeries, SocketType, limitVars
  <2> QED BY <1>4, <2>2, <2>3, Unmoved, TypePartsNext DEF ServeSeries
<1>5. CASE ReceiveSeries
  <2>1. PICK T \in SUBSET Entry : T = request.entries
    BY <1>5, AnswerIs DEF ReceiveSeries
  <2>2. SeriesType'
    <3>1. buffer' = MergeInitial(buffer, T) /\ book' = NewerBook(book, T)
      BY <1>5, <2>1 DEF ReceiveSeries
    <3>2. buffer' \in [Entry -> Nat] /\ book' \in 0..MaxPublished
      BY <3>1, MergeInitialType, NewerBookType DEF SeriesType
    <3> QED BY <1>5, <3>2 DEF ReceiveSeries, SeriesType
  <2>3. QueryType'
    <3>1. PICK f : f = FALSE
      OBVIOUS
    <3>2. query' = [entries |-> T, stale |-> f]
      BY <1>5, <2>1, <3>1 DEF ReceiveSeries
    <3>3. query' \in [entries : (SUBSET Entry) \cup {{None}}, stale : BOOLEAN]
      BY <3>1, <3>2
    <3> QED BY <1>5, <3>3, AskedType DEF ReceiveSeries, QueryType
  <2> QED BY <1>5, <2>2, <2>3, Unmoved, TypePartsNext DEF ReceiveSeries
<1>6. CASE FailSeries
  <2>1. QueryType'
    BY <1>6, AskedType DEF FailSeries, QueryType
  <2>2. CountType'
    BY <1>6 DEF FailSeries, CountType
  <2> QED BY <1>6, <2>1, <2>2, Unmoved, TypePartsNext DEF FailSeries
<1> QED
  BY <1>1, <1>2, <1>3, <1>4, <1>5, <1>6

LEMMA TypeInit == Init => TypeOK
<1> SUFFICES ASSUME Init PROVE TypeOK
  OBVIOUS
<1>1. ServerType
  <2>1. 0 \in 0..published
    BY DEF Init
  <2> QED BY <2>1, Zeros, NoDeliveryType DEF Init, ServerType
<1>2. SocketType
  BY Zeros DEF Init, SocketType
<1>3. SeriesType
  BY Zeros DEF Init, SeriesType
<1>4. QueryType
  <2>1. PICK f : f = FALSE
    OBVIOUS
  <2>2. query = [entries |-> {None}, stale |-> f]
    BY <2>1 DEF Init
  <2>3. query \in [entries : (SUBSET Entry) \cup {{None}}, stale : BOOLEAN]
    BY <2>1, <2>2
  <2> QED BY <2>3, AskedType DEF Init, QueryType
<1>5. CountType /\ HistoryType
  BY Sizes DEF Init, CountType, HistoryType
<1> QED
  BY <1>1, <1>2, <1>3, <1>4, <1>5, TypeParts

LEMMA TypeStep == TypeOK /\ [Next]_vars => TypeOK'
<1> SUFFICES ASSUME TypeOK, [Next]_vars PROVE TypeOK'
  OBVIOUS
<1>1. CASE Next
  BY <1>1, ServerTypes, SocketTypes, SeriesTypes DEF Next, Serve, Client
<1>2. CASE UNCHANGED vars
  BY <1>2, TypeParts, Unmoved, TypePartsNext DEF vars
<1> QED
  BY <1>1, <1>2

---------------------------------------------------------------------------
(* The subscription.  The commands under way alternate, a subscription     *)
(* that is the first of them is new to the server, and the last of them is *)
(* what the tab shows; where none is under way and what the tab shows is   *)
(* not subscribed, the tab knows of the limit or is being told; a          *)
(* connection that is gone leaves nothing behind.                          *)

Linked ==
  /\ live => sock = "open"
  /\ ~live => ~subscribed /\ up = <<>>
  /\ ~subscribed => hub = NoDelivery /\ out = NoDelivery /\ since = None
Queued ==
  /\ live /\ up = <<>> => /\ subscribed => mounted
                          /\ mounted => subscribed \/ limited \/ limits > 0
  /\ up # <<>> => /\ up[1] = "subscribe" => ~subscribed
                  /\ up[Len(up)] = "subscribe" <=> mounted
  /\ \A i \in 1..(Len(up) - 1) : up[i + 1] # up[i]

LEMMA CommandKeeps ==
  ASSUME TypeOK, Linked, Queued, NEW c \in {"subscribe", "unsubscribe"},
         c = "subscribe" <=> ~mounted, mounted' <=> ~mounted, up' = Command(c),
         UNCHANGED <<live, subscribed>>
  PROVE  Queued'
<1> USE TypeParts
<1>1. CASE sock = "open" /\ live
  <2>1. up' = Append(up, c) /\ up \in Seq({"subscribe", "unsubscribe"})
    BY <1>1 DEF Command, SocketType
  <2>2. Len(up') = Len(up) + 1 /\ up'[Len(up) + 1] = c /\ Len(up) \in Nat
        /\ \A i \in 1..Len(up) : up'[i] = up[i]
    BY <2>1
  <2>3. up' # <<>>
    BY <2>2
  <2>4. up'[Len(up')] = "subscribe" <=> mounted'
    BY <2>2
  <2>5. up'[1] = "subscribe" => ~subscribed'
    <3>1. CASE up = <<>>
      BY <1>1, <2>2, <3>1 DEF Queued
    <3>2. CASE up # <<>>
      <4>1. 1 \in 1..Len(up)
        BY <2>1, <3>2, EmptySeq
      <4> QED BY <2>2, <3>2, <4>1 DEF Queued
    <3> QED BY <3>1, <3>2
  <2>6. \A i \in 1..(Len(up') - 1) : up'[i + 1] # up'[i]
    <3> TAKE i \in 1..(Len(up') - 1)
    <3>1. i \in 1..Len(up)
      BY <2>2
    <3>2. CASE i < Len(up)
      <4>1. i + 1 \in 1..Len(up) /\ i \in 1..(Len(up) - 1)
        BY <3>1, <3>2, <2>2
      <4>2. up[i + 1] # up[i]
        BY <4>1 DEF Queued
      <4> QED BY <4>1, <4>2, <3>1, <2>2
    <3>3. CASE i = Len(up)
      <4>1. up # <<>> /\ up'[i + 1] = c /\ up'[i] = up[Len(up)]
        BY <2>2, <3>1, <3>3
      <4>2. up[Len(up)] = "subscribe" <=> mounted
        BY <4>1 DEF Queued
      <4> QED BY <4>1, <4>2
    <3> QED BY <3>1, <3>2, <3>3, <2>2
  <2> QED BY <2>3, <2>4, <2>5, <2>6 DEF Queued
<1>2. CASE ~(sock = "open" /\ live)
  <2>1. ~live /\ up' = up /\ up = <<>>
    BY <1>2 DEF Command, Linked
  <2>2. Len(<<>>) = 0
    OBVIOUS
  <2> QED BY <2>1, <2>2 DEF Queued
<1> QED
  BY <1>1, <1>2

(* A command that is applied does what it says, or is refused.             *)
LEMMA ApplyEffect ==
  ASSUME TypeOK, Linked, Queued, Apply
  PROVE  /\ live /\ up # <<>> /\ up \in Seq({"subscribe", "unsubscribe"}) /\ up' = Tail(up)
         /\ UNCHANGED <<live, mounted, sock, limited>>
         /\ subscribed' => up[1] = "subscribe"
         /\ up[1] = "subscribe" => subscribed' \/ limits' > 0
         /\ UNCHANGED <<hub, out, since>> \/ (hub' = NoDelivery /\ out' = NoDelivery)
         /\ ~subscribed' => hub' = NoDelivery /\ out' = NoDelivery /\ since' = None
         /\ subscribed' => since' = published
<1>1. /\ live /\ up # <<>> /\ up \in Seq({"subscribe", "unsubscribe"}) /\ up' = Tail(up)
      /\ UNCHANGED <<live, mounted, sock, limited>> /\ Head(up) = up[1]
  BY DEF Apply, TypeOK, seriesVars
<1>2. PICK outcome \in Outcomes :
        /\ subscribed' = (outcome \in {"on", "no_room"})
        /\ IF outcome \in {"refused", "no_room"}
           THEN limits' = limits + 1 /\ faults' = faults + 1
           ELSE UNCHANGED <<limits, faults>>
  BY DEF Apply
<1>3. CASE up[1] = "unsubscribe"
  <2>1. outcome = "off"
    BY <1>1, <1>2, <1>3 DEF Outcomes
  <2>2. ~subscribed'
    BY <1>2, <2>1
  <2> QED BY <1>1, <1>3, <2>2 DEF Apply, Linked
<1>4. CASE up[1] = "subscribe"
  <2>1. outcome \in {"on", "refused", "no_room"} /\ ~subscribed
    BY <1>1, <1>2, <1>4 DEF Outcomes, Queued
  <2>2. subscribed' \/ limits' > 0
    <3>1. limits \in Nat
      BY DEF TypeOK
    <3>2. CASE outcome = "refused"
      BY <1>2, <3>1, <3>2
    <3>3. CASE outcome \in {"on", "no_room"}
      BY <1>2, <3>3
    <3> QED BY <2>1, <3>2, <3>3
  <2> QED BY <1>1, <1>4, <2>1, <2>2 DEF Apply, Linked
<1>5. up[1] \in {"subscribe", "unsubscribe"}
  BY <1>1, EmptySeq
<1> QED
  BY <1>3, <1>4, <1>5

LEMMA LinkStep ==
  ASSUME TypeOK, Linked, Queued, [Next]_vars
  PROVE  Linked' /\ Queued'
<1> USE TypeParts
<1>1. CASE Publish
  <2>1. Linked'
    BY <1>1 DEF Publish, Linked, socketVars, limitVars
  <2> QED BY <1>1, <2>1 DEF Publish, Queued, socketVars, limitVars, seriesVars
<1>2. CASE Pump
  <2>1. Linked'
    BY <1>2 DEF Pump, Linked, socketVars, limitVars, NoDelivery
  <2> QED BY <1>2, <2>1 DEF Pump, Queued, socketVars, limitVars, seriesVars
<1>3. CASE Send
  <2>1. Linked'
    BY <1>3 DEF Send, Linked, NoDelivery, history
  <2> QED BY <1>3, <2>1 DEF Send, Queued, seriesVars, limitVars
<1>4. CASE Apply
  <2>1. /\ live /\ up # <<>> /\ up \in Seq({"subscribe", "unsubscribe"}) /\ up' = Tail(up)
        /\ UNCHANGED <<live, mounted, sock, limited>>
        /\ subscribed' => up[1] = "subscribe"
        /\ up[1] = "subscribe" => subscribed' \/ limits' > 0
    BY <1>4, ApplyEffect
  <2>2. Len(up) \in Nat \ {0} /\ Len(up') = Len(up) - 1
        /\ \A i \in 1..(Len(up) - 1) : up'[i] = up[i + 1]
    BY <2>1
  <2>5. Linked'
    BY <1>4, <2>1, ApplyEffect DEF Linked
  <2>6. up' = <<>> => /\ subscribed' => mounted'
                      /\ mounted' => subscribed' \/ limited' \/ limits' > 0
    <3> SUFFICES ASSUME up' = <<>>
                 PROVE  /\ subscribed' => mounted'
                        /\ mounted' => subscribed' \/ limited' \/ limits' > 0
      OBVIOUS
    <3>1. Len(up) = 1
      BY <2>2
    <3> QED BY <2>1, <3>1 DEF Queued
  <2>7. ASSUME up' # <<>>
        PROVE  /\ up'[1] = "subscribe" => ~subscribed'
               /\ up'[Len(up')] = "subscribe" <=> mounted'
    <3>1. Len(up) > 1
      BY <2>1, <2>2, <2>7, EmptySeq
    <3>2. up'[1] = up[2] /\ up[2] # up[1]
      <4>1. 1 \in 1..(Len(up) - 1)
        BY <2>2, <3>1
      <4>2. up'[1] = up[1 + 1] /\ up[1 + 1] # up[1]
        BY <4>1, <2>2 DEF Queued
      <4> QED BY <4>2
    <3>3. up[1] \in {"subscribe", "unsubscribe"} /\ up[2] \in {"subscribe", "unsubscribe"}
      BY <2>1, <2>2, <3>1, ElementOfSeq
    <3>4. up'[Len(up')] = up[Len(up)]
      BY <2>2, <3>1
    <3> QED BY <2>1, <3>2, <3>3, <3>4 DEF Queued
  <2>8. \A i \in 1..(Len(up') - 1) : up'[i + 1] # up'[i]
    <3> TAKE i \in 1..(Len(up') - 1)
    <3>1. i \in 1..(Len(up) - 1) /\ i + 1 \in 1..(Len(up) - 1)
      BY <2>2
    <3>2. up'[i] = up[i + 1] /\ up'[i + 1] = up[i + 1 + 1] /\ up[i + 1 + 1] # up[i + 1]
      BY <2>2, <3>1 DEF Queued
    <3> QED BY <3>2
  <2> QED BY <2>5, <2>6, <2>7, <2>8 DEF Queued
<1>5. CASE Disconnect
  <2>1. up' = <<>> /\ ~live' /\ ~subscribed' /\ hub' = NoDelivery /\ out' = NoDelivery /\ since' = None
    BY <1>5 DEF Disconnect
  <2>2. Len(<<>>) = 0
    OBVIOUS
  <2> QED BY <2>1, <2>2 DEF Linked, Queued
<1>6. CASE OnOpen
  <2>1. ~live /\ ~subscribed
    BY <1>6 DEF OnOpen, Linked
  <2>2. /\ sock' = "open" /\ live' /\ ~subscribed'
        /\ UNCHANGED <<hub, out, mounted, since>>
    BY <1>6, <2>1 DEF OnOpen, seriesVars, history
  <2>3. CASE mounted
    <3>1. PICK q : q = <<"subscribe">>
      OBVIOUS
    <3>2. up' = q /\ Len(q) = 1 /\ q[1] = "subscribe" /\ q # <<>>
      BY <1>6, <2>3, <3>1 DEF OnOpen
    <3> QED BY <2>1, <2>2, <2>3, <3>2 DEF Linked, Queued
  <2>4. CASE ~mounted
    <3>1. up' = <<>> /\ Len(<<>>) = 0
      BY <1>6, <2>4 DEF OnOpen
    <3> QED BY <2>1, <2>2, <2>4, <3>1 DEF Linked, Queued
  <2> QED BY <2>3, <2>4
<1>7. CASE ConnectFail
  BY <1>7 DEF ConnectFail, Linked, Queued, serverVars, seriesVars, history
<1>8. CASE OnClose
  BY <1>8 DEF OnClose, Linked, Queued, serverVars, history
<1>9. CASE Reconnect \/ Listen \/ AddressFails
  BY <1>9 DEF Reconnect, Listen, AddressFails, Linked, Queued, serverVars, seriesVars, limitVars, history
<1>10. CASE OnMessage \/ OnLimit
  <2>1. UNCHANGED <<up, live, subscribed, hub, out, since, sock, mounted>>
    BY <1>10 DEF OnMessage, OnLimit, serverVars, seriesVars, history
  <2>2. mounted /\ (limited \/ limits > 0) => limited' \/ limits' > 0
    BY <1>10 DEF OnMessage, OnLimit, limitVars
  <2> QED BY <2>1, <2>2 DEF Linked, Queued
<1>11. CASE Mount
  <2>1. up' = Command("subscribe") /\ ~mounted /\ mounted' /\ UNCHANGED <<live, subscribed>>
    BY <1>11 DEF Mount, serverVars
  <2>2. Queued'
    BY <2>1, CommandKeeps
  <2>3. Linked'
    BY <1>11 DEF Mount, Linked, serverVars, history, Command
  <2> QED BY <2>2, <2>3
<1>12. CASE Unmount
  <2>1. up' = Command("unsubscribe") /\ mounted /\ ~mounted' /\ UNCHANGED <<live, subscribed>>
    BY <1>12 DEF Unmount, serverVars
  <2>2. Queued'
    BY <2>1, CommandKeeps
  <2>3. Linked'
    BY <1>12 DEF Unmount, Linked, serverVars, Command
  <2> QED BY <2>2, <2>3
<1>13. CASE RefetchGap
  BY <1>13 DEF RefetchGap, Linked, Queued, serverVars, history, socketVars, limitVars
<1>14. CASE ServeSeries
  BY <1>14 DEF ServeSeries, Linked, Queued, serverVars, limitVars, seriesVars, history
<1>15. CASE ReceiveSeries
  BY <1>15 DEF ReceiveSeries, Linked, Queued, serverVars, history, socketVars, limitVars
<1>16. CASE FailSeries
  BY <1>16 DEF FailSeries, Linked, Queued, serverVars, history, socketVars, limitVars, seriesVars
<1>17. CASE UNCHANGED vars
  BY <1>17 DEF vars, Linked, Queued, serverVars, history, socketVars, limitVars, seriesVars
<1> QED
  BY <1>1, <1>2, <1>3, <1>4, <1>5, <1>6, <1>7, <1>8, <1>9, <1>10, <1>11, <1>12, <1>13,
     <1>14, <1>15, <1>16, <1>17 DEF Next, Serve, Client

---------------------------------------------------------------------------
(* The first subscription of a series, and the entries.                    *)

FromHolds ==
  /\ from # None => mounted /\ from <= published
  /\ from # None /\ up # <<>> => ~subscribed /\ Len(up) = 1
  /\ from # None /\ ~partial /\ ~CloseToTell => live /\ up = <<>> /\ subscribed
Seen ==
  /\ dropped \subseteq 1..published
  /\ ToSet(hub.hist) \subseteq 1..published /\ ToSet(out.hist) \subseteq 1..published

LEMMA EmptyHist == ToSet(NoDelivery.hist) = {} /\ ~NoDelivery.dropped
BY DEF NoDelivery, ToSet

LEMMA LastOne ==
  ASSUME NEW S, NEW s \in Seq(S), s # <<>>, Tail(s) = <<>>
  PROVE  Len(s) = 1
<1>1. Len(s) \in Nat \ {0} /\ Len(Tail(s)) = Len(s) - 1
  BY EmptySeq, HeadTailProperties
<1>2. Len(Tail(s)) = 0
  BY EmptySeq
<1> QED
  BY <1>1, <1>2

(* The series was first subscribed with what was published then.           *)
LEMMA ApplyFrom ==
  ASSUME TypeOK, Linked, Queued, FromHolds, Apply
  PROVE  from' = from
         \/ (from = None /\ mounted /\ up' = <<>> /\ from' = published /\ subscribed')
<1>1. from' = IF mounted /\ up' = <<>> /\ from = None THEN since' ELSE from
  BY DEF Apply
<1> QED
  BY <1>1, ApplyEffect

LEMMA FromStep ==
  ASSUME TypeOK, Linked, Queued, FromHolds, [Next]_vars
  PROVE  FromHolds'
<1> USE TypeParts
<1>1. CASE Publish
  BY <1>1, Sizes DEF Publish, FromHolds, ServerType, HistoryType, socketVars, limitVars, seriesVars, CloseToTell
<1>2. CASE Pump
  BY <1>2 DEF Pump, FromHolds, socketVars, limitVars, seriesVars, CloseToTell
<1>3. CASE Send
  BY <1>3 DEF Send, FromHolds, seriesVars, history, CloseToTell
<1>4. CASE Apply
  <2>1. /\ live /\ up # <<>> /\ up' = Tail(up) /\ sock = "open"
        /\ UNCHANGED <<published, live, sock, mounted, partial>>
    BY <1>4 DEF Apply, seriesVars, Linked
  <2>2. CASE from' = from
    <3>1. CASE from = None
      BY <2>2, <3>1 DEF FromHolds
    <3>2. CASE from # None
      <4>0. partial
        BY <2>1, <3>2 DEF FromHolds, CloseToTell
      <4>1. ~subscribed /\ mounted /\ from <= published
        BY <2>1, <3>2 DEF FromHolds
      <4>2. Len(up) = 1
        BY <2>1, <3>2 DEF FromHolds
      <4>3. up' = <<>>
        BY <2>1, <4>2 DEF SocketType
      <4> QED BY <2>1, <2>2, <4>0, <4>1, <4>3 DEF FromHolds
    <3> QED BY <3>1, <3>2
  <2>3. CASE from = None /\ mounted /\ up' = <<>> /\ from' = published /\ subscribed'
    BY <2>1, <2>3 DEF FromHolds, ServerType
  <2> QED BY <1>4, <2>2, <2>3, ApplyFrom
<1>5. CASE Disconnect
  <2>1. live /\ sock = "open" /\ ~live' /\ up' = <<>> /\ UNCHANGED <<sock, from, published, mounted>>
    BY <1>5 DEF Disconnect, Linked, seriesVars
  <2> QED BY <2>1 DEF FromHolds, CloseToTell
<1>6. CASE OnOpen
  <2>1. ~live /\ ~subscribed /\ sock = "connecting"
    BY <1>6 DEF OnOpen, Linked
  <2>2. UNCHANGED <<from, partial, mounted, published, subscribed>>
        /\ (up' # <<>> => Len(up') = 1)
    BY <1>6 DEF OnOpen, seriesVars, history
  <2> QED BY <2>1, <2>2 DEF FromHolds, CloseToTell
<1>7. CASE ConnectFail
  <2>1. ~live /\ sock # "open" /\ UNCHANGED <<from, partial, mounted, published, subscribed, up>>
    BY <1>7 DEF ConnectFail, serverVars, seriesVars, history, Linked
  <2> QED BY <2>1 DEF FromHolds, CloseToTell
<1>8. CASE OnClose
  <2>1. UNCHANGED <<from, mounted, published, subscribed, up>> /\ partial' = (partial \/ mounted)
    BY <1>8 DEF OnClose, serverVars, history
  <2> QED BY <2>1 DEF FromHolds
<1>9. CASE Reconnect \/ Listen \/ AddressFails
  <2>1. /\ sock' = sock \/ (sock # "open" /\ sock' # "open")
        /\ UNCHANGED <<from, partial, mounted, published, subscribed, up, live>>
    BY <1>9 DEF Reconnect, Listen, AddressFails, serverVars, seriesVars, history
  <2> QED BY <2>1 DEF FromHolds, CloseToTell
<1>10. CASE OnMessage \/ OnLimit
  <2>1. UNCHANGED <<from, mounted, published, subscribed, up, live, sock>>
    BY <1>10 DEF OnMessage, OnLimit, serverVars, seriesVars, history
  <2>2. partial => partial'
    BY <1>10 DEF OnMessage, OnLimit, seriesVars
  <2> QED BY <2>1, <2>2 DEF FromHolds, CloseToTell
<1>11. CASE Mount
  BY <1>11 DEF Mount, FromHolds, history
<1>12. CASE Unmount
  BY <1>12 DEF Unmount, FromHolds
<1>13. CASE RefetchGap
  BY <1>13 DEF RefetchGap, FromHolds, serverVars, socketVars, limitVars, history, CloseToTell
<1>14. CASE ServeSeries
  BY <1>14 DEF ServeSeries, FromHolds, serverVars, socketVars, limitVars, seriesVars, history, CloseToTell
<1>15. CASE ReceiveSeries
  BY <1>15 DEF ReceiveSeries, FromHolds, serverVars, socketVars, limitVars, history, CloseToTell
<1>16. CASE FailSeries
  BY <1>16 DEF FailSeries, FromHolds, serverVars, socketVars, limitVars, seriesVars, history, CloseToTell
<1>17. CASE UNCHANGED vars
  BY <1>17 DEF vars, FromHolds, serverVars, socketVars, limitVars, seriesVars, history, CloseToTell
<1> QED
  BY <1>1, <1>2, <1>3, <1>4, <1>5, <1>6, <1>7, <1>8, <1>9, <1>10, <1>11, <1>12, <1>13,
     <1>14, <1>15, <1>16, <1>17 DEF Next, Serve, Client

LEMMA SeenStep ==
  ASSUME TypeOK, Linked, Queued, Seen, [Next]_vars
  PROVE  Seen'
<1> USE TypeParts
<1>1. CASE Publish
  <2>1. published' = published + 1 /\ published' \in Entry /\ out' = out
    BY <1>1, Sizes DEF Publish, ServerType
  <2>2. ToSet(hub'.hist) \subseteq 1..published'
    <3>0. <<published'>> \in Seq(Entry)
      BY <2>1
    <3>1. PICK q \in Seq(Entry) : q = <<published'>>
      BY <3>0
    <3>2. ToSet(q) = {published'}
      BY <3>1 DEF ToSet
    <3>3. ToSet(Put(hub, q).hist) \subseteq ToSet(hub.hist) \cup ToSet(q)
      BY PutKeeps DEF ServerType
    <3>4. hub' = Put(hub, q) \/ hub' = hub
      BY <1>1, <3>1 DEF Publish
    <3> QED BY <2>1, <3>2, <3>3, <3>4 DEF Seen, ServerType
  <2>3. dropped' \subseteq dropped \cup ToSet(hub.hist)
    BY <1>1 DEF Publish
  <2>4. 1..published \subseteq 1..published'
    BY <2>1 DEF ServerType
  <2> QED BY <2>1, <2>2, <2>3, <2>4 DEF Seen
<1>2. CASE Pump
  <2>1. LeftOf(hub) \in Delivery /\ BatchOf(hub) \in Frame
        /\ ToSet(hub.hist) = ToSet(BatchOf(hub).data) \cup ToSet(LeftOf(hub).hist)
    BY BatchSplits DEF ServerType
  <2>2. ToSet(Merge(out, BatchOf(hub)).hist) \subseteq ToSet(out.hist) \cup ToSet(BatchOf(hub).data)
    BY <2>1, MergeKeeps DEF ServerType
  <2>3. hub' = LeftOf(hub) /\ out' = Merge(out, BatchOf(hub)) /\ published' = published
        /\ dropped' \subseteq dropped \cup ToSet(hub.hist) \cup ToSet(out.hist)
    BY <1>2 DEF Pump
  <2> QED BY <2>1, <2>2, <2>3 DEF Seen
<1>3. CASE Send
  <2>1. ToSet(out.hist) = ToSet(BatchOf(out).data) \cup ToSet(LeftOf(out).hist)
    BY BatchSplits DEF ServerType
  <2>2. out' = LeftOf(out) /\ UNCHANGED <<hub, published, dropped>>
    BY <1>3 DEF Send, history
  <2> QED BY <2>1, <2>2 DEF Seen
<1>4. CASE Apply
  <2>1. UNCHANGED <<dropped, published>>
    BY <1>4 DEF Apply
  <2> QED BY <1>4, <2>1, ApplyEffect, EmptyHist DEF Seen
<1>5. CASE Disconnect
  BY <1>5, EmptyHist DEF Disconnect, Seen
<1>6. CASE \/ OnOpen \/ ConnectFail \/ OnClose \/ Reconnect \/ OnMessage
         \/ OnLimit \/ Listen \/ AddressFails
  BY <1>6 DEF OnOpen, ConnectFail, OnClose, Reconnect, OnMessage, OnLimit, Listen, AddressFails,
              serverVars, history, Seen
<1>7. CASE Mount \/ Unmount
  <2>1. UNCHANGED <<hub, out, published>> /\ (dropped' = dropped \/ dropped' = {})
    BY <1>7 DEF Mount, Unmount, serverVars, history
  <2> QED BY <2>1 DEF Seen
<1>8. CASE RefetchGap \/ ServeSeries \/ ReceiveSeries \/ FailSeries \/ UNCHANGED vars
  BY <1>8 DEF RefetchGap, ServeSeries, ReceiveSeries, FailSeries, vars, serverVars, history, Seen
<1> QED
  BY <1>1, <1>2, <1>3, <1>4, <1>5, <1>6, <1>7, <1>8 DEF Next, Serve, Client

---------------------------------------------------------------------------
(* What is on its way, and what is still to be told.                       *)

LEMMA WayIs ==
  ASSUME NEW n
  PROVE  /\ n \in OnItsWay <=> \/ n \in ToSet(hub.hist) \/ n \in ToSet(out.hist)
                               \/ \E i \in DOMAIN down : n \in ToSet(down[i].data)
         /\ n \in OnItsWay' <=> \/ n \in ToSet(hub'.hist) \/ n \in ToSet(out'.hist)
                                \/ \E i \in DOMAIN down' : n \in ToSet(down'[i].data)
BY DEF OnItsWay

LEMMA SentFrame ==
  ASSUME TypeOK, Send
  PROVE  /\ \A i \in DOMAIN down : i \in DOMAIN down' /\ down'[i] = down[i]
         /\ \E i \in DOMAIN down' : down'[i] = BatchOf(out)
<1>1. down \in Seq(Frame) /\ down' = Append(down, BatchOf(out)) /\ BatchOf(out) \in Frame
  BY BatchSplits DEF Send, TypeOK
<1>2. Len(down') = Len(down) + 1 /\ DOMAIN down = 1..Len(down) /\ DOMAIN down' = 1..Len(down')
      /\ Len(down) \in Nat
  BY <1>1
<1>3. down'[Len(down) + 1] = BatchOf(out) /\ \A i \in 1..Len(down) : down'[i] = down[i]
  BY <1>1
<1>4. Len(down) + 1 \in DOMAIN down' /\ \A i \in DOMAIN down : i \in DOMAIN down'
  BY <1>2
<1> QED
  BY <1>2, <1>3, <1>4

LEMMA TakenFrame ==
  ASSUME TypeOK, OnMessage
  PROVE  /\ Head(down) = down[1] /\ 1 \in DOMAIN down
         /\ \A i \in DOMAIN down : i = 1 \/ (i - 1 \in DOMAIN down' /\ down'[i - 1] = down[i])
         /\ \A i \in DOMAIN down' : i + 1 \in DOMAIN down /\ down'[i] = down[i + 1]
<1>1. down \in Seq(Frame) /\ down # <<>> /\ down' = Tail(down)
  BY DEF OnMessage, TypeOK
<1>2. Len(down) \in Nat \ {0} /\ DOMAIN down = 1..Len(down) /\ DOMAIN down' = 1..(Len(down) - 1)
  BY <1>1, EmptySeq, HeadTailProperties, LenProperties
<1>3. \A i \in 1..(Len(down) - 1) : down'[i] = down[i + 1]
  BY <1>1
<1>4. Head(down) = down[1]
  BY <1>1
<1>5. \A i \in DOMAIN down : i = 1 \/ i - 1 \in DOMAIN down'
  BY <1>2
<1>6. \A i \in DOMAIN down' : i + 1 \in DOMAIN down
  BY <1>2
<1>7. \A i \in DOMAIN down : i = 1 \/ down'[i - 1] = down[i]
  <2> TAKE i \in DOMAIN down
  <2>1. CASE i # 1
    <3>1. i - 1 \in 1..(Len(down) - 1) /\ (i - 1) + 1 = i
      BY <1>2, <2>1
    <3> QED BY <1>3, <3>1
  <2> QED BY <2>1
<1> QED
  BY <1>2, <1>3, <1>4, <1>5, <1>6, <1>7

(* Steps of the deliveries lose nothing without a mark.                    *)
LEMMA PublishKeeps ==
  ASSUME TypeOK, Publish
  PROVE  /\ DropToTell => DropToTell'
         /\ ~DropToTell' => /\ ToSet(hub.hist) \subseteq ToSet(hub'.hist)
                            /\ subscribed => published' \in ToSet(hub'.hist)
<1>1. UNCHANGED <<out, down>> /\ hub \in Delivery /\ published' \in Entry
  BY Sizes DEF Publish, socketVars, limitVars, TypeOK
<1>2. CASE subscribed
  <2>1. <<published'>> \in Seq(Entry)
    BY <1>1
  <2>2. PICK q \in Seq(Entry) : q = <<published'>>
    BY <2>1
  <2>3. ToSet(q) = {published'}
    BY <2>2 DEF ToSet
  <2>4. hub' = Put(hub, q)
    BY <1>2, <2>2 DEF Publish
  <2>5. /\ hub.dropped => hub'.dropped
        /\ ~hub'.dropped => ToSet(hub.hist) \cup ToSet(q) \subseteq ToSet(hub'.hist)
    BY <1>1, <2>4, PutKeeps
  <2> QED BY <1>1, <2>3, <2>5 DEF DropToTell
<1>3. CASE ~subscribed
  <2>1. hub' = hub
    BY <1>3 DEF Publish
  <2> QED BY <1>1, <1>3, <2>1 DEF DropToTell
<1> QED
  BY <1>2, <1>3

LEMMA PumpKeeps ==
  ASSUME TypeOK, Pump
  PROVE  /\ DropToTell => DropToTell'
         /\ ~DropToTell' =>
              ToSet(hub.hist) \cup ToSet(out.hist) \subseteq ToSet(hub'.hist) \cup ToSet(out'.hist)
<1>1. hub \in Delivery /\ out \in Delivery /\ down' = down
  BY DEF Pump, TypeOK, socketVars, limitVars
<1>2. PICK b \in Frame : b = BatchOf(hub)
  BY <1>1, BatchSplits
<1>3. /\ b.dropped = hub.dropped
      /\ ToSet(hub.hist) = ToSet(b.data) \cup ToSet(LeftOf(hub).hist)
  BY <1>1, <1>2, BatchSplits
<1>4. hub' = LeftOf(hub) /\ out' = Merge(out, b)
  BY <1>2 DEF Pump
<1>5. /\ out.dropped \/ b.dropped => out'.dropped
      /\ ~out'.dropped => ToSet(out.hist) \cup ToSet(b.data) \subseteq ToSet(out'.hist)
  BY <1>1, <1>4, MergeKeeps
<1> QED
  BY <1>1, <1>3, <1>4, <1>5 DEF DropToTell

LEMMA SendKeeps ==
  ASSUME TypeOK, Send
  PROVE  /\ DropToTell <=> DropToTell'
         /\ \A n \in OnItsWay : n \in OnItsWay'
<1>1. hub' = hub /\ out' = LeftOf(out) /\ out \in Delivery
  BY DEF Send, TypeOK
<1>2. /\ ~out'.dropped /\ BatchOf(out).dropped = out.dropped
      /\ ToSet(out.hist) = ToSet(BatchOf(out).data) \cup ToSet(out'.hist)
  BY <1>1, BatchSplits
<1>3. DropToTell => DropToTell'
  BY <1>1, <1>2, SentFrame DEF DropToTell
<1>4. DropToTell' => DropToTell
  <2> SUFFICES ASSUME DropToTell' PROVE DropToTell
    OBVIOUS
  <2>1. hub.dropped \/ \E i \in DOMAIN down' : down'[i].dropped
    BY <1>1, <1>2 DEF DropToTell
  <2>2. CASE hub.dropped
    BY <2>2 DEF DropToTell
  <2>3. ASSUME NEW i \in DOMAIN down', down'[i].dropped PROVE DropToTell
    <3>1. down \in Seq(Frame) /\ down' = Append(down, BatchOf(out)) /\ BatchOf(out) \in Frame
      BY BatchSplits DEF Send, TypeOK
    <3>2. Len(down') = Len(down) + 1 /\ i \in 1..(Len(down) + 1) /\ DOMAIN down = 1..Len(down)
      BY <3>1, <2>3
    <3>3. CASE i \in DOMAIN down
      BY <2>3, <3>3, SentFrame DEF DropToTell
    <3>4. CASE i = Len(down) + 1
      <4>1. down'[i] = BatchOf(out)
        BY <3>1, <3>4
      <4> QED BY <4>1, <2>3, <1>2 DEF DropToTell
    <3> QED BY <3>1, <3>2, <3>3, <3>4
  <2> QED BY <2>1, <2>2, <2>3
<1>5. ASSUME NEW n \in OnItsWay PROVE n \in OnItsWay'
  <2>1. CASE n \in ToSet(hub.hist)
    BY <2>1, <1>1, WayIs
  <2>2. CASE n \in ToSet(out.hist)
    BY <2>2, <1>2, SentFrame, WayIs
  <2>3. CASE \E i \in DOMAIN down : n \in ToSet(down[i].data)
    BY <2>3, SentFrame, WayIs
  <2> QED BY <2>1, <2>2, <2>3, WayIs
<1> QED
  BY <1>3, <1>4, <1>5

LEMMA MessageKeeps ==
  ASSUME TypeOK, OnMessage
  PROVE  /\ DropToTell => DropToTell' \/ Head(down).dropped
         /\ DropToTell' => DropToTell
         /\ \A n \in Entry : buffer[n] > 0 => buffer'[n] > 0
         /\ mounted => \A n \in Entry : n \in OnItsWay => buffer'[n] > 0 \/ n \in OnItsWay'
<1>1. UNCHANGED <<hub, out>> /\ buffer \in [Entry -> Nat]
  BY DEF OnMessage, serverVars, TypeOK
<1>2. PICK f : f = Head(down)
  OBVIOUS
<1>3. f = down[1]
  BY <1>2, TakenFrame
<1>4. buffer' = [n \in Entry |-> IF mounted /\ n \in ToSet(f.data) THEN buffer[n] + 1 ELSE buffer[n]]
  BY <1>2 DEF OnMessage
<1>5. \A n \in Entry : buffer[n] > 0 => buffer'[n] > 0
  BY <1>1, <1>4
<1>6. DropToTell => DropToTell' \/ f.dropped
  <2>1. (\E i \in DOMAIN down : down[i].dropped) => (\E i \in DOMAIN down' : down'[i].dropped) \/ f.dropped
    BY <1>3, TakenFrame
  <2> QED BY <1>1, <2>1 DEF DropToTell
<1>7. DropToTell' => DropToTell
  <2>1. (\E i \in DOMAIN down' : down'[i].dropped) => \E i \in DOMAIN down : down[i].dropped
    BY TakenFrame
  <2> QED BY <1>1, <2>1 DEF DropToTell
<1>8. ASSUME mounted, NEW n \in Entry, n \in OnItsWay PROVE buffer'[n] > 0 \/ n \in OnItsWay'
  <2>1. CASE n \in ToSet(hub.hist) \/ n \in ToSet(out.hist)
    BY <2>1, <1>1, WayIs
  <2>2. ASSUME NEW i \in DOMAIN down, n \in ToSet(down[i].data)
        PROVE  buffer'[n] > 0 \/ n \in OnItsWay'
    <3>1. CASE i = 1
      <4>1. buffer'[n] = buffer[n] + 1
        BY <1>3, <1>4, <1>8, <2>2, <3>1
      <4> QED BY <4>1, <1>1
    <3>2. CASE i # 1
      BY <2>2, <3>2, TakenFrame, WayIs
    <3> QED BY <3>1, <3>2
  <2> QED BY <1>8, <2>1, <2>2, WayIs
<1> QED
  BY <1>2, <1>5, <1>6, <1>7, <1>8

---------------------------------------------------------------------------
(* Losses are known.                                                       *)

Covered(n) == buffer[n] > 0 \/ n \in OnItsWay
Marked == partial \/ DropToTell \/ CloseToTell

LEMMA LossIs ==
  /\ LossIsKnown <=> (mounted /\ from # None /\ ~Marked => \A n \in (from + 1)..published : Covered(n))
  /\ LossIsKnown' <=>
       (mounted' /\ from' # None /\ ~Marked' => \A n \in (from' + 1)..published' : Covered(n)')
BY DEF LossIsKnown, Covered, Marked

LEMMA LossStep ==
  ASSUME TypeOK, TypeOK', Linked, Queued, FromHolds, LossIsKnown, [Next]_vars
  PROVE  LossIsKnown'
<1> SUFFICES ASSUME mounted', from' # None, ~Marked', NEW n \in (from' + 1)..published'
             PROVE  Covered(n)'
  BY LossIs
<1> USE TypeParts
<1>0. n \in Entry
  <2>1. from' \in 0..None /\ published' \in 0..MaxPublished
    BY DEF TypeOK
  <2>2. PICK a, b : a = from' /\ b = published'
    OBVIOUS
  <2>3. a \in 0..(MaxPublished + 1) /\ b \in 0..MaxPublished /\ n \in (a + 1)..b
    BY <2>1, <2>2, Sizes
  <2>4. n \in 1..MaxPublished
    BY <2>3, Sizes
  <2> QED BY <2>4, Sizes
(* A step that leaves the publications, the deliveries and the marks alone. *)
<1>a. ASSUME UNCHANGED <<published, from, mounted>>, ~Marked, Covered(n) => Covered(n)'
      PROVE  Covered(n)'
  <2>1. n \in (from + 1)..published
    BY <1>a
  <2> QED BY <1>a, <2>1, LossIs
<1>1. CASE Publish
  <2>0. published \in Nat /\ from \in Nat
    BY Sizes DEF ServerType, HistoryType
  <2>1. /\ published' = published + 1
        /\ UNCHANGED <<mounted, from, partial, buffer, out, down, sock, live>>
    BY <1>1 DEF Publish, socketVars, limitVars, seriesVars
  <2>2. ~DropToTell' /\ ~Marked
    BY <1>1, <2>1, PublishKeeps DEF Marked, CloseToTell
  <2>3. subscribed
    BY <2>1, <2>2 DEF FromHolds, Marked
  <2>4. ToSet(hub.hist) \subseteq ToSet(hub'.hist) /\ published' \in ToSet(hub'.hist)
    BY <1>1, <2>2, <2>3, PublishKeeps
  <2>5. CASE n = published'
    BY <2>4, <2>5, WayIs DEF Covered
  <2>6. CASE n # published'
    <3>1. n \in (from + 1)..published
      BY <2>0, <2>1, <2>6
    <3>2. Covered(n)
      BY <2>1, <2>2, <3>1, LossIs
    <3> QED BY <2>1, <2>4, <3>2, WayIs DEF Covered
  <2> QED BY <2>5, <2>6
<1>2. CASE Pump
  <2>1. UNCHANGED <<published, mounted, from, partial, buffer, down, sock, live>>
    BY <1>2 DEF Pump, socketVars, limitVars, seriesVars
  <2>2. ~DropToTell' /\ ~Marked
    BY <1>2, <2>1, PumpKeeps DEF Marked, CloseToTell
  <2>3. ToSet(hub.hist) \cup ToSet(out.hist) \subseteq ToSet(hub'.hist) \cup ToSet(out'.hist)
    BY <1>2, <2>2, PumpKeeps
  <2>4. Covered(n) => Covered(n)'
    BY <2>1, <2>3, WayIs DEF Covered
  <2> QED BY <1>a, <2>1, <2>2, <2>4
<1>3. CASE Send
  <2>1. UNCHANGED <<published, mounted, from, partial, buffer, sock, live>>
    BY <1>3 DEF Send, seriesVars, history
  <2>2. ~Marked /\ (Covered(n) => Covered(n)')
    BY <1>3, <2>1, SendKeeps DEF Marked, CloseToTell, Covered
  <2> QED BY <1>a, <2>1, <2>2
<1>4. CASE Apply
  <2>1. up # <<>> /\ UNCHANGED <<mounted, partial, sock, live, published>>
    BY <1>4 DEF Apply, seriesVars
  <2>2. CASE from' = from
    BY <2>1, <2>2 DEF FromHolds, Marked, CloseToTell
  <2>3. CASE from' = published
    <3>1. published \in Nat
      BY DEF ServerType
    <3>2. n \in (published + 1)..published
      BY <2>1, <2>3
    <3> QED BY <3>1, <3>2
  <2> QED BY <1>4, <2>2, <2>3, ApplyFrom
<1>5. CASE Disconnect
  <2>1. sock' = "open" /\ ~live'
    BY <1>5 DEF Disconnect, Linked
  <2> QED BY <2>1 DEF Marked, CloseToTell
<1>6. CASE OnOpen \/ ConnectFail
  <2>1. sock # "open" /\ ~live /\ UNCHANGED <<from, partial>>
    BY <1>6 DEF OnOpen, ConnectFail, Linked, seriesVars, history
  <2> QED BY <2>1 DEF FromHolds, Marked, CloseToTell
<1>7. CASE OnClose
  <2>1. partial' = (partial \/ mounted) /\ mounted' = mounted
    BY <1>7 DEF OnClose
  <2> QED BY <2>1 DEF Marked
<1>8. CASE Reconnect \/ Listen \/ AddressFails \/ OnLimit
  <2>1. /\ UNCHANGED <<published, mounted, from, partial, buffer, hub, out, down, live>>
        /\ sock' = sock \/ (sock # "open" /\ sock' # "open")
    BY <1>8 DEF Reconnect, Listen, AddressFails, OnLimit, serverVars, seriesVars, history
  <2>2. ~Marked /\ (Covered(n) => Covered(n)')
    BY <2>1, WayIs DEF Marked, CloseToTell, DropToTell, Covered
  <2> QED BY <1>a, <2>1, <2>2
<1>9. CASE OnMessage
  <2>1. /\ UNCHANGED <<published, mounted, from, live, sock>>
        /\ partial' = (partial \/ Head(down).dropped)
    BY <1>9 DEF OnMessage, serverVars, history
  <2>2. ~Marked
    BY <1>9, <2>1, MessageKeeps DEF Marked, CloseToTell
  <2>3. Covered(n) => Covered(n)'
    BY <1>0, <1>9, <2>1, MessageKeeps DEF Covered
  <2> QED BY <1>a, <2>1, <2>2, <2>3
<1>10. CASE Mount
  BY <1>10 DEF Mount, FromHolds, history
<1>11. CASE Unmount
  BY <1>11 DEF Unmount
<1>12. CASE ReceiveSeries
  <2>1. UNCHANGED <<published, mounted, from, partial, hub, out, down, live, sock>>
    BY <1>12 DEF ReceiveSeries, serverVars, socketVars, limitVars, history
  <2>2. buffer[n] > 0 => buffer'[n] > 0
    <3>1. buffer' = MergeInitial(buffer, request.entries) /\ buffer \in [Entry -> Nat]
      BY <1>12 DEF ReceiveSeries, SeriesType
    <3> QED BY <1>0, <3>1, MergeInitialType
  <2>3. ~Marked /\ (Covered(n) => Covered(n)')
    BY <2>1, <2>2, WayIs DEF Marked, CloseToTell, DropToTell, Covered
  <2> QED BY <1>a, <2>1, <2>3
<1>13. CASE RefetchGap \/ ServeSeries \/ FailSeries \/ UNCHANGED vars
  <2>1. UNCHANGED <<published, mounted, from, partial, buffer, hub, out, down, live, sock>>
    BY <1>13 DEF RefetchGap, ServeSeries, FailSeries, vars, serverVars, socketVars, limitVars, seriesVars, history
  <2>2. ~Marked /\ (Covered(n) => Covered(n)')
    BY <2>1, WayIs DEF Marked, CloseToTell, DropToTell, Covered
  <2> QED BY <1>a, <2>1, <2>2
<1> QED
  BY <1>1, <1>2, <1>3, <1>4, <1>5, <1>6, <1>7, <1>8, <1>9, <1>10, <1>11, <1>12, <1>13
     DEF Next, Serve, Client

---------------------------------------------------------------------------
(* Drops are recovered: what was dropped is in the buffer, or the gap is   *)
(* still to be told, or a request is to come, or its answer has the entry. *)

Told(n) ==
  \/ buffer[n] > 0 \/ DropToTell \/ CloseToTell \/ gapTimer
  \/ request.kind = "sent" \/ (request.kind = "answer" /\ n \in request.entries)
  \/ (request.kind = "none" /\ failed)
Recovering == mounted => \A n \in dropped \ overlooked : n > base /\ n > from => Told(n)

LEMMA RecoverStep ==
  ASSUME TypeOK, TypeOK', Linked, Queued, FromHolds, Seen, Recovering, [Next]_vars
  PROVE  Recovering'
<1> SUFFICES ASSUME mounted', NEW n \in dropped' \ overlooked', n > base', n > from' PROVE Told(n)'
  BY DEF Recovering
<1> USE TypeParts
<1>0. n \in Entry /\ base \in Nat /\ published \in Nat
  BY Sizes DEF TypeOK
<1>a. ASSUME UNCHANGED <<dropped, overlooked, base, from, mounted>>
      PROVE  Told(n)
  BY <1>a DEF Recovering
<1>1. CASE Publish
  <2>1. /\ UNCHANGED <<base, mounted, from, gapTimer, buffer, out, down, sock, live, request, failed, overlooked>>
        /\ dropped' = dropped \cup (ToSet(hub.hist) \ ToSet(hub'.hist))
    BY <1>1 DEF Publish, socketVars, limitVars, seriesVars, queryVars
  <2>2. CASE n \in dropped
    <3>1. Told(n)
      BY <2>1, <2>2 DEF Recovering
    <3> QED BY <1>1, <2>1, <3>1, PublishKeeps DEF Told, CloseToTell
  <2>3. CASE n \notin dropped
    BY <1>1, <2>1, <2>3, PublishKeeps DEF Told
  <2> QED BY <2>2, <2>3
<1>2. CASE Pump
  <2>1. /\ UNCHANGED <<base, mounted, from, gapTimer, buffer, down, sock, live, request, failed, overlooked>>
        /\ dropped' = dropped \cup
             ((ToSet(out.hist) \cup ToSet(hub.hist)) \ (ToSet(out'.hist) \cup ToSet(hub'.hist)))
    BY <1>2 DEF Pump, socketVars, limitVars, seriesVars, queryVars
  <2>2. CASE n \in dropped
    <3>1. Told(n)
      BY <2>1, <2>2 DEF Recovering
    <3> QED BY <1>2, <2>1, <3>1, PumpKeeps DEF Told, CloseToTell
  <2>3. CASE n \notin dropped
    BY <1>2, <2>1, <2>3, PumpKeeps DEF Told
  <2> QED BY <2>2, <2>3
<1>3. CASE Send
  <2>1. UNCHANGED <<base, mounted, from, gapTimer, buffer, sock, live, request, failed, dropped, overlooked>>
    BY <1>3 DEF Send, seriesVars, queryVars, history
  <2> QED BY <1>3, <1>a, <2>1, SendKeeps DEF Told, CloseToTell
<1>4. CASE Apply
  <2>1. /\ up # <<>>
        /\ UNCHANGED <<base, mounted, gapTimer, buffer, down, sock, live, request, failed, dropped, overlooked>>
    BY <1>4 DEF Apply, seriesVars, queryVars
  <2>2. CASE from' = from
    <3>1. CASE from = None
      BY <1>0, <2>2, <3>1, Sizes
    <3>2. CASE from # None
      <4>1. hub = NoDelivery /\ out = NoDelivery /\ hub' = NoDelivery /\ out' = NoDelivery
        BY <1>4, <2>1, <3>2, ApplyEffect DEF FromHolds, Linked
      <4>2. Told(n)
        BY <1>a, <2>1, <2>2
      <4> QED BY <2>1, <4>1, <4>2 DEF Told, DropToTell, CloseToTell
    <3> QED BY <3>1, <3>2
  <2>3. CASE from' = published
    <3>1. n \in 1..published
      BY <2>1 DEF Seen
    <3> QED BY <1>0, <2>3, <3>1
  <2> QED BY <1>4, <2>2, <2>3, ApplyFrom
<1>5. CASE Disconnect
  <2>1. sock' = "open" /\ ~live'
    BY <1>5 DEF Disconnect, Linked
  <2> QED BY <2>1 DEF Told, CloseToTell
<1>6. CASE OnOpen \/ ConnectFail
  <2>1. /\ sock # "open"
        /\ UNCHANGED <<base, mounted, from, gapTimer, buffer, hub, out, down, request, failed, dropped, overlooked>>
    BY <1>6 DEF OnOpen, ConnectFail, serverVars, seriesVars, queryVars, history
  <2> QED BY <1>a, <2>1 DEF Told, CloseToTell, DropToTell
<1>7. CASE OnClose
  <2>1. gapTimer' = (gapTimer \/ mounted) /\ mounted' = mounted
    BY <1>7 DEF OnClose
  <2> QED BY <2>1 DEF Told
<1>8. CASE Reconnect \/ Listen \/ AddressFails \/ OnLimit
  <2>1. /\ UNCHANGED <<base, mounted, from, gapTimer, buffer, hub, out, down, live, request, failed, dropped, overlooked>>
        /\ sock' = sock \/ (sock # "open" /\ sock' # "open")
    BY <1>8 DEF Reconnect, Listen, AddressFails, OnLimit, serverVars, seriesVars, queryVars, history
  <2> QED BY <1>a, <2>1 DEF Told, CloseToTell, DropToTell
<1>9. CASE OnMessage
  <2>1. /\ UNCHANGED <<base, mounted, from, live, sock, request, failed, dropped, overlooked>>
        /\ gapTimer' = (gapTimer \/ Head(down).dropped)
    BY <1>9 DEF OnMessage, serverVars, queryVars, history
  <2> QED BY <1>0, <1>9, <1>a, <2>1, MessageKeeps DEF Told, CloseToTell
<1>10. CASE Mount
  <2>1. from' = None
    BY <1>10 DEF Mount, FromHolds, history
  <2> QED BY <1>0, <2>1, Sizes
<1>11. CASE Unmount
  BY <1>11 DEF Unmount
<1>12. CASE RefetchGap
  <2>1. CASE Joins
    <3>1. request' = request /\ request.kind # "none" /\ dropped' = dropped
          /\ overlooked' = overlooked \cup Missing
      BY <1>12, <2>1 DEF RefetchGap, Joins
    <3>2. CASE request.kind = "answer"
      BY <3>1, <3>2 DEF Missing, Told
    <3>3. request.kind \in {"none", "sent", "answer"}
      BY DEF QueryType, Asked, Answer
    <3> QED BY <3>1, <3>2, <3>3 DEF Told
  <2>2. CASE ~Joins
    <3>1. mounted /\ request' = [kind |-> IF mounted THEN "sent" ELSE "none"]
      BY <1>12, <2>2 DEF RefetchGap
    <3>2. request'.kind = "sent"
      BY <3>1
    <3> QED BY <3>2 DEF Told
  <2> QED BY <2>1, <2>2
<1>13. CASE ServeSeries
  <2>1. request' = [kind |-> "answer", entries |-> (base + 1)..published]
    BY <1>13 DEF ServeSeries, Answer
  <2>2. UNCHANGED <<base, dropped>>
    BY <1>13 DEF ServeSeries, serverVars, history
  <2>3. n \in (base + 1)..published
    <3>1. n \in 1..published /\ n > base
      BY <2>2 DEF Seen
    <3> QED BY <1>0, <3>1
  <2>4. request'.kind = "answer" /\ n \in request'.entries
    BY <2>1, <2>3
  <2> QED BY <2>4 DEF Told
<1>14. CASE ReceiveSeries
  <2>1. UNCHANGED <<base, mounted, from, gapTimer, hub, out, down, live, sock, dropped, overlooked>>
    BY <1>14 DEF ReceiveSeries, serverVars, socketVars, limitVars, history
  <2>2. buffer[n] > 0 \/ n \in request.entries => buffer'[n] > 0
    <3>1. buffer' = MergeInitial(buffer, request.entries) /\ buffer \in [Entry -> Nat]
      BY <1>14 DEF ReceiveSeries, SeriesType
    <3> QED BY <1>0, <3>1, MergeInitialType
  <2>3. request.kind = "answer"
    BY <1>14 DEF ReceiveSeries
  <2> QED BY <1>a, <2>1, <2>2, <2>3 DEF Told, CloseToTell, DropToTell
<1>15. CASE FailSeries
  <2>1. request'.kind = "none" /\ failed'
    BY <1>15 DEF FailSeries
  <2> QED BY <2>1 DEF Told
<1>16. CASE UNCHANGED vars
  <2>1. UNCHANGED <<base, mounted, from, gapTimer, buffer, hub, out, down, live, sock, request, failed, dropped, overlooked>>
    BY <1>16 DEF vars, serverVars, socketVars, limitVars, seriesVars, queryVars, history
  <2> QED BY <1>a, <2>1 DEF Told, CloseToTell, DropToTell
<1> QED
  BY <1>1, <1>2, <1>3, <1>4, <1>5, <1>6, <1>7, <1>8, <1>9, <1>10, <1>11, <1>12, <1>13,
     <1>14, <1>15, <1>16 DEF Next, Serve, Client

---------------------------------------------------------------------------
(* The theorems.                                                           *)

FeedInv ==
  /\ TypeOK /\ Linked /\ Queued /\ FromHolds /\ Seen
  /\ LossIsKnown /\ Recovering

LEMMA FeedInit == Init => FeedInv
<1> SUFFICES ASSUME Init PROVE FeedInv
  OBVIOUS
<1>1. TypeOK
  BY TypeInit
<1>2. Linked /\ FromHolds
  BY DEF Init, Linked, FromHolds
<1>3. Queued
  <2>1. Len(<<>>) = 0
    BY EmptySeq
  <2> QED BY <2>1 DEF Init, Queued
<1>4. Seen
  BY EmptyHist DEF Init, Seen
<1>5. LossIsKnown /\ Recovering
  BY DEF Init, LossIsKnown, Recovering
<1> QED
  BY <1>1, <1>2, <1>3, <1>4, <1>5 DEF FeedInv

LEMMA FeedStep == FeedInv /\ [Next]_vars => FeedInv'
<1> SUFFICES ASSUME FeedInv, [Next]_vars PROVE FeedInv'
  OBVIOUS
<1> USE DEF FeedInv
<1>1. TypeOK'
  BY TypeStep
<1>2. Linked' /\ Queued'
  BY LinkStep
<1>3. FromHolds' /\ Seen'
  BY FromStep, SeenStep
<1>4. LossIsKnown'
  BY <1>1, LossStep
<1>5. Recovering'
  BY <1>1, RecoverStep
<1> QED
  BY <1>1, <1>2, <1>3, <1>4, <1>5

LEMMA FeedAlways == Spec => []FeedInv
<1>1. Init /\ [][Next]_vars => []FeedInv
  BY FeedInit, FeedStep, PTL
<1> QED
  BY <1>1, PTL DEF Spec

(* Every variable keeps its type: the server's deliveries, the commands    *)
(* and frames under way, the series and its request.                       *)
THEOREM FeedTypeCorrect == Spec => []TypeOK
<1>1. FeedInv => TypeOK
  BY DEF FeedInv
<1> QED
  BY <1>1, FeedAlways, PTL

(* The server's subscription is what the tab shows once the commands have  *)
(* come through (ws.ts, apply_commands), or the tab knows or is being told *)
(* of the limit that refused it, for every number of publications,         *)
(* reopened windows and lost connections.                                  *)
THEOREM SubscriptionsFollow == Spec => []SubscriptionFollows
<1>1. FeedInv => SubscriptionFollows
  BY DEF FeedInv, Queued, SubscriptionFollows, TypeOK
<1> QED
  BY <1>1, FeedAlways, PTL

(* A publication the series has not got is on its way, or the history is   *)
(* marked partial or about to be (delivery.py, markHistoryPartial), for    *)
(* every capacity and every size of batch.                                 *)
THEOREM LossesAreKnown == Spec => []LossIsKnown
<1>1. FeedInv => LossIsKnown
  BY DEF FeedInv
<1> QED
  BY <1>1, FeedAlways, PTL

(* What a delivery dropped is in the buffer again when no gap is left to   *)
(* tell and no request is to come (eventStream.ts, get_series), unless the *)
(* request failed, or it is missing in the answer of a first request that  *)
(* was under way when the gap was told, and that the query library keeps.  *)
THEOREM DropsComeBack == Spec => []DropsAreRecovered
<1>1. FeedInv => DropsAreRecovered
  BY DEF FeedInv, Recovering, Told, DropsAreRecovered
<1> QED
  BY <1>1, FeedAlways, PTL
=============================================================================
