---------------------------- MODULE PaperAccount ----------------------------
(***************************************************************************)
(* The local cash account (hoga/trading/paper.py): orders matched against  *)
(* the live book, with liquidity that only a growing displayed depth       *)
(* replenishes.  The account is one JSON document; every operation works   *)
(* on a copy under the account-wide lock and publishes it with an atomic   *)
(* commit, so an operation is one action on the variable doc, and one that *)
(* fails, or crashes, leaves doc as it was.  Between two reads inside an   *)
(* operation only the clock moves: midnight may pass while the book is     *)
(* awaited.  The live feed is external: any snapshot at any time.          *)
(***************************************************************************)
EXTENDS Integers, Sequences, FiniteSetsExt, SequencesExt

CONSTANTS
  Code,       \* instruments
  MaxPrice,   \* prices are 1..MaxPrice
  Quantity,   \* order quantities
  Depth,      \* the (asks, bids) a snapshot may show, each [price -> quantity]
  MaxTime,    \* snapshot times are 0..MaxTime
  Cmd,        \* command ids
  StartCash,  \* the cash of a new account
  ResetCash,  \* the cash and the holdings an operator may reset to
  ResetHeld,
  MaxDay,     \* bound on the calendar
  MaxShown    \* bound on the liquidity the feed ever adds at one price

Price == 1..MaxPrice
Side == {"BUY", "SELL"}
Open == {"PENDING", "PARTIAL_FILLED"}
Over == {"FILLED", "CANCELED", "REPLACED", "EXPIRED"}

ASSUME PaperAssumption ==
  /\ MaxPrice \in Nat \ {0} /\ Quantity \subseteq Nat \ {0}
  /\ StartCash \in Nat /\ ResetCash \subseteq Nat /\ ResetHeld \subseteq Nat
  /\ MaxTime \in Nat /\ MaxDay \in Nat /\ MaxShown \in Nat
  /\ \A d \in Depth : d \in [asks : [Price -> Nat], bids : [Price -> Nat]]
  \* _book gives no snapshot that is one-sided or crossed
  /\ \A d \in Depth : /\ \E p \in Price : d.asks[p] > 0
                      /\ \E p \in Price : d.bids[p] > 0
                      /\ \A p, q \in Price : d.asks[p] > 0 /\ d.bids[q] > 0 => q < p

VARIABLES
  doc,   \* durable: the account document
  day,   \* today
  base,  \* history: cash and holdings of the last reset
  runs   \* history: how often each command took effect

vars == <<doc, day, base, runs>>

\* The side of the book an order trades with.  shown and taken are history: what
\* the feed has added at a price and what orders have taken there.
Levels == [depth : [Price -> Nat], available : [Price -> Nat],
           shown : [Price -> Nat], taken : [Price -> Nat]]

Orders == {o \in [code : Code, side : Side, price : Price, quantity : Nat \ {0},
                  filled : Nat, amount : Nat, status : Open \cup Over, day : 0..MaxDay] :
             o.filled <= o.quantity}

TypeOK ==
  /\ doc \in [cash : Int, held : [Code -> Int], orders : Seq(Orders),
              books : [Code -> [time : 0..MaxTime, asks : Levels, bids : Levels]],
              commands : SUBSET Cmd]
  /\ day \in 0..MaxDay
  /\ base \in [cash : Nat, held : [Code -> Nat]]
  /\ runs \in [Cmd -> Nat]

NoLevels == LET none == [p \in Price |-> 0]
            IN  [depth |-> none, available |-> none, shown |-> none, taken |-> none]

Init ==
  /\ doc = [cash |-> StartCash, held |-> [c \in Code |-> 0], orders |-> <<>>,
            books |-> [c \in Code |-> [time |-> 0, asks |-> NoLevels, bids |-> NoLevels]],
            commands |-> {}]
  /\ day = 0
  /\ base = [cash |-> StartCash, held |-> [c \in Code |-> 0]]
  /\ runs = [m \in Cmd |-> 0]

-----------------------------------------------------------------------------
(* Reservations *)

Remainder(o) == o.quantity - o.filled

OpenOrders(d, c, s) ==
  {i \in DOMAIN d.orders : d.orders[i].code = c /\ d.orders[i].side = s
                           /\ d.orders[i].status \in Open}

\* _power: cash less the reservations of every open buy order of the account.
Power(d) ==
  LET reserved(i) == d.orders[i].price * Remainder(d.orders[i])
  IN  d.cash - MapThenSumSet(reserved, UNION {OpenOrders(d, c, "BUY") : c \in Code})

Sellable(d, c) ==
  LET reserved(i) == Remainder(d.orders[i])
  IN  d.held[c] - MapThenSumSet(reserved, OpenOrders(d, c, "SELL"))

\* Mutant of Fits: the cash is compared, not what the other orders leave of it.
FitsCash(d, c, s, p, q) == IF s = "BUY" THEN p * q <= d.cash ELSE q <= Sellable(d, c)

\* _reserve.
Fits(d, c, s, p, q) == IF s = "BUY" THEN p * q <= Power(d) ELSE q <= Sellable(d, c)

-----------------------------------------------------------------------------
(* Matching: the nested loops of _match *)

Against(s) == IF s = "BUY" THEN "asks" ELSE "bids"
Crosses(o, p) == IF o.side = "BUY" THEN p <= o.price ELSE p >= o.price

\* Mutant of Before: time priority alone.
BeforeInTime(d, i, j) == i < j

\* Price, then time.
Before(d, i, j) ==
  LET o == d.orders[i]
      r == d.orders[j]
  IN  IF o.price = r.price THEN i < j
      ELSE IF o.side = "BUY" THEN o.price > r.price ELSE o.price < r.price

\* Order i takes what is available at price p.
Fill(d, i, p) ==
  LET o == d.orders[i]
      levels == d.books[o.code][Against(o.side)]
      q == IF Crosses(o, p) THEN Min({Remainder(o), levels.available[p]}) ELSE 0
      sign == IF o.side = "BUY" THEN 1 ELSE -1
  IN  IF q = 0 THEN d
      ELSE [d EXCEPT
             !.orders[i] = [o EXCEPT
                !.filled = @ + q,
                !.amount = @ + p * q,
                !.status = IF Remainder(o) = q THEN "FILLED" ELSE "PARTIAL_FILLED"],
             !.books[o.code][Against(o.side)].available[p] = @ - q,
             !.books[o.code][Against(o.side)].taken[p] = @ + q,
             !.held[o.code] = @ + sign * q,
             !.cash = @ - sign * p * q]

\* Best price first.
Prices(s) == [k \in Price |-> IF s = "BUY" THEN k ELSE MaxPrice + 1 - k]

\* The inner loop; it stops where prices no longer cross or nothing remains.
FillOrder(d, i) ==
  LET after[k \in 0..MaxPrice] ==
        IF k = 0 THEN d ELSE Fill(after[k - 1], i, Prices(d.orders[i].side)[k])
  IN  after[MaxPrice]

MatchSide(d, c, s) ==
  LET first(i, j) == Before(d, i, j)
      pending == SetToSortSeq(OpenOrders(d, c, s), first)
      after[k \in 0..Len(pending)] ==
        IF k = 0 THEN d ELSE FillOrder(after[k - 1], pending[k])
  IN  after[Len(pending)]

Match(d, c) == MatchSide(MatchSide(d, c, "BUY"), c, "SELL")

-----------------------------------------------------------------------------
(* Reconciling with the clock and the book *)

\* Mutant of Replenish: a snapshot restores what it displays.
ReplenishAll(old, depth) ==
  [old EXCEPT !.depth = depth, !.available = depth,
              !.shown = [p \in Price |-> @[p] + Max({0, depth[p] - old.depth[p]})]]

\* New liquidity is the growth of the displayed depth, never above the depth.
Replenish(old, depth) ==
  [old EXCEPT
    !.depth = depth,
    !.available = [p \in Price |->
       Min({depth[p], Max({0, old.available[p] + depth[p] - old.depth[p]})})],
    !.shown = [p \in Price |-> @[p] + Max({0, depth[p] - old.depth[p]})]]

Retire(d, I, status) ==
  LET retire(i, e) == [e EXCEPT !.orders[i].status = status]
  IN  FoldSet(retire, d, I)

\* Mutant of Expired: an order lives one day more.
ExpiredDayLate(d, today) ==
  Retire(d, {i \in DOMAIN d.orders : d.orders[i].status \in Open /\ d.orders[i].day + 1 < today},
         "EXPIRED")

Expired(d, today) ==
  Retire(d, {i \in DOMAIN d.orders : d.orders[i].status \in Open /\ d.orders[i].day < today},
         "EXPIRED")

Refreshed(d, c, t, depth) ==
  [d EXCEPT !.books[c] = [time |-> t, asks |-> Replenish(@.asks, depth.asks),
                          bids |-> Replenish(@.bids, depth.bids)]]

WithinBound(d) ==
  \A c \in Code, p \in Price :
    d.books[c].asks.shown[p] <= MaxShown /\ d.books[c].bids.shown[p] <= MaxShown

\* A snapshot whose time is before the book's is refused.
Times(d, c) == {t \in 0..MaxTime : t >= d.books[c].time}

\* _reconcile with required: a fresh two-sided snapshot, not from the past.
Required(d, c) ==
  {e \in {Match(Refreshed(Expired(d, day), c, t, s), c) : t \in Times(d, c), s \in Depth} :
     WithinBound(e)}

\* Otherwise an absent, stale or regressed snapshot is passed over.
Observed(d, c) == Required(d, c) \cup {Expired(d, day)}

\* Midnight may pass while the book is awaited.
Clock == day' \in {day, day + 1} \cap 0..MaxDay

-----------------------------------------------------------------------------
(* Operations *)

\* _loop and state(), one code at a time; also a command that fails after the
\* reconciliation has been saved.
Reconcile(c) ==
  /\ \E d \in Observed(doc, c) : doc' = d
  /\ Clock
  /\ UNCHANGED <<base, runs>>

\* _new.
NewOrder(d, c, s, p, q) ==
  [d EXCEPT !.orders = Append(@, [code |-> c, side |-> s, price |-> p, quantity |-> q,
                                  filled |-> 0, amount |-> 0, status |-> "PENDING",
                                  day |-> day'])]

\* _cached: a command that has a result is answered with it.
IsNew(m) == m \notin doc.commands

Commit(m, d) ==
  /\ doc' = [d EXCEPT !.commands = @ \cup {m}]
  /\ runs' = [runs EXCEPT ![m] = @ + 1]

Create(m, c, s, p, q) ==
  /\ IsNew(m) /\ Clock
  /\ \E d \in Required(doc, c) :
       /\ Fits(d, c, s, p, q)
       /\ Commit(m, Match(NewOrder(d, c, s, p, q), c))
  /\ UNCHANGED base

Cancel(m, i) ==
  /\ IsNew(m) /\ Clock
  /\ \E d \in Observed(doc, doc.orders[i].code) :
       /\ d.orders[i].status \in Open
       /\ Commit(m, Retire(d, {i}, "CANCELED"))
  /\ UNCHANGED base

\* The old reservation is released, the new one must fit, the new order matches.
Modify(m, i, p, q) ==
  /\ IsNew(m) /\ Clock
  /\ \E d \in Required(doc, doc.orders[i].code) :
       LET o == d.orders[i]
           released == Retire(d, {i}, "REPLACED")
       IN  /\ o.status \in Open
           /\ Fits(released, o.code, o.side, p, q)
           /\ Commit(m, Match(NewOrder(released, o.code, o.side, p, q), o.code))
  /\ UNCHANGED base

CancelAll(m, c, S) ==
  /\ IsNew(m) /\ Clock
  /\ \E d \in Observed(doc, c) :
       Commit(m, Retire(d, UNION {OpenOrders(d, c, s) : s \in S}, "CANCELED"))
  /\ UNCHANGED base

\* Orders go; "command IDs and depleted books" stay (paper.py:412).
Fresh(d, c, cash, q) ==
  [d EXCEPT !.cash = cash, !.held = [x \in Code |-> IF x = c THEN q ELSE 0],
            !.orders = <<>>]

Reset(m, c, cash, q) ==
  /\ IsNew(m)
  /\ Commit(m, Fresh(doc, c, cash, q))
  /\ base' = [cash |-> cash, held |-> doc'.held]
  /\ UNCHANGED day

Midnight == day < MaxDay /\ day' = day + 1 /\ UNCHANGED <<doc, base, runs>>

Next ==
  \/ \E c \in Code : Reconcile(c)
  \/ \E m \in Cmd, c \in Code :
       \/ \E s \in Side, p \in Price, q \in Quantity : Create(m, c, s, p, q)
       \/ \E S \in {Side, {"BUY"}, {"SELL"}} : CancelAll(m, c, S)
       \/ \E cash \in ResetCash, q \in ResetHeld : Reset(m, c, cash, q)
  \/ \E m \in Cmd : \E i \in DOMAIN doc.orders :
       \/ Cancel(m, i)
       \/ \E p \in Price, q \in Quantity \cup {Remainder(doc.orders[i])} : Modify(m, i, p, q)
  \/ Midnight

Spec == Init /\ [][Next]_vars

-----------------------------------------------------------------------------
(* Properties *)

\* Whatever is filled, modified, expired or reset, the account never owes cash or
\* shares: the open orders of all codes together are covered.
Solvent == Power(doc) >= 0 /\ \A c \in Code : Sellable(doc, c) >= 0

\* Orders never take more at a price than the feed has added there from snapshot to
\* snapshot: one that is seen again adds nothing, a level that comes back is added anew.
NoMintedLiquidity ==
  \A c \in Code, p \in Price :
    /\ doc.books[c].asks.taken[p] <= doc.books[c].asks.shown[p]
    /\ doc.books[c].bids.taken[p] <= doc.books[c].bids.shown[p]

\* A published document has nothing left to match.
FullyMatched ==
  \A c \in Code : \A s \in Side : \A i \in OpenOrders(doc, c, s) : \A p \in Price :
    Crosses(doc.orders[i], p) => doc.books[c][Against(s)].available[p] = 0

\* Cash and holdings are those of the last reset plus the fills on record.
AccountBalances ==
  LET side(s) == {i \in DOMAIN doc.orders : doc.orders[i].side = s}
      amount(i) == doc.orders[i].amount
      filled(i) == doc.orders[i].filled
      of(c, s) == {i \in side(s) : doc.orders[i].code = c}
  IN  /\ doc.cash = base.cash + MapThenSumSet(amount, side("SELL"))
                              - MapThenSumSet(amount, side("BUY"))
      /\ \A c \in Code :
           doc.held[c] = base.held[c] + MapThenSumSet(filled, of(c, "BUY"))
                                      - MapThenSumSet(filled, of(c, "SELL"))

\* A command id takes effect at most once, a reset in between included ("late
\* retries do not create trades", paper.py:412).
EffectOnce == \A m \in Cmd : runs[m] <= 1

\* A replaced order has a later one that replaced it: a refused modification
\* leaves the old order open.
ReplacedByAnother ==
  \A i \in DOMAIN doc.orders : doc.orders[i].status = "REPLACED" =>
    \E j \in DOMAIN doc.orders : j > i /\ doc.orders[j].code = doc.orders[i].code
                                       /\ doc.orders[j].side = doc.orders[i].side

SameOrders == Len(doc'.orders) >= Len(doc.orders) /\ doc.orders # <<>>

\* Price and time priority: an order does not trade while one of its side that
\* comes before it stays open.
PriorityKept ==
  [][SameOrders =>
       \A i, j \in DOMAIN doc.orders :
         LET o == doc.orders[i]
         IN  /\ o.code = doc.orders[j].code /\ o.side = doc.orders[j].side
             /\ doc.orders[j].status \in Open
             /\ IF o.price = doc.orders[j].price THEN j < i
                ELSE IF o.side = "BUY" THEN doc.orders[j].price > o.price
                ELSE doc.orders[j].price < o.price
             => doc'.orders[i].filled = o.filled \/ doc'.orders[j].status \notin Open]_vars

\* An order that was over its day when an operation began does not trade in it.
DayOrders ==
  [][SameOrders =>
       \A i \in DOMAIN doc.orders :
         doc'.orders[i].filled > doc.orders[i].filled => doc.orders[i].day >= day]_vars

\* The account is sound: solvent, in balance with its fills, with every command
\* applied at most once and every replaced order replaced.
AccountSound == Solvent /\ AccountBalances /\ EffectOnce /\ ReplacedByAnother

\* The book is sound: no liquidity is taken twice, and nothing that crosses is left.
BookSound == NoMintedLiquidity /\ FullyMatched
=============================================================================
