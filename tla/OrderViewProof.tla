--------------------------- MODULE OrderViewProof ---------------------------
(***************************************************************************)
(* Proofs about OrderView: the tab is never ahead of the broker, and never *)
(* takes an end back, for any number of orders, changes and faults, and    *)
(* any lengths of the queues.                                              *)
(*                                                                         *)
(* op counts the operations on an order, so of two rows of one order that  *)
(* were true, the one with the smaller op and the smaller filled is the    *)
(* earlier one (Upto).  The invariant has four parts:                      *)
(*                                                                         *)
(*   TypeOK    the variables have their types;                             *)
(*   BrokerOk  the broker's own books: what is open is not filled, and a   *)
(*             replacement is confirmed only once its original is          *)
(*             REPLACED;                                                   *)
(*   Truth     every row that anything holds, the queues, the events, the  *)
(*             answers, was once true of its order (Faithful);             *)
(*   Chain     and they are in order: an entry of the wire is not before   *)
(*             the event that is kept, nor the stream before the wire      *)
(*             (Ordering, Pending); an answer is newer than every event up *)
(*             to its label (Labels), and the next one than it             *)
(*             (Freshness); what an event has locked stays locked (Locks). *)
(*                                                                         *)
(* The broker's steps only Advance its orders, and add to the stream only  *)
(* what is Current; everything that was true stays true under that.  The   *)
(* rest of the system moves rows about, so each lemma follows one move.    *)
(*                                                                         *)
(* That an order once shown as ended stays so is about steps, and needs    *)
(* more (Ends): the events that say so, or the answer, are not outdone.    *)
(* An answer that lists an order both as open and as closed was read while *)
(* the order ended; it is shown as ended only where a terminal event, or   *)
(* the replacement in force, says so (Final, EndsKnown).  A replacement is *)
(* in force only where its original has nothing but its end left to tell   *)
(* (Told, RetiredTruly), and no answer comes in between (Alone, NextKnows).*)
(***************************************************************************)
EXTENDS OrderView, SequenceTheorems, TLAPS

LEMMA Sizes ==
  /\ MaxOrders \in Nat /\ MaxOrders > 0 /\ Quantity \in Nat /\ Quantity > 0
  /\ MaxChanges \in Nat /\ MaxStream \in Nat /\ MaxWire \in Nat
BY ViewAssumption

---------------------------------------------------------------------------
(* Rows.                                                                   *)

RowOrNone == Row \cup {NoRow}

\* r was seen no later than s.
Upto(r, s) == r.op <= s.op /\ r.filled <= s.filled

(* What a row of o says that was true of the orders b and their ancestry rep. *)
Faithful(b, rep, o, r) ==
  /\ Upto(r, b[o])
  /\ r.status \in TerminalStates => r = b[o]
  /\ r.status \in CompletedReplacementStates /\ rep[o] # 0 => b[rep[o]].status = "REPLACED"
  /\ b[o] = NoRow => r = NoRow

\* and also that it was under processing when it has shown the present operation
ReadFaithfully(b, rep, o, r) ==
  /\ Faithful(b, rep, o, r)
  /\ r # NoRow /\ r.op = b[o].op /\ b[o].status \in Processing => r.status \in Processing

\* What may become of the orders.
Advance(b, rep, c, sep) ==
  \A o \in Order :
    /\ Upto(b[o], c[o])
    /\ b[o].status \in TerminalStates => c[o] = b[o]
    /\ b[o] # NoRow => c[o] # NoRow /\ sep[o] = rep[o]
    /\ c[o].status \in Processing => b[o].status \in Processing \/ b[o].op < c[o].op

LEMMA RowIs ==
  ASSUME NEW r \in RowOrNone
  PROVE  /\ r.op \in Nat /\ r.filled \in Nat /\ r.filled <= Quantity
         /\ r.status \in OpenStates \/ r.status \in TerminalStates \/ r = NoRow
         /\ r # NoRow => r \in Row
BY Sizes DEF RowOrNone, Row, NoRow

LEMMA NoRowIs ==
  /\ NoRow \in RowOrNone /\ NoRow.op = 0 /\ NoRow.filled = 0
  /\ NoRow.status \notin OpenStates /\ NoRow.status \notin TerminalStates
  /\ NoRow.status \notin CompletedReplacementStates
BY DEF RowOrNone, NoRow, OpenStates, Resting, Processing, TerminalStates, CompletedReplacementStates

LEMMA StatesApart ==
  ASSUME NEW s
  PROVE  /\ s \in OpenStates <=> s \in Resting \/ s \in Processing
         /\ s \in Resting => s \notin Processing /\ s \notin TerminalStates
                             /\ s \in CompletedReplacementStates
         /\ s \in Processing => s \notin TerminalStates /\ s \notin CompletedReplacementStates
BY DEF OpenStates, Resting, Processing, TerminalStates, CompletedReplacementStates

LEMMA UptoTransitive ==
  ASSUME NEW r \in RowOrNone, NEW s \in RowOrNone, NEW t \in RowOrNone, Upto(r, s), Upto(s, t)
  PROVE  Upto(r, t)
BY RowIs DEF Upto

(* What was true stays true.                                               *)
LEMMA FaithfulStays ==
  ASSUME NEW b \in [Order -> RowOrNone], NEW c \in [Order -> RowOrNone],
         NEW rep \in [Order -> 0..MaxOrders], NEW sep \in [Order -> 0..MaxOrders],
         NEW o \in Order, NEW r \in RowOrNone,
         Advance(b, rep, c, sep), Faithful(b, rep, o, r)
  PROVE  Faithful(c, sep, o, r)
<1>1. b[o] \in RowOrNone /\ c[o] \in RowOrNone
  OBVIOUS
<1>2. Upto(r, c[o])
  BY <1>1, UptoTransitive DEF Advance, Faithful
<1>3. r.status \in TerminalStates => r = c[o]
  BY DEF Advance, Faithful
<1>4. c[o] = NoRow => r = NoRow
  BY DEF Advance, Faithful
<1>5. ASSUME r.status \in CompletedReplacementStates, sep[o] # 0
      PROVE  c[sep[o]].status = "REPLACED"
  <2>1. b[o] # NoRow
    BY <1>5, NoRowIs DEF Faithful
  <2>2. sep[o] = rep[o] /\ rep[o] \in Order
    BY <2>1, <1>5, Sizes DEF Advance, Order
  <2>3. b[rep[o]].status = "REPLACED"
    BY <1>5, <2>2 DEF Faithful
  <2>4. c[rep[o]] = b[rep[o]]
    BY <2>2, <2>3 DEF Advance, TerminalStates
  <2> QED
    BY <2>2, <2>3, <2>4
<1> QED
  BY <1>2, <1>3, <1>4, <1>5 DEF Faithful

LEMMA ReadingStays ==
  ASSUME NEW b \in [Order -> RowOrNone], NEW c \in [Order -> RowOrNone],
         NEW rep \in [Order -> 0..MaxOrders], NEW sep \in [Order -> 0..MaxOrders],
         NEW o \in Order, NEW r \in RowOrNone,
         Advance(b, rep, c, sep), ReadFaithfully(b, rep, o, r)
  PROVE  ReadFaithfully(c, sep, o, r)
<1>1. Faithful(c, sep, o, r)
  BY FaithfulStays DEF ReadFaithfully
<1>2. ASSUME r # NoRow, r.op = c[o].op, c[o].status \in Processing
      PROVE  r.status \in Processing
  <2>1. r.op <= b[o].op /\ b[o].op <= c[o].op
    BY DEF ReadFaithfully, Faithful, Advance, Upto
  <2>2. r.op = b[o].op /\ ~(b[o].op < c[o].op)
    BY <2>1, <1>2, RowIs
  <2>3. b[o].status \in Processing
    BY <1>2, <2>2 DEF Advance
  <2> QED
    BY <2>2, <2>3, <1>2 DEF ReadFaithfully
<1> QED
  BY <1>1, <1>2 DEF ReadFaithfully

LEMMA NothingIsFaithful ==
  ASSUME NEW b \in [Order -> RowOrNone], NEW rep, NEW o \in Order
  PROVE  ReadFaithfully(b, rep, o, NoRow)
<1>1. b[o] \in RowOrNone
  OBVIOUS
<1> QED
  BY <1>1, RowIs, NoRowIs DEF ReadFaithfully, Faithful, Upto

---------------------------------------------------------------------------
(* The broker.                                                             *)

BrokerOk(b, rep) ==
  /\ \A o \in Order : b[o].status \in OpenStates => b[o].filled < Quantity
  /\ \A o \in Order : b[o].status \in Processing => b[o].op > 0
  /\ \A n \in Order : rep[n] # 0 =>
       /\ b[n] # NoRow /\ b[rep[n]] # NoRow
       /\ \/ b[n].status \in {"PENDING_REPLACE", "REPLACE_REJECTED"}
          \/ b[rep[n]].status = "REPLACED"
  /\ \A m \in Order : rep[m] # 0 /\ rep[rep[m]] # 0 => b[rep[rep[m]]].status = "REPLACED"

Confirmed(b, rep, n) == rep[n] # 0 => b[rep[n]].status = "REPLACED"

LEMMA AdvanceTransitive ==
  ASSUME NEW b \in [Order -> RowOrNone], NEW c \in [Order -> RowOrNone], NEW d \in [Order -> RowOrNone],
         NEW rep, NEW sep, NEW tep,
         Advance(b, rep, c, sep), Advance(c, sep, d, tep)
  PROVE  Advance(b, rep, d, tep)
<1> SUFFICES ASSUME NEW o \in Order
             PROVE  /\ Upto(b[o], d[o])
                    /\ b[o].status \in TerminalStates => d[o] = b[o]
                    /\ b[o] # NoRow => d[o] # NoRow /\ tep[o] = rep[o]
                    /\ d[o].status \in Processing => b[o].status \in Processing \/ b[o].op < d[o].op
  BY DEF Advance
<1>1. b[o] \in RowOrNone /\ c[o] \in RowOrNone /\ d[o] \in RowOrNone
  OBVIOUS
<1>2. Upto(b[o], c[o]) /\ Upto(c[o], d[o])
  BY DEF Advance
<1>3. Upto(b[o], d[o])
  BY <1>1, <1>2, UptoTransitive
<1>4. b[o].status \in TerminalStates => d[o] = b[o]
  BY DEF Advance
<1>5. b[o] # NoRow => d[o] # NoRow /\ tep[o] = rep[o]
  BY DEF Advance
<1>6. ASSUME d[o].status \in Processing PROVE b[o].status \in Processing \/ b[o].op < d[o].op
  <2>1. CASE c[o].status \in Processing
    <3>1. b[o].status \in Processing \/ b[o].op < c[o].op
      BY <2>1 DEF Advance
    <3>2. b[o].op < c[o].op => b[o].op < d[o].op
      BY <1>1, <1>2, RowIs DEF Upto
    <3> QED BY <3>1, <3>2
  <2>2. CASE c[o].status \notin Processing
    <3>1. c[o].op < d[o].op
      BY <2>2, <1>6 DEF Advance
    <3> QED BY <3>1, <1>1, <1>2, RowIs DEF Upto
  <2> QED BY <2>1, <2>2
<1> QED
  BY <1>3, <1>4, <1>5, <1>6

LEMMA NothingAdvances ==
  ASSUME NEW b \in [Order -> RowOrNone], NEW rep
  PROVE  Advance(b, rep, b, rep)
<1> SUFFICES ASSUME NEW o \in Order PROVE Upto(b[o], b[o])
  BY DEF Advance
<1>1. b[o] \in RowOrNone
  OBVIOUS
<1> QED BY <1>1, RowIs DEF Upto

(* One open order changes.                                                 *)
LEMMA OneRow ==
  ASSUME NEW b \in [Order -> RowOrNone], NEW rep \in [Order -> 0..MaxOrders],
         NEW o \in Order, NEW x \in Row,
         BrokerOk(b, rep), b[o].status \in OpenStates, Upto(b[o], x),
         x.status \in OpenStates => x.filled < Quantity,
         x.status \in Processing => b[o].status \in Processing \/ b[o].op < x.op,
         \/ x.status \in {"PENDING_REPLACE", "REPLACE_REJECTED"}
         \/ Confirmed(b, rep, o)
  PROVE  /\ [b EXCEPT ![o] = x] \in [Order -> RowOrNone]
         /\ BrokerOk([b EXCEPT ![o] = x], rep)
         /\ Advance(b, rep, [b EXCEPT ![o] = x], rep)
<1> PICK c : c = [b EXCEPT ![o] = x]
  OBVIOUS
<1>1. c \in [Order -> RowOrNone] /\ c[o] = x /\ \A m \in Order : m # o => c[m] = b[m]
  BY DEF RowOrNone
<1>2. b[o] \in RowOrNone /\ x \in RowOrNone /\ x # NoRow
  <2>1. x.status # "NONE"
    BY DEF Row, OpenStates, Resting, Processing, TerminalStates
  <2> QED BY <2>1 DEF RowOrNone, NoRow
<1>3. b[o].status \notin TerminalStates /\ b[o].status # "REPLACED"
  BY DEF OpenStates, Resting, Processing, TerminalStates
<1>4. Advance(b, rep, c, rep)
  <2> SUFFICES ASSUME NEW m \in Order
               PROVE  /\ Upto(b[m], c[m])
                      /\ b[m].status \in TerminalStates => c[m] = b[m]
                      /\ b[m] # NoRow => c[m] # NoRow /\ rep[m] = rep[m]
                      /\ c[m].status \in Processing => b[m].status \in Processing \/ b[m].op < c[m].op
    BY DEF Advance
  <2>1. CASE m = o
    BY <2>1, <1>1, <1>2, <1>3
  <2>2. CASE m # o
    <3>1. Upto(b[m], b[m])
      BY NothingAdvances DEF Advance
    <3> QED BY <3>1, <2>2, <1>1
  <2> QED BY <2>1, <2>2
<1>5. \A m \in Order : c[m].status \in OpenStates => c[m].filled < Quantity
  BY <1>1 DEF BrokerOk
<1>6. \A m \in Order : c[m].status \in Processing => c[m].op > 0
  <2> SUFFICES ASSUME NEW m \in Order, c[m].status \in Processing PROVE c[m].op > 0
    OBVIOUS
  <2>1. CASE m # o
    BY <2>1, <1>1 DEF BrokerOk
  <2>2. CASE m = o
    <3>1. b[o].op > 0 \/ b[o].op < x.op
      BY <2>2, <1>1 DEF BrokerOk
    <3> QED BY <3>1, <2>2, <1>1, <1>2, RowIs DEF Upto
  <2> QED BY <2>1, <2>2
<1>7. \A m \in Order : b[m].status = "REPLACED" => c[m].status = "REPLACED"
  BY <1>1, <1>3
<1>8. ASSUME NEW n \in Order, rep[n] # 0
      PROVE  /\ c[n] # NoRow /\ c[rep[n]] # NoRow
             /\ \/ c[n].status \in {"PENDING_REPLACE", "REPLACE_REJECTED"}
                \/ c[rep[n]].status = "REPLACED"
  <2>1. rep[n] \in Order
    BY <1>8, Sizes DEF Order
  <2>2. c[n] # NoRow /\ c[rep[n]] # NoRow
    BY <2>1, <1>1, <1>2, <1>8 DEF BrokerOk
  <2>3. CASE n = o
    BY <2>1, <2>2, <2>3, <1>1, <1>7, <1>8 DEF Confirmed
  <2>4. CASE n # o
    BY <2>1, <2>2, <2>4, <1>1, <1>7, <1>8 DEF BrokerOk
  <2> QED BY <2>3, <2>4
<1>9. ASSUME NEW m \in Order, rep[m] # 0, rep[rep[m]] # 0
      PROVE  c[rep[rep[m]]].status = "REPLACED"
  <2>1. rep[m] \in Order
    BY <1>9, Sizes DEF Order
  <2>2. rep[rep[m]] \in Order
    BY <2>1, <1>9, Sizes DEF Order
  <2> QED BY <2>2, <1>7, <1>9 DEF BrokerOk
<1>10. BrokerOk(c, rep)
  BY <1>5, <1>6, <1>8, <1>9 DEF BrokerOk
<1> QED
  BY <1>1, <1>4, <1>10

(* A replacement appears.                                                  *)
LEMMA OneMore ==
  ASSUME NEW b \in [Order -> RowOrNone], NEW rep \in [Order -> 0..MaxOrders],
         NEW o \in Order, NEW n \in Order, NEW x \in Row,
         BrokerOk(b, rep), b[o] # NoRow, b[n] = NoRow, Confirmed(b, rep, o),
         x.status = "PENDING_REPLACE", x.op > 0, x.filled < Quantity
  PROVE  /\ [b EXCEPT ![n] = x] \in [Order -> RowOrNone]
         /\ [rep EXCEPT ![n] = o] \in [Order -> 0..MaxOrders]
         /\ BrokerOk([b EXCEPT ![n] = x], [rep EXCEPT ![n] = o])
         /\ Advance(b, rep, [b EXCEPT ![n] = x], [rep EXCEPT ![n] = o])
<1> PICK c : c = [b EXCEPT ![n] = x]
  OBVIOUS
<1> PICK sep : sep = [rep EXCEPT ![n] = o]
  OBVIOUS
<1>1. c \in [Order -> RowOrNone] /\ c[n] = x /\ \A m \in Order : m # n => c[m] = b[m]
  BY DEF RowOrNone
<1>2. sep \in [Order -> 0..MaxOrders] /\ sep[n] = o /\ \A m \in Order : m # n => sep[m] = rep[m]
  <2>1. o \in 0..MaxOrders
    BY Sizes DEF Order
  <2> QED BY <2>1
<1>3. x \in RowOrNone /\ x # NoRow /\ x.op \in Nat /\ x.filled \in Nat /\ x.status \in Processing
  BY RowIs DEF RowOrNone, NoRow, Processing
<1>4. Advance(b, rep, c, sep)
  <2> SUFFICES ASSUME NEW m \in Order
               PROVE  /\ Upto(b[m], c[m])
                      /\ b[m].status \in TerminalStates => c[m] = b[m]
                      /\ b[m] # NoRow => c[m] # NoRow /\ sep[m] = rep[m]
                      /\ c[m].status \in Processing => b[m].status \in Processing \/ b[m].op < c[m].op
    BY DEF Advance
  <2>1. CASE m = n
    <3>1. Upto(b[m], c[m]) /\ b[m].op < c[m].op
      BY <2>1, <1>1, <1>3, NoRowIs DEF Upto
    <3>2. b[m] = NoRow /\ b[m].status \notin TerminalStates
      BY <2>1, NoRowIs
    <3> QED BY <3>1, <3>2
  <2>2. CASE m # n
    <3>1. Upto(b[m], b[m])
      BY NothingAdvances DEF Advance
    <3> QED BY <3>1, <2>2, <1>1, <1>2
  <2> QED BY <2>1, <2>2
<1>5. \A m \in Order : c[m].status \in OpenStates => c[m].filled < Quantity
  BY <1>1 DEF BrokerOk
<1>6. \A m \in Order : c[m].status \in Processing => c[m].op > 0
  BY <1>1 DEF BrokerOk
<1>7. \A m \in Order : b[m].status = "REPLACED" => c[m].status = "REPLACED"
  <2>1. b[n].status # "REPLACED"
    BY NoRowIs DEF TerminalStates
  <2> QED BY <2>1, <1>1
<1>8. \A m \in Order : b[m] # NoRow => c[m] # NoRow
  BY <1>1, <1>3
<1>9. ASSUME NEW m \in Order, rep[m] # 0 PROVE rep[m] \in Order /\ rep[m] # n
  BY <1>9, Sizes DEF Order, BrokerOk
<1>10. ASSUME NEW m \in Order, sep[m] # 0
       PROVE  /\ c[m] # NoRow /\ c[sep[m]] # NoRow
              /\ \/ c[m].status \in {"PENDING_REPLACE", "REPLACE_REJECTED"}
                 \/ c[sep[m]].status = "REPLACED"
  <2>1. CASE m = n
    BY <2>1, <1>1, <1>2, <1>3, <1>8
  <2>2. CASE m # n
    <3>1. rep[m] # 0 /\ sep[m] = rep[m] /\ rep[m] \in Order
      BY <2>2, <1>2, <1>10, <1>9
    <3> QED BY <3>1, <2>2, <1>1, <1>7, <1>8 DEF BrokerOk
  <2> QED BY <2>1, <2>2
<1>11. ASSUME NEW m \in Order, sep[m] # 0, sep[sep[m]] # 0
       PROVE  c[sep[sep[m]]].status = "REPLACED"
  <2>0. o # n /\ o \in Order
    OBVIOUS
  <2>1. CASE m = n
    <3>1. sep[m] = o /\ sep[o] = rep[o] /\ rep[o] # 0
      BY <2>0, <2>1, <1>2, <1>11
    <3>2. rep[o] \in Order /\ b[rep[o]].status = "REPLACED"
      BY <3>1, <1>9, <2>0 DEF Confirmed
    <3> QED BY <3>1, <3>2, <1>7
  <2>2. CASE m # n
    <3>1. rep[m] # 0 /\ sep[m] = rep[m] /\ rep[m] \in Order /\ rep[m] # n
      BY <2>2, <1>2, <1>11, <1>9
    <3>2. sep[sep[m]] = rep[rep[m]]
      BY <3>1, <1>2
    <3>3. rep[rep[m]] # 0 /\ rep[rep[m]] \in Order
      BY <3>1, <3>2, <1>9, <1>11
    <3>4. b[rep[rep[m]]].status = "REPLACED"
      BY <3>1, <3>3 DEF BrokerOk
    <3> QED BY <3>2, <3>3, <3>4, <1>7
  <2> QED BY <2>1, <2>2
<1>12. BrokerOk(c, sep)
  BY <1>5, <1>6, <1>10, <1>11 DEF BrokerOk
<1> QED
  BY <1>1, <1>2, <1>4, <1>12

---------------------------------------------------------------------------
(* What the broker tells.                                                  *)

Entries == [order : Order, row : Row]

\* e tells of the present.
Current(b, rep, e) ==
  /\ e.order \in Order /\ e.row \in Row
  /\ Faithful(b, rep, e.order, e.row)
  /\ e.row.op = b[e.order].op /\ e.row.filled = b[e.order].filled
  /\ b[e.order].status \in TerminalStates => e.row = b[e.order]

\* t is s and entries that tell of the present.
Grown(s, t, b, rep) ==
  \A k \in DOMAIN t :
    \/ k \in DOMAIN s /\ t[k] = s[k]
    \/ (\A i \in DOMAIN s : i < k) /\ Current(b, rep, t[k])

LEMMA ConcatGrows ==
  ASSUME NEW s \in Seq(Entries), NEW evs \in Seq(Entries), NEW b, NEW rep,
         \A i \in 1..Len(evs) : Current(b, rep, evs[i])
  PROVE  s \o evs \in Seq(Entries) /\ Grown(s, s \o evs, b, rep)
<1> PICK t : t = s \o evs
  OBVIOUS
<1>1. /\ t \in Seq(Entries) /\ DOMAIN s = 1..Len(s) /\ DOMAIN t = 1..Len(t)
      /\ Len(s) \in Nat /\ Len(evs) \in Nat /\ Len(t) = Len(s) + Len(evs)
  BY ConcatProperties, LenProperties
<1>2. \A k \in 1..Len(t) : t[k] = IF k <= Len(s) THEN s[k] ELSE evs[k - Len(s)]
  BY ConcatProperties
<1>3. ASSUME NEW k \in DOMAIN t
      PROVE  \/ k \in DOMAIN s /\ t[k] = s[k]
             \/ (\A i \in DOMAIN s : i < k) /\ Current(b, rep, t[k])
  <2>1. CASE k <= Len(s)
    BY <2>1, <1>1, <1>2
  <2>2. CASE ~(k <= Len(s))
    <3>1. t[k] = evs[k - Len(s)] /\ k - Len(s) \in 1..Len(evs) /\ \A i \in DOMAIN s : i < k
      BY <2>2, <1>1, <1>2
    <3> QED BY <3>1
  <2> QED BY <2>1, <2>2
<1> QED
  BY <1>1, <1>3 DEF Grown

LEMMA EmitGrows ==
  ASSUME stream \in Seq(Entries), NEW evs \in Seq(Entries), NEW b, NEW rep,
         \A i \in 1..Len(evs) : Current(b, rep, evs[i]), Emit(evs)
  PROVE  stream' \in Seq(Entries) /\ Grown(stream, stream', b, rep)
<1>1. CASE listening
  <2>1. stream' = stream \o evs
    BY <1>1 DEF Emit
  <2>2. stream \o evs \in Seq(Entries) /\ Grown(stream, stream \o evs, b, rep)
    BY ConcatGrows
  <2> QED BY <2>1, <2>2
<1>2. CASE ~listening
  BY <1>2 DEF Emit, Grown
<1> QED
  BY <1>1, <1>2

LEMMA One ==
  ASSUME NEW b, NEW rep, NEW e \in Entries, Current(b, rep, e)
  PROVE  <<e>> \in Seq(Entries) /\ \A i \in 1..Len(<<e>>) : Current(b, rep, <<e>>[i])
OBVIOUS

LEMMA Two ==
  ASSUME NEW b, NEW rep, NEW e \in Entries, NEW f \in Entries, Current(b, rep, e), Current(b, rep, f)
  PROVE  <<e, f>> \in Seq(Entries) /\ \A i \in 1..Len(<<e, f>>) : Current(b, rep, <<e, f>>[i])
<1>1. <<e, f>> \in Seq(Entries) /\ Len(<<e, f>>) = 2 /\ <<e, f>>[1] = e /\ <<e, f>>[2] = f
  OBVIOUS
<1>2. 1..2 = {1, 2}
  OBVIOUS
<1> QED
  BY <1>1, <1>2

LEMMA RestedIs ==
  ASSUME NEW r \in Row
  PROVE  /\ Rested(r) \in Row /\ Rested(r).status \in Resting
         /\ Rested(r).op = r.op /\ Rested(r).filled = r.filled
BY DEF Rested, Row, OpenStates, Resting

LEMMA WithStatus ==
  ASSUME NEW r \in Row, NEW s \in OpenStates \cup TerminalStates
  PROVE  /\ [r EXCEPT !.status = s] \in Row /\ [r EXCEPT !.status = s].status = s
         /\ [r EXCEPT !.status = s].op = r.op /\ [r EXCEPT !.status = s].filled = r.filled
BY DEF Row

LEMMA SomeRow ==
  ASSUME NEW r \in RowOrNone, r.status \in OpenStates \cup TerminalStates
  PROVE  r \in Row /\ r # NoRow
BY NoRowIs, RowIs

LEMMA RowIsSome ==
  ASSUME NEW r \in Row
  PROVE  /\ r # NoRow /\ r \in RowOrNone /\ r.op \in Nat /\ r.filled \in Nat
         /\ r.filled <= Quantity /\ r.status \in OpenStates \cup TerminalStates
<1>1. r.status # "NONE"
  BY DEF Row, OpenStates, Resting, Processing, TerminalStates
<1> QED BY <1>1, Sizes DEF RowOrNone, NoRow, Row

LEMMA PresentIsCurrent ==
  ASSUME NEW b \in [Order -> RowOrNone], NEW rep \in [Order -> 0..MaxOrders],
         NEW o \in Order, BrokerOk(b, rep), b[o] \in Row
  PROVE  Ev(o, b[o]) \in Entries /\ Current(b, rep, Ev(o, b[o]))
<1>1. Ev(o, b[o]) \in Entries /\ Ev(o, b[o]).order = o /\ Ev(o, b[o]).row = b[o]
  BY DEF Ev, Entries
<1>2. Upto(b[o], b[o]) /\ b[o] # NoRow
  BY RowIsSome DEF Upto
<1>3. ASSUME b[o].status \in CompletedReplacementStates, rep[o] # 0
      PROVE  b[rep[o]].status = "REPLACED"
  BY <1>3 DEF BrokerOk, CompletedReplacementStates, Resting
<1>4. Faithful(b, rep, o, b[o])
  BY <1>2, <1>3 DEF Faithful
<1> QED
  BY <1>1, <1>4 DEF Current

LEMMA RestedIsCurrent ==
  ASSUME NEW b \in [Order -> RowOrNone], NEW rep \in [Order -> 0..MaxOrders],
         NEW o \in Order, b[o] \in Row, b[o].status \notin TerminalStates, Confirmed(b, rep, o)
  PROVE  Ev(o, Rested(b[o])) \in Entries /\ Current(b, rep, Ev(o, Rested(b[o])))
<1> PICK r : r = Rested(b[o])
  OBVIOUS
<1>1. r \in Row /\ r.status \in Resting /\ r.op = b[o].op /\ r.filled = b[o].filled
  BY RestedIs
<1>2. Ev(o, r) \in Entries /\ Ev(o, r).order = o /\ Ev(o, r).row = r
  BY <1>1 DEF Ev, Entries
<1>3. Upto(r, b[o]) /\ b[o] # NoRow
  BY <1>1, RowIsSome DEF Upto
<1>4. r.status \notin TerminalStates
  BY <1>1, StatesApart
<1>5. Faithful(b, rep, o, r)
  BY <1>3, <1>4 DEF Faithful, Confirmed
<1>6. Current(b, rep, Ev(o, r))
  BY <1>1, <1>2, <1>5 DEF Current
<1> QED
  BY <1>2, <1>6

---------------------------------------------------------------------------
(* Every step of the broker.                                               *)

Books == broker \in [Order -> RowOrNone] /\ replaces \in [Order -> 0..MaxOrders] /\ stream \in Seq(Entries)

BrokerStep ==
  /\ Books'
  /\ BrokerOk(broker', replaces')
  /\ Advance(broker, replaces, broker', replaces')
  /\ Grown(stream, stream', broker', replaces')

LEMMA FillStep ==
  ASSUME Books, BrokerOk(broker, replaces), NEW o \in Order, Fill(o)
  PROVE  BrokerStep
<1> DEFINE more == [broker[o] EXCEPT !.filled = @ + 1]
           row == IF more.filled = Quantity THEN [more EXCEPT !.status = "FILLED"]
                  ELSE IF more.status \in Resting THEN Rested(more) ELSE more
<1>1. broker[o].status \in OpenStates /\ ~Unconfirmed(o) /\ broker' = [broker EXCEPT ![o] = row]
      /\ replaces' = replaces
  BY DEF Fill
<1>2. PICK told \in {row} \cup (IF row.status \in Processing THEN {Rested(row)} ELSE {}) :
        Emit(<<Ev(o, told)>>)
  BY DEF Fill
<1>3. broker[o] \in Row /\ broker[o].filled < Quantity /\ broker[o] \in RowOrNone
  BY <1>1, SomeRow DEF Books, BrokerOk
<1>4. more \in Row /\ more.filled = broker[o].filled + 1 /\ more.op = broker[o].op
      /\ more.status = broker[o].status
  BY <1>3, Sizes DEF Row
<1> HIDE DEF more
<1>5. row \in Row /\ row.filled = more.filled /\ row.op = more.op
      /\ (row.status \in OpenStates => row.filled < Quantity)
      /\ (row.status \in Processing => row = more)
      /\ (broker[o].status \in Processing => row.status = "FILLED" \/ row = more)
  <2>1. CASE more.filled = Quantity
    <3> PICK s : s = "FILLED"
      OBVIOUS
    <3> PICK r : r = [more EXCEPT !.status = s]
      OBVIOUS
    <3>1. row = r /\ s \in OpenStates \cup TerminalStates
      BY <2>1 DEF TerminalStates
    <3>2. r \in Row /\ r.status = "FILLED" /\ r.op = more.op /\ r.filled = more.filled
      BY <3>1, <1>4, WithStatus
    <3>3. r.status \notin OpenStates /\ r.status \notin Processing
      BY <3>2 DEF OpenStates, Processing, Resting
    <3> HIDE DEF row
    <3> QED BY <3>1, <3>2, <3>3
  <2>2. more.filled # Quantity => more.filled < Quantity
    BY <1>3, <1>4, Sizes, RowIs
  <2>3. CASE more.filled # Quantity /\ more.status \in Resting
    <3>1. row = Rested(more)
      BY <2>3
    <3>2. broker[o].status \notin Processing /\ Rested(more).status \notin Processing
      BY <2>3, <1>4, RestedIs, StatesApart
    <3> QED BY <2>2, <2>3, <3>1, <3>2, <1>4, RestedIs
  <2>4. CASE more.filled # Quantity /\ more.status \notin Resting
    BY <2>2, <2>4, <1>4
  <2> QED BY <2>1, <2>3, <2>4
<1>6. Upto(broker[o], row)
  BY <1>3, <1>4, <1>5, RowIs DEF Upto
<1>7. row.status \in Processing => broker[o].status \in Processing
  BY <1>4, <1>5
<1>8. row.status = "PENDING_REPLACE" \/ Confirmed(broker, replaces, o)
  <2>1. CASE broker[o].status # "PENDING_REPLACE"
    <3>1. broker[o].status # "REPLACE_REJECTED"
      BY <1>1 DEF OpenStates, Resting, Processing
    <3> QED BY <2>1, <3>1 DEF BrokerOk, Confirmed
  <2>2. CASE broker[o].status = "PENDING_REPLACE"
    BY <2>2, <1>1 DEF Unconfirmed, Confirmed
  <2> QED BY <2>1, <2>2
<1>9. /\ broker' \in [Order -> RowOrNone]
      /\ BrokerOk(broker', replaces) /\ Advance(broker, replaces, broker', replaces)
  <2> HIDE DEF row
  <2>1. /\ [broker EXCEPT ![o] = row] \in [Order -> RowOrNone]
        /\ BrokerOk([broker EXCEPT ![o] = row], replaces)
        /\ Advance(broker, replaces, [broker EXCEPT ![o] = row], replaces)
    BY <1>1, <1>5, <1>6, <1>7, <1>8, OneRow DEF Books
  <2> QED BY <2>1, <1>1
<1>10. broker'[o] = row
  BY <1>1 DEF Books
<1>11. /\ Ev(o, told) \in Entries /\ Current(broker', replaces, Ev(o, told))
  <2> HIDE DEF row
  <2>1. CASE told = row
    BY <2>1, <1>5, <1>9, <1>10, PresentIsCurrent DEF Books
  <2>2. CASE row.status \in Processing /\ told = Rested(row)
    <3>1. Confirmed(broker, replaces, o)
      <4>1. broker[o].status = "PENDING_REPLACE" \/ broker[o].status = "PENDING_CANCEL"
        BY <2>2, <1>7 DEF Processing
      <4>2. CASE broker[o].status = "PENDING_REPLACE"
        BY <4>2, <1>1 DEF Unconfirmed, Confirmed
      <4>3. CASE broker[o].status = "PENDING_CANCEL"
        BY <4>3 DEF BrokerOk, Confirmed
      <4> QED BY <4>1, <4>2, <4>3
    <3>2. Confirmed(broker', replaces, o)
      <4>1. SUFFICES ASSUME replaces[o] # 0 PROVE broker'[replaces[o]].status = "REPLACED"
        BY DEF Confirmed
      <4>2. replaces[o] \in Order /\ broker[replaces[o]].status = "REPLACED"
        BY <3>1, <4>1, Sizes DEF Confirmed, Books, Order
      <4> QED BY <4>2, <1>9 DEF Advance, TerminalStates
    <3>3. broker'[o] \in Row /\ broker'[o].status \notin TerminalStates
      BY <1>5, <1>10, <2>2, StatesApart
    <3>4. Ev(o, Rested(broker'[o])) \in Entries /\ Current(broker', replaces, Ev(o, Rested(broker'[o])))
      BY <3>2, <3>3, <1>9, RestedIsCurrent DEF Books
    <3> QED BY <3>4, <2>2, <1>10
  <2> QED BY <1>2, <2>1, <2>2
<1>12. stream' \in Seq(Entries) /\ Grown(stream, stream', broker', replaces)
  <2> PICK evs : evs = <<Ev(o, told)>>
    OBVIOUS
  <2>1. evs \in Seq(Entries) /\ \A i \in 1..Len(evs) : Current(broker', replaces, evs[i])
    BY <1>11, One
  <2>2. Emit(evs)
    BY <1>2
  <2> QED BY <2>1, <2>2, EmitGrows DEF Books
<1> QED
  BY <1>1, <1>9, <1>12 DEF BrokerStep, Books

LEMMA StartReplaceStep ==
  ASSUME Books, BrokerOk(broker, replaces), NEW o \in Order, NEW own \in BOOLEAN, StartReplace(o, own)
  PROVE  BrokerStep
<1>1. PICK n \in Order :
        /\ broker[n] = NoRow
        /\ LET old == [broker[o] EXCEPT !.status = "PENDING_REPLACE", !.op = @ + 1]
               new == [NewRow EXCEPT !.status = "PENDING_REPLACE", !.op = 1]
           IN /\ broker' = [broker EXCEPT ![o] = old, ![n] = new]
              /\ Emit(<<Ev(o, old), Ev(n, new)>>)
        /\ replaces' = [replaces EXCEPT ![n] = o]
  BY DEF StartReplace
<1>2. PICK old : old = [broker[o] EXCEPT !.status = "PENDING_REPLACE", !.op = @ + 1]
  OBVIOUS
<1>3. PICK new : new = [NewRow EXCEPT !.status = "PENDING_REPLACE", !.op = 1]
  OBVIOUS
<1>4. broker' = [broker EXCEPT ![o] = old, ![n] = new] /\ Emit(<<Ev(o, old), Ev(n, new)>>)
  BY <1>1, <1>2, <1>3
<1>5. broker[o].status \in Resting
  BY DEF StartReplace
<1>6. broker[o].status \in OpenStates /\ broker[o] \in Row /\ broker[o].filled < Quantity
      /\ broker[o] # NoRow /\ broker[o].op \in Nat /\ broker[o].filled \in Nat
  BY <1>5, StatesApart, SomeRow, RowIs DEF Books, BrokerOk
<1>7. old \in Row /\ old.status = "PENDING_REPLACE" /\ old.op = broker[o].op + 1
      /\ old.filled = broker[o].filled
  <2>1. old = [status |-> "PENDING_REPLACE", filled |-> broker[o].filled, op |-> broker[o].op + 1]
    BY <1>2, <1>6 DEF Row
  <2>2. "PENDING_REPLACE" \in OpenStates /\ broker[o].filled \in 0..Quantity /\ broker[o].op + 1 \in Nat
    BY <1>6, Sizes DEF OpenStates, Processing
  <2> QED BY <2>1, <2>2 DEF Row
<1>8. new \in Row /\ new.status = "PENDING_REPLACE" /\ new.op = 1 /\ new.filled = 0
  <2>1. new = [status |-> "PENDING_REPLACE", filled |-> 0, op |-> 1]
    BY <1>3 DEF NewRow
  <2>2. "PENDING_REPLACE" \in OpenStates /\ 0 \in 0..Quantity
    BY Sizes DEF OpenStates, Processing
  <2> QED BY <2>1, <2>2 DEF Row
<1>9. Confirmed(broker, replaces, o)
  <2>1. broker[o].status # "PENDING_REPLACE" /\ broker[o].status # "REPLACE_REJECTED"
    BY <1>5 DEF Resting
  <2> QED BY <2>1 DEF BrokerOk, Confirmed
<1>10. PICK mid : mid = [broker EXCEPT ![o] = old]
  OBVIOUS
<1>11. /\ mid \in [Order -> RowOrNone]
       /\ BrokerOk(mid, replaces) /\ Advance(broker, replaces, mid, replaces)
  <2>1. Upto(broker[o], old)
    BY <1>6, <1>7 DEF Upto
  <2>2. broker[o].op < old.op
    BY <1>6, <1>7
  <2>3. old.filled < Quantity
    BY <1>6, <1>7
  <2>4. /\ [broker EXCEPT ![o] = old] \in [Order -> RowOrNone]
        /\ BrokerOk([broker EXCEPT ![o] = old], replaces)
        /\ Advance(broker, replaces, [broker EXCEPT ![o] = old], replaces)
    BY <2>1, <2>2, <2>3, <1>6, <1>7, <1>9, OneRow DEF Books
  <2> QED BY <2>4, <1>10
<1>12. n # o /\ mid[n] = NoRow /\ mid[o] = old
  BY <1>1, <1>6, <1>10 DEF Books
<1>13. broker' = [mid EXCEPT ![n] = new]
  BY <1>4, <1>10
<1>14. Confirmed(mid, replaces, o)
  <2> SUFFICES ASSUME replaces[o] # 0 PROVE mid[replaces[o]].status = "REPLACED"
    BY DEF Confirmed
  <2>1. replaces[o] \in Order /\ broker[replaces[o]].status = "REPLACED"
    BY <1>9, Sizes DEF Confirmed, Books, Order
  <2> QED BY <2>1, <1>11 DEF Advance, TerminalStates
<1>15. /\ broker' \in [Order -> RowOrNone] /\ replaces' \in [Order -> 0..MaxOrders]
       /\ BrokerOk(broker', replaces') /\ Advance(mid, replaces, broker', replaces')
  <2>1. old # NoRow /\ new.filled < Quantity /\ new.op > 0
    BY <1>7, <1>8, RowIsSome, Sizes
  <2>2. /\ [mid EXCEPT ![n] = new] \in [Order -> RowOrNone]
        /\ [replaces EXCEPT ![n] = o] \in [Order -> 0..MaxOrders]
        /\ BrokerOk([mid EXCEPT ![n] = new], [replaces EXCEPT ![n] = o])
        /\ Advance(mid, replaces, [mid EXCEPT ![n] = new], [replaces EXCEPT ![n] = o])
    BY <2>1, <1>8, <1>11, <1>12, <1>14, OneMore DEF Books
  <2> QED BY <2>2, <1>1, <1>13
<1>16. Advance(broker, replaces, broker', replaces')
  BY <1>11, <1>15, AdvanceTransitive DEF Books
<1>17. broker'[o] = old /\ broker'[n] = new
  BY <1>4, <1>12 DEF Books
<1>18. stream' \in Seq(Entries) /\ Grown(stream, stream', broker', replaces')
  <2>1. /\ Ev(o, old) \in Entries /\ Current(broker', replaces', Ev(o, old))
        /\ Ev(n, new) \in Entries /\ Current(broker', replaces', Ev(n, new))
    <3>1. Ev(o, broker'[o]) \in Entries /\ Current(broker', replaces', Ev(o, broker'[o]))
      BY <1>7, <1>15, <1>17, PresentIsCurrent
    <3>2. Ev(n, broker'[n]) \in Entries /\ Current(broker', replaces', Ev(n, broker'[n]))
      BY <1>8, <1>15, <1>17, PresentIsCurrent
    <3> QED BY <3>1, <3>2, <1>17
  <2> PICK e : e = Ev(o, old)
    OBVIOUS
  <2> PICK f : f = Ev(n, new)
    OBVIOUS
  <2> PICK evs : evs = <<e, f>>
    OBVIOUS
  <2>2. evs \in Seq(Entries) /\ \A i \in 1..Len(evs) : Current(broker', replaces', evs[i])
    BY <2>1, Two
  <2>3. Emit(evs)
    BY <1>4
  <2> QED BY <2>2, <2>3, EmitGrows DEF Books
<1> QED
  BY <1>15, <1>16, <1>18 DEF BrokerStep, Books

LEMMA EndReplaceStep ==
  ASSUME Books, BrokerOk(broker, replaces), NEW n \in Order, EndReplace(n)
  PROVE  BrokerStep
<1>1. PICK o : o = replaces[n]
  OBVIOUS
<1>2. PICK old : old = [broker[o] EXCEPT !.status = "REPLACED"]
  OBVIOUS
<1>3. PICK new : new = Rested(broker[n])
  OBVIOUS
<1>4. /\ broker[n].status = "PENDING_REPLACE" /\ o # 0 /\ broker[o].status = "PENDING_REPLACE"
      /\ broker' = [broker EXCEPT ![o] = old, ![n] = new]
      /\ Emit(<<Ev(o, old), Ev(n, new)>>) \/ Emit(<<Ev(n, new), Ev(o, old)>>)
      /\ replaces' = replaces
  BY <1>1, <1>2, <1>3 DEF EndReplace, Unconfirmed
<1>5. o \in Order
  BY <1>1, <1>4, Sizes DEF Books, Order
<1>6. /\ broker[o].status \in OpenStates /\ broker[o] \in Row /\ broker[o] # NoRow
      /\ broker[n].status \in OpenStates /\ broker[n] \in Row
      /\ broker[n].filled < Quantity
  BY <1>4, <1>5, SomeRow DEF Books, BrokerOk, OpenStates, Processing
<1>7. old \in Row /\ old.status = "REPLACED" /\ old.op = broker[o].op /\ old.filled = broker[o].filled
  <2> PICK s : s = "REPLACED"
    OBVIOUS
  <2>1. s \in OpenStates \cup TerminalStates /\ old = [broker[o] EXCEPT !.status = s]
    BY <1>2 DEF TerminalStates
  <2> QED BY <2>1, <1>6, WithStatus
<1>8. new \in Row /\ new.status \in Resting /\ new.op = broker[n].op /\ new.filled = broker[n].filled
  BY <1>3, <1>6, RestedIs
<1>9. Confirmed(broker, replaces, o)
  BY <1>1, <1>4 DEF Confirmed, BrokerOk
<1>10. n # o
  BY <1>1, <1>4, <1>9 DEF Confirmed
<1>11. PICK mid : mid = [broker EXCEPT ![o] = old]
  OBVIOUS
<1>12. /\ mid \in [Order -> RowOrNone]
       /\ BrokerOk(mid, replaces) /\ Advance(broker, replaces, mid, replaces)
  <2>1. Upto(broker[o], old)
    BY <1>6, <1>7, RowIsSome DEF Upto
  <2>2. old.status \notin OpenStates /\ old.status \notin Processing
    BY <1>7 DEF OpenStates, Resting, Processing
  <2>3. /\ [broker EXCEPT ![o] = old] \in [Order -> RowOrNone]
        /\ BrokerOk([broker EXCEPT ![o] = old], replaces)
        /\ Advance(broker, replaces, [broker EXCEPT ![o] = old], replaces)
    BY <2>1, <2>2, <1>5, <1>6, <1>7, <1>9, OneRow DEF Books
  <2> QED BY <2>3, <1>11
<1>13. mid[n] = broker[n] /\ mid[o] = old /\ broker' = [mid EXCEPT ![n] = new]
  BY <1>4, <1>5, <1>10, <1>11 DEF Books
<1>14. /\ broker' \in [Order -> RowOrNone]
       /\ BrokerOk(broker', replaces) /\ Advance(mid, replaces, broker', replaces)
  <2>1. Upto(mid[n], new) /\ new.filled < Quantity
    BY <1>6, <1>8, <1>13, RowIsSome DEF Upto
  <2>2. new.status \notin Processing /\ mid[n].status \in OpenStates
    BY <1>6, <1>8, <1>13, StatesApart
  <2>3. Confirmed(mid, replaces, n)
    BY <1>1, <1>7, <1>13 DEF Confirmed
  <2>4. /\ [mid EXCEPT ![n] = new] \in [Order -> RowOrNone]
        /\ BrokerOk([mid EXCEPT ![n] = new], replaces)
        /\ Advance(mid, replaces, [mid EXCEPT ![n] = new], replaces)
    BY <2>1, <2>2, <2>3, <1>8, <1>12, OneRow DEF Books
  <2> QED BY <2>4, <1>13
<1>15. Advance(broker, replaces, broker', replaces)
  BY <1>12, <1>14, AdvanceTransitive DEF Books
<1>16. broker'[o] = old /\ broker'[n] = new
  BY <1>4, <1>5, <1>10 DEF Books
<1>17. stream' \in Seq(Entries) /\ Grown(stream, stream', broker', replaces)
  <2>1. /\ Ev(o, old) \in Entries /\ Current(broker', replaces, Ev(o, old))
        /\ Ev(n, new) \in Entries /\ Current(broker', replaces, Ev(n, new))
    <3>1. Ev(o, broker'[o]) \in Entries /\ Current(broker', replaces, Ev(o, broker'[o]))
      BY <1>5, <1>7, <1>14, <1>16, PresentIsCurrent DEF Books
    <3>2. Ev(n, broker'[n]) \in Entries /\ Current(broker', replaces, Ev(n, broker'[n]))
      BY <1>8, <1>14, <1>16, PresentIsCurrent DEF Books
    <3> QED BY <3>1, <3>2, <1>16
  <2> PICK e : e = Ev(o, old)
    OBVIOUS
  <2> PICK f : f = Ev(n, new)
    OBVIOUS
  <2>2. /\ <<e, f>> \in Seq(Entries) /\ \A i \in 1..Len(<<e, f>>) : Current(broker', replaces, <<e, f>>[i])
        /\ <<f, e>> \in Seq(Entries) /\ \A i \in 1..Len(<<f, e>>) : Current(broker', replaces, <<f, e>>[i])
    BY <2>1, Two
  <2>3. PICK evs : evs \in Seq(Entries) /\ (\A i \in 1..Len(evs) : Current(broker', replaces, evs[i]))
                   /\ Emit(evs)
    BY <2>2, <1>4
  <2> QED BY <2>3, EmitGrows DEF Books
<1> QED
  BY <1>4, <1>14, <1>15, <1>17 DEF BrokerStep, Books

LEMMA Joined ==
  ASSUME NEW e \in Entries, NEW f \in Entries
  PROVE  <<e>> \o <<f>> = <<e, f>>
<1>1. <<e>> \in Seq(Entries) /\ <<e, f>> \in Seq(Entries)
  OBVIOUS
<1>2. <<e>> \o <<f>> = Append(<<e>>, f)
  BY <1>1, AppendIsConcat
<1> PICK s : s = <<e>>
  OBVIOUS
<1> PICK t : t = Append(s, f)
  OBVIOUS
<1> PICK u : u = <<e, f>>
  OBVIOUS
<1>3. s \in Seq(Entries) /\ Len(s) = 1 /\ s[1] = e
  BY <1>1
<1>4. t \in Seq(Entries) /\ Len(t) = 2 /\ t[1] = e /\ t[2] = f
  BY <1>3, AppendProperties
<1>5. u \in Seq(Entries) /\ Len(u) = 2 /\ u[1] = e /\ u[2] = f
  BY <1>1
<1>6. \A i \in 1..Len(t) : t[i] = u[i]
  <2>1. 1..2 = {1, 2}
    OBVIOUS
  <2> QED BY <2>1, <1>4, <1>5
<1>7. t = u
  BY <1>4, <1>5, <1>6, SeqEqual
<1> QED
  BY <1>2, <1>7

LEMMA RejectReplaceStep ==
  ASSUME Books, BrokerOk(broker, replaces), NEW n \in Order, RejectReplace(n)
  PROVE  BrokerStep
<1>1. PICK o : o = replaces[n]
  OBVIOUS
<1>2. PICK old : old = IF broker[o].status = "PENDING_REPLACE" THEN Rested(broker[o]) ELSE broker[o]
  OBVIOUS
<1>3. PICK new : new = [broker[n] EXCEPT !.status = "REPLACE_REJECTED"]
  OBVIOUS
<1>4. /\ broker[n].status = "PENDING_REPLACE" /\ o # 0 /\ broker[o].status # "REPLACED"
      /\ broker' = [broker EXCEPT ![o] = old, ![n] = new]
      /\ Emit(<<Ev(n, new)>> \o (IF old = broker[o] THEN <<>> ELSE <<Ev(o, old)>>))
      /\ replaces' = replaces
  BY <1>1, <1>2, <1>3 DEF RejectReplace, Unconfirmed
<1>5. o \in Order /\ broker[o] \in RowOrNone
  BY <1>1, <1>4, Sizes DEF Books, Order
<1>6. broker[n].status \in OpenStates /\ broker[n] \in Row /\ broker[n] # NoRow
  BY <1>4, SomeRow DEF Books, OpenStates, Processing
<1>7. new \in Row /\ new.status = "REPLACE_REJECTED" /\ new.op = broker[n].op /\ new.filled = broker[n].filled
  <2> PICK s : s = "REPLACE_REJECTED"
    OBVIOUS
  <2>1. s \in OpenStates \cup TerminalStates /\ new = [broker[n] EXCEPT !.status = s]
    BY <1>3 DEF TerminalStates
  <2> QED BY <2>1, <1>6, WithStatus
<1>8. Confirmed(broker, replaces, o)
  BY <1>1, <1>4 DEF Confirmed, BrokerOk
<1>9. n # o
  <2>1. replaces[n] # 0
    BY <1>1, <1>4
  <2>2. n = o => broker[replaces[n]].status = "REPLACED"
    BY <2>1, <1>8 DEF Confirmed
  <2> QED BY <2>2, <1>1, <1>4
<1>10. PICK mid : mid = [broker EXCEPT ![o] = old]
  OBVIOUS
<1>11. /\ mid \in [Order -> RowOrNone]
       /\ BrokerOk(mid, replaces) /\ Advance(broker, replaces, mid, replaces)
       /\ old = broker[o] \/ old \in Row
  <2>1. CASE broker[o].status = "PENDING_REPLACE"
    <3>1. broker[o].status \in OpenStates /\ broker[o] \in Row /\ broker[o].filled < Quantity
      BY <2>1, <1>5, SomeRow DEF OpenStates, Processing, BrokerOk
    <3>2. old \in Row /\ old.status \in Resting /\ old.op = broker[o].op /\ old.filled = broker[o].filled
      BY <2>1, <3>1, <1>2, RestedIs
    <3>3. Upto(broker[o], old) /\ old.filled < Quantity
      BY <3>1, <3>2, RowIsSome DEF Upto
    <3>4. old.status \notin Processing
      BY <3>2, StatesApart
    <3>5. /\ [broker EXCEPT ![o] = old] \in [Order -> RowOrNone]
          /\ BrokerOk([broker EXCEPT ![o] = old], replaces)
          /\ Advance(broker, replaces, [broker EXCEPT ![o] = old], replaces)
      BY <3>1, <3>2, <3>3, <3>4, <1>5, <1>8, OneRow DEF Books
    <3> QED BY <3>2, <3>5, <1>10
  <2>2. CASE broker[o].status # "PENDING_REPLACE"
    <3>1. old = broker[o] /\ mid = broker
      BY <2>2, <1>2, <1>5, <1>10 DEF Books
    <3> QED BY <3>1, NothingAdvances DEF Books
  <2> QED BY <2>1, <2>2
<1>12. mid[n] = broker[n] /\ mid[o] = old /\ broker' = [mid EXCEPT ![n] = new]
  BY <1>4, <1>5, <1>9, <1>10 DEF Books
<1>13. /\ broker' \in [Order -> RowOrNone]
       /\ BrokerOk(broker', replaces) /\ Advance(mid, replaces, broker', replaces)
  <2>1. Upto(mid[n], new)
    BY <1>6, <1>7, <1>12, RowIsSome DEF Upto
  <2>2. new.status \notin OpenStates /\ new.status \notin Processing /\ mid[n].status \in OpenStates
    BY <1>6, <1>7, <1>12 DEF OpenStates, Resting, Processing
  <2>3. /\ [mid EXCEPT ![n] = new] \in [Order -> RowOrNone]
        /\ BrokerOk([mid EXCEPT ![n] = new], replaces)
        /\ Advance(mid, replaces, [mid EXCEPT ![n] = new], replaces)
    BY <2>1, <2>2, <1>7, <1>11, OneRow DEF Books
  <2> QED BY <2>3, <1>12
<1>14. Advance(broker, replaces, broker', replaces)
  BY <1>11, <1>13, AdvanceTransitive DEF Books
<1>15. broker'[o] = old /\ broker'[n] = new
  BY <1>4, <1>5, <1>9 DEF Books
<1>16. stream' \in Seq(Entries) /\ Grown(stream, stream', broker', replaces)
  <2>1. Ev(n, new) \in Entries /\ Current(broker', replaces, Ev(n, new))
    <3>1. Ev(n, broker'[n]) \in Entries /\ Current(broker', replaces, Ev(n, broker'[n]))
      BY <1>7, <1>13, <1>15, PresentIsCurrent DEF Books
    <3> QED BY <3>1, <1>15
  <2> PICK e : e = Ev(n, new)
    OBVIOUS
  <2>2. CASE old = broker[o]
    <3>1. <<e>> \in Seq(Entries) /\ \A i \in 1..Len(<<e>>) : Current(broker', replaces, <<e>>[i])
      BY <2>1, One
    <3>2. Emit(<<e>> \o <<>>)
      BY <1>4, <2>2
    <3>3. <<e>> \o <<>> = <<e>>
      BY <3>1, ConcatEmptySeq
    <3>4. PICK evs : evs = <<e>>
      OBVIOUS
    <3>5. evs \in Seq(Entries) /\ (\A i \in 1..Len(evs) : Current(broker', replaces, evs[i])) /\ Emit(evs)
      BY <3>1, <3>2, <3>3, <3>4
    <3> QED BY <3>5, EmitGrows DEF Books
  <2>3. CASE old # broker[o]
    <3>1. Ev(o, old) \in Entries /\ Current(broker', replaces, Ev(o, old))
      <4>1. Ev(o, broker'[o]) \in Entries /\ Current(broker', replaces, Ev(o, broker'[o]))
        BY <2>3, <1>5, <1>11, <1>13, <1>15, PresentIsCurrent DEF Books
      <4> QED BY <4>1, <1>15
    <3> PICK f : f = Ev(o, old)
      OBVIOUS
    <3>2. <<e, f>> \in Seq(Entries) /\ \A i \in 1..Len(<<e, f>>) : Current(broker', replaces, <<e, f>>[i])
      BY <2>1, <3>1, Two
    <3>3. Emit(<<e>> \o <<f>>)
      BY <1>4, <2>3
    <3>4. <<e>> \o <<f>> = <<e, f>>
      BY <2>1, <3>1, Joined
    <3>5. PICK evs : evs = <<e, f>>
      OBVIOUS
    <3>6. evs \in Seq(Entries) /\ (\A i \in 1..Len(evs) : Current(broker', replaces, evs[i])) /\ Emit(evs)
      BY <3>2, <3>3, <3>4, <3>5
    <3> QED BY <3>6, EmitGrows DEF Books
  <2> QED BY <2>2, <2>3
<1> QED
  BY <1>4, <1>13, <1>14, <1>16 DEF BrokerStep, Books

LEMMA CancelStep ==
  ASSUME Books, BrokerOk(broker, replaces), NEW o \in Order, StartCancel(o) \/ EndCancel(o)
  PROVE  BrokerStep
<1>1. PICK row \in Row :
        /\ broker' = [broker EXCEPT ![o] = row] /\ replaces' = replaces
        /\ Emit(<<Ev(o, row)>>)
        /\ broker[o].status \in OpenStates /\ broker[o].status # "PENDING_REPLACE"
        /\ row.filled = broker[o].filled /\ broker[o].op <= row.op
        /\ row.status \in Processing => broker[o].op < row.op
  <2>1. CASE StartCancel(o)
    <3>1. broker[o].status \in Resting
      BY <2>1 DEF StartCancel
    <3>2. broker[o].status \in OpenStates /\ broker[o].status # "PENDING_REPLACE" /\ broker[o] \in Row
      BY <3>1, StatesApart, SomeRow DEF Books, Processing
    <3>3. PICK row : row = [broker[o] EXCEPT !.status = "PENDING_CANCEL", !.op = @ + 1]
      OBVIOUS
    <3>4. row = [status |-> "PENDING_CANCEL", filled |-> broker[o].filled, op |-> broker[o].op + 1]
      BY <3>2, <3>3 DEF Row
    <3>5. "PENDING_CANCEL" \in OpenStates /\ broker[o].filled \in 0..Quantity /\ broker[o].op \in Nat
      BY <3>2, Sizes DEF OpenStates, Processing, Row
    <3>6. row \in Row /\ row.filled = broker[o].filled /\ row.op = broker[o].op + 1
      BY <3>4, <3>5 DEF Row
    <3>7. broker' = [broker EXCEPT ![o] = row] /\ broker'[o] = row
      BY <2>1, <3>3 DEF StartCancel, Books
    <3>8. Emit(<<Ev(o, row)>>) /\ replaces' = replaces
      BY <2>1, <3>7 DEF StartCancel
    <3>9. broker[o].op < row.op /\ broker[o].op <= row.op
      BY <3>5, <3>6
    <3> QED BY <3>2, <3>6, <3>7, <3>8, <3>9
  <2>2. CASE EndCancel(o)
    <3>1. broker[o].status = "PENDING_CANCEL"
      BY <2>2 DEF EndCancel
    <3>2. broker[o].status \in OpenStates /\ broker[o].status # "PENDING_REPLACE" /\ broker[o] \in Row
      BY <3>1, SomeRow DEF Books, OpenStates, Processing
    <3>3. PICK row \in {Rested(broker[o]), [broker[o] EXCEPT !.status = "CANCELED"]} :
            broker' = [broker EXCEPT ![o] = row] /\ Emit(<<Ev(o, row)>>) /\ replaces' = replaces
      BY <2>2 DEF EndCancel
    <3>4. row \in Row /\ row.op = broker[o].op /\ row.filled = broker[o].filled /\ row.status \notin Processing
      <4>1. CASE row = Rested(broker[o])
        BY <4>1, <3>2, RestedIs, StatesApart
      <4>2. CASE row = [broker[o] EXCEPT !.status = "CANCELED"]
        <5> PICK s : s = "CANCELED"
          OBVIOUS
        <5>1. s \in OpenStates \cup TerminalStates /\ row = [broker[o] EXCEPT !.status = s]
          BY <4>2 DEF TerminalStates
        <5>2. row \in Row /\ row.status = s /\ row.op = broker[o].op /\ row.filled = broker[o].filled
          BY <5>1, <3>2, WithStatus
        <5> QED BY <5>2 DEF Processing
      <4> QED BY <3>3, <4>1, <4>2
    <3>5. broker[o].op <= row.op
      BY <3>2, <3>4, RowIsSome
    <3> QED BY <3>2, <3>3, <3>4, <3>5
  <2> QED BY <2>1, <2>2
<1>2. broker[o] \in Row /\ broker[o].filled < Quantity
  BY <1>1, SomeRow DEF Books, BrokerOk
<1>3. Upto(broker[o], row) /\ row.filled < Quantity
  BY <1>1, <1>2, RowIsSome DEF Upto
<1>4. Confirmed(broker, replaces, o)
  <2>1. broker[o].status # "REPLACE_REJECTED"
    BY <1>1 DEF OpenStates, Resting, Processing
  <2> QED BY <2>1, <1>1 DEF Confirmed, BrokerOk
<1>5. /\ broker' \in [Order -> RowOrNone]
      /\ BrokerOk(broker', replaces) /\ Advance(broker, replaces, broker', replaces)
  <2>1. /\ [broker EXCEPT ![o] = row] \in [Order -> RowOrNone]
        /\ BrokerOk([broker EXCEPT ![o] = row], replaces)
        /\ Advance(broker, replaces, [broker EXCEPT ![o] = row], replaces)
    BY <1>1, <1>3, <1>4, OneRow DEF Books
  <2> QED BY <2>1, <1>1
<1>6. broker'[o] = row
  BY <1>1 DEF Books
<1>7. stream' \in Seq(Entries) /\ Grown(stream, stream', broker', replaces)
  <2>1. Ev(o, row) \in Entries /\ Current(broker', replaces, Ev(o, row))
    <3>1. Ev(o, broker'[o]) \in Entries /\ Current(broker', replaces, Ev(o, broker'[o]))
      BY <1>5, <1>6, PresentIsCurrent DEF Books
    <3> QED BY <3>1, <1>6
  <2> PICK evs : evs = <<Ev(o, row)>>
    OBVIOUS
  <2>2. evs \in Seq(Entries) /\ \A i \in 1..Len(evs) : Current(broker', replaces, evs[i])
    BY <2>1, One
  <2>3. Emit(evs)
    BY <1>1
  <2> QED BY <2>2, <2>3, EmitGrows DEF Books
<1> QED
  BY <1>1, <1>5, <1>7 DEF BrokerStep, Books

LEMMA BrokerSteps ==
  ASSUME Books, BrokerOk(broker, replaces), Broker
  PROVE  BrokerStep
<1>1. ASSUME NEW o \in Order, Fill(o) PROVE BrokerStep
  BY <1>1, FillStep
<1>2. ASSUME NEW o \in Order, StartCancel(o) \/ EndCancel(o) PROVE BrokerStep
  BY <1>2, CancelStep
<1>3. ASSUME NEW o \in Order, NEW own \in BOOLEAN, StartReplace(o, own) PROVE BrokerStep
  BY <1>3, StartReplaceStep
<1>4. ASSUME NEW n \in Order, EndReplace(n) PROVE BrokerStep
  BY <1>4, EndReplaceStep
<1>5. ASSUME NEW n \in Order, RejectReplace(n) PROVE BrokerStep
  BY <1>5, RejectReplaceStep
<1> QED
  BY <1>1, <1>2, <1>3, <1>4, <1>5 DEF Broker

---------------------------------------------------------------------------
(* Merging.                                                                *)

\* m is what a row n becomes.
Becomes(p, n, c, m) ==
  \/ m = NoRow
  \/ m = n
  \/ /\ ~c /\ p.status \in Processing /\ n.status \in Resting /\ m \in Row
     /\ m.status = p.status /\ m.op = n.op /\ m.filled = n.filled

LEMMA MergeIs ==
  ASSUME NEW p \in RowOrNone, NEW n \in RowOrNone, NEW c \in BOOLEAN
  PROVE  MergeRow(p, n, c) \in RowOrNone /\ Becomes(p, n, c, MergeRow(p, n, c))
<1>1. CASE ~c /\ p.status \in Processing /\ n.status \in Resting
  <2>1. n \in Row /\ p.status \in OpenStates \cup TerminalStates
    BY <1>1, SomeRow, StatesApart
  <2> PICK s : s = p.status
    OBVIOUS
  <2> PICK m : m = [n EXCEPT !.status = s]
    OBVIOUS
  <2>2. m \in Row /\ m.status = s /\ m.op = n.op /\ m.filled = n.filled
    BY <2>1, WithStatus
  <2>3. MergeRow(p, n, c) \in {NoRow, n, m}
    BY DEF MergeRow
  <2> QED BY <2>2, <2>3, <1>1, RowIsSome, NoRowIs DEF Becomes
<1>2. CASE ~(~c /\ p.status \in Processing /\ n.status \in Resting)
  <2>1. MergeRow(p, n, c) \in {NoRow, n}
    BY <1>2 DEF MergeRow
  <2> QED BY <2>1, NoRowIs DEF Becomes
<1> QED
  BY <1>1, <1>2

LEMMA BecomesFaithful ==
  ASSUME NEW b, NEW rep, NEW o \in Order, NEW p \in RowOrNone, NEW n \in RowOrNone,
         NEW c \in BOOLEAN, NEW m \in RowOrNone, b \in [Order -> RowOrNone],
         Becomes(p, n, c, m), Faithful(b, rep, o, n)
  PROVE  Faithful(b, rep, o, m)
<1>1. CASE m = NoRow
  BY <1>1, NothingIsFaithful DEF ReadFaithfully
<1>2. CASE m = n
  BY <1>2
<1>3. CASE ~(m = NoRow \/ m = n)
  <2>1. m.status \in Processing /\ n.status \in Resting /\ m.op = n.op /\ m.filled = n.filled
    BY <1>3 DEF Becomes
  <2>2. m.status \notin TerminalStates /\ m.status \notin CompletedReplacementStates
    BY <2>1, StatesApart
  <2>3. n # NoRow
    BY <2>1, NoRowIs, StatesApart
  <2> QED BY <2>1, <2>2, <2>3 DEF Faithful, Upto
<1> QED
  BY <1>1, <1>2, <1>3

EventSet == [row : RowOrNone, rev : Int, completion : RowOrNone, ready : BOOLEAN, replaces : 0..MaxOrders]
RowTable == [Order -> RowOrNone]

LEMMA NoEventIs ==
  /\ NoEvent \in EventSet /\ NoEvent.row = NoRow /\ NoEvent.completion = NoRow
  /\ NoEvent.ready = FALSE /\ NoEvent.replaces = 0 /\ NoEvent.rev = -1
<1>1. 0 \in 0..MaxOrders /\ -1 \in Int
  BY Sizes
<1> QED
  BY <1>1, NoRowIs DEF NoEvent, EventSet

LEMMA NoReadIs ==
  /\ NoRead \in Reads /\ NoRead.openRows = NoRows /\ NoRead.closedRows = NoRows /\ NoRead.label = -1
  /\ NoRead.open = FALSE /\ NoRead.closed = FALSE
  /\ NoRows \in RowTable /\ \A o \in Order : NoRows[o] = NoRow
<1>1. NoRows \in [Order -> Row \cup {NoRow}] /\ \A o \in Order : NoRows[o] = NoRow
  BY DEF NoRows
<1>2. -1 \in Int
  OBVIOUS
<1> QED
  BY <1>1, <1>2 DEF NoRead, Reads, RowTable, RowOrNone

---------------------------------------------------------------------------
(* Types, by owner.                                                        *)

WireEntries == [order : Order, row : Row, rev : Nat]
BrokerTypes == Books
ServiceTypes == listening \in BOOLEAN /\ revision \in Nat /\ connected \in BOOLEAN /\ wire \in Seq(WireEntries)
EventTypes ==
  /\ events \in [Order -> EventSet] /\ replacements \in [Order -> 0..MaxOrders]
  /\ acked \subseteq Order /\ lockSeen \in [Order -> Nat]
ReadTypes == base \in Reads /\ request \in [kind : {"none", "sent"}, read : Reads] /\ outdated \in BOOLEAN
CommandTypes ==
  /\ command \in [kind : {"none", "sent", "accepted"}, order : 0..MaxOrders, id : 0..MaxOrders]
  /\ awaiting \in [Order -> 0..MaxOrders]
  /\ changes \in Nat

LEMMA TypesAre ==
  TypeOK <=> BrokerTypes /\ ServiceTypes /\ EventTypes /\ ReadTypes /\ CommandTypes
BY DEF TypeOK, BrokerTypes, Books, Entries, ServiceTypes, WireEntries, EventTypes, EventSet, ReadTypes, CommandTypes,
       RowOrNone

LEMMA TypesAreNext ==
  BrokerTypes' /\ ServiceTypes' /\ EventTypes' /\ ReadTypes' /\ CommandTypes' => TypeOK'
BY DEF TypeOK, BrokerTypes, Books, Entries, ServiceTypes, WireEntries, EventTypes, EventSet, ReadTypes,
       CommandTypes, RowOrNone

\* Primed: nothing of an owner changes.
LEMMA SameTypes ==
  /\ BrokerTypes /\ UNCHANGED brokerVars => BrokerTypes'
  /\ ServiceTypes /\ UNCHANGED <<listening, revision, connected, wire>> => ServiceTypes'
  /\ EventTypes /\ UNCHANGED <<eventVars, lockSeen>> => EventTypes'
  /\ ReadTypes /\ UNCHANGED readVars => ReadTypes'
  /\ CommandTypes /\ UNCHANGED <<commandVars, changes>> => CommandTypes'
<1>1. BrokerTypes /\ UNCHANGED brokerVars => BrokerTypes'
  BY DEF BrokerTypes, Books, brokerVars
<1>2. ServiceTypes /\ UNCHANGED <<listening, revision, connected, wire>> => ServiceTypes'
  BY DEF ServiceTypes
<1>3. EventTypes /\ UNCHANGED <<eventVars, lockSeen>> => EventTypes'
  BY DEF EventTypes, eventVars
<1>4. ReadTypes /\ UNCHANGED readVars => ReadTypes'
  BY DEF ReadTypes, readVars
<1>5. CommandTypes /\ UNCHANGED <<commandVars, changes>> => CommandTypes'
  BY DEF CommandTypes, commandVars
<1> QED
  BY <1>1, <1>2, <1>3, <1>4, <1>5

LEMMA BrokerLeaves ==
  ASSUME BrokerTypes, CommandTypes, Broker
  PROVE  /\ UNCHANGED <<serviceVars, wireVars, eventVars, readVars, awaiting, lockSeen>>
         /\ changes' \in Nat
         /\ \/ command' = command
            \/ \E n \in Order :
                 /\ command.kind = "sent" /\ command' = [command EXCEPT !.kind = "accepted", !.id = n]
                 /\ command.order \in Order
                 /\ replaces' = [replaces EXCEPT ![n] = command.order]
                 /\ broker[command.order].status \in Resting /\ broker[n] = NoRow
<1>1. ASSUME NEW o \in Order, Fill(o) PROVE UNCHANGED <<serviceVars, wireVars, eventVars, readVars, commandVars, lockSeen>> /\ changes' \in Nat
  BY <1>1 DEF Fill, Change, CommandTypes
<1>2. ASSUME NEW o \in Order, StartCancel(o) PROVE UNCHANGED <<serviceVars, wireVars, eventVars, readVars, commandVars, lockSeen>> /\ changes' \in Nat
  BY <1>2 DEF StartCancel, Change, CommandTypes
<1>3. ASSUME NEW o \in Order, EndCancel(o) PROVE UNCHANGED <<serviceVars, wireVars, eventVars, readVars, commandVars, lockSeen>> /\ changes' \in Nat
  BY <1>3 DEF EndCancel, CommandTypes
<1>4. ASSUME NEW o \in Order, EndReplace(o) PROVE UNCHANGED <<serviceVars, wireVars, eventVars, readVars, commandVars, lockSeen>> /\ changes' \in Nat
  BY <1>4 DEF EndReplace, CommandTypes
<1>5. ASSUME NEW o \in Order, RejectReplace(o) PROVE UNCHANGED <<serviceVars, wireVars, eventVars, readVars, commandVars, lockSeen>> /\ changes' \in Nat
  BY <1>5 DEF RejectReplace, CommandTypes
<1>6. ASSUME NEW o \in Order, NEW own \in BOOLEAN, StartReplace(o, own)
      PROVE  /\ UNCHANGED <<serviceVars, wireVars, eventVars, readVars, awaiting, lockSeen>>
             /\ changes' \in Nat
             /\ \/ command' = command
                \/ \E n \in Order :
                     /\ command.kind = "sent" /\ command' = [command EXCEPT !.kind = "accepted", !.id = n]
                     /\ command.order \in Order
                     /\ replaces' = [replaces EXCEPT ![n] = command.order]
                     /\ broker[command.order].status \in Resting /\ broker[n] = NoRow
  <2>1. UNCHANGED <<serviceVars, wireVars, eventVars, readVars, awaiting, lockSeen>>
    BY <1>6 DEF StartReplace
  <2>2. CASE own
    <3>1. changes' = changes /\ command.kind = "sent" /\ command.order = o /\ broker[o].status \in Resting
      BY <1>6, <2>2 DEF StartReplace
    <3>2. PICK n \in Order : command' = [command EXCEPT !.kind = "accepted", !.id = n]
                             /\ replaces' = [replaces EXCEPT ![n] = o] /\ broker[n] = NoRow
      BY <1>6, <2>2 DEF StartReplace
    <3> QED BY <2>1, <3>1, <3>2 DEF CommandTypes
  <2>3. CASE ~own
    <3>1. changes' \in Nat /\ command' = command
      BY <1>6, <2>3 DEF StartReplace, Change, CommandTypes
    <3> QED BY <2>1, <3>1
  <2> QED BY <2>2, <2>3
<1> QED
  BY <1>1, <1>2, <1>3, <1>4, <1>5, <1>6 DEF Broker, commandVars

LEMMA BrokerKeepsTypes ==
  ASSUME TypeOK, BrokerOk(broker, replaces), Broker
  PROVE  TypeOK' /\ BrokerOk(broker', replaces')
<1>1. BrokerTypes /\ ServiceTypes /\ EventTypes /\ ReadTypes /\ CommandTypes
  BY TypesAre
<1>2. BrokerStep
  BY <1>1, BrokerSteps DEF BrokerTypes
<1>3. BrokerTypes' /\ BrokerOk(broker', replaces')
  BY <1>2 DEF BrokerStep, BrokerTypes
<1>4. ServiceTypes' /\ EventTypes' /\ ReadTypes'
  BY <1>1, SameTypes, BrokerLeaves DEF serviceVars, wireVars, eventVars, readVars
<1>5. CommandTypes'
  <2>1. UNCHANGED awaiting /\ changes' \in Nat
    BY <1>1, BrokerLeaves
  <2>2. command' \in [kind : {"none", "sent", "accepted"}, order : 0..MaxOrders, id : 0..MaxOrders]
    <3>1. CASE command' = command
      BY <3>1, <1>1 DEF CommandTypes
    <3>2. ASSUME NEW n \in Order, command' = [command EXCEPT !.kind = "accepted", !.id = n]
          PROVE command' \in [kind : {"none", "sent", "accepted"}, order : 0..MaxOrders, id : 0..MaxOrders]
      <4>1. n \in 0..MaxOrders
        BY Sizes DEF Order
      <4> QED BY <3>2, <4>1, <1>1 DEF CommandTypes
    <3> QED BY <3>1, <3>2, <1>1, BrokerLeaves
  <2> QED BY <2>1, <2>2, <1>1 DEF CommandTypes
<1> QED
  BY <1>3, <1>4, <1>5, TypesAreNext

(* The same of the service's own steps, of the reads and of the commands.  *)
LEMMA ServiceKeepsTypes ==
  ASSUME TypeOK, Deliver \/ LoseStream \/ ResumeStream \/ Restart \/ Disconnect
  PROVE  TypeOK' /\ broker' = broker /\ replaces' = replaces
<1>1. BrokerTypes /\ ServiceTypes /\ EventTypes /\ ReadTypes /\ CommandTypes
  BY TypesAre
<1>2. <<>> \in Seq(Entries) /\ <<>> \in Seq(WireEntries)
  OBVIOUS
<1>3. CASE Deliver
  <2>1. /\ UNCHANGED <<broker, replaces, changes, listening, connected, eventVars, readVars, commandVars, lockSeen>>
        /\ stream # <<>> /\ stream' = Tail(stream) /\ revision' = revision + 1
    BY <1>3 DEF Deliver
  <2>2. stream' \in Seq(Entries) /\ Head(stream) \in Entries
    BY <2>1, <1>1, HeadTailProperties DEF BrokerTypes, Books
  <2>3. revision' \in Nat
    BY <2>1, <1>1 DEF ServiceTypes
  <2>4. wire' \in Seq(WireEntries)
    <3> PICK x : x = [order |-> Head(stream).order, row |-> Head(stream).row, rev |-> revision']
      OBVIOUS
    <3>1. x \in WireEntries
      BY <2>2, <2>3 DEF Entries, WireEntries
    <3>2. wire' = Append(wire, x) \/ wire' = wire
      BY <1>3 DEF Deliver
    <3> QED BY <3>1, <3>2, <1>1, AppendProperties DEF ServiceTypes
  <2>5. BrokerTypes'
    BY <2>1, <2>2, <1>1 DEF BrokerTypes, Books
  <2>6. ServiceTypes'
    BY <2>1, <2>3, <2>4, <1>1 DEF ServiceTypes
  <2>7. EventTypes' /\ ReadTypes' /\ CommandTypes'
    BY <2>1, <1>1, SameTypes
  <2> QED BY <2>1, <2>5, <2>6, <2>7, TypesAreNext
<1>4. CASE LoseStream
  <2>1. /\ UNCHANGED <<broker, replaces, wireVars, eventVars, readVars, commandVars, lockSeen>>
        /\ listening' = FALSE /\ stream' = <<>> /\ revision' = revision + 1 /\ changes' = changes + 1
    BY <1>4 DEF LoseStream, Change
  <2>2. BrokerTypes'
    BY <2>1, <1>1, <1>2 DEF BrokerTypes, Books
  <2>4. ServiceTypes'
    <3>1. connected' = connected /\ wire' = wire
      BY <2>1 DEF wireVars
    <3>2. listening' \in BOOLEAN
      BY <2>1
    <3>3. revision' \in Nat
      BY <2>1, <1>1 DEF ServiceTypes
    <3> QED BY <3>1, <3>2, <3>3, <1>1 DEF ServiceTypes
  <2>5. CommandTypes'
    BY <2>1, <1>1 DEF CommandTypes, commandVars
  <2>3. EventTypes' /\ ReadTypes'
    BY <2>1, <1>1, SameTypes
  <2> QED BY <2>1, <2>2, <2>3, <2>4, <2>5, TypesAreNext
<1>5. CASE ResumeStream
  <2>1. /\ UNCHANGED <<brokerVars, wireVars, eventVars, readVars, commandVars, changes, lockSeen>>
        /\ listening' = TRUE /\ revision' = revision + 1
    BY <1>5 DEF ResumeStream
  <2>2. BrokerTypes' /\ ServiceTypes'
    BY <2>1, <1>1, SameTypes DEF ServiceTypes, wireVars
  <2>3. EventTypes' /\ ReadTypes' /\ CommandTypes'
    BY <2>1, <1>1, SameTypes
  <2> QED BY <2>1, <2>2, <2>3, TypesAreNext DEF brokerVars
<1>6. CASE Restart
  <2>1. /\ UNCHANGED <<broker, replaces, eventVars, base, awaiting, lockSeen>>
        /\ listening' = FALSE /\ stream' = <<>> /\ revision' = 0 /\ changes' = changes + 1
        /\ connected' = FALSE /\ wire' = <<>> /\ request' = NoRequest
        /\ command' = NoCommand /\ outdated' = (base # NoRead)
    BY <1>6 DEF Restart, Change
  <2>2. BrokerTypes' /\ ServiceTypes'
    BY <2>1, <1>1, <1>2 DEF BrokerTypes, Books, ServiceTypes
  <2>3. EventTypes'
    BY <2>1, <1>1, SameTypes
  <2>4. ReadTypes'
    BY <2>1, <1>1, NoReadIs DEF ReadTypes, NoRequest
  <2>5. CommandTypes'
    BY <2>1, <1>1, Sizes DEF CommandTypes, NoCommand
  <2> QED BY <2>1, <2>2, <2>3, <2>4, <2>5, TypesAreNext
<1>7. CASE Disconnect
  <2>1. /\ UNCHANGED <<brokerVars, serviceVars, eventVars, readVars, commandVars, lockSeen>>
        /\ connected' = FALSE /\ wire' = <<>> /\ changes' = changes + 1
    BY <1>7 DEF Disconnect, Change
  <2>2. BrokerTypes' /\ EventTypes' /\ ReadTypes'
    BY <2>1, <1>1, SameTypes
  <2>3. ServiceTypes'
    BY <2>1, <1>1, <1>2 DEF ServiceTypes, serviceVars
  <2>4. CommandTypes'
    BY <2>1, <1>1 DEF CommandTypes, commandVars
  <2> QED BY <2>1, <2>2, <2>3, <2>4, TypesAreNext DEF brokerVars
<1> QED
  BY <1>3, <1>4, <1>5, <1>6, <1>7

LEMMA CanonicalIs ==
  ASSUME ReadTypes, NEW o \in Order
  PROVE  /\ base.openRows[o] \in RowOrNone /\ base.closedRows[o] \in RowOrNone
         /\ request.read.openRows[o] \in RowOrNone /\ request.read.closedRows[o] \in RowOrNone
         /\ Canonical(o) \in RowOrNone
         /\ Canonical(o) = base.openRows[o] \/ Canonical(o) = base.closedRows[o]
         /\ base.openRows[o] # NoRow => Canonical(o) = base.openRows[o]
         /\ base.openRows[o] = NoRow => Canonical(o) = base.closedRows[o]
<1>1. base \in Reads /\ request.read \in Reads
  BY DEF ReadTypes
<1>2. /\ base.openRows[o] \in RowOrNone /\ base.closedRows[o] \in RowOrNone
      /\ request.read.openRows[o] \in RowOrNone /\ request.read.closedRows[o] \in RowOrNone
  BY <1>1 DEF Reads, RowOrNone
<1> QED
  BY <1>2 DEF Canonical, Or

LEMMA ReadsKeepTypes ==
  ASSUME TypeOK, Poll \/ ReadOpen \/ ReadClosed \/ FailRead
  PROVE  /\ TypeOK' /\ broker' = broker /\ replaces' = replaces
         /\ UNCHANGED <<brokerVars, serviceVars, wireVars, eventVars, commandVars, lockSeen, base, outdated>>
<1>1. BrokerTypes /\ ServiceTypes /\ EventTypes /\ ReadTypes /\ CommandTypes
  BY TypesAre
<1>2. broker \in RowTable
  BY <1>1 DEF BrokerTypes, Books, RowTable
<1>3. request.kind \in {"none", "sent"} /\ request.read \in Reads
      /\ request \in [kind : {"none", "sent"}, read : Reads]
  BY <1>1 DEF ReadTypes
<1>4. /\ UNCHANGED <<brokerVars, serviceVars, wireVars, eventVars, commandVars, lockSeen, base, outdated>>
      /\ changes' \in Nat
  BY <1>1 DEF Poll, ReadOpen, ReadClosed, FailRead, Change, CommandTypes
<1>5. request' \in [kind : {"none", "sent"}, read : Reads]
  <2>1. CASE Poll
    <3> PICK r : r = [NoRead EXCEPT !.label = revision]
      OBVIOUS
    <3>1. revision \in Int
      BY <1>1 DEF ServiceTypes
    <3>2. r \in Reads
      BY <3>1, NoReadIs DEF Reads
    <3> QED BY <3>2, <2>1 DEF Poll
  <2>2. CASE ReadOpen
    <3> PICK rows : rows = [o \in Order |-> IF broker[o].status \in OpenStates THEN broker[o] ELSE NoRow]
      OBVIOUS
    <3>1. rows \in [Order -> Row \cup {NoRow}]
      BY <1>2 DEF RowTable, RowOrNone
    <3>2. request' = [request EXCEPT !.read.open = TRUE, !.read.openRows = rows]
      BY <2>2 DEF ReadOpen
    <3> PICK r : r = [request.read EXCEPT !.open = TRUE, !.openRows = rows]
      OBVIOUS
    <3>3. r \in Reads
      BY <3>1, <1>3 DEF Reads
    <3>4. request' = [kind |-> request.kind, read |-> r]
      BY <3>2, <1>3
    <3> QED BY <3>3, <3>4, <1>3
  <2>3. CASE ReadClosed
    <3> PICK rows : rows = [o \in Order |-> IF broker[o].status \in TerminalStates THEN broker[o] ELSE NoRow]
      OBVIOUS
    <3>1. rows \in [Order -> Row \cup {NoRow}]
      BY <1>2 DEF RowTable, RowOrNone
    <3>2. request' = [request EXCEPT !.read.closed = TRUE, !.read.closedRows = rows]
      BY <2>3 DEF ReadClosed
    <3> PICK r : r = [request.read EXCEPT !.closed = TRUE, !.closedRows = rows]
      OBVIOUS
    <3>3. r \in Reads
      BY <3>1, <1>3 DEF Reads
    <3>4. request' = [kind |-> request.kind, read |-> r]
      BY <3>2, <1>3
    <3> QED BY <3>3, <3>4, <1>3
  <2>4. CASE FailRead
    BY <2>4, NoReadIs DEF FailRead, NoRequest
  <2> QED BY <2>1, <2>2, <2>3, <2>4
<1>6. BrokerTypes' /\ ServiceTypes' /\ EventTypes'
  BY <1>1, <1>4, SameTypes DEF serviceVars, wireVars
<1>7. ReadTypes' /\ CommandTypes'
  BY <1>1, <1>4, <1>5 DEF ReadTypes, CommandTypes, commandVars
<1> QED
  BY <1>4, <1>6, <1>7, TypesAreNext DEF brokerVars

(* What applying an event does.                                            *)
LEMMA ApplyIs ==
  ASSUME EventTypes, ReadTypes, NEW o \in Order, NEW row \in Row, NEW rev \in Nat, Apply(o, row, rev)
  PROVE  \E p \in RowOrNone, m \in RowOrNone, c \in BOOLEAN :
           /\ p = IF events[o] # NoEvent THEN events[o].row ELSE Canonical(o)
           /\ c = (replacements[o] # 0 /\ p.status = "PENDING_REPLACE")
           /\ m = MergeRow(p, row, c)
           /\ Becomes(p, row, c, m)
           /\ \/ /\ events' = events /\ replacements' = replacements
                 /\ m = NoRow \/ (events[o] # NoEvent /\ rev <= events[o].rev)
              \/ \E x \in EventSet :
                   /\ m # NoRow /\ ~(events[o] # NoEvent /\ rev <= events[o].rev)
                   /\ events' = [events EXCEPT ![o] = x]
                   /\ x.row = m /\ x.rev = rev
                   /\ x.completion = NoRow \/ x.completion = row
                   /\ x.ready => replacements[o] # 0 \/ events[o].ready
                   /\ \/ x.replaces = events[o].replaces
                      \/ /\ m.status \in CompletedReplacementStates /\ replacements[o] # 0
                         /\ x.replaces = replacements[o]
                   /\ replacements' = replacements \/ replacements' = [replacements EXCEPT ![o] = 0]
<1> PICK p : p = IF events[o] # NoEvent THEN events[o].row ELSE Canonical(o)
  OBVIOUS
<1> PICK c : c = (replacements[o] # 0 /\ p.status = "PENDING_REPLACE")
  OBVIOUS
<1> PICK m : m = MergeRow(p, row, c)
  OBVIOUS
<1>1. events[o] \in EventSet /\ replacements[o] \in 0..MaxOrders
  BY DEF EventTypes
<1>2. p \in RowOrNone /\ c \in BOOLEAN
  BY <1>1, CanonicalIs DEF EventSet
<1>3. m \in RowOrNone /\ Becomes(p, row, c, m)
  BY <1>2, RowIsSome, MergeIs
<1> PICK held : held = (p.status = "PENDING_REPLACE" /\ row.status \in Resting /\ m.status # row.status)
  OBVIOUS
<1> PICK ready : ready = (m.status \in CompletedReplacementStates)
  OBVIOUS
<1> PICK acknowledged : acknowledged = (replacements[o] # 0)
  OBVIOUS
<1> PICK x : x = [row |-> m, rev |-> rev, completion |-> IF held THEN row ELSE NoRow,
                  ready |-> ready /\ (acknowledged \/ events[o].ready),
                  replaces |-> IF ready /\ acknowledged THEN replacements[o] ELSE events[o].replaces]
  OBVIOUS
<1>4. IF (events[o] # NoEvent /\ rev <= events[o].rev) \/ m = NoRow
      THEN UNCHANGED <<events, replacements>>
      ELSE /\ events' = [events EXCEPT ![o] = x]
           /\ replacements' = IF Settled(m) THEN [replacements EXCEPT ![o] = 0] ELSE replacements
  BY DEF Apply
<1>5. CASE (events[o] # NoEvent /\ rev <= events[o].rev) \/ m = NoRow
  BY <1>2, <1>3, <1>4, <1>5
<1>6. CASE ~((events[o] # NoEvent /\ rev <= events[o].rev) \/ m = NoRow)
  <2>1. x \in EventSet
    <3>1. rev \in Int /\ row \in RowOrNone /\ NoRow \in RowOrNone
      BY RowIsSome, NoRowIs
    <3>2. (ready /\ (acknowledged \/ events[o].ready)) \in BOOLEAN
      BY <1>1 DEF EventSet
    <3>3. (IF ready /\ acknowledged THEN replacements[o] ELSE events[o].replaces) \in 0..MaxOrders
      BY <1>1 DEF EventSet
    <3>4. (IF held THEN row ELSE NoRow) \in RowOrNone
      BY <3>1
    <3> QED BY <3>1, <3>2, <3>3, <3>4, <1>3 DEF EventSet
  <2>2. x.row = m /\ x.rev = rev /\ (x.completion = NoRow \/ x.completion = row)
    OBVIOUS
  <2>3. x.ready => replacements[o] # 0 \/ events[o].ready
    OBVIOUS
  <2>4. \/ x.replaces = events[o].replaces
        \/ /\ m.status \in CompletedReplacementStates /\ replacements[o] # 0
           /\ x.replaces = replacements[o]
    OBVIOUS
  <2>5. events' = [events EXCEPT ![o] = x]
        /\ (replacements' = replacements \/ replacements' = [replacements EXCEPT ![o] = 0])
    BY <1>4, <1>6
  <2>6. m # NoRow /\ ~(events[o] # NoEvent /\ rev <= events[o].rev)
    BY <1>6
  <2>7. \E y \in EventSet :
          /\ m # NoRow /\ ~(events[o] # NoEvent /\ rev <= events[o].rev)
          /\ events' = [events EXCEPT ![o] = y]
          /\ y.row = m /\ y.rev = rev
          /\ y.completion = NoRow \/ y.completion = row
          /\ y.ready => replacements[o] # 0 \/ events[o].ready
          /\ \/ y.replaces = events[o].replaces
             \/ /\ m.status \in CompletedReplacementStates /\ replacements[o] # 0
                /\ y.replaces = replacements[o]
          /\ replacements' = replacements \/ replacements' = [replacements EXCEPT ![o] = 0]
    <3> WITNESS x \in EventSet
    <3> QED BY <2>2, <2>3, <2>4, <2>5, <2>6
  <2> QED BY <2>7, <1>2, <1>3
<1> QED
  BY <1>5, <1>6

(* What an answer leaves of an event.                                      *)
LEMMA TombstoneIs ==
  ASSUME EventTypes, NEW read \in Reads, NEW o \in Order
  PROVE  \E t \in EventSet :
           /\ t = Tombstone(o, read)
           /\ \/ /\ t = events[o]
                 /\ \/ read.closedRows[o] = NoRow
                    \/ MergeRow(events[o].row, read.closedRows[o], TRUE) = NoRow
                    \/ events[o] # NoEvent /\ read.label < events[o].rev
              \/ /\ read.closedRows[o] # NoRow
                 /\ t.row = read.closedRows[o] /\ t.rev = read.label
                 /\ t.completion = events[o].completion /\ t.ready = events[o].ready
                 /\ t.replaces = events[o].replaces
<1> PICK e : e = events[o]
  OBVIOUS
<1> PICK row : row = read.closedRows[o]
  OBVIOUS
<1> PICK m : m = MergeRow(e.row, row, TRUE)
  OBVIOUS
<1>1. e \in EventSet /\ row \in RowOrNone /\ read.label \in Int
  BY DEF EventTypes, Reads, RowOrNone
<1>2. m = NoRow \/ m = row
  <2> PICK c \in BOOLEAN : c = TRUE
    OBVIOUS
  <2> PICK p : p = e.row
    OBVIOUS
  <2>1. p \in RowOrNone
    BY <1>1 DEF EventSet
  <2>2. Becomes(p, row, c, MergeRow(p, row, c))
    BY <1>1, <2>1, MergeIs
  <2> QED BY <2>2 DEF Becomes
<1> PICK t : t = Tombstone(o, read)
  OBVIOUS
<1>3. CASE row = NoRow \/ m = NoRow \/ (e # NoEvent /\ read.label < e.rev)
  <2>1. t = e
    BY <1>3 DEF Tombstone
  <2> QED BY <1>1, <1>3, <2>1
<1>4. CASE ~(row = NoRow \/ m = NoRow \/ (e # NoEvent /\ read.label < e.rev))
  <2>1. t = [e EXCEPT !.row = m, !.rev = read.label]
    BY <1>4 DEF Tombstone
  <2>2. m = row
    BY <1>2, <1>4
  <2>3. t \in EventSet /\ t.row = row /\ t.rev = read.label /\ t.completion = e.completion
        /\ t.ready = e.ready /\ t.replaces = e.replaces
    BY <2>1, <2>2, <1>1 DEF EventSet
  <2> QED BY <2>3, <1>4
<1> QED
  BY <1>3, <1>4

(* What the acknowledgement of a replacement does.                         *)
AcceptedAs(o, n, old, x) ==
  /\ old = events \/ (events[o] # NoEvent /\ old = [events EXCEPT ![o].ready = FALSE])
  /\ events' = [old EXCEPT ![n] = x]
  /\ \/ x.row = old[n].row
     \/ old[n].row.status = "PENDING_REPLACE" /\ x.row = old[n].completion /\ x.row # NoRow
  /\ x.completion = old[n].completion \/ x.completion = NoRow
  /\ x.rev = old[n].rev
  /\ \/ x.replaces = old[n].replaces
     \/ x.row.status \in CompletedReplacementStates /\ x.replaces = o
  /\ x.row = NoRow => x = old[n]

LEMMA AcceptIs ==
  ASSUME EventTypes, NEW o \in Order, NEW n \in Order, Accept(o, n)
  PROVE  /\ \E old \in [Order -> EventSet], x \in EventSet :
              AcceptedAs(o, n, old, x)
         /\ \E z \in {0, o} : replacements' = [replacements EXCEPT ![o] = 0, ![n] = z]
<1>old. PICK old : old = IF events[o] = NoEvent THEN events ELSE [events EXCEPT ![o].ready = FALSE]
  OBVIOUS
<1>e. PICK e : e = old[n]
  OBVIOUS
<1>completed. PICK completed : completed = MergeRow(e.row, e.completion, TRUE)
  OBVIOUS
<1>new. PICK new : new = IF e.row.status = "PENDING_REPLACE" /\ e.completion # NoRow /\ completed # NoRow
                     THEN [e EXCEPT !.row = completed, !.completion = NoRow] ELSE e
  OBVIOUS
<1>ready. PICK ready : ready = (new.row.status \in CompletedReplacementStates)
  OBVIOUS
<1>x. PICK x : x = IF ready THEN [new EXCEPT !.ready = TRUE, !.replaces = o] ELSE new
  OBVIOUS
<1>1. /\ events' = [old EXCEPT ![n] = x]
      /\ replacements' = [replacements EXCEPT ![o] = 0, ![n] = IF Settled(new.row) THEN 0 ELSE o]
  <2> DEFINE old0 == IF events[o] = NoEvent THEN events ELSE [events EXCEPT ![o].ready = FALSE]
             e0 == old0[n]
             completed0 == MergeRow(e0.row, e0.completion, TRUE)
             new0 == IF e0.row.status = "PENDING_REPLACE" /\ e0.completion # NoRow /\ completed0 # NoRow
                     THEN [e0 EXCEPT !.row = completed0, !.completion = NoRow] ELSE e0
             ready0 == new0.row.status \in CompletedReplacementStates
  <2>1. /\ events' = [old0 EXCEPT ![n] = IF ready0 THEN [new0 EXCEPT !.ready = TRUE, !.replaces = o] ELSE new0]
        /\ replacements' = [replacements EXCEPT ![o] = 0, ![n] = IF Settled(new0.row) THEN 0 ELSE o]
    BY DEF Accept
  <2>2. old = old0
    BY <1>old
  <2> HIDE DEF old0
  <2>3. e = e0
    BY <1>e, <2>2
  <2> HIDE DEF e0
  <2>4. completed = completed0
    BY <1>completed, <2>3
  <2> HIDE DEF completed0
  <2>5. new = new0
    BY <1>new, <2>3, <2>4
  <2> HIDE DEF new0
  <2>6. ready = ready0
    BY <1>ready, <2>5
  <2> HIDE DEF ready0
  <2>7. x = IF ready0 THEN [new0 EXCEPT !.ready = TRUE, !.replaces = o] ELSE new0
    BY <1>x, <2>5, <2>6
  <2> QED BY <2>1, <2>2, <2>5, <2>7
<1>2. old \in [Order -> EventSet]
  BY <1>old DEF EventTypes, EventSet
<1>3. old = events \/ (events[o] # NoEvent /\ old = [events EXCEPT ![o].ready = FALSE])
  BY <1>old
<1>4. e \in EventSet
  BY <1>2, <1>e
<1>5. completed = NoRow \/ completed = e.completion
  <2> PICK c \in BOOLEAN : c = TRUE
    OBVIOUS
  <2> PICK p : p = e.row
    OBVIOUS
  <2> PICK q : q = e.completion
    OBVIOUS
  <2>1. p \in RowOrNone /\ q \in RowOrNone
    BY <1>4 DEF EventSet
  <2>2. Becomes(p, q, c, MergeRow(p, q, c))
    BY <2>1, MergeIs
  <2>3. completed = MergeRow(p, q, c)
    BY <1>completed
  <2> QED BY <2>2, <2>3 DEF Becomes
<1>6. /\ new \in EventSet
      /\ \/ new.row = e.row
         \/ e.row.status = "PENDING_REPLACE" /\ new.row = e.completion /\ new.row # NoRow
      /\ new.completion = e.completion \/ new.completion = NoRow
      /\ new.rev = e.rev /\ new.replaces = e.replaces
      /\ new.row = NoRow => new = e
  <2>1. CASE e.row.status = "PENDING_REPLACE" /\ e.completion # NoRow /\ completed # NoRow
    <3>1. new = [e EXCEPT !.row = completed, !.completion = NoRow] /\ completed = e.completion
      BY <2>1, <1>5, <1>new
    <3>2. new \in EventSet /\ new.row = completed /\ new.completion = NoRow
          /\ new.rev = e.rev /\ new.replaces = e.replaces
      BY <3>1, <1>4, NoRowIs DEF EventSet
    <3> QED BY <2>1, <3>1, <3>2
  <2>2. CASE ~(e.row.status = "PENDING_REPLACE" /\ e.completion # NoRow /\ completed # NoRow)
    <3>1. new = e
      BY <2>2, <1>new
    <3> QED BY <3>1, <1>4
  <2> QED BY <2>1, <2>2
<1>7. /\ x \in EventSet /\ x.row = new.row /\ x.completion = new.completion /\ x.rev = new.rev
      /\ x.replaces = new.replaces \/ (ready /\ x.replaces = o)
      /\ ~ready => x = new
  <2>1. CASE ready
    <3>1. x = [new EXCEPT !.ready = TRUE, !.replaces = o] /\ o \in 0..MaxOrders
      BY <2>1, Sizes, <1>x DEF Order
    <3>2. x \in EventSet /\ x.row = new.row /\ x.completion = new.completion /\ x.rev = new.rev
          /\ x.replaces = o
      BY <3>1, <1>6 DEF EventSet
    <3> QED BY <2>1, <3>2
  <2>2. CASE ~ready
    <3>1. x = new
      BY <2>2, <1>x
    <3> QED BY <2>2, <3>1, <1>6
  <2> QED BY <2>1, <2>2
<1>8. ready => new.row # NoRow /\ new.row.status \in CompletedReplacementStates
  BY NoRowIs, <1>ready
<1>9. /\ \/ x.row = e.row
         \/ e.row.status = "PENDING_REPLACE" /\ x.row = e.completion /\ x.row # NoRow
      /\ x.completion = e.completion \/ x.completion = NoRow
      /\ x.rev = e.rev
      /\ \/ x.replaces = e.replaces
         \/ x.row.status \in CompletedReplacementStates /\ x.replaces = o
      /\ x.row = NoRow => x = e
  BY <1>6, <1>7, <1>8
<1>10. \E z \in {0, o} : replacements' = [replacements EXCEPT ![o] = 0, ![n] = z]
  BY <1>1
<1>11. \E y \in EventSet :
          /\ events' = [old EXCEPT ![n] = y]
          /\ \/ y.row = old[n].row
             \/ old[n].row.status = "PENDING_REPLACE" /\ y.row = old[n].completion /\ y.row # NoRow
          /\ y.completion = old[n].completion \/ y.completion = NoRow
          /\ y.rev = old[n].rev
          /\ \/ y.replaces = old[n].replaces
             \/ y.row.status \in CompletedReplacementStates /\ y.replaces = o
          /\ y.row = NoRow => y = old[n]
  <2>1. x \in EventSet
    BY <1>7
  <2> WITNESS x \in EventSet
  <2> QED BY <1>1, <1>9, <1>e
<1>12. \E y \in EventSet : AcceptedAs(o, n, old, y)
  BY <1>3, <1>11 DEF AcceptedAs
<1> QED
  BY <1>2, <1>10, <1>12

(* An event that arrives: its entry is the first of the wire.              *)
LEMMA HeadOf ==
  ASSUME NEW S, NEW s \in Seq(S), s # <<>>
  PROVE  /\ Head(s) \in S /\ Head(s) = s[1] /\ 1 \in DOMAIN s
         /\ Tail(s) \in Seq(S)
         /\ \A k \in DOMAIN Tail(s) : k \in Nat /\ k + 1 \in DOMAIN s /\ Tail(s)[k] = s[k + 1] /\ 1 < k + 1
<1>1. /\ Len(s) \in Nat /\ DOMAIN s = 1..Len(s) /\ Len(s) # 0
      /\ Tail(s) \in Seq(S) /\ Len(Tail(s)) = Len(s) - 1
      /\ \A i \in 1..Len(Tail(s)) : Tail(s)[i] = s[i + 1]
      /\ Head(s) = s[1] /\ Head(s) \in S
  BY HeadTailProperties, LenProperties, EmptySeq
<1>2. DOMAIN Tail(s) = 1..(Len(s) - 1)
  BY <1>1, LenProperties
<1>3. 1 \in DOMAIN s
  BY <1>1
<1>4. \A k \in 1..(Len(s) - 1) : k \in Nat /\ k + 1 \in 1..Len(s) /\ 1 < k + 1
  BY <1>1
<1> QED
  BY <1>1, <1>2, <1>3, <1>4

LEMMA TabKeepsTypes ==
  ASSUME TypeOK, OnEvent \/ Receive \/ Reconnect
  PROVE  TypeOK' /\ broker' = broker /\ replaces' = replaces
<1>1. BrokerTypes /\ ServiceTypes /\ EventTypes /\ ReadTypes /\ CommandTypes
  BY TypesAre
<1>2. CASE OnEvent
  <2>1. /\ UNCHANGED <<brokerVars, serviceVars, connected, acked, readVars, commandVars, changes>>
        /\ wire # <<>> /\ wire' = Tail(wire)
        /\ Apply(Head(wire).order, Head(wire).row, Head(wire).rev)
        /\ lockSeen' = [lockSeen EXCEPT ![Head(wire).order] = SeenLock(Head(wire).order, Head(wire).row)]
    BY <1>2 DEF OnEvent
  <2>2. wire' \in Seq(WireEntries) /\ Head(wire) \in WireEntries
    BY <2>1, <1>1, HeadOf DEF ServiceTypes
  <2>3. PICK o \in Order, row \in Row, rev \in Nat :
          o = Head(wire).order /\ row = Head(wire).row /\ rev = Head(wire).rev
    BY <2>2 DEF WireEntries
  <2>4. events' \in [Order -> EventSet] /\ replacements' \in [Order -> 0..MaxOrders]
    <3>1. Apply(o, row, rev)
      BY <2>1, <2>3
    <3>2. \/ events' = events /\ replacements' = replacements
          \/ \E x \in EventSet : /\ events' = [events EXCEPT ![o] = x]
                                 /\ replacements' = replacements \/ replacements' = [replacements EXCEPT ![o] = 0]
      BY <3>1, <1>1, ApplyIs
    <3>3. 0 \in 0..MaxOrders
      BY Sizes
    <3> QED BY <3>2, <3>3, <1>1 DEF EventTypes
  <2>5. lockSeen' \in [Order -> Nat]
    <3>1. SeenLock(o, row) \in Nat
      <4>1. row.op \in Nat /\ lockSeen[o] \in Nat
        BY <1>1, RowIsSome DEF EventTypes
      <4> QED BY <4>1 DEF SeenLock
    <3> QED BY <2>1, <2>3, <3>1, <1>1 DEF EventTypes
  <2>6. EventTypes'
    BY <2>1, <2>4, <2>5, <1>1 DEF EventTypes
  <2>7. ServiceTypes'
    BY <2>1, <2>2, <1>1 DEF ServiceTypes, serviceVars
  <2>8. BrokerTypes' /\ ReadTypes' /\ CommandTypes'
    BY <2>1, <1>1, SameTypes
  <2> QED BY <2>1, <2>6, <2>7, <2>8, TypesAreNext DEF brokerVars
<1>3. CASE Receive
  <2>1. /\ UNCHANGED <<brokerVars, serviceVars, wireVars, replacements, acked, commandVars, changes, lockSeen>>
        /\ base' = request.read /\ request' = NoRequest /\ outdated' = FALSE
        /\ events' = [o \in Order |-> Tombstone(o, request.read)]
    BY <1>3 DEF Receive
  <2>2. request.read \in Reads
    BY <1>1 DEF ReadTypes
  <2>3. \A o \in Order : Tombstone(o, request.read) \in EventSet
    BY <2>2, <1>1, TombstoneIs
  <2>4. EventTypes'
    BY <2>1, <2>3, <1>1 DEF EventTypes
  <2>5. ReadTypes'
    BY <2>1, <2>2, NoReadIs DEF ReadTypes, NoRequest
  <2>6. BrokerTypes' /\ CommandTypes' /\ ServiceTypes'
    BY <2>1, <1>1, SameTypes DEF serviceVars, wireVars
  <2> QED BY <2>1, <2>4, <2>5, <2>6, TypesAreNext DEF brokerVars
<1>4. CASE Reconnect
  <2>1. /\ UNCHANGED <<brokerVars, serviceVars, wire, acked, readVars, commandVars, changes>>
        /\ connected' = TRUE
        /\ events' = [o \in Order |-> IF events[o].row.status \in TerminalStates
                                      THEN [events[o] EXCEPT !.rev = -1] ELSE NoEvent]
        /\ replacements' = [o \in Order |-> 0]
        /\ lockSeen' = [o \in Order |-> 0]
    BY <1>4 DEF Reconnect
  <2>2. \A o \in Order : [events[o] EXCEPT !.rev = -1] \in EventSet
    <3>1. -1 \in Int
      OBVIOUS
    <3> QED BY <3>1, <1>1 DEF EventTypes, EventSet
  <2>3. events' \in [Order -> EventSet]
    BY <2>1, <2>2, NoEventIs
  <2>4. replacements' \in [Order -> 0..MaxOrders] /\ lockSeen' \in [Order -> Nat]
    BY <2>1, Sizes
  <2>5. EventTypes'
    BY <2>1, <2>3, <2>4, <1>1 DEF EventTypes
  <2>6. ServiceTypes'
    BY <2>1, <1>1 DEF ServiceTypes, serviceVars
  <2>7. BrokerTypes' /\ ReadTypes' /\ CommandTypes'
    BY <2>1, <1>1, SameTypes
  <2> QED BY <2>1, <2>5, <2>6, <2>7, TypesAreNext DEF brokerVars
<1> QED
  BY <1>2, <1>3, <1>4

LEMMA CommandsKeepTypes ==
  ASSUME TypeOK, (\E o \in Order : Modify(o)) \/ Acknowledge \/ FailCommand,
         command.kind = "accepted" => command.order \in Order /\ command.id \in Order
  PROVE  TypeOK' /\ broker' = broker /\ replaces' = replaces
<1>1. BrokerTypes /\ ServiceTypes /\ EventTypes /\ ReadTypes /\ CommandTypes
  BY TypesAre
<1>2. NoCommand \in [kind : {"none", "sent", "accepted"}, order : 0..MaxOrders, id : 0..MaxOrders]
  BY Sizes DEF NoCommand
<1>3. ASSUME NEW o \in Order, Modify(o) PROVE TypeOK' /\ broker' = broker /\ replaces' = replaces
  <2>1. /\ UNCHANGED <<brokerVars, serviceVars, wireVars, eventVars, base, outdated, awaiting, lockSeen>>
        /\ command' = [NoCommand EXCEPT !.kind = "sent", !.order = o]
        /\ request' = NoRequest /\ changes' = changes + 1
    BY <1>3 DEF Modify, Change
  <2>2. BrokerTypes' /\ EventTypes' /\ ServiceTypes'
    BY <2>1, <1>1, SameTypes DEF serviceVars, wireVars
  <2>3. ReadTypes'
    BY <2>1, <1>1, NoReadIs DEF ReadTypes, NoRequest
  <2>4. CommandTypes'
    <3>1. o \in 0..MaxOrders
      BY Sizes DEF Order
    <3>2. command' = [kind |-> "sent", order |-> o, id |-> 0]
      BY <2>1 DEF NoCommand
    <3>3. command' \in [kind : {"none", "sent", "accepted"}, order : 0..MaxOrders, id : 0..MaxOrders]
      BY <3>1, <3>2, Sizes
    <3>4. changes' \in Nat /\ awaiting' \in [Order -> 0..MaxOrders]
      BY <2>1, <1>1 DEF CommandTypes
    <3> QED BY <3>3, <3>4 DEF CommandTypes
  <2> QED BY <2>1, <2>2, <2>3, <2>4, TypesAreNext DEF brokerVars
<1>4. CASE Acknowledge
  <2>1. /\ UNCHANGED <<brokerVars, serviceVars, wireVars, readVars, changes, lockSeen>>
        /\ command.kind = "accepted" /\ command' = NoCommand
        /\ Accept(command.order, command.id)
        /\ acked' = acked \cup {command.id}
        /\ awaiting' = [awaiting EXCEPT ![command.order] = command.id]
    BY <1>4 DEF Acknowledge
  <2>2. PICK o \in Order, n \in Order : o = command.order /\ n = command.id
    BY <2>1
  <2>3. Accept(o, n)
    BY <2>1, <2>2
  <2>4. events' \in [Order -> EventSet]
    <3>1. \E old \in [Order -> EventSet], x \in EventSet : AcceptedAs(o, n, old, x)
      BY <2>3, <1>1, AcceptIs
    <3> QED BY <3>1 DEF AcceptedAs
  <2>5. replacements' \in [Order -> 0..MaxOrders]
    <3>1. PICK z \in {0, o} : replacements' = [replacements EXCEPT ![o] = 0, ![n] = z]
      BY <2>3, <1>1, AcceptIs
    <3>2. z \in 0..MaxOrders /\ 0 \in 0..MaxOrders
      BY Sizes DEF Order
    <3> QED BY <3>1, <3>2, <1>1 DEF EventTypes
  <2>6. EventTypes'
    BY <2>1, <2>2, <2>4, <2>5, <1>1 DEF EventTypes
  <2>7. CommandTypes'
    <3>1. n \in 0..MaxOrders
      BY Sizes DEF Order
    <3> QED BY <3>1, <2>1, <2>2, <1>1, <1>2 DEF CommandTypes
  <2>8. BrokerTypes' /\ ServiceTypes' /\ ReadTypes'
    BY <2>1, <1>1, SameTypes DEF serviceVars, wireVars
  <2> QED BY <2>1, <2>6, <2>7, <2>8, TypesAreNext DEF brokerVars
<1>5. CASE FailCommand
  <2>1. /\ UNCHANGED <<brokerVars, serviceVars, wireVars, eventVars, readVars, awaiting, lockSeen>>
        /\ command' = NoCommand /\ (changes' = changes \/ changes' = changes + 1)
    BY <1>5 DEF FailCommand, Change
  <2>2. BrokerTypes' /\ EventTypes' /\ ServiceTypes' /\ ReadTypes'
    BY <2>1, <1>1, SameTypes DEF serviceVars, wireVars
  <2>3. CommandTypes'
    BY <2>1, <1>1, <1>2 DEF CommandTypes
  <2> QED BY <2>1, <2>2, <2>3, TypesAreNext DEF brokerVars
<1> QED
  BY <1>3, <1>4, <1>5

---------------------------------------------------------------------------
(* What is said of an order, wherever it is said, was true.                *)

EventOk(b, rep, o, x) ==
  /\ Faithful(b, rep, o, x.row) /\ Faithful(b, rep, o, x.completion)
  /\ x.row = NoRow => x = NoEvent
  /\ x.replaces # 0 => b[x.replaces].status = "REPLACED"

RowsOk(b, rep, read) ==
  \A o \in Order :
    /\ ReadFaithfully(b, rep, o, read.openRows[o])
    /\ ReadFaithfully(b, rep, o, read.closedRows[o])
    /\ read.openRows[o] = NoRow \/ read.openRows[o].status \in OpenStates
    /\ read.closedRows[o] = NoRow \/ read.closedRows[o].status \in TerminalStates

StreamTruth == \A i \in DOMAIN stream : Faithful(broker, replaces, stream[i].order, stream[i].row)
WireTruth == \A i \in DOMAIN wire : Faithful(broker, replaces, wire[i].order, wire[i].row)
EventTruth == \A o \in Order : EventOk(broker, replaces, o, events[o])
AwaitedTruth == \A o \in Order : replacements[o] # 0 => replaces[o] = replacements[o]
ReadTruth == RowsOk(broker, replaces, base) /\ RowsOk(broker, replaces, request.read)
CommandTruth ==
  command.kind = "accepted" =>
    command.order \in Order /\ command.id \in Order /\ replaces[command.id] = command.order

Truth == StreamTruth /\ WireTruth /\ EventTruth /\ AwaitedTruth /\ ReadTruth /\ CommandTruth

LEMMA SameTruth ==
  ASSUME broker' = broker, replaces' = replaces
  PROVE  /\ StreamTruth /\ stream' = stream => StreamTruth'
         /\ WireTruth /\ wire' = wire => WireTruth'
         /\ EventTruth /\ events' = events => EventTruth'
         /\ AwaitedTruth /\ replacements' = replacements => AwaitedTruth'
         /\ ReadTruth /\ base' = base /\ request' = request => ReadTruth'
         /\ CommandTruth /\ command' = command => CommandTruth'
BY DEF StreamTruth, WireTruth, EventTruth, AwaitedTruth, ReadTruth, CommandTruth

LEMMA RowsStay ==
  ASSUME NEW b \in [Order -> RowOrNone], NEW c \in [Order -> RowOrNone],
         NEW rep \in [Order -> 0..MaxOrders], NEW sep \in [Order -> 0..MaxOrders],
         NEW read \in Reads, Advance(b, rep, c, sep), RowsOk(b, rep, read)
  PROVE  RowsOk(c, sep, read)
<1> SUFFICES ASSUME NEW o \in Order
             PROVE  /\ ReadFaithfully(c, sep, o, read.openRows[o])
                    /\ ReadFaithfully(c, sep, o, read.closedRows[o])
                    /\ read.openRows[o] = NoRow \/ read.openRows[o].status \in OpenStates
                    /\ read.closedRows[o] = NoRow \/ read.closedRows[o].status \in TerminalStates
  BY DEF RowsOk
<1>1. read.openRows[o] \in RowOrNone /\ read.closedRows[o] \in RowOrNone
  BY DEF Reads, RowOrNone
<1>2. ReadFaithfully(b, rep, o, read.openRows[o]) /\ ReadFaithfully(b, rep, o, read.closedRows[o])
  BY DEF RowsOk
<1>3. ReadFaithfully(c, sep, o, read.openRows[o]) /\ ReadFaithfully(c, sep, o, read.closedRows[o])
  BY <1>1, <1>2, ReadingStays
<1> QED
  BY <1>3 DEF RowsOk

LEMMA ReplacedStays ==
  ASSUME NEW b \in [Order -> RowOrNone], NEW c \in [Order -> RowOrNone], NEW rep, NEW sep,
         NEW o \in Order, Advance(b, rep, c, sep), b[o].status = "REPLACED"
  PROVE  c[o].status = "REPLACED"
BY DEF Advance, TerminalStates

LEMMA BrokerKeepsTruth ==
  ASSUME TypeOK, BrokerOk(broker, replaces), Truth, Broker
  PROVE  Truth'
<1>1. BrokerTypes /\ ServiceTypes /\ EventTypes /\ ReadTypes /\ CommandTypes
  BY TypesAre
<1>2. /\ broker \in [Order -> RowOrNone] /\ replaces \in [Order -> 0..MaxOrders] /\ stream \in Seq(Entries)
  BY <1>1 DEF BrokerTypes, Books
<1>3. BrokerStep
  BY <1>1, BrokerSteps DEF BrokerTypes
<1>4. /\ broker' \in [Order -> RowOrNone] /\ replaces' \in [Order -> 0..MaxOrders] /\ stream' \in Seq(Entries)
      /\ Advance(broker, replaces, broker', replaces') /\ Grown(stream, stream', broker', replaces')
  BY <1>3 DEF BrokerStep, Books
<1>5. ASSUME NEW o \in Order, NEW r \in RowOrNone, Faithful(broker, replaces, o, r)
      PROVE  Faithful(broker', replaces', o, r)
  BY <1>2, <1>4, <1>5, FaithfulStays
<1>6. UNCHANGED <<wire, events, replacements, base, request>>
  BY <1>1, BrokerLeaves DEF wireVars, eventVars, readVars
<1>7. StreamTruth'
  <2> SUFFICES ASSUME NEW i \in DOMAIN stream'
               PROVE  Faithful(broker', replaces', stream'[i].order, stream'[i].row)
    BY DEF StreamTruth
  <2>1. CASE i \in DOMAIN stream /\ stream'[i] = stream[i]
    <3>1. stream[i] \in Entries
      BY <2>1, <1>2, ElementOfSeq, LenProperties
    <3>2. stream[i].order \in Order /\ stream[i].row \in RowOrNone
      BY <3>1, RowIsSome DEF Entries
    <3>3. Faithful(broker, replaces, stream[i].order, stream[i].row)
      BY <2>1 DEF Truth, StreamTruth
    <3> QED BY <2>1, <3>2, <3>3, <1>5
  <2>2. CASE Current(broker', replaces', stream'[i])
    BY <2>2 DEF Current
  <2> QED BY <2>1, <2>2, <1>4 DEF Grown
<1>8. WireTruth'
  <2> SUFFICES ASSUME NEW i \in DOMAIN wire
               PROVE  Faithful(broker', replaces', wire[i].order, wire[i].row)
    BY <1>6 DEF WireTruth
  <2>1. wire[i] \in WireEntries
    BY <1>1, ElementOfSeq, LenProperties DEF ServiceTypes
  <2>2. wire[i].order \in Order /\ wire[i].row \in RowOrNone
    BY <2>1, RowIsSome DEF WireEntries
  <2>3. Faithful(broker, replaces, wire[i].order, wire[i].row)
    BY DEF Truth, WireTruth
  <2> QED BY <2>2, <2>3, <1>5
<1>9. EventTruth'
  <2> SUFFICES ASSUME NEW o \in Order PROVE EventOk(broker', replaces', o, events[o])
    BY <1>6 DEF EventTruth
  <2>1. EventOk(broker, replaces, o, events[o]) /\ events[o] \in EventSet
    BY <1>1 DEF Truth, EventTruth, EventTypes
  <2>2. events[o].row \in RowOrNone /\ events[o].completion \in RowOrNone /\ events[o].replaces \in 0..MaxOrders
    BY <2>1 DEF EventSet
  <2>3. Faithful(broker', replaces', o, events[o].row) /\ Faithful(broker', replaces', o, events[o].completion)
    BY <2>1, <2>2, <1>5 DEF EventOk
  <2>4. ASSUME events[o].replaces # 0 PROVE broker'[events[o].replaces].status = "REPLACED"
    <3>1. events[o].replaces \in Order
      BY <2>2, <2>4, Sizes DEF Order
    <3>2. broker[events[o].replaces].status = "REPLACED"
      BY <2>1, <2>4 DEF EventOk
    <3> QED BY <3>1, <3>2, <1>2, <1>4, ReplacedStays
  <2> QED BY <2>1, <2>3, <2>4 DEF EventOk
<1>10. ASSUME NEW o \in Order, replaces[o] # 0 PROVE replaces'[o] = replaces[o]
  BY <1>4, <1>10 DEF BrokerOk, Advance
<1>11. AwaitedTruth'
  BY <1>6, <1>10 DEF Truth, AwaitedTruth
<1>12. ReadTruth'
  <2>1. base \in Reads /\ request.read \in Reads
    BY <1>1 DEF ReadTypes
  <2>2. RowsOk(broker', replaces', base) /\ RowsOk(broker', replaces', request.read)
    BY <2>1, <1>2, <1>4, RowsStay DEF Truth, ReadTruth
  <2> QED BY <2>2, <1>6 DEF ReadTruth
<1>13. CommandTruth'
  <2>1. CASE command' = command
    <3> SUFFICES ASSUME command.kind = "accepted"
                 PROVE  command.order \in Order /\ command.id \in Order /\ replaces'[command.id] = command.order
      BY <2>1 DEF CommandTruth
    <3>1. command.order \in Order /\ command.id \in Order /\ replaces[command.id] = command.order
      BY DEF Truth, CommandTruth
    <3>2. command.order # 0
      BY <3>1, Sizes DEF Order
    <3> QED BY <3>1, <3>2, <1>10
  <2>2. ASSUME NEW n \in Order, command' = [command EXCEPT !.kind = "accepted", !.id = n],
               command.order \in Order, replaces' = [replaces EXCEPT ![n] = command.order]
        PROVE  CommandTruth'
    <3>1. command'.order = command.order /\ command'.id = n
      BY <2>2, <1>1 DEF CommandTypes
    <3>2. replaces'[n] = command.order
      BY <2>2, <1>2
    <3> QED BY <3>1, <3>2, <2>2 DEF CommandTruth
  <2> QED BY <2>1, <2>2, <1>1, BrokerLeaves
<1> QED
  BY <1>7, <1>8, <1>9, <1>11, <1>12, <1>13 DEF Truth

LEMMA PresentIsFaithful ==
  ASSUME NEW b \in [Order -> RowOrNone], NEW rep \in [Order -> 0..MaxOrders],
         NEW o \in Order, BrokerOk(b, rep)
  PROVE  ReadFaithfully(b, rep, o, b[o])
<1>1. CASE b[o] = NoRow
  BY <1>1, NothingIsFaithful
<1>2. CASE b[o] # NoRow
  <2>1. b[o] \in Row
    BY <1>2 DEF RowOrNone
  <2>2. Current(b, rep, Ev(o, b[o]))
    BY <2>1, PresentIsCurrent
  <2>3. Faithful(b, rep, o, b[o])
    BY <2>2 DEF Current, Ev
  <2> QED BY <2>3 DEF ReadFaithfully
<1> QED
  BY <1>1, <1>2

LEMMA NoReadIsTrue ==
  ASSUME NEW b \in [Order -> RowOrNone], NEW rep
  PROVE  RowsOk(b, rep, NoRead)
BY NoReadIs, NothingIsFaithful DEF RowsOk

LEMMA ServiceKeepsTruth ==
  ASSUME TypeOK, Truth, Deliver \/ LoseStream \/ ResumeStream \/ Restart \/ Disconnect
  PROVE  Truth'
<1>1. BrokerTypes /\ ServiceTypes /\ EventTypes /\ ReadTypes /\ CommandTypes
  BY TypesAre
<1>2. broker' = broker /\ replaces' = replaces /\ broker \in [Order -> RowOrNone]
  BY <1>1, ServiceKeepsTypes DEF BrokerTypes, Books
<1>3. /\ StreamTruth /\ WireTruth /\ EventTruth /\ AwaitedTruth /\ ReadTruth /\ CommandTruth
  BY DEF Truth
<1>4. /\ events' = events /\ replacements' = replacements
  BY DEF Deliver, LoseStream, ResumeStream, Restart, Disconnect, eventVars
<1>5. EventTruth' /\ AwaitedTruth'
  BY <1>2, <1>3, <1>4, SameTruth
<1>6. CASE Deliver
  <2>1. /\ UNCHANGED <<base, request, command>> /\ stream # <<>> /\ stream' = Tail(stream)
    BY <1>6 DEF Deliver, readVars, commandVars
  <2>2. ReadTruth' /\ CommandTruth'
    BY <2>1, <1>2, <1>3, SameTruth
  <2>3. StreamTruth'
    <3> SUFFICES ASSUME NEW i \in DOMAIN Tail(stream)
                 PROVE  Faithful(broker, replaces, Tail(stream)[i].order, Tail(stream)[i].row)
      BY <2>1, <1>2 DEF StreamTruth
    <3>1. i + 1 \in DOMAIN stream /\ Tail(stream)[i] = stream[i + 1]
      BY <2>1, <1>1, HeadOf DEF BrokerTypes, Books
    <3> QED BY <3>1, <1>3 DEF StreamTruth
  <2>4. WireTruth'
    <3> PICK x : x = [order |-> Head(stream).order, row |-> Head(stream).row, rev |-> revision']
      OBVIOUS
    <3>1. Head(stream) = stream[1] /\ 1 \in DOMAIN stream /\ Head(stream) \in Entries
      BY <2>1, <1>1, HeadOf DEF BrokerTypes, Books
    <3>2. Faithful(broker, replaces, x.order, x.row)
      BY <3>1, <1>3 DEF StreamTruth
    <3>3. revision' \in Nat
      BY <1>6, <1>1 DEF Deliver, ServiceTypes
    <3>4. x \in WireEntries
      BY <3>1, <3>3 DEF Entries, WireEntries
    <3>5. wire' = Append(wire, x) \/ wire' = wire
      BY <1>6 DEF Deliver
    <3>6. CASE wire' = Append(wire, x)
      <4> SUFFICES ASSUME NEW i \in DOMAIN Append(wire, x)
                   PROVE  Faithful(broker, replaces, Append(wire, x)[i].order, Append(wire, x)[i].row)
        BY <3>6, <1>2 DEF WireTruth
      <4>1. (i \in DOMAIN wire /\ Append(wire, x)[i] = wire[i]) \/ Append(wire, x)[i] = x
        <5>1. wire \in Seq(WireEntries)
          BY <1>1 DEF ServiceTypes
        <5>2. /\ Append(wire, x) \in Seq(WireEntries) /\ Len(Append(wire, x)) = Len(wire) + 1
              /\ \A j \in 1..Len(wire) : Append(wire, x)[j] = wire[j]
              /\ Append(wire, x)[Len(wire) + 1] = x
          BY <5>1, <3>4, AppendProperties
        <5>3. Len(wire) \in Nat /\ DOMAIN wire = 1..Len(wire) /\ i \in 1..(Len(wire) + 1)
          BY <5>1, <5>2, LenProperties
        <5> QED BY <5>2, <5>3
      <4> QED BY <4>1, <3>2, <1>3 DEF WireTruth
    <3>7. CASE wire' = wire
      BY <3>7, <1>2, <1>3, SameTruth
    <3> QED BY <3>5, <3>6, <3>7
  <2> QED BY <1>5, <2>2, <2>3, <2>4 DEF Truth
<1>7. CASE LoseStream
  <2>1. /\ UNCHANGED <<wire, base, request, command>> /\ stream' = <<>>
    BY <1>7 DEF LoseStream, wireVars, readVars, commandVars
  <2>2. StreamTruth'
    BY <2>1 DEF StreamTruth
  <2> QED BY <2>1, <2>2, <1>2, <1>3, <1>5, SameTruth DEF Truth
<1>8. CASE ResumeStream
  <2>1. UNCHANGED <<stream, wire, base, request, command>>
    BY <1>8 DEF ResumeStream, brokerVars, wireVars, readVars, commandVars
  <2> QED BY <2>1, <1>2, <1>3, <1>5, SameTruth DEF Truth
<1>9. CASE Restart
  <2>1. stream' = <<>> /\ wire' = <<>> /\ base' = base /\ request' = NoRequest /\ command' = NoCommand
    BY <1>9 DEF Restart
  <2>2. StreamTruth' /\ WireTruth'
    BY <2>1 DEF StreamTruth, WireTruth
  <2>3. ReadTruth'
    BY <2>1, <1>2, <1>3, NoReadIsTrue DEF ReadTruth, NoRequest
  <2>4. CommandTruth'
    BY <2>1 DEF CommandTruth, NoCommand
  <2> QED BY <2>2, <2>3, <2>4, <1>5 DEF Truth
<1>10. CASE Disconnect
  <2>1. UNCHANGED <<stream, base, request, command>> /\ wire' = <<>>
    BY <1>10 DEF Disconnect, brokerVars, readVars, commandVars
  <2>2. WireTruth'
    BY <2>1 DEF WireTruth
  <2> QED BY <2>1, <2>2, <1>2, <1>3, <1>5, SameTruth DEF Truth
<1> QED
  BY <1>6, <1>7, <1>8, <1>9, <1>10

LEMMA ReadsKeepTruth ==
  ASSUME TypeOK, BrokerOk(broker, replaces), Truth, Poll \/ ReadOpen \/ ReadClosed \/ FailRead
  PROVE  Truth'
<1>1. BrokerTypes /\ ServiceTypes /\ EventTypes /\ ReadTypes /\ CommandTypes
  BY TypesAre
<1>2. broker \in [Order -> RowOrNone] /\ replaces \in [Order -> 0..MaxOrders]
  BY <1>1 DEF BrokerTypes, Books
<1>3. broker' = broker /\ replaces' = replaces
      /\ UNCHANGED <<stream, wire, events, replacements, command, base>>
  BY ReadsKeepTypes DEF brokerVars, wireVars, eventVars, commandVars
<1>4. /\ StreamTruth /\ WireTruth /\ EventTruth /\ AwaitedTruth /\ ReadTruth /\ CommandTruth
  BY DEF Truth
<1>5. RowsOk(broker, replaces, request.read) /\ RowsOk(broker, replaces, base)
      /\ request.read \in Reads /\ request \in [kind : {"none", "sent"}, read : Reads]
  BY <1>1, <1>4 DEF ReadTruth, ReadTypes
<1>6. RowsOk(broker, replaces, request'.read)
  <2>1. CASE Poll
    <3>1. request'.read = [NoRead EXCEPT !.label = revision]
      BY <2>1 DEF Poll
    <3> PICK r : r = [NoRead EXCEPT !.label = revision]
      OBVIOUS
    <3>2. r.openRows = NoRows /\ r.closedRows = NoRows
      BY DEF NoRead
    <3>3. RowsOk(broker, replaces, r)
      BY <3>2, <1>2, NoReadIs, NothingIsFaithful DEF RowsOk
    <3> QED BY <3>1, <3>3
  <2>2. CASE ReadOpen
    <3> PICK rows : rows = [o \in Order |-> IF broker[o].status \in OpenStates THEN broker[o] ELSE NoRow]
      OBVIOUS
    <3> PICK r : r = request'.read
      OBVIOUS
    <3>1. r.openRows = rows /\ r.closedRows = request.read.closedRows
      BY <2>2, <1>5 DEF ReadOpen, Reads
    <3>2. ASSUME NEW o \in Order
          PROVE  ReadFaithfully(broker, replaces, o, rows[o]) /\ (rows[o] = NoRow \/ rows[o].status \in OpenStates)
      BY <1>2, PresentIsFaithful, NothingIsFaithful
    <3>3. RowsOk(broker, replaces, r)
      BY <3>1, <3>2, <1>5 DEF RowsOk
    <3> QED BY <3>3
  <2>3. CASE ReadClosed
    <3> PICK rows : rows = [o \in Order |-> IF broker[o].status \in TerminalStates THEN broker[o] ELSE NoRow]
      OBVIOUS
    <3> PICK r : r = request'.read
      OBVIOUS
    <3>1. r.closedRows = rows /\ r.openRows = request.read.openRows
      BY <2>3, <1>5 DEF ReadClosed, Reads
    <3>2. ASSUME NEW o \in Order
          PROVE  ReadFaithfully(broker, replaces, o, rows[o]) /\ (rows[o] = NoRow \/ rows[o].status \in TerminalStates)
      BY <1>2, PresentIsFaithful, NothingIsFaithful
    <3>3. RowsOk(broker, replaces, r)
      BY <3>1, <3>2, <1>5 DEF RowsOk
    <3> QED BY <3>3
  <2>4. CASE FailRead
    BY <2>4, <1>2, NoReadIsTrue DEF FailRead, NoRequest
  <2> QED BY <2>1, <2>2, <2>3, <2>4
<1>7. ReadTruth'
  BY <1>3, <1>5, <1>6 DEF ReadTruth
<1> QED
  BY <1>3, <1>4, <1>7, SameTruth DEF Truth

LEMMA TabKeepsTruth ==
  ASSUME TypeOK, BrokerOk(broker, replaces), Truth, OnEvent \/ Receive \/ Reconnect
  PROVE  Truth'
<1>1. BrokerTypes /\ ServiceTypes /\ EventTypes /\ ReadTypes /\ CommandTypes
  BY TypesAre
<1>2. broker \in [Order -> RowOrNone] /\ replaces \in [Order -> 0..MaxOrders]
  BY <1>1 DEF BrokerTypes, Books
<1>3. broker' = broker /\ replaces' = replaces /\ UNCHANGED <<stream, command>>
  BY DEF OnEvent, Receive, Reconnect, brokerVars, commandVars
<1>4. /\ StreamTruth /\ WireTruth /\ EventTruth /\ AwaitedTruth /\ ReadTruth /\ CommandTruth
  BY DEF Truth
<1>5. StreamTruth' /\ CommandTruth'
  BY <1>3, <1>4, SameTruth
<1>6. CASE OnEvent
  <2>1. /\ UNCHANGED <<base, request>> /\ wire # <<>> /\ wire' = Tail(wire)
        /\ Apply(Head(wire).order, Head(wire).row, Head(wire).rev)
    BY <1>6 DEF OnEvent, readVars
  <2>2. wire \in Seq(WireEntries)
    BY <1>1 DEF ServiceTypes
  <2>3. Head(wire) = wire[1] /\ 1 \in DOMAIN wire /\ Head(wire) \in WireEntries
    BY <2>1, <2>2, HeadOf
  <2>4. PICK o \in Order, row \in Row, rev \in Nat :
          o = Head(wire).order /\ row = Head(wire).row /\ rev = Head(wire).rev
    BY <2>3 DEF WireEntries
  <2>5. Faithful(broker, replaces, o, row) /\ row \in RowOrNone
    BY <2>3, <2>4, <1>4, RowIsSome DEF WireTruth
  <2>6. Apply(o, row, rev)
    BY <2>1, <2>4
  <2>7. PICK p \in RowOrNone, m \in RowOrNone, c \in BOOLEAN :
          /\ Becomes(p, row, c, m)
          /\ \/ /\ events' = events /\ replacements' = replacements
             \/ \E x \in EventSet :
                  /\ m # NoRow
                  /\ events' = [events EXCEPT ![o] = x]
                  /\ x.row = m
                  /\ x.completion = NoRow \/ x.completion = row
                  /\ \/ x.replaces = events[o].replaces
                     \/ /\ m.status \in CompletedReplacementStates /\ replacements[o] # 0
                        /\ x.replaces = replacements[o]
                  /\ replacements' = replacements \/ replacements' = [replacements EXCEPT ![o] = 0]
    BY <2>6, <1>1, ApplyIs
  <2>8. Faithful(broker, replaces, o, m)
    BY <2>5, <2>7, <1>2, BecomesFaithful
  <2>9. WireTruth'
    <3> SUFFICES ASSUME NEW i \in DOMAIN Tail(wire)
                 PROVE  Faithful(broker, replaces, Tail(wire)[i].order, Tail(wire)[i].row)
      BY <2>1, <1>3 DEF WireTruth
    <3>1. i + 1 \in DOMAIN wire /\ Tail(wire)[i] = wire[i + 1]
      BY <2>1, <2>2, HeadOf
    <3> QED BY <3>1, <1>4 DEF WireTruth
  <2>10. ReadTruth'
    BY <2>1, <1>3, <1>4, SameTruth
  <2>11. EventTruth' /\ AwaitedTruth'
    <3>1. CASE events' = events /\ replacements' = replacements
      BY <3>1, <1>3, <1>4, SameTruth
    <3>2. ASSUME NEW x \in EventSet, m # NoRow, events' = [events EXCEPT ![o] = x],
                 x.row = m, x.completion = NoRow \/ x.completion = row,
                 \/ x.replaces = events[o].replaces
                 \/ /\ m.status \in CompletedReplacementStates /\ replacements[o] # 0
                    /\ x.replaces = replacements[o],
                 replacements' = replacements \/ replacements' = [replacements EXCEPT ![o] = 0]
          PROVE  EventTruth' /\ AwaitedTruth'
      <4>1. Faithful(broker, replaces, o, x.completion)
        BY <3>2, <2>5, <1>2, NothingIsFaithful DEF ReadFaithfully
      <4>2. ASSUME x.replaces # 0 PROVE broker[x.replaces].status = "REPLACED"
        <5>1. CASE x.replaces = events[o].replaces
          BY <4>2, <5>1, <1>4 DEF EventTruth, EventOk
        <5>2. CASE /\ m.status \in CompletedReplacementStates /\ replacements[o] # 0
                   /\ x.replaces = replacements[o]
          <6>1. replaces[o] = x.replaces
            BY <5>2, <1>4 DEF AwaitedTruth
          <6> QED BY <6>1, <5>2, <4>2, <2>8 DEF Faithful
        <5> QED BY <5>1, <5>2, <3>2
      <4>3. EventOk(broker, replaces, o, x)
        BY <4>1, <4>2, <2>8, <3>2 DEF EventOk
      <4>4. \A q \in Order : events'[q] = IF q = o THEN x ELSE events[q]
        BY <3>2, <1>1 DEF EventTypes
      <4>5. EventTruth'
        BY <4>3, <4>4, <1>3, <1>4 DEF EventTruth
      <4>6. AwaitedTruth'
        BY <3>2, <1>1, <1>3, <1>4 DEF AwaitedTruth, EventTypes
      <4> QED BY <4>5, <4>6
    <3> QED BY <2>7, <3>1, <3>2
  <2> QED BY <1>5, <2>9, <2>10, <2>11 DEF Truth
<1>7. CASE Receive
  <2>1. /\ UNCHANGED <<wire, replacements>> /\ base' = request.read /\ request' = NoRequest
        /\ events' = [o \in Order |-> Tombstone(o, request.read)]
    BY <1>7 DEF Receive, wireVars
  <2>2. request.read \in Reads /\ RowsOk(broker, replaces, request.read)
    BY <1>1, <1>4 DEF ReadTypes, ReadTruth
  <2>3. ReadTruth'
    BY <2>1, <2>2, <1>2, <1>3, NoReadIsTrue DEF ReadTruth, NoRequest
  <2>4. ASSUME NEW o \in Order PROVE EventOk(broker, replaces, o, Tombstone(o, request.read))
    <3>1. PICK t \in EventSet :
           /\ t = Tombstone(o, request.read)
           /\ \/ t = events[o]
              \/ /\ request.read.closedRows[o] # NoRow
                 /\ t.row = request.read.closedRows[o]
                 /\ t.completion = events[o].completion
                 /\ t.replaces = events[o].replaces
      BY <2>2, <1>1, TombstoneIs
    <3>2. EventOk(broker, replaces, o, events[o])
      BY <1>4 DEF EventTruth
    <3>3. Faithful(broker, replaces, o, request.read.closedRows[o])
      BY <2>2 DEF RowsOk, ReadFaithfully
    <3> QED BY <3>1, <3>2, <3>3 DEF EventOk
  <2>5. EventTruth'
    BY <2>1, <2>4, <1>3 DEF EventTruth
  <2>6. WireTruth' /\ AwaitedTruth'
    BY <2>1, <1>3, <1>4, SameTruth
  <2> QED BY <1>5, <2>3, <2>5, <2>6 DEF Truth
<1>8. CASE Reconnect
  <2>1. /\ UNCHANGED <<wire, base, request>>
        /\ events' = [o \in Order |-> IF events[o].row.status \in TerminalStates
                                      THEN [events[o] EXCEPT !.rev = -1] ELSE NoEvent]
        /\ replacements' = [o \in Order |-> 0]
    BY <1>8 DEF Reconnect, readVars
  <2>2. ASSUME NEW o \in Order
        PROVE  EventOk(broker, replaces, o, IF events[o].row.status \in TerminalStates
                                            THEN [events[o] EXCEPT !.rev = -1] ELSE NoEvent)
    <3>1. CASE events[o].row.status \in TerminalStates
      <4> PICK t : t = [events[o] EXCEPT !.rev = -1]
        OBVIOUS
      <4>1. /\ t.row = events[o].row /\ t.completion = events[o].completion
            /\ t.replaces = events[o].replaces
        BY <1>1 DEF EventTypes, EventSet
      <4>2. t.row # NoRow
        BY <4>1, <3>1, NoRowIs
      <4>3. EventOk(broker, replaces, o, events[o])
        BY <1>4 DEF EventTruth
      <4>4. EventOk(broker, replaces, o, t)
        BY <4>1, <4>2, <4>3 DEF EventOk
      <4> QED BY <4>4, <3>1
    <3>2. CASE events[o].row.status \notin TerminalStates
      <4>1. Faithful(broker, replaces, o, NoRow)
        BY <1>2, NothingIsFaithful DEF ReadFaithfully
      <4>2. EventOk(broker, replaces, o, NoEvent)
        BY <4>1, NoEventIs DEF EventOk
      <4> QED BY <4>2, <3>2
    <3> QED BY <3>1, <3>2
  <2>3. EventTruth'
    BY <2>1, <2>2, <1>3 DEF EventTruth
  <2>4. AwaitedTruth'
    BY <2>1 DEF AwaitedTruth
  <2>5. WireTruth' /\ ReadTruth'
    BY <2>1, <1>3, <1>4, SameTruth
  <2> QED BY <1>5, <2>3, <2>4, <2>5 DEF Truth
<1> QED
  BY <1>6, <1>7, <1>8

LEMMA CommandsKeepTruth ==
  ASSUME TypeOK, BrokerOk(broker, replaces), Truth,
         (\E o \in Order : Modify(o)) \/ Acknowledge \/ FailCommand
  PROVE  Truth'
<1>1. BrokerTypes /\ ServiceTypes /\ EventTypes /\ ReadTypes /\ CommandTypes
  BY TypesAre
<1>2. broker \in [Order -> RowOrNone] /\ replaces \in [Order -> 0..MaxOrders]
  BY <1>1 DEF BrokerTypes, Books
<1>3. broker' = broker /\ replaces' = replaces /\ UNCHANGED <<stream, wire, base>>
  BY DEF Modify, Acknowledge, FailCommand, brokerVars, wireVars, readVars
<1>4. /\ StreamTruth /\ WireTruth /\ EventTruth /\ AwaitedTruth /\ ReadTruth /\ CommandTruth
  BY DEF Truth
<1>5. StreamTruth' /\ WireTruth'
  BY <1>3, <1>4, SameTruth
<1>6. ASSUME NEW o \in Order, Modify(o) PROVE Truth'
  <2>1. /\ UNCHANGED <<events, replacements>>
        /\ command' = [NoCommand EXCEPT !.kind = "sent", !.order = o] /\ request' = NoRequest
    BY <1>6 DEF Modify, eventVars
  <2>2. CommandTruth'
    BY <2>1 DEF CommandTruth, NoCommand
  <2>3. ReadTruth'
    BY <2>1, <1>2, <1>3, <1>4, NoReadIsTrue DEF ReadTruth, NoRequest
  <2>4. EventTruth' /\ AwaitedTruth'
    BY <2>1, <1>3, <1>4, SameTruth
  <2> QED BY <1>5, <2>2, <2>3, <2>4 DEF Truth
<1>7. CASE FailCommand
  <2>1. /\ UNCHANGED <<events, replacements, request>> /\ command' = NoCommand
    BY <1>7 DEF FailCommand, eventVars, readVars
  <2>2. CommandTruth'
    BY <2>1 DEF CommandTruth, NoCommand
  <2>3. EventTruth' /\ AwaitedTruth' /\ ReadTruth'
    BY <2>1, <1>3, <1>4, SameTruth
  <2> QED BY <1>5, <2>2, <2>3 DEF Truth
<1>8. CASE Acknowledge
  <2>1. /\ request' = request /\ command.kind = "accepted" /\ command' = NoCommand
        /\ Accept(command.order, command.id)
    BY <1>8 DEF Acknowledge, readVars
  <2>2. CommandTruth' /\ ReadTruth'
    BY <2>1, <1>3, <1>4, SameTruth DEF CommandTruth, NoCommand
  <2>3. PICK o \in Order, n \in Order : o = command.order /\ n = command.id /\ replaces[n] = o
    BY <2>1, <1>4 DEF CommandTruth
  <2>4. Accept(o, n)
    BY <2>1, <2>3
  <2>5. PICK old \in [Order -> EventSet], x \in EventSet :
              AcceptedAs(o, n, old, x)
    BY <2>4, <1>1, AcceptIs
  <2>6. ASSUME NEW q \in Order
        PROVE  /\ old[q].row = events[q].row /\ old[q].completion = events[q].completion
               /\ old[q].replaces = events[q].replaces /\ old[q].rev = events[q].rev
               /\ events[q] = NoEvent => old[q] = NoEvent
    <3>1. events[q] \in EventSet
      BY <1>1 DEF EventTypes
    <3>2. CASE old = events
      BY <3>2
    <3>3. CASE events[o] # NoEvent /\ old = [events EXCEPT ![o].ready = FALSE]
      BY <3>1, <3>3, <1>1 DEF EventTypes, EventSet
    <3> QED BY <3>2, <3>3, <2>5 DEF AcceptedAs
  <2>7. ASSUME NEW q \in Order PROVE EventOk(broker, replaces, q, old[q])
    <3>1. EventOk(broker, replaces, q, events[q])
      BY <1>4 DEF EventTruth
    <3> QED BY <3>1, <2>6 DEF EventOk
  <2>8. EventOk(broker, replaces, n, x)
    <3>1. EventOk(broker, replaces, n, old[n])
      BY <2>7
    <3>2. Faithful(broker, replaces, n, x.row)
      BY <3>1, <2>5 DEF EventOk, AcceptedAs
    <3>3. Faithful(broker, replaces, n, x.completion)
      BY <3>1, <2>5, <1>2, NothingIsFaithful DEF EventOk, ReadFaithfully, AcceptedAs
    <3>4. ASSUME x.replaces # 0 PROVE broker[x.replaces].status = "REPLACED"
      <4>1. CASE x.replaces = old[n].replaces
        BY <3>1, <3>4, <4>1 DEF EventOk
      <4>2. CASE x.row.status \in CompletedReplacementStates /\ x.replaces = o
        BY <3>2, <3>4, <4>2, <2>3 DEF Faithful
      <4> QED BY <4>1, <4>2, <2>5 DEF AcceptedAs
    <3>5. x.row = NoRow => x = NoEvent
      BY <3>1, <2>5 DEF EventOk, AcceptedAs
    <3> QED BY <3>2, <3>3, <3>4, <3>5 DEF EventOk
  <2>9. EventTruth'
    <3>1. \A q \in Order : events'[q] = IF q = n THEN x ELSE old[q]
      BY <2>5 DEF AcceptedAs
    <3> QED BY <3>1, <2>7, <2>8, <1>3 DEF EventTruth
  <2>10. AwaitedTruth'
    <3>1. PICK z \in {0, o} : replacements' = [replacements EXCEPT ![o] = 0, ![n] = z]
      BY <2>4, <1>1, AcceptIs
    <3>2. \A q \in Order : replacements'[q] = IF q = n THEN z ELSE IF q = o THEN 0 ELSE replacements[q]
      BY <3>1, <1>1 DEF EventTypes
    <3> QED BY <3>2, <2>3, <1>3, <1>4 DEF AwaitedTruth
  <2> QED BY <1>5, <2>2, <2>9, <2>10 DEF Truth
<1> QED
  BY <1>6, <1>7, <1>8

---------------------------------------------------------------------------
(* What comes later says more.                                             *)

\* Of one order, in the order of the entries, and not before what ls has seen.
StreamOrdered(s, ls) ==
  /\ \A i, j \in DOMAIN s : i < j /\ s[i].order = s[j].order => Upto(s[i].row, s[j].row)
  /\ \A i \in DOMAIN s : ls[s[i].order] <= s[i].row.op

WireOrdered(w, s, rev, ls) ==
  /\ StreamOrdered(w, ls)
  /\ \A i \in DOMAIN w, j \in DOMAIN s : w[i].order = s[j].order => Upto(w[i].row, s[j].row)
  /\ \A i, j \in DOMAIN w : i < j => w[i].rev < w[j].rev
  /\ \A i \in DOMAIN w : w[i].rev <= rev

\* An event that is kept, of an order that the tab was not acknowledged.
EventsBefore(ev, ak, w, s, con, rev) ==
  \A o \in Order : o \notin ak /\ ev[o].row.status \notin TerminalStates =>
    /\ con => ev[o].rev <= rev
    /\ \A i \in DOMAIN w : w[i].order = o => Upto(ev[o].row, w[i].row) /\ ev[o].rev < w[i].rev
    /\ \A i \in DOMAIN s : s[i].order = o => Upto(ev[o].row, s[i].row)

\* An answer may be older or newer than an event.
Comparable(r, t) == Upto(r, t) \/ Upto(t, r)
Compared(read, w, s) ==
  /\ \A i \in DOMAIN w : Comparable(read.openRows[w[i].order], w[i].row)
  /\ \A i \in DOMAIN s : Comparable(read.openRows[s[i].order], s[i].row)

\* It is newer than the events up to its label.
Newer(read, rev, w, ev, ak, b) ==
  /\ read.label <= rev
  /\ \A i \in DOMAIN w : read.openRows[w[i].order] # NoRow /\ read.label >= w[i].rev =>
       w[i].row.op <= read.openRows[w[i].order].op
  /\ \A o \in Order :
       read.openRows[o] # NoRow /\ o \notin ak /\ b[o].status \in OpenStates /\ read.label >= ev[o].rev =>
         ev[o].row.op <= read.openRows[o].op

\* A read under way is newer than the last answer.
Fresh(bs, rq, b) ==
  \A o \in Order : bs.openRows[o] # NoRow /\ rq.open /\ b[o].status \in OpenStates =>
    rq.openRows[o] # NoRow /\ bs.openRows[o].op <= rq.openRows[o].op

AckInv == \A o \in Order : events[o].ready \/ replacements[o] # 0 => o \in acked

(* An order that is locked has its event, or a newer answer in its place.  *)
LockInv ==
  \A o \in Order : o \notin acked /\ Locked(o) =>
    \/ events[o] = NoEvent /\ base.openRows[o] # NoRow /\ base.openRows[o].op = broker[o].op
    \/ events[o].row.status \in Processing /\ events[o].row.op = broker[o].op

Chain ==
  /\ StreamOrdered(stream, lockSeen)
  /\ WireOrdered(wire, stream, revision, lockSeen)
  /\ \A o \in Order : lockSeen[o] <= broker[o].op
  /\ EventsBefore(events, acked, wire, stream, connected, revision)
  /\ Compared(base, wire, stream) /\ Compared(request.read, wire, stream)
  /\ ~outdated => Newer(base, revision, wire, events, acked, broker)
  /\ Newer(request.read, revision, wire, events, acked, broker)
  /\ Fresh(base, request.read, broker)
  /\ AckInv
  /\ LockInv

Inv == TypeOK /\ BrokerOk(broker, replaces) /\ Truth /\ Chain

---------------------------------------------------------------------------
(* Sequences that lose their first entry, or all of them.                  *)

Suffix(t, s) == \E d \in {0, 1} : \A k \in DOMAIN t : k + d \in DOMAIN s /\ t[k] = s[k + d]

LEMMA SuffixIs ==
  ASSUME NEW S, NEW s \in Seq(S)
  PROVE  /\ Suffix(s, s) /\ Suffix(<<>>, s)
         /\ s # <<>> => Suffix(Tail(s), s)
<1>1. Suffix(s, s)
  <2>1. \A k \in DOMAIN s : k + 0 \in DOMAIN s /\ s[k] = s[k + 0]
    OBVIOUS
  <2>q. QED BY <2>1 DEF Suffix
<1>2. Suffix(<<>>, s)
  <2>1. \A k \in DOMAIN <<>> : k + 0 \in DOMAIN s /\ <<>>[k] = s[k + 0]
    OBVIOUS
  <2>q. QED BY <2>1 DEF Suffix
<1>3. ASSUME s # <<>> PROVE Suffix(Tail(s), s)
  BY <1>3, HeadOf DEF Suffix
<1>q. QED BY <1>1, <1>2, <1>3

LEMMA StreamShrinks ==
  ASSUME NEW S, NEW s \in Seq(S), NEW t \in Seq(S), NEW ls, Suffix(t, s), StreamOrdered(s, ls)
  PROVE  StreamOrdered(t, ls)
<1>d. PICK d \in {0, 1} : \A k \in DOMAIN t : k + d \in DOMAIN s /\ t[k] = s[k + d]
  BY DEF Suffix
<1>1. ASSUME NEW i \in DOMAIN t, NEW j \in DOMAIN t, i < j, t[i].order = t[j].order
      PROVE  Upto(t[i].row, t[j].row)
  <2>1. i + d < j + d
    BY <1>1, <1>d
  <2>q. QED BY <2>1, <1>1, <1>d DEF StreamOrdered
<1>2. ASSUME NEW i \in DOMAIN t PROVE ls[t[i].order] <= t[i].row.op
  BY <1>d DEF StreamOrdered
<1>q. QED BY <1>1, <1>2 DEF StreamOrdered

LEMMA WireShrinks ==
  ASSUME NEW s \in Seq(Entries), NEW t \in Seq(Entries), NEW w \in Seq(WireEntries), NEW v \in Seq(WireEntries),
         NEW ls, NEW rev \in Nat, NEW later \in Nat, rev <= later,
         Suffix(t, s), Suffix(v, w), WireOrdered(w, s, rev, ls)
  PROVE  WireOrdered(v, t, later, ls)
<1>d. PICK d \in {0, 1} : \A k \in DOMAIN v : k + d \in DOMAIN w /\ v[k] = w[k + d]
  BY DEF Suffix
<1>e. PICK e \in {0, 1} : \A k \in DOMAIN t : k + e \in DOMAIN s /\ t[k] = s[k + e]
  BY DEF Suffix
<1>1. StreamOrdered(v, ls)
  BY StreamShrinks DEF WireOrdered
<1>2. ASSUME NEW i \in DOMAIN v, NEW j \in DOMAIN t, v[i].order = t[j].order
      PROVE  Upto(v[i].row, t[j].row)
  BY <1>2, <1>d, <1>e DEF WireOrdered
<1>3. ASSUME NEW i \in DOMAIN v, NEW j \in DOMAIN v, i < j PROVE v[i].rev < v[j].rev
  <2>1. i + d < j + d
    BY <1>3, <1>d
  <2>q. QED BY <2>1, <1>d DEF WireOrdered
<1>4. ASSUME NEW i \in DOMAIN v PROVE v[i].rev <= later
  <2>1. w[i + d].rev \in Nat /\ w[i + d].rev <= rev /\ v[i] = w[i + d]
    <3>1. i + d \in DOMAIN w /\ v[i] = w[i + d]
      BY <1>d
    <3>2. w[i + d] \in WireEntries
      BY <3>1
    <3>q. QED BY <3>1, <3>2 DEF WireOrdered, WireEntries
  <2>q. QED BY <2>1
<1>q. QED BY <1>1, <1>2, <1>3, <1>4 DEF WireOrdered

LEMMA EventsShrink ==
  ASSUME NEW s \in Seq(Entries), NEW t \in Seq(Entries), NEW w \in Seq(WireEntries), NEW v \in Seq(WireEntries),
         NEW ev \in [Order -> EventSet], NEW ak, NEW con \in BOOLEAN, NEW still \in BOOLEAN,
         NEW rev \in Nat, NEW later \in Nat,
         still => con /\ rev <= later,
         Suffix(t, s), Suffix(v, w), EventsBefore(ev, ak, w, s, con, rev)
  PROVE  EventsBefore(ev, ak, v, t, still, later)
<1>d. PICK d \in {0, 1} : \A k \in DOMAIN v : k + d \in DOMAIN w /\ v[k] = w[k + d]
  BY DEF Suffix
<1>e. PICK e \in {0, 1} : \A k \in DOMAIN t : k + e \in DOMAIN s /\ t[k] = s[k + e]
  BY DEF Suffix
<1>1. SUFFICES ASSUME NEW o \in Order, o \notin ak, ev[o].row.status \notin TerminalStates
               PROVE  /\ still => ev[o].rev <= later
                      /\ \A i \in DOMAIN v : v[i].order = o => Upto(ev[o].row, v[i].row) /\ ev[o].rev < v[i].rev
                      /\ \A i \in DOMAIN t : t[i].order = o => Upto(ev[o].row, t[i].row)
  BY DEF EventsBefore
<1>2. ASSUME still PROVE ev[o].rev <= later
  <2>1. ev[o].rev \in Int /\ ev[o].rev <= rev /\ rev <= later
    BY <1>1, <1>2 DEF EventsBefore, EventSet
  <2>q. QED BY <2>1
<1>3. ASSUME NEW i \in DOMAIN v, v[i].order = o PROVE Upto(ev[o].row, v[i].row) /\ ev[o].rev < v[i].rev
  BY <1>1, <1>3, <1>d DEF EventsBefore
<1>4. ASSUME NEW i \in DOMAIN t, t[i].order = o PROVE Upto(ev[o].row, t[i].row)
  BY <1>1, <1>4, <1>e DEF EventsBefore
<1>q. QED BY <1>2, <1>3, <1>4

LEMMA ComparedShrinks ==
  ASSUME NEW s \in Seq(Entries), NEW t \in Seq(Entries), NEW w \in Seq(WireEntries), NEW v \in Seq(WireEntries),
         NEW read, Suffix(t, s), Suffix(v, w), Compared(read, w, s)
  PROVE  Compared(read, v, t)
<1>d. PICK d \in {0, 1} : \A k \in DOMAIN v : k + d \in DOMAIN w /\ v[k] = w[k + d]
  BY DEF Suffix
<1>e. PICK e \in {0, 1} : \A k \in DOMAIN t : k + e \in DOMAIN s /\ t[k] = s[k + e]
  BY DEF Suffix
<1>1. ASSUME NEW i \in DOMAIN v PROVE Comparable(read.openRows[v[i].order], v[i].row)
  BY <1>d DEF Compared
<1>2. ASSUME NEW i \in DOMAIN t PROVE Comparable(read.openRows[t[i].order], t[i].row)
  BY <1>e DEF Compared
<1>q. QED BY <1>1, <1>2 DEF Compared

LEMMA NewerShrinks ==
  ASSUME NEW w \in Seq(WireEntries), NEW v \in Seq(WireEntries), NEW read \in Reads,
         NEW rev \in Nat, NEW later \in Nat, NEW ev, NEW ak, NEW b,
         rev <= later, Suffix(v, w), Newer(read, rev, w, ev, ak, b)
  PROVE  Newer(read, later, v, ev, ak, b)
<1>d. PICK d \in {0, 1} : \A k \in DOMAIN v : k + d \in DOMAIN w /\ v[k] = w[k + d]
  BY DEF Suffix
<1>1. read.label <= later
  <2>1. read.label \in Int /\ read.label <= rev
    BY DEF Newer, Reads
  <2>q. QED BY <2>1
<1>2. ASSUME NEW i \in DOMAIN v, read.openRows[v[i].order] # NoRow, read.label >= v[i].rev
      PROVE  v[i].row.op <= read.openRows[v[i].order].op
  BY <1>2, <1>d DEF Newer
<1>q. QED BY <1>1, <1>2 DEF Newer

---------------------------------------------------------------------------
(* The parts, and the steps that leave them alone.                         *)

Ordering ==
  /\ StreamOrdered(stream, lockSeen)
  /\ WireOrdered(wire, stream, revision, lockSeen)
  /\ \A o \in Order : lockSeen[o] <= broker[o].op
Pending == EventsBefore(events, acked, wire, stream, connected, revision)
Compares == Compared(base, wire, stream) /\ Compared(request.read, wire, stream)
Labels ==
  /\ ~outdated => Newer(base, revision, wire, events, acked, broker)
  /\ Newer(request.read, revision, wire, events, acked, broker)
Freshness == Fresh(base, request.read, broker)
Locks == AckInv /\ LockInv

LEMMA ChainIs == Chain <=> Ordering /\ Pending /\ Compares /\ Labels /\ Freshness /\ Locks
  BY DEF Chain, Ordering, Pending, Compares, Labels, Freshness, Locks

LEMMA ChainNext ==
  Ordering' /\ Pending' /\ Compares' /\ Labels' /\ Freshness' /\ Locks' => Chain'
  BY DEF Chain, Ordering, Pending, Compares, Labels, Freshness, Locks

LEMMA LocksStay ==
  /\ AckInv /\ events' = events /\ replacements' = replacements /\ acked' = acked => AckInv'
  /\ LockInv /\ UNCHANGED <<events, acked, broker, base, lockSeen>> => LockInv'
<1>1. ASSUME AckInv, events' = events, replacements' = replacements, acked' = acked PROVE AckInv'
  BY <1>1 DEF AckInv
<1>2. ASSUME LockInv, UNCHANGED <<events, acked, broker, base, lockSeen>> PROVE LockInv'
  BY <1>2 DEF LockInv, Locked
<1>q. QED BY <1>1, <1>2

LEMMA NoReadChain ==
  ASSUME NEW w \in Seq(WireEntries), NEW s \in Seq(Entries), NEW rev \in Nat, NEW ev, NEW ak, NEW b, NEW bs
  PROVE  Compared(NoRead, w, s) /\ Newer(NoRead, rev, w, ev, ak, b) /\ Fresh(bs, NoRead, b)
<1>1. ASSUME NEW r \in Row PROVE Upto(NoRow, r)
  BY RowIsSome, NoRowIs DEF Upto
<1>2. \A i \in DOMAIN w : w[i].order \in Order /\ w[i].row \in Row
  <2>1. ASSUME NEW i \in DOMAIN w PROVE w[i].order \in Order /\ w[i].row \in Row
    <3>1. w[i] \in WireEntries
      OBVIOUS
    <3>q. QED BY <3>1 DEF WireEntries
  <2>q. QED BY <2>1
<1>3. \A i \in DOMAIN s : s[i].order \in Order /\ s[i].row \in Row
  <2>1. ASSUME NEW i \in DOMAIN s PROVE s[i].order \in Order /\ s[i].row \in Row
    <3>1. s[i] \in Entries
      OBVIOUS
    <3>q. QED BY <3>1 DEF Entries
  <2>q. QED BY <2>1
<1>4. Compared(NoRead, w, s)
  BY <1>1, <1>2, <1>3, NoReadIs DEF Compared, Comparable
<1>5. Newer(NoRead, rev, w, ev, ak, b)
  BY <1>2, NoReadIs DEF Newer
<1>6. Fresh(bs, NoRead, b)
  BY NoReadIs DEF Fresh
<1>q. QED BY <1>4, <1>5, <1>6

(* The service and the connection, but for an event that is sent on.       *)
LEMMA ServiceKeepsChain ==
  ASSUME TypeOK, TypeOK', Chain, LoseStream \/ ResumeStream \/ Restart \/ Disconnect
  PROVE  Chain'
<1>1. /\ stream \in Seq(Entries) /\ stream' \in Seq(Entries)
      /\ wire \in Seq(WireEntries) /\ wire' \in Seq(WireEntries)
      /\ events \in [Order -> EventSet]
      /\ base \in Reads /\ request.read \in Reads
      /\ revision \in Nat /\ revision' \in Nat
      /\ connected \in BOOLEAN /\ connected' \in BOOLEAN
  <2>1. BrokerTypes /\ ServiceTypes /\ EventTypes /\ ReadTypes
    BY TypesAre
  <2>2. stream' \in Seq(Entries) /\ wire' \in Seq(WireEntries) /\ revision' \in Nat /\ connected' \in BOOLEAN
    BY TypeOK' DEF TypeOK, Entries, WireEntries
  <2>q. QED BY <2>1, <2>2 DEF BrokerTypes, Books, ServiceTypes, EventTypes, ReadTypes
<1>2. Ordering /\ Pending /\ Compares /\ Labels /\ Freshness /\ Locks
  BY ChainIs
<1>3. /\ Suffix(stream', stream) /\ Suffix(wire', wire)
      /\ UNCHANGED <<broker, events, replacements, acked, base, lockSeen>>
  <2>1. CASE LoseStream
    <3>1. /\ stream' = <<>> /\ wire' = wire
          /\ UNCHANGED <<broker, events, replacements, acked, base, lockSeen>>
      BY <2>1 DEF LoseStream, wireVars, eventVars, readVars
    <3>q. QED BY <3>1, <1>1, SuffixIs
  <2>2. CASE ResumeStream
    <3>1. /\ stream' = stream /\ wire' = wire
          /\ UNCHANGED <<broker, events, replacements, acked, base, lockSeen>>
      BY <2>2 DEF ResumeStream, brokerVars, wireVars, eventVars, readVars
    <3>q. QED BY <3>1, <1>1, SuffixIs
  <2>3. CASE Restart
    <3>1. /\ stream' = <<>> /\ wire' = <<>>
          /\ UNCHANGED <<broker, events, replacements, acked, base, lockSeen>>
      BY <2>3 DEF Restart, eventVars
    <3>q. QED BY <3>1, <1>1, SuffixIs
  <2>4. CASE Disconnect
    <3>1. /\ stream' = stream /\ wire' = <<>>
          /\ UNCHANGED <<broker, events, replacements, acked, base, lockSeen>>
      BY <2>4 DEF Disconnect, brokerVars, eventVars, readVars
    <3>q. QED BY <3>1, <1>1, SuffixIs
  <2>q. QED BY <2>1, <2>2, <2>3, <2>4
<1>4. Locks'
  BY <1>2, <1>3, LocksStay DEF Locks
<1>5. StreamOrdered(stream', lockSeen')
  BY <1>1, <1>2, <1>3, StreamShrinks DEF Ordering
<1>6. \A o \in Order : lockSeen'[o] <= broker'[o].op
  BY <1>2, <1>3 DEF Ordering
<1>7. Compared(base, wire', stream') /\ Compared(request.read, wire', stream')
  BY <1>1, <1>2, <1>3, ComparedShrinks DEF Compares
<1>8. CASE Restart
  <2>1. wire' = <<>> /\ connected' = FALSE /\ request' = NoRequest /\ outdated' = (base # NoRead)
    BY <1>8 DEF Restart
  <2>2. request'.read = NoRead
    BY <2>1 DEF NoRequest
  <2>3. Ordering'
    <3>1. WireOrdered(wire', stream', revision', lockSeen')
      BY <2>1 DEF WireOrdered, StreamOrdered
    <3>q. QED BY <3>1, <1>5, <1>6 DEF Ordering
  <2>4. Pending'
    <3>1. connected' => connected /\ revision <= revision'
      BY <2>1
    <3>2. EventsBefore(events, acked, wire', stream', connected', revision')
      BY <3>1, <1>1, <1>2, <1>3, EventsShrink DEF Pending
    <3>q. QED BY <3>2, <1>3 DEF Pending
  <2>5. /\ Compared(NoRead, wire', stream') /\ Newer(NoRead, revision', wire', events', acked', broker')
        /\ Fresh(base', NoRead, broker')
    BY <1>1, NoReadChain
  <2>6. Compares'
    BY <2>2, <2>5, <1>7, <1>3 DEF Compares
  <2>7. Labels'
    BY <2>1, <2>2, <2>5, <1>3 DEF Labels
  <2>8. Freshness'
    BY <2>2, <2>5 DEF Freshness
  <2>q. QED BY <2>3, <2>4, <2>6, <2>7, <2>8, <1>4, ChainNext
<1>9. CASE LoseStream \/ ResumeStream \/ Disconnect
  <2>1. /\ request' = request /\ outdated' = outdated
        /\ connected' => connected
        /\ revision' = revision \/ revision' = revision + 1
    BY <1>9 DEF LoseStream, ResumeStream, Disconnect, wireVars, readVars, serviceVars
  <2>2. revision <= revision'
    BY <2>1, <1>1
  <2>3. Ordering'
    <3>1. WireOrdered(wire', stream', revision', lockSeen)
      BY <2>2, <1>1, <1>2, <1>3, WireShrinks DEF Ordering
    <3>q. QED BY <3>1, <1>3, <1>5, <1>6 DEF Ordering
  <2>4. Pending'
    <3>1. connected' => connected /\ revision <= revision'
      BY <2>1, <2>2
    <3>2. EventsBefore(events, acked, wire', stream', connected', revision')
      BY <3>1, <1>1, <1>2, <1>3, EventsShrink DEF Pending
    <3>q. QED BY <3>2, <1>3 DEF Pending
  <2>5. Compares'
    BY <2>1, <1>3, <1>7 DEF Compares
  <2>6. Labels'
    <3>1. Newer(request.read, revision', wire', events, acked, broker)
      BY <2>2, <1>1, <1>2, <1>3, NewerShrinks DEF Labels
    <3>2. ASSUME ~outdated PROVE Newer(base, revision', wire', events, acked, broker)
      BY <3>2, <2>2, <1>1, <1>2, <1>3, NewerShrinks DEF Labels
    <3>q. QED BY <3>1, <3>2, <2>1, <1>3 DEF Labels
  <2>7. Freshness'
    BY <2>1, <1>2, <1>3 DEF Freshness
  <2>q. QED BY <2>3, <2>4, <2>5, <2>6, <2>7, <1>4, ChainNext
<1>q. QED BY <1>8, <1>9

(* An event is sent on, with a revision that nothing has seen.             *)
LEMMA DeliverKeepsChain ==
  ASSUME TypeOK, TypeOK', Chain, Deliver
  PROVE  Chain'
<1>1. /\ stream \in Seq(Entries) /\ stream' \in Seq(Entries)
      /\ wire \in Seq(WireEntries) /\ wire' \in Seq(WireEntries)
      /\ events \in [Order -> EventSet]
      /\ base \in Reads /\ request.read \in Reads
      /\ revision \in Nat /\ revision' \in Nat
      /\ connected \in BOOLEAN
  <2>1. BrokerTypes /\ ServiceTypes /\ EventTypes /\ ReadTypes
    BY TypesAre
  <2>2. stream' \in Seq(Entries) /\ wire' \in Seq(WireEntries) /\ revision' \in Nat
    BY TypeOK' DEF TypeOK, Entries, WireEntries
  <2>q. QED BY <2>1, <2>2 DEF BrokerTypes, Books, ServiceTypes, EventTypes, ReadTypes
<1>2. Ordering /\ Pending /\ Compares /\ Labels /\ Freshness /\ Locks
  BY ChainIs
<1>3. /\ stream # <<>> /\ stream' = Tail(stream) /\ revision' = revision + 1
      /\ UNCHANGED <<broker, connected, events, replacements, acked, base, request, outdated, lockSeen>>
  BY DEF Deliver, eventVars, readVars
<1>4. wire' = IF connected
              THEN Append(wire, [order |-> Head(stream).order, row |-> Head(stream).row, rev |-> revision'])
              ELSE wire
  BY DEF Deliver
<1>5. Suffix(stream', stream)
  BY <1>1, <1>3, SuffixIs
<1>x. PICK x \in WireEntries : x = [order |-> stream[1].order, row |-> stream[1].row, rev |-> revision']
  <2>1. stream[1] \in Entries
    BY <1>1, <1>3, HeadOf
  <2>q. QED BY <2>1, <1>1 DEF Entries, WireEntries
<1>6. x.order = stream[1].order /\ x.row = stream[1].row /\ x.rev = revision + 1 /\ 1 \in DOMAIN stream
      /\ x.order \in Order /\ x.row \in Row
  BY <1>x, <1>1, <1>3, HeadOf DEF WireEntries
<1>7. \A k \in DOMAIN wire' :
        \/ k \in DOMAIN wire /\ wire'[k] = wire[k]
        \/ connected /\ wire'[k] = x /\ \A i \in DOMAIN wire : i < k
  <2>1. CASE ~connected
    BY <2>1, <1>4
  <2>2. CASE connected
    <3>1. wire' = Append(wire, x)
      BY <2>2, <1>4, <1>x, <1>1, <1>3, HeadOf
    <3>2. /\ Len(wire) \in Nat /\ DOMAIN wire = 1..Len(wire) /\ DOMAIN wire' = 1..(Len(wire) + 1)
          /\ wire'[Len(wire) + 1] = x
          /\ \A k \in 1..Len(wire) : wire'[k] = wire[k]
      BY <3>1, <1>1, AppendProperties, LenProperties
    <3>q. QED BY <3>2, <2>2
  <2>q. QED BY <2>1, <2>2
<1>8. \A k \in DOMAIN stream' : k \in Nat /\ k + 1 \in DOMAIN stream /\ stream'[k] = stream[k + 1] /\ 1 < k + 1
  BY <1>1, <1>3, HeadOf
<1>9. \A i \in DOMAIN wire : wire[i] \in WireEntries /\ wire[i].rev \in Nat /\ wire[i].rev < x.rev
  <2>1. ASSUME NEW i \in DOMAIN wire PROVE wire[i] \in WireEntries /\ wire[i].rev \in Nat /\ wire[i].rev < x.rev
    <3>1. wire[i] \in WireEntries
      BY <1>1
    <3>2. wire[i].rev \in Nat /\ wire[i].rev <= revision
      BY <3>1, <1>2 DEF WireEntries, Ordering, WireOrdered
    <3>q. QED BY <3>1, <3>2, <1>6, <1>1
  <2>q. QED BY <2>1
<1>10. Ordering'
  <2>1. StreamOrdered(stream', lockSeen')
    BY <1>1, <1>2, <1>3, <1>5, StreamShrinks DEF Ordering
  <2>2. \A i \in DOMAIN wire : wire[i].order = x.order => Upto(wire[i].row, x.row)
    BY <1>2, <1>6 DEF Ordering, WireOrdered
  <2>3. lockSeen[x.order] <= x.row.op
    BY <1>2, <1>6 DEF Ordering, StreamOrdered
  <2>4. ASSUME NEW i \in DOMAIN wire', NEW j \in DOMAIN wire', i < j
        PROVE  /\ wire'[i].order = wire'[j].order => Upto(wire'[i].row, wire'[j].row)
               /\ wire'[i].rev < wire'[j].rev
    <3>0. i \in Int /\ j \in Int
      BY <1>1
    <3>1. CASE j \in DOMAIN wire /\ wire'[j] = wire[j]
      <4>1. i \in DOMAIN wire /\ wire'[i] = wire[i]
        BY <3>0, <3>1, <2>4, <1>7, <1>1
      <4>q. QED BY <4>1, <3>1, <2>4, <1>2 DEF Ordering, WireOrdered, StreamOrdered
    <3>2. CASE wire'[j] = x /\ \A k \in DOMAIN wire : k < j
      <4>1. i \in DOMAIN wire /\ wire'[i] = wire[i]
        <5>1. CASE \A k \in DOMAIN wire : k < i
          <6>1. DOMAIN wire' \subseteq 1..(Len(wire) + 1) /\ DOMAIN wire = 1..Len(wire) /\ Len(wire) \in Nat
            <7>1. CASE connected
              <8>1. wire' = Append(wire, x)
                BY <7>1, <1>4, <1>x, <1>1, <1>3, HeadOf
              <8>q. QED BY <8>1, <1>1, AppendProperties, LenProperties
            <7>2. CASE ~connected
              BY <7>2, <1>4, <1>1, LenProperties
            <7>q. QED BY <7>1, <7>2
          <6>2. i = Len(wire) + 1
            BY <6>1, <5>1, <3>0
          <6>q. QED BY <6>1, <6>2, <3>0, <2>4
        <5>q. QED BY <5>1, <1>7
      <4>q. QED BY <4>1, <3>2, <2>2, <1>9
    <3>q. QED BY <3>1, <3>2, <1>7
  <2>5. ASSUME NEW i \in DOMAIN wire' PROVE lockSeen[wire'[i].order] <= wire'[i].row.op
    BY <2>3, <1>7, <1>2 DEF Ordering, WireOrdered, StreamOrdered
  <2>6. ASSUME NEW i \in DOMAIN wire', NEW j \in DOMAIN stream', wire'[i].order = stream'[j].order
        PROVE  Upto(wire'[i].row, stream'[j].row)
    <3>1. CASE i \in DOMAIN wire /\ wire'[i] = wire[i]
      BY <3>1, <2>6, <1>8, <1>2 DEF Ordering, WireOrdered
    <3>2. CASE wire'[i] = x
      <4>1. j + 1 \in DOMAIN stream /\ stream'[j] = stream[j + 1] /\ 1 < j + 1
        BY <1>8
      <4>q. QED BY <4>1, <3>2, <2>6, <1>6, <1>2 DEF Ordering, StreamOrdered
    <3>q. QED BY <3>1, <3>2, <1>7
  <2>7. ASSUME NEW i \in DOMAIN wire' PROVE wire'[i].rev <= revision'
    BY <1>7, <1>9, <1>6, <1>1, <1>3
  <2>8. StreamOrdered(wire', lockSeen)
    BY <2>4, <2>5 DEF StreamOrdered
  <2>9. WireOrdered(wire', stream', revision', lockSeen)
    BY <2>4, <2>6, <2>7, <2>8 DEF WireOrdered
  <2>q. QED BY <2>1, <2>9, <1>2, <1>3 DEF Ordering
<1>11. Pending'
  <2>1. SUFFICES ASSUME NEW o \in Order, o \notin acked, events[o].row.status \notin TerminalStates
                 PROVE  /\ connected => events[o].rev <= revision'
                        /\ \A i \in DOMAIN wire' : wire'[i].order = o =>
                              Upto(events[o].row, wire'[i].row) /\ events[o].rev < wire'[i].rev
                        /\ \A i \in DOMAIN stream' : stream'[i].order = o => Upto(events[o].row, stream'[i].row)
    BY <1>3 DEF Pending, EventsBefore
  <2>2. events[o].rev \in Int
    BY <1>1 DEF EventSet
  <2>3. /\ connected => events[o].rev <= revision
        /\ \A i \in DOMAIN wire : wire[i].order = o => Upto(events[o].row, wire[i].row) /\ events[o].rev < wire[i].rev
        /\ \A i \in DOMAIN stream : stream[i].order = o => Upto(events[o].row, stream[i].row)
    BY <2>1, <1>2 DEF Pending, EventsBefore
  <2>4. connected => events[o].rev < x.rev /\ events[o].rev <= revision'
    BY <2>2, <2>3, <1>3, <1>6, <1>1
  <2>5. x.order = o => Upto(events[o].row, x.row)
    BY <2>3, <1>6
  <2>6. ASSUME NEW i \in DOMAIN wire', wire'[i].order = o
        PROVE  Upto(events[o].row, wire'[i].row) /\ events[o].rev < wire'[i].rev
    <3>1. CASE i \in DOMAIN wire /\ wire'[i] = wire[i]
      BY <3>1, <2>6, <2>3
    <3>2. CASE connected /\ wire'[i] = x
      BY <3>2, <2>6, <2>4, <2>5
    <3>q. QED BY <3>1, <3>2, <1>7
  <2>7. ASSUME NEW i \in DOMAIN stream', stream'[i].order = o PROVE Upto(events[o].row, stream'[i].row)
    BY <2>7, <2>3, <1>8
  <2>q. QED BY <2>4, <2>6, <2>7
<1>12. ASSUME NEW read \in Reads, Compared(read, wire, stream) PROVE Compared(read, wire', stream')
  <2>1. Comparable(read.openRows[x.order], x.row)
    BY <1>12, <1>6 DEF Compared
  <2>2. \A i \in DOMAIN wire' : Comparable(read.openRows[wire'[i].order], wire'[i].row)
    BY <2>1, <1>12, <1>7 DEF Compared
  <2>3. \A i \in DOMAIN stream' : Comparable(read.openRows[stream'[i].order], stream'[i].row)
    BY <1>12, <1>8 DEF Compared
  <2>q. QED BY <2>2, <2>3 DEF Compared
<1>13. ASSUME NEW read \in Reads, Newer(read, revision, wire, events, acked, broker)
       PROVE  Newer(read, revision', wire', events, acked, broker)
  <2>1. read.label \in Int /\ read.label <= revision
    BY <1>13 DEF Newer, Reads
  <2>2. read.label <= revision' /\ ~(read.label >= x.rev)
    BY <2>1, <1>1, <1>3, <1>6
  <2>3. ASSUME NEW i \in DOMAIN wire', read.openRows[wire'[i].order] # NoRow, read.label >= wire'[i].rev
        PROVE  wire'[i].row.op <= read.openRows[wire'[i].order].op
    <3>1. i \in DOMAIN wire /\ wire'[i] = wire[i]
      BY <2>3, <2>2, <1>7
    <3>q. QED BY <3>1, <2>3, <1>13 DEF Newer
  <2>q. QED BY <2>2, <2>3, <1>13 DEF Newer
<1>14. Compares'
  BY <1>1, <1>2, <1>3, <1>12 DEF Compares
<1>15. Labels'
  BY <1>1, <1>2, <1>3, <1>13 DEF Labels
<1>16. Freshness'
  BY <1>2, <1>3 DEF Freshness
<1>17. Locks'
  BY <1>2, <1>3, LocksStay DEF Locks
<1>q. QED BY <1>10, <1>11, <1>14, <1>15, <1>16, <1>17, ChainNext

(* Reads.  An answer is of what the broker says when it is read.           *)
LEMMA ReadsKeepChain ==
  ASSUME TypeOK, TypeOK', Truth, Chain, Poll \/ ReadOpen \/ ReadClosed \/ FailRead
  PROVE  Chain'
<1>1. BrokerTypes /\ ServiceTypes /\ EventTypes /\ ReadTypes
  BY TypesAre
<1>t. /\ stream \in Seq(Entries) /\ wire \in Seq(WireEntries) /\ events \in [Order -> EventSet]
      /\ broker \in [Order -> RowOrNone] /\ revision \in Nat
      /\ base \in Reads /\ request.read \in Reads
  BY <1>1 DEF BrokerTypes, Books, ServiceTypes, EventTypes, ReadTypes
<1>2. Ordering /\ Pending /\ Compares /\ Labels /\ Freshness /\ Locks
  BY ChainIs
<1>3. UNCHANGED <<broker, stream, revision, connected, wire, events, replacements, acked, lockSeen, base, outdated>>
  BY ReadsKeepTypes DEF brokerVars, serviceVars, wireVars, eventVars
<1>4. Ordering' /\ Pending'
  BY <1>2, <1>3 DEF Ordering, Pending
<1>5. Locks'
  BY <1>2, <1>3, LocksStay DEF Locks
<1>6. ASSUME /\ Compared(request'.read, wire, stream)
             /\ Newer(request'.read, revision, wire, events, acked, broker)
             /\ Fresh(base, request'.read, broker)
      PROVE  Chain'
  <2>1. Compares'
    BY <1>6, <1>2, <1>3 DEF Compares
  <2>2. Labels'
    BY <1>6, <1>2, <1>3 DEF Labels
  <2>3. Freshness'
    BY <1>6, <1>3 DEF Freshness
  <2>q. QED BY <2>1, <2>2, <2>3, <1>4, <1>5, ChainNext
<1>w. \A i \in DOMAIN wire : wire[i].order \in Order /\ wire[i].row \in Row
  <2>1. ASSUME NEW i \in DOMAIN wire PROVE wire[i].order \in Order /\ wire[i].row \in Row
    <3>1. wire[i] \in WireEntries
      BY <1>t
    <3>q. QED BY <3>1 DEF WireEntries
  <2>q. QED BY <2>1
<1>s. \A i \in DOMAIN stream : stream[i].order \in Order /\ stream[i].row \in Row
  <2>1. ASSUME NEW i \in DOMAIN stream PROVE stream[i].order \in Order /\ stream[i].row \in Row
    <3>1. stream[i] \in Entries
      BY <1>t
    <3>q. QED BY <3>1 DEF Entries
  <2>q. QED BY <2>1
<1>u. ASSUME NEW r \in Row PROVE Upto(NoRow, r)
  BY RowIsSome, NoRowIs DEF Upto
<1>7. CASE FailRead
  <2>1. request'.read = NoRead
    BY <1>7 DEF FailRead, NoRequest
  <2>q. QED BY <2>1, <1>t, <1>6, NoReadChain
<1>8. CASE Poll
  <2>1. request'.read = [NoRead EXCEPT !.label = revision]
    BY <1>8 DEF Poll
  <2>2. request'.read.label = revision /\ request'.read.openRows = NoRows /\ request'.read.open = FALSE
    BY <2>1, NoReadIs DEF NoRead
  <2>3. Compared(request'.read, wire, stream)
    BY <2>2, <1>w, <1>s, <1>u, NoReadIs DEF Compared, Comparable
  <2>4. Newer(request'.read, revision, wire, events, acked, broker)
    BY <2>2, <1>t, <1>w, NoReadIs DEF Newer
  <2>5. Fresh(base, request'.read, broker)
    BY <2>2 DEF Fresh
  <2>q. QED BY <2>3, <2>4, <2>5, <1>6
<1>9. CASE ReadClosed
  <2>1. /\ request'.read.label = request.read.label /\ request'.read.openRows = request.read.openRows
        /\ request'.read.open = request.read.open
    BY <1>9, <1>1 DEF ReadClosed, ReadTypes, Reads
  <2>q. QED BY <2>1, <1>2, <1>6 DEF Compares, Labels, Freshness, Compared, Newer, Fresh
<1>10. CASE ReadOpen
  <2>1. /\ request'.read.label = request.read.label
        /\ request'.read.openRows = [o \in Order |-> IF broker[o].status \in OpenStates THEN broker[o] ELSE NoRow]
    BY <1>10, <1>1 DEF ReadOpen, ReadTypes, Reads
  <2>2. \A o \in Order :
          \/ request'.read.openRows[o] = NoRow
          \/ broker[o].status \in OpenStates /\ request'.read.openRows[o] = broker[o]
    BY <2>1
  <2>3. \A o \in Order : broker[o].status \in OpenStates =>
                           request'.read.openRows[o] = broker[o] /\ broker[o] # NoRow
    BY <2>1, NoRowIs
  <2>4. \A i \in DOMAIN wire : Upto(wire[i].row, broker[wire[i].order])
    BY DEF Truth, WireTruth, Faithful
  <2>5. \A i \in DOMAIN stream : Upto(stream[i].row, broker[stream[i].order])
    BY DEF Truth, StreamTruth, Faithful
  <2>6. \A o \in Order : Upto(events[o].row, broker[o]) /\ Upto(base.openRows[o], broker[o])
    BY DEF Truth, EventTruth, EventOk, ReadTruth, RowsOk, ReadFaithfully, Faithful
  <2>7. Compared(request'.read, wire, stream)
    <3>1. \A i \in DOMAIN wire : Comparable(request'.read.openRows[wire[i].order], wire[i].row)
      BY <2>2, <2>4, <1>w, <1>u DEF Comparable
    <3>2. \A i \in DOMAIN stream : Comparable(request'.read.openRows[stream[i].order], stream[i].row)
      BY <2>2, <2>5, <1>s, <1>u DEF Comparable
    <3>q. QED BY <3>1, <3>2 DEF Compared
  <2>8. Newer(request'.read, revision, wire, events, acked, broker)
    BY <2>1, <2>2, <2>4, <2>6, <1>2, <1>w DEF Labels, Newer, Upto
  <2>9. Fresh(base, request'.read, broker)
    BY <2>3, <2>6 DEF Fresh, Upto
  <2>q. QED BY <2>7, <2>8, <2>9, <1>6
<1>q. QED BY <1>7, <1>8, <1>9, <1>10

(* The broker: what it tells is later than all that was told or read.      *)
LEMMA BrokerKeepsChain ==
  ASSUME TypeOK, BrokerOk(broker, replaces), Truth, Truth', Chain, Broker
  PROVE  Chain'
<1>1. BrokerTypes /\ ServiceTypes /\ EventTypes /\ ReadTypes /\ CommandTypes
  BY TypesAre
<1>t. /\ stream \in Seq(Entries) /\ wire \in Seq(WireEntries) /\ events \in [Order -> EventSet]
      /\ broker \in [Order -> RowOrNone] /\ replaces \in [Order -> 0..MaxOrders]
      /\ lockSeen \in [Order -> Nat] /\ revision \in Nat /\ base \in Reads /\ request.read \in Reads
  BY <1>1 DEF BrokerTypes, Books, ServiceTypes, EventTypes, ReadTypes
<1>2. Ordering /\ Pending /\ Compares /\ Labels /\ Freshness /\ Locks
  BY ChainIs
<1>3. UNCHANGED <<revision, connected, wire, events, replacements, acked, base, request, outdated, lockSeen>>
  BY <1>1, BrokerLeaves DEF serviceVars, wireVars, eventVars, readVars
<1>4. /\ broker' \in [Order -> RowOrNone] /\ stream' \in Seq(Entries)
      /\ Advance(broker, replaces, broker', replaces')
      /\ Grown(stream, stream', broker', replaces')
  BY <1>1, BrokerSteps DEF BrokerStep, Books, BrokerTypes
<1>5. \A k \in DOMAIN stream' :
        /\ stream'[k].order \in Order /\ stream'[k].row \in Row
        /\ \/ k \in DOMAIN stream /\ stream'[k] = stream[k]
           \/ /\ \A i \in DOMAIN stream : i < k
              /\ stream'[k].row.op = broker'[stream'[k].order].op
              /\ stream'[k].row.filled = broker'[stream'[k].order].filled
  <2>1. ASSUME NEW k \in DOMAIN stream' PROVE stream'[k].order \in Order /\ stream'[k].row \in Row
    <3>1. stream'[k] \in Entries
      BY <1>4
    <3>q. QED BY <3>1 DEF Entries
  <2>q. QED BY <2>1, <1>4 DEF Grown, Current
<1>6. ASSUME NEW o \in Order, NEW r \in RowOrNone, Upto(r, broker'[o]), NEW k \in DOMAIN stream',
             stream'[k].order = o, ~(k \in DOMAIN stream /\ stream'[k] = stream[k])
      PROVE  Upto(r, stream'[k].row)
  BY <1>6, <1>5 DEF Upto
<1>w. \A i \in DOMAIN wire : wire[i].order \in Order /\ wire[i].row \in Row
  <2>1. ASSUME NEW i \in DOMAIN wire PROVE wire[i].order \in Order /\ wire[i].row \in Row
    <3>1. wire[i] \in WireEntries
      BY <1>t
    <3>q. QED BY <3>1 DEF WireEntries
  <2>q. QED BY <2>1
<1>7. \A i \in DOMAIN wire : Upto(wire[i].row, broker'[wire[i].order])
  BY <1>3 DEF Truth, WireTruth, Faithful
<1>8. \A i \in DOMAIN stream' : Upto(stream'[i].row, broker'[stream'[i].order])
  BY DEF Truth, StreamTruth, Faithful
<1>9. \A o \in Order : /\ Upto(events[o].row, broker'[o]) /\ Upto(base.openRows[o], broker'[o])
                       /\ Upto(request.read.openRows[o], broker'[o])
  BY <1>3 DEF Truth, EventTruth, EventOk, ReadTruth, RowsOk, ReadFaithfully, Faithful
<1>10. \A o \in Order : /\ broker[o].op \in Nat /\ broker'[o].op \in Nat
                        /\ broker[o].op <= broker'[o].op /\ lockSeen[o] \in Nat /\ lockSeen[o] <= broker[o].op
  <2>1. \A o \in Order : Upto(broker[o], broker'[o])
    BY <1>4 DEF Advance
  <2>2. \A o \in Order : broker[o].op \in Nat /\ broker'[o].op \in Nat
    BY <1>t, <1>4, RowIs
  <2>q. QED BY <2>1, <2>2, <1>t, <1>2 DEF Ordering, Upto
<1>11. Ordering'
  <2>1. ASSUME NEW i \in DOMAIN stream', NEW j \in DOMAIN stream', i < j, stream'[i].order = stream'[j].order
        PROVE  Upto(stream'[i].row, stream'[j].row)
    <3>1. CASE j \in DOMAIN stream /\ stream'[j] = stream[j]
      <4>1. i \in DOMAIN stream /\ stream'[i] = stream[i]
        <5>1. i \in Int /\ j \in Int
          BY <1>4
        <5>q. QED BY <5>1, <3>1, <2>1, <1>5
      <4>q. QED BY <4>1, <3>1, <2>1, <1>2 DEF Ordering, StreamOrdered
    <3>2. CASE ~(j \in DOMAIN stream /\ stream'[j] = stream[j])
      <4>1. stream'[i].row \in RowOrNone /\ stream'[j].order \in Order
        BY <1>5, RowIsSome
      <4>2. Upto(stream'[i].row, broker'[stream'[j].order])
        BY <1>8, <2>1
      <4>q. QED BY <4>1, <4>2, <3>2, <1>6
    <3>q. QED BY <3>1, <3>2
  <2>2. ASSUME NEW i \in DOMAIN stream' PROVE lockSeen[stream'[i].order] <= stream'[i].row.op
    <3>1. CASE i \in DOMAIN stream /\ stream'[i] = stream[i]
      BY <3>1, <1>2 DEF Ordering, StreamOrdered
    <3>2. CASE stream'[i].row.op = broker'[stream'[i].order].op
      <4>1. stream'[i].order \in Order
        BY <1>5
      <4>q. QED BY <4>1, <3>2, <1>10
    <3>q. QED BY <3>1, <3>2, <1>5
  <2>3. ASSUME NEW i \in DOMAIN wire, NEW j \in DOMAIN stream', wire[i].order = stream'[j].order
        PROVE  Upto(wire[i].row, stream'[j].row)
    <3>1. CASE j \in DOMAIN stream /\ stream'[j] = stream[j]
      BY <3>1, <2>3, <1>2 DEF Ordering, WireOrdered
    <3>2. CASE ~(j \in DOMAIN stream /\ stream'[j] = stream[j])
      <4>1. wire[i].row \in RowOrNone /\ wire[i].order \in Order
        BY <1>w, RowIsSome
      <4>q. QED BY <4>1, <3>2, <2>3, <1>6, <1>7
    <3>q. QED BY <3>1, <3>2
  <2>4. StreamOrdered(stream', lockSeen)
    BY <2>1, <2>2 DEF StreamOrdered
  <2>5. WireOrdered(wire, stream', revision, lockSeen)
    BY <2>3, <1>2 DEF Ordering, WireOrdered
  <2>6. \A o \in Order : lockSeen[o] <= broker'[o].op
    BY <1>10
  <2>q. QED BY <2>4, <2>5, <2>6, <1>3 DEF Ordering
<1>12. Pending'
  <2>1. ASSUME NEW o \in Order, o \notin acked, events[o].row.status \notin TerminalStates,
               NEW i \in DOMAIN stream', stream'[i].order = o
        PROVE  Upto(events[o].row, stream'[i].row)
    <3>1. CASE i \in DOMAIN stream /\ stream'[i] = stream[i]
      BY <3>1, <2>1, <1>2 DEF Pending, EventsBefore
    <3>2. CASE ~(i \in DOMAIN stream /\ stream'[i] = stream[i])
      <4>1. events[o].row \in RowOrNone
        BY <1>t DEF EventSet
      <4>q. QED BY <4>1, <3>2, <2>1, <1>6, <1>9
    <3>q. QED BY <3>1, <3>2
  <2>q. QED BY <2>1, <1>2, <1>3 DEF Pending, EventsBefore
<1>13. ASSUME NEW read \in Reads, Compared(read, wire, stream), \A o \in Order : Upto(read.openRows[o], broker'[o])
       PROVE  Compared(read, wire, stream')
  <2>1. ASSUME NEW i \in DOMAIN stream' PROVE Comparable(read.openRows[stream'[i].order], stream'[i].row)
    <3>1. CASE i \in DOMAIN stream /\ stream'[i] = stream[i]
      BY <3>1, <1>13 DEF Compared
    <3>2. CASE ~(i \in DOMAIN stream /\ stream'[i] = stream[i])
      <4>1. stream'[i].order \in Order
        BY <1>5
      <4>2. read.openRows[stream'[i].order] \in RowOrNone
        BY <4>1 DEF Reads, RowOrNone
      <4>q. QED BY <4>1, <4>2, <3>2, <1>6, <1>13 DEF Comparable
    <3>q. QED BY <3>1, <3>2
  <2>q. QED BY <2>1, <1>13 DEF Compared
<1>14. Compares'
  BY <1>2, <1>3, <1>9, <1>13, <1>t DEF Compares
<1>15. \A o \in Order : broker'[o].status \in OpenStates => broker[o].status \in OpenStates \/ broker[o] = NoRow
  <2>1. ASSUME NEW o \in Order, broker'[o].status \in OpenStates, broker[o].status \in TerminalStates PROVE FALSE
    BY <2>1, <1>4, StatesApart DEF Advance
  <2>q. QED BY <2>1, <1>t, RowIs
<1>16. \A o \in Order : broker[o] = NoRow => base.openRows[o] = NoRow /\ request.read.openRows[o] = NoRow
  BY DEF Truth, ReadTruth, RowsOk, ReadFaithfully, Faithful
<1>17. Labels'
  BY <1>2, <1>3, <1>15, <1>16 DEF Labels, Newer
<1>18. Freshness'
  BY <1>2, <1>3, <1>15, <1>16 DEF Freshness, Fresh
<1>19. Locks'
  <2>1. AckInv'
    BY <1>2, <1>3, LocksStay DEF Locks
  <2>2. LockInv'
    <3>1. ASSUME NEW o \in Order, Locked(o)'
          PROVE  Locked(o) /\ broker'[o].op = broker[o].op
      <4>1. broker'[o].status \in Processing /\ lockSeen[o] = broker'[o].op
        BY <3>1, <1>3 DEF Locked
      <4>2. broker'[o].op = broker[o].op
        BY <4>1, <1>10
      <4>3. broker[o].status \in Processing
        <5>1. broker[o].status \in Processing \/ broker[o].op < broker'[o].op
          BY <4>1, <1>4 DEF Advance
        <5>q. QED BY <5>1, <4>2, <1>10
      <4>q. QED BY <4>1, <4>2, <4>3 DEF Locked
    <3>q. QED BY <3>1, <1>2, <1>3 DEF Locks, LockInv
  <2>q. QED BY <2>1, <2>2 DEF Locks
<1>q. QED BY <1>11, <1>12, <1>14, <1>17, <1>18, <1>19, ChainNext

---------------------------------------------------------------------------
(* The tab.                                                                *)

LEMMA MergeKeepsLock ==
  ASSUME NEW p \in RowOrNone, NEW n \in Row, NEW c \in BOOLEAN, ~c, p.status \in Processing, n.status \notin TerminalStates,
         MergeRow(p, n, c) # NoRow
  PROVE  MergeRow(p, n, c).status \in Processing /\ MergeRow(p, n, c).op = n.op
<1>1. p # NoRow
  BY StatesApart, NoRowIs
<1>2. CASE n.status \in Resting
  <2>1. MergeRow(p, n, c) = [n EXCEPT !.status = p.status]
    BY <1>1, <1>2 DEF MergeRow
  <2>s. PICK s \in OpenStates \cup TerminalStates : s = p.status
    BY StatesApart
  <2>2. [n EXCEPT !.status = s].status = s /\ [n EXCEPT !.status = s].op = n.op
    BY WithStatus
  <2>q. QED BY <2>1, <2>2, <2>s
<1>3. CASE n.status \in Processing
  <2>1. n.status \notin Resting
    BY <1>3, StatesApart
  <2>2. MergeRow(p, n, c) = n
    BY <1>1, <2>1 DEF MergeRow
  <2>q. QED BY <2>2, <1>3
<1>q. QED BY <1>2, <1>3, RowIsSome, StatesApart

LEMMA MergeFollows ==
  ASSUME NEW p \in RowOrNone, NEW n \in Row, NEW c \in BOOLEAN,
         Upto(p, n), p.status \notin TerminalStates, n.status \in Processing
  PROVE  MergeRow(p, n, c) = n
<1>1. ~(n.filled < p.filled) /\ n.status \notin Resting
  <2>1. p.filled \in Nat /\ n.filled \in Nat /\ p.filled <= n.filled
    BY RowIs, RowIsSome DEF Upto
  <2>q. QED BY <2>1, StatesApart
<1>q. QED BY <1>1 DEF MergeRow

LEMMA MergeRefuses ==
  ASSUME NEW p \in RowOrNone, NEW n \in Row, NEW c \in BOOLEAN, MergeRow(p, n, c) = NoRow
  PROVE  n.filled < p.filled \/ p.status \in TerminalStates
<1>1. [n EXCEPT !.status = p.status] # NoRow \/ p.status \notin Processing
  <2>1. ASSUME p.status \in Processing PROVE [n EXCEPT !.status = p.status] # NoRow
    <3>1. p.status \in OpenStates \cup TerminalStates
      BY <2>1, StatesApart
    <3>q. QED BY <3>1, WithStatus, RowIsSome
  <2>q. QED BY <2>1
<1>q. QED BY <1>1, RowIsSome DEF MergeRow

LEMMA OnEventKeepsChain ==
  ASSUME TypeOK, TypeOK', BrokerOk(broker, replaces), Truth, Chain, OnEvent
  PROVE  Chain'
<1>1. BrokerTypes /\ ServiceTypes /\ EventTypes /\ ReadTypes
  BY TypesAre
<1>t. /\ stream \in Seq(Entries) /\ wire \in Seq(WireEntries) /\ wire' \in Seq(WireEntries)
      /\ events \in [Order -> EventSet] /\ replacements \in [Order -> 0..MaxOrders]
      /\ broker \in [Order -> RowOrNone] /\ lockSeen \in [Order -> Nat] /\ revision \in Nat
      /\ connected \in BOOLEAN /\ base \in Reads /\ request.read \in Reads
  <2>1. wire' \in Seq(WireEntries)
    BY TypeOK' DEF TypeOK, WireEntries
  <2>q. QED BY <2>1, <1>1 DEF BrokerTypes, Books, ServiceTypes, EventTypes, ReadTypes
<1>2. Ordering /\ Pending /\ Compares /\ Labels /\ Freshness /\ Locks
  BY ChainIs
<1>3. /\ UNCHANGED <<broker, stream, revision, connected, acked, base, request, outdated>>
      /\ connected /\ wire # <<>> /\ wire' = Tail(wire)
  BY DEF OnEvent, brokerVars, serviceVars, readVars
<1>4. Suffix(wire', wire) /\ Suffix(stream', stream)
  BY <1>t, <1>3, SuffixIs
<1>h. /\ 1 \in DOMAIN wire /\ Head(wire) = wire[1] /\ wire[1] \in WireEntries
      /\ \A k \in DOMAIN wire' : k \in Nat /\ k + 1 \in DOMAIN wire /\ wire'[k] = wire[k + 1] /\ 1 < k + 1
  BY <1>t, <1>3, HeadOf
<1>o. PICK o \in Order, row \in Row, rev \in Nat :
        o = wire[1].order /\ row = wire[1].row /\ rev = wire[1].rev
  BY <1>h DEF WireEntries
<1>5. Apply(o, row, rev) /\ lockSeen' = [lockSeen EXCEPT ![o] = SeenLock(o, row)]
  BY <1>h, <1>o DEF OnEvent
<1>6. /\ Faithful(broker, replaces, o, row) /\ Upto(row, broker[o])
      /\ row.op \in Nat /\ broker[o].op \in Nat /\ row.op <= broker[o].op
      /\ lockSeen[o] \in Nat /\ lockSeen[o] <= row.op /\ rev <= revision
  <2>1. Faithful(broker, replaces, o, row)
    BY <1>o, <1>h DEF Truth, WireTruth
  <2>2. row.op \in Nat /\ broker[o].op \in Nat /\ lockSeen[o] \in Nat
    BY <1>t, RowIsSome, RowIs
  <2>3. lockSeen[o] <= row.op /\ rev <= revision
    BY <1>2, <1>o, <1>h DEF Ordering, WireOrdered, StreamOrdered
  <2>q. QED BY <2>1, <2>2, <2>3 DEF Faithful, Upto
<1>7. /\ \A k \in DOMAIN wire' : wire'[k].order = o => Upto(row, wire'[k].row) /\ rev < wire'[k].rev
      /\ \A k \in DOMAIN stream : stream[k].order = o => Upto(row, stream[k].row)
  <2>1. ASSUME NEW k \in DOMAIN wire', wire'[k].order = o PROVE Upto(row, wire'[k].row) /\ rev < wire'[k].rev
    BY <2>1, <1>h, <1>o, <1>2 DEF Ordering, WireOrdered, StreamOrdered
  <2>2. ASSUME NEW k \in DOMAIN stream, stream[k].order = o PROVE Upto(row, stream[k].row)
    BY <2>2, <1>h, <1>o, <1>2 DEF Ordering, WireOrdered
  <2>q. QED BY <2>1, <2>2
<1>8. /\ lockSeen'[o] = SeenLock(o, row) /\ SeenLock(o, row) <= row.op
      /\ \A m \in Order : m # o => lockSeen'[m] = lockSeen[m]
  BY <1>5, <1>6, <1>t DEF SeenLock
<1>9. Ordering'
  <2>1. ASSUME NEW m \in Order PROVE lockSeen'[m] <= broker[m].op
    <3>1. CASE m = o
      <4>1. SeenLock(o, row) \in Nat
        BY <1>6 DEF SeenLock
      <4>q. QED BY <4>1, <3>1, <1>6, <1>8
    <3>2. CASE m # o
      BY <3>2, <1>2, <1>8 DEF Ordering
    <3>q. QED BY <3>1, <3>2
  <2>2. WireOrdered(wire', stream, revision, lockSeen) /\ StreamOrdered(stream, lockSeen)
    <3>1. Suffix(stream, stream)
      BY <1>t, SuffixIs
    <3>q. QED BY <3>1, <1>t, <1>2, <1>4, WireShrinks DEF Ordering
  <2>3. ASSUME NEW k \in DOMAIN stream PROVE lockSeen'[stream[k].order] <= stream[k].row.op
    <3>1. stream[k].order \in Order /\ stream[k].row \in Row
      <4>1. stream[k] \in Entries
        BY <1>t
      <4>q. QED BY <4>1 DEF Entries
    <3>2. CASE stream[k].order = o
      <4>1. SeenLock(o, row) \in Nat /\ stream[k].row.op \in Nat /\ row.op <= stream[k].row.op
        BY <3>1, <3>2, <1>6, <1>7, RowIsSome DEF SeenLock, Upto
      <4>q. QED BY <4>1, <3>2, <1>6, <1>8
    <3>3. CASE stream[k].order # o
      BY <3>1, <3>3, <2>2, <1>8 DEF StreamOrdered
    <3>q. QED BY <3>2, <3>3
  <2>4. ASSUME NEW k \in DOMAIN wire' PROVE lockSeen'[wire'[k].order] <= wire'[k].row.op
    <3>1. wire'[k].order \in Order /\ wire'[k].row \in Row
      <4>1. wire'[k] \in WireEntries
        BY <1>t
      <4>q. QED BY <4>1 DEF WireEntries
    <3>2. CASE wire'[k].order = o
      <4>1. SeenLock(o, row) \in Nat /\ wire'[k].row.op \in Nat /\ row.op <= wire'[k].row.op
        BY <3>1, <3>2, <1>6, <1>7, RowIsSome DEF SeenLock, Upto
      <4>q. QED BY <4>1, <3>2, <1>6, <1>8
    <3>3. CASE wire'[k].order # o
      BY <3>1, <3>3, <2>2, <1>8 DEF StreamOrdered, WireOrdered
    <3>q. QED BY <3>2, <3>3
  <2>5. StreamOrdered(stream, lockSeen')
    BY <2>2, <2>3 DEF StreamOrdered
  <2>6. WireOrdered(wire', stream, revision, lockSeen')
    BY <2>2, <2>4 DEF StreamOrdered, WireOrdered
  <2>q. QED BY <2>1, <2>5, <2>6, <1>3 DEF Ordering
<1>10. Compares'
  BY <1>2, <1>3, <1>4, <1>t, ComparedShrinks DEF Compares
<1>11. Freshness'
  BY <1>2, <1>3 DEF Freshness
(* What the event has become.                                              *)
<1>p. PICK p \in RowOrNone : p = IF events[o] # NoEvent THEN events[o].row ELSE Canonical(o)
  <2>1. Canonical(o) \in RowOrNone /\ events[o].row \in RowOrNone
    BY <1>1, <1>t, CanonicalIs DEF EventSet
  <2>q. QED BY <2>1
<1>c. PICK c \in BOOLEAN : c = (replacements[o] # 0 /\ p.status = "PENDING_REPLACE")
  OBVIOUS
<1>m. PICK m \in RowOrNone :
        /\ m = MergeRow(p, row, c) /\ Becomes(p, row, c, m)
        /\ \/ /\ events' = events /\ replacements' = replacements
              /\ m = NoRow \/ (events[o] # NoEvent /\ rev <= events[o].rev)
           \/ \E x \in EventSet :
                /\ m # NoRow /\ ~(events[o] # NoEvent /\ rev <= events[o].rev)
                /\ events' = [events EXCEPT ![o] = x]
                /\ x.row = m /\ x.rev = rev
                /\ x.ready => replacements[o] # 0 \/ events[o].ready
                /\ replacements' = replacements \/ replacements' = [replacements EXCEPT ![o] = 0]
  <2>1. \E q \in RowOrNone, m \in RowOrNone, d \in BOOLEAN :
            /\ q = IF events[o] # NoEvent THEN events[o].row ELSE Canonical(o)
            /\ d = (replacements[o] # 0 /\ q.status = "PENDING_REPLACE")
            /\ m = MergeRow(q, row, d)
            /\ Becomes(q, row, d, m)
            /\ \/ /\ events' = events /\ replacements' = replacements
                  /\ m = NoRow \/ (events[o] # NoEvent /\ rev <= events[o].rev)
               \/ \E x \in EventSet :
                    /\ m # NoRow /\ ~(events[o] # NoEvent /\ rev <= events[o].rev)
                    /\ events' = [events EXCEPT ![o] = x]
                    /\ x.row = m /\ x.rev = rev
                    /\ x.ready => replacements[o] # 0 \/ events[o].ready
                    /\ replacements' = replacements \/ replacements' = [replacements EXCEPT ![o] = 0]
    BY <1>1, <1>5, ApplyIs
  <2>q. QED BY <2>1, <1>p, <1>c
<1>b. EventsBefore(events, acked, wire', stream, connected, revision)
  <2>1. EventsBefore(events, acked, wire, stream, connected, revision)
    BY <1>2 DEF Pending
  <2>2. ASSUME NEW n \in Order, n \notin acked, events[n].row.status \notin TerminalStates,
               NEW k \in DOMAIN wire', wire'[k].order = n
        PROVE  Upto(events[n].row, wire'[k].row) /\ events[n].rev < wire'[k].rev
    BY <2>1, <2>2, <1>h DEF EventsBefore
  <2>q. QED BY <2>1, <2>2 DEF EventsBefore
<1>l. ASSUME o \notin acked, Locked(o)'
      PROVE  /\ broker[o].status \in Processing /\ row.op = broker[o].op
             /\ row.status \notin TerminalStates /\ p.status \notin TerminalStates
             /\ events[o] # NoEvent => events[o].rev < rev /\ Upto(events[o].row, row)
             /\ ~c
             /\ (Locked(o) \/ row.status \in Processing)
  <2>1. broker[o].status \in Processing /\ SeenLock(o, row) = broker[o].op
    BY <1>l, <1>3, <1>8 DEF Locked
  <2>2. row.op = broker[o].op
    <3>1. SeenLock(o, row) \in Nat
      BY <1>6 DEF SeenLock
    <3>q. QED BY <3>1, <2>1, <1>6, <1>8
  <2>3. broker[o].status \notin TerminalStates
    BY <2>1, StatesApart
  <2>4. row.status \notin TerminalStates
    BY <2>3, <1>6 DEF Faithful
  <2>5. events[o].row.status \notin TerminalStates
    BY <2>3 DEF Truth, EventTruth, EventOk, Faithful
  <2>6. Canonical(o).status \notin TerminalStates
    <3>1. base.openRows[o].status \notin TerminalStates /\ base.closedRows[o].status \notin TerminalStates
      BY <2>3 DEF Truth, ReadTruth, RowsOk, ReadFaithfully, Faithful
    <3>q. QED BY <3>1, <1>1, CanonicalIs
  <2>7. events[o].rev < rev /\ Upto(events[o].row, row)
    BY <2>5, <1>l, <1>2, <1>h, <1>o DEF Pending, EventsBefore
  <2>8. ~c
    BY <1>l, <1>2, <1>c DEF Locks, AckInv
  <2>9. Locked(o) \/ row.status \in Processing
    BY <2>1 DEF SeenLock, Locked
  <2>q. QED BY <2>1, <2>2, <2>4, <2>5, <2>6, <2>7, <2>8, <2>9, <1>p
<1>e. CASE events' = events /\ replacements' = replacements /\ (m = NoRow \/ (events[o] # NoEvent /\ rev <= events[o].rev))
  <2>1. Pending'
    <3>1. EventsBefore(events, acked, wire', stream', connected, revision)
      BY <1>b, <1>3
    <3>q. QED BY <3>1, <1>e, <1>3 DEF Pending
  <2>2. Labels'
    <3>1. ASSUME NEW read \in Reads, Newer(read, revision, wire, events, acked, broker)
          PROVE  Newer(read, revision, wire', events, acked, broker)
      <4>1. revision <= revision
        BY <1>t
      <4>q. QED BY <4>1, <3>1, <1>t, <1>4, NewerShrinks
    <3>q. QED BY <3>1, <1>e, <1>2, <1>3, <1>t DEF Labels
  <2>3. AckInv'
    BY <1>e, <1>2, <1>3, LocksStay DEF Locks
  <2>4. LockInv'
    <3>1. ASSUME NEW n \in Order, n # o, n \notin acked, Locked(n)'
          PROVE  Locked(n)
      BY <3>1, <1>3, <1>8 DEF Locked
    <3>2. ASSUME o \notin acked, Locked(o)', ~Locked(o)
          PROVE  events[o] = NoEvent /\ base.openRows[o] # NoRow /\ base.openRows[o].op = broker[o].op
      <4>1. row.status \in Processing /\ row.op = broker[o].op /\ p.status \notin TerminalStates
        BY <3>2, <1>l
      <4>2. events[o] = NoEvent
        <5>1. ASSUME events[o] # NoEvent PROVE FALSE
          <6>1. events[o].rev < rev /\ Upto(p, row)
            BY <5>1, <3>2, <1>l, <1>p
          <6>2. m = row
            BY <6>1, <4>1, <1>m, MergeFollows
          <6>3. m # NoRow
            BY <6>2, RowIsSome
          <6>4. events[o].rev \in Int
            BY <1>t DEF EventSet
          <6>q. QED BY <6>1, <6>3, <6>4, <1>e
        <5>q. QED BY <5>1
      <4>3. row.filled < p.filled
        <5>1. MergeRow(p, row, c) = NoRow
          BY <4>2, <1>e, <1>m
        <5>q. QED BY <5>1, <4>1, MergeRefuses
      <4>4. p # NoRow
        <5>1. row.filled \in Nat
          BY RowIsSome
        <5>q. QED BY <5>1, <4>3, NoRowIs
      <4>5. p = base.openRows[o]
        <5>1. base.closedRows[o] = NoRow \/ base.closedRows[o].status \in TerminalStates
          BY DEF Truth, ReadTruth, RowsOk
        <5>q. QED BY <5>1, <4>1, <4>2, <4>4, <1>p, <1>1, CanonicalIs
      <4>6. Upto(row, p)
        <5>1. Comparable(p, row)
          BY <4>5, <1>2, <1>h, <1>o DEF Compares, Compared
        <5>2. row.filled \in Nat /\ p.filled \in Nat
          BY RowIsSome, RowIs
        <5>q. QED BY <5>1, <5>2, <4>3 DEF Comparable, Upto
      <4>7. p.op <= broker[o].op /\ p.op \in Nat
        BY <4>5, RowIs DEF Truth, ReadTruth, RowsOk, ReadFaithfully, Faithful, Upto
      <4>8. p.op = broker[o].op
        BY <4>1, <4>6, <4>7, <1>6 DEF Upto
      <4>q. QED BY <4>2, <4>4, <4>5, <4>8
    <3>q. QED BY <3>1, <3>2, <1>e, <1>2, <1>3 DEF Locks, LockInv
  <2>5. Locks'
    BY <2>3, <2>4 DEF Locks
  <2>q. QED BY <2>1, <2>2, <2>5, <1>9, <1>10, <1>11, ChainNext
<1>x. CASE \E x \in EventSet :
                /\ m # NoRow /\ ~(events[o] # NoEvent /\ rev <= events[o].rev)
                /\ events' = [events EXCEPT ![o] = x]
                /\ x.row = m /\ x.rev = rev
                /\ x.ready => replacements[o] # 0 \/ events[o].ready
                /\ replacements' = replacements \/ replacements' = [replacements EXCEPT ![o] = 0]
  <2>x. PICK x \in EventSet :
                /\ m # NoRow /\ ~(events[o] # NoEvent /\ rev <= events[o].rev)
                /\ events' = [events EXCEPT ![o] = x]
                /\ x.row = m /\ x.rev = rev
                /\ x.ready => replacements[o] # 0 \/ events[o].ready
                /\ replacements' = replacements \/ replacements' = [replacements EXCEPT ![o] = 0]
    BY <1>x
  <2>1. /\ events'[o] = x /\ events'[o].row = m /\ events'[o].rev = rev
        /\ \A n \in Order : n # o => events'[n] = events[n]
    BY <2>x, <1>t
  <2>2. m.op = row.op /\ m.filled = row.filled
    BY <2>x, <1>m DEF Becomes
  <2>3. Pending'
    <3>1. EventsBefore(events, acked, wire', stream', connected, revision)
      BY <1>b, <1>3
    <3>2. /\ \A k \in DOMAIN wire' : wire'[k].order = o => Upto(m, wire'[k].row) /\ rev < wire'[k].rev
          /\ \A k \in DOMAIN stream : stream[k].order = o => Upto(m, stream[k].row)
      BY <2>2, <1>7 DEF Upto
    <3>3. SUFFICES ASSUME NEW n \in Order, n \notin acked, events'[n].row.status \notin TerminalStates
                   PROVE  /\ connected => events'[n].rev <= revision
                          /\ \A i \in DOMAIN wire' : wire'[i].order = n =>
                                Upto(events'[n].row, wire'[i].row) /\ events'[n].rev < wire'[i].rev
                          /\ \A i \in DOMAIN stream : stream[i].order = n => Upto(events'[n].row, stream[i].row)
      BY <1>3 DEF Pending, EventsBefore
    <3>4. CASE n = o
      BY <3>2, <3>4, <2>1, <1>6
    <3>5. CASE n # o
      BY <3>1, <3>3, <3>5, <2>1, <1>3 DEF EventsBefore
    <3>q. QED BY <3>4, <3>5
  <2>4. Labels'
    <3>1. ASSUME NEW read \in Reads, Newer(read, revision, wire, events, acked, broker)
          PROVE  Newer(read, revision, wire', events', acked, broker)
      <4>1. Newer(read, revision, wire', events, acked, broker)
        <5>1. revision <= revision
          BY <1>t
        <5>q. QED BY <5>1, <3>1, <1>t, <1>4, NewerShrinks
      <4>2. read.openRows[o] # NoRow /\ read.label >= rev => m.op <= read.openRows[o].op
        BY <3>1, <2>2, <1>h, <1>o DEF Newer
      <4>3. ASSUME NEW n \in Order, read.openRows[n] # NoRow, n \notin acked, broker[n].status \in OpenStates,
                   read.label >= events'[n].rev
            PROVE  events'[n].row.op <= read.openRows[n].op
        <5>1. CASE n = o
          BY <5>1, <4>2, <4>3, <2>1
        <5>2. CASE n # o
          BY <5>2, <4>1, <4>3, <2>1 DEF Newer
        <5>q. QED BY <5>1, <5>2
      <4>q. QED BY <4>1, <4>3 DEF Newer
    <3>q. QED BY <3>1, <1>2, <1>3, <1>t DEF Labels
  <2>5. AckInv'
    <3>1. ASSUME NEW n \in Order, events'[n].ready \/ replacements'[n] # 0 PROVE n \in acked
      <4>1. replacements'[n] # 0 => replacements[n] # 0
        BY <2>x, <1>t
      <4>q. QED BY <4>1, <3>1, <2>1, <2>x, <1>2 DEF Locks, AckInv
    <3>q. QED BY <3>1, <1>3 DEF AckInv
  <2>6. LockInv'
    <3>1. ASSUME NEW n \in Order, n # o, n \notin acked, Locked(n)'
          PROVE  Locked(n) /\ events'[n] = events[n]
      BY <3>1, <2>1, <1>3, <1>8 DEF Locked
    <3>2. ASSUME o \notin acked, Locked(o)'
          PROVE  m.status \in Processing /\ m.op = broker[o].op
      <4>1. /\ broker[o].status \in Processing /\ row.op = broker[o].op /\ row.status \notin TerminalStates
            /\ ~c /\ (Locked(o) \/ row.status \in Processing)
        BY <3>2, <1>l
      <4>2. CASE row.status \in Processing
        <5>1. m = row
          BY <4>2, <2>x, <1>m, StatesApart DEF Becomes
        <5>q. QED BY <5>1, <4>1, <4>2
      <4>3. CASE Locked(o)
        <5>1. p.status \in Processing
          <6>1. CASE events[o] = NoEvent /\ base.openRows[o] # NoRow /\ base.openRows[o].op = broker[o].op
            <7>1. p = base.openRows[o]
              BY <6>1, <1>p, <1>1, CanonicalIs
            <7>q. QED BY <7>1, <6>1, <4>1 DEF Truth, ReadTruth, RowsOk, ReadFaithfully
          <6>2. CASE events[o].row.status \in Processing
            <7>1. events[o] # NoEvent
              BY <6>2, NoEventIs, NoRowIs, StatesApart
            <7>q. QED BY <7>1, <6>2, <1>p
          <6>q. QED BY <6>1, <6>2, <4>3, <3>2, <1>2 DEF Locks, LockInv
        <5>2. m = MergeRow(p, row, c) /\ m # NoRow
          <6>1. m = MergeRow(p, row, c)
            BY <1>m
          <6>2. m # NoRow
            BY <2>x
          <6>q. QED BY <6>1, <6>2, <4>1
        <5>q. QED BY <5>1, <5>2, <4>1, MergeKeepsLock
      <4>q. QED BY <4>1, <4>2, <4>3
    <3>q. QED BY <3>1, <3>2, <2>1, <1>2, <1>3 DEF Locks, LockInv
  <2>7. Locks'
    BY <2>5, <2>6 DEF Locks
  <2>q. QED BY <2>3, <2>4, <2>7, <1>9, <1>10, <1>11, ChainNext
<1>q. QED BY <1>e, <1>x, <1>m

LEMMA ReceiveKeepsChain ==
  ASSUME TypeOK, TypeOK', Truth, Chain, Receive
  PROVE  Chain'
<1>1. BrokerTypes /\ ServiceTypes /\ EventTypes /\ ReadTypes
  BY TypesAre
<1>t. /\ stream \in Seq(Entries) /\ wire \in Seq(WireEntries) /\ revision \in Nat
      /\ events \in [Order -> EventSet] /\ broker \in [Order -> RowOrNone]
      /\ base \in Reads /\ request.read \in Reads
  BY <1>1 DEF BrokerTypes, Books, ServiceTypes, EventTypes, ReadTypes
<1>2. Ordering /\ Pending /\ Compares /\ Labels /\ Freshness /\ Locks
  BY ChainIs
<1>3. /\ UNCHANGED <<broker, stream, revision, connected, wire, replacements, acked, lockSeen>>
      /\ request.read.open /\ base' = request.read /\ request'.read = NoRead /\ outdated' = FALSE
      /\ events' = [o \in Order |-> Tombstone(o, request.read)]
  BY DEF Receive, brokerVars, serviceVars, wireVars, NoRequest
<1>4. ASSUME NEW o \in Order
      PROVE  /\ events'[o].ready = events[o].ready
             /\ \/ events'[o] = events[o]
                \/ events'[o].row.status \in TerminalStates /\ broker[o].status \in TerminalStates
  <2>1. events'[o] = Tombstone(o, request.read)
    BY <1>3
  <2>2. PICK t \in EventSet :
          /\ t = Tombstone(o, request.read)
          /\ \/ t = events[o]
             \/ /\ request.read.closedRows[o] # NoRow
                /\ t.row = request.read.closedRows[o] /\ t.ready = events[o].ready
    BY <1>1, <1>t, TombstoneIs
  <2>3. request.read.closedRows[o] # NoRow =>
          /\ request.read.closedRows[o].status \in TerminalStates
          /\ request.read.closedRows[o] = broker[o]
    BY DEF Truth, ReadTruth, RowsOk, ReadFaithfully, Faithful
  <2>q. QED BY <2>1, <2>2, <2>3
<1>5. Ordering'
  BY <1>2, <1>3 DEF Ordering
<1>6. Pending'
  BY <1>2, <1>3, <1>4 DEF Pending, EventsBefore
<1>7. /\ Compared(NoRead, wire, stream) /\ Newer(NoRead, revision, wire, events', acked, broker)
      /\ Fresh(base', NoRead, broker)
  BY <1>t, NoReadChain
<1>8. Compares'
  BY <1>2, <1>3, <1>7 DEF Compares
<1>9. Labels'
  <2>1. ASSUME NEW o \in Order, broker[o].status \in OpenStates PROVE events'[o] = events[o]
    BY <2>1, <1>4, StatesApart
  <2>2. Newer(request.read, revision, wire, events', acked, broker)
    BY <2>1, <1>2 DEF Labels, Newer
  <2>q. QED BY <2>2, <1>3, <1>7 DEF Labels
<1>10. Freshness'
  BY <1>3, <1>7 DEF Freshness
<1>11. AckInv'
  BY <1>2, <1>3, <1>4 DEF Locks, AckInv
<1>12. LockInv'
  <2>1. ASSUME NEW o \in Order, o \notin acked, Locked(o)
        PROVE  \/ events'[o] = NoEvent /\ base'.openRows[o] # NoRow /\ base'.openRows[o].op = broker[o].op
               \/ events'[o].row.status \in Processing /\ events'[o].row.op = broker[o].op
    <3>1. broker[o].status \in OpenStates /\ broker[o].status \notin TerminalStates
      BY <2>1, StatesApart DEF Locked
    <3>2. events'[o] = events[o]
      BY <3>1, <1>4
    <3>3. CASE events[o] = NoEvent /\ base.openRows[o] # NoRow /\ base.openRows[o].op = broker[o].op
      <4>1. request.read.openRows[o] # NoRow /\ base.openRows[o].op <= request.read.openRows[o].op
        BY <3>1, <3>3, <1>2, <1>3 DEF Freshness, Fresh
      <4>2. request.read.openRows[o].op <= broker[o].op
        BY DEF Truth, ReadTruth, RowsOk, ReadFaithfully, Faithful, Upto
      <4>3. request.read.openRows[o].op \in Nat /\ broker[o].op \in Nat
        BY <1>1, <1>t, CanonicalIs, RowIs
      <4>q. QED BY <4>1, <4>2, <4>3, <3>2, <3>3, <1>3
    <3>4. CASE events[o].row.status \in Processing /\ events[o].row.op = broker[o].op
      BY <3>2, <3>4
    <3>q. QED BY <3>3, <3>4, <2>1, <1>2 DEF Locks, LockInv
  <2>2. \A o \in Order : Locked(o)' => Locked(o)
    BY <1>3 DEF Locked
  <2>q. QED BY <2>1, <2>2, <1>3 DEF LockInv
<1>13. Locks'
  BY <1>11, <1>12 DEF Locks
<1>q. QED BY <1>5, <1>6, <1>8, <1>9, <1>10, <1>13, ChainNext

LEMMA ReconnectKeepsChain ==
  ASSUME TypeOK, TypeOK', BrokerOk(broker, replaces), Truth, Chain, Reconnect
  PROVE  Chain'
<1>1. BrokerTypes /\ ServiceTypes /\ EventTypes /\ ReadTypes
  BY TypesAre
<1>t. /\ stream \in Seq(Entries) /\ wire \in Seq(WireEntries) /\ revision \in Nat
      /\ events \in [Order -> EventSet] /\ broker \in [Order -> RowOrNone]
  BY <1>1 DEF BrokerTypes, Books, ServiceTypes, EventTypes, ReadTypes
<1>2. Ordering /\ Pending /\ Compares /\ Labels /\ Freshness /\ Locks
  BY ChainIs
<1>3. /\ UNCHANGED <<broker, stream, revision, wire, acked, base, request, outdated>>
      /\ events' = [o \in Order |-> IF events[o].row.status \in TerminalStates
                                    THEN [events[o] EXCEPT !.rev = -1] ELSE NoEvent]
      /\ replacements' = [o \in Order |-> 0]
      /\ lockSeen' = [o \in Order |-> 0]
  BY DEF Reconnect, brokerVars, serviceVars, readVars
<1>4. ASSUME NEW o \in Order
      PROVE  \/ events'[o] = NoEvent
             \/ /\ events'[o].row.status \in TerminalStates /\ broker[o].status \in TerminalStates
                /\ events'[o].ready = events[o].ready
  <2>1. CASE events[o].row.status \in TerminalStates
    <3>1. events'[o] = [events[o] EXCEPT !.rev = -1]
      BY <2>1, <1>3
    <3>2. events[o] \in EventSet
      BY <1>t
    <3>3. events'[o].row = events[o].row /\ events'[o].ready = events[o].ready
      BY <3>1, <3>2 DEF EventSet
    <3>4. broker[o].status \in TerminalStates
      BY <2>1 DEF Truth, EventTruth, EventOk, Faithful
    <3>q. QED BY <3>3, <3>4, <2>1
  <2>2. CASE events[o].row.status \notin TerminalStates
    BY <2>2, <1>3
  <2>q. QED BY <2>1, <2>2
<1>w. \A i \in DOMAIN wire : wire[i].order \in Order /\ wire[i].row \in Row /\ wire[i].rev \in Nat
  <2>1. ASSUME NEW i \in DOMAIN wire PROVE wire[i].order \in Order /\ wire[i].row \in Row /\ wire[i].rev \in Nat
    <3>1. wire[i] \in WireEntries
      BY <1>t
    <3>q. QED BY <3>1 DEF WireEntries
  <2>q. QED BY <2>1
<1>s. \A i \in DOMAIN stream : stream[i].order \in Order /\ stream[i].row \in Row
  <2>1. ASSUME NEW i \in DOMAIN stream PROVE stream[i].order \in Order /\ stream[i].row \in Row
    <3>1. stream[i] \in Entries
      BY <1>t
    <3>q. QED BY <3>1 DEF Entries
  <2>q. QED BY <2>1
<1>5. Ordering'
  <2>1. \A i \in DOMAIN wire : lockSeen'[wire[i].order] <= wire[i].row.op
    BY <1>3, <1>w, RowIsSome
  <2>2. \A i \in DOMAIN stream : lockSeen'[stream[i].order] <= stream[i].row.op
    BY <1>3, <1>s, RowIsSome
  <2>3. \A o \in Order : lockSeen'[o] <= broker[o].op
    BY <1>3, <1>t, RowIs
  <2>q. QED BY <2>1, <2>2, <2>3, <1>2, <1>3 DEF Ordering, StreamOrdered, WireOrdered
<1>6. Pending'
  <2>1. ASSUME NEW o \in Order, events'[o].row.status \notin TerminalStates
        PROVE  /\ events'[o].rev <= revision
               /\ \A i \in DOMAIN wire : Upto(events'[o].row, wire[i].row) /\ events'[o].rev < wire[i].rev
               /\ \A i \in DOMAIN stream : Upto(events'[o].row, stream[i].row)
    <3>1. events'[o] = NoEvent
      BY <2>1, <1>4
    <3>2. events'[o].row = NoRow /\ events'[o].rev = -1
      BY <3>1, NoEventIs
    <3>3. ASSUME NEW r \in Row PROVE Upto(NoRow, r)
      BY RowIsSome, NoRowIs DEF Upto
    <3>q. QED BY <3>2, <3>3, <1>w, <1>s, <1>t
  <2>q. QED BY <2>1, <1>3 DEF Pending, EventsBefore
<1>7. Compares' /\ Freshness'
  BY <1>2, <1>3 DEF Compares, Freshness
<1>8. Labels'
  <2>1. ASSUME NEW o \in Order, broker[o].status \in OpenStates PROVE events'[o].row.op = 0
    BY <2>1, <1>4, StatesApart, NoEventIs, NoRowIs
  <2>2. ASSUME NEW read \in Reads, Newer(read, revision, wire, events, acked, broker)
        PROVE  Newer(read, revision, wire, events', acked, broker)
    <3>1. \A o \in Order : read.openRows[o] # NoRow => read.openRows[o].op \in Nat
      BY RowIsSome DEF Reads
    <3>q. QED BY <3>1, <2>1, <2>2 DEF Newer
  <2>q. QED BY <2>2, <1>1, <1>2, <1>3 DEF Labels, ReadTypes
<1>9. AckInv'
  <2>1. ASSUME NEW o \in Order, events'[o].ready PROVE o \in acked
    BY <2>1, <1>2, <1>4, NoEventIs DEF Locks, AckInv
  <2>q. QED BY <2>1, <1>3 DEF AckInv
<1>10. LockInv'
  <2>1. ASSUME NEW o \in Order PROVE ~Locked(o)'
    <3>1. broker[o].status \in Processing => broker[o].op > 0
      BY DEF BrokerOk
    <3>2. broker[o].op \in Nat
      BY <1>t, RowIs
    <3>q. QED BY <3>1, <3>2, <1>3 DEF Locked
  <2>q. QED BY <2>1 DEF LockInv
<1>11. Locks'
  BY <1>9, <1>10 DEF Locks
<1>q. QED BY <1>5, <1>6, <1>7, <1>8, <1>11, ChainNext

(* Commands.  What is acknowledged changes, of an order that it is not the *)
(* replacement of, only whether a processing may still end.                *)
LEMMA CommandsKeepChain ==
  ASSUME TypeOK, TypeOK', Truth, Chain, (\E o \in Order : Modify(o)) \/ Acknowledge \/ FailCommand
  PROVE  Chain'
<1>1. BrokerTypes /\ ServiceTypes /\ EventTypes /\ ReadTypes
  BY TypesAre
<1>t. /\ stream \in Seq(Entries) /\ wire \in Seq(WireEntries) /\ revision \in Nat
      /\ events \in [Order -> EventSet] /\ replacements \in [Order -> 0..MaxOrders]
  BY <1>1 DEF BrokerTypes, Books, ServiceTypes, EventTypes, ReadTypes
<1>2. Ordering /\ Pending /\ Compares /\ Labels /\ Freshness /\ Locks
  BY ChainIs
<1>3. CASE (\E o \in Order : Modify(o)) \/ FailCommand
  <2>1. /\ UNCHANGED <<broker, stream, revision, connected, wire, events, replacements, acked, lockSeen, base, outdated>>
        /\ request'.read = request.read \/ request'.read = NoRead
    <3>1. ASSUME NEW o \in Order, Modify(o)
          PROVE  /\ UNCHANGED <<brokerVars, serviceVars, wireVars, eventVars, base, outdated, lockSeen>>
                 /\ request' = NoRequest
      BY <3>1 DEF Modify
    <3>2. ASSUME FailCommand
          PROVE  /\ UNCHANGED <<brokerVars, serviceVars, wireVars, eventVars, base, outdated, lockSeen>>
                 /\ request' = request
      BY <3>2 DEF FailCommand, readVars
    <3>3. NoRequest.read = NoRead
      BY DEF NoRequest
    <3>q. QED BY <3>1, <3>2, <3>3, <1>3 DEF brokerVars, serviceVars, wireVars, eventVars
  <2>2. /\ Compared(NoRead, wire, stream) /\ Newer(NoRead, revision, wire, events, acked, broker)
        /\ Fresh(base, NoRead, broker)
    BY <1>t, NoReadChain
  <2>3. Ordering' /\ Pending'
    BY <2>1, <1>2 DEF Ordering, Pending
  <2>4. Compares'
    BY <2>1, <2>2, <1>2 DEF Compares
  <2>5. Labels'
    BY <2>1, <2>2, <1>2 DEF Labels
  <2>6. Freshness'
    BY <2>1, <2>2, <1>2 DEF Freshness
  <2>7. Locks'
    BY <2>1, <1>2, LocksStay DEF Locks
  <2>q. QED BY <2>3, <2>4, <2>5, <2>6, <2>7, ChainNext
<1>4. CASE Acknowledge
  <2>1. /\ UNCHANGED <<broker, stream, revision, connected, wire, lockSeen, base, request, outdated>>
        /\ command.kind = "accepted" /\ Accept(command.order, command.id)
        /\ acked' = acked \cup {command.id}
    BY <1>4 DEF Acknowledge, brokerVars, serviceVars, wireVars, readVars
  <2>o. PICK o \in Order, n \in Order : o = command.order /\ n = command.id
    BY <2>1 DEF Truth, CommandTruth
  <2>2. Accept(o, n) /\ acked' = acked \cup {n}
    BY <2>1, <2>o
  <2>x. PICK old \in [Order -> EventSet], x \in EventSet : AcceptedAs(o, n, old, x)
    BY <2>2, <1>1, AcceptIs
  <2>z. PICK z \in {0, o} : replacements' = [replacements EXCEPT ![o] = 0, ![n] = z]
    BY <2>2, <1>1, AcceptIs
  <2>3. ASSUME NEW m \in Order, m # n
        PROVE  /\ events'[m].row = events[m].row /\ events'[m].rev = events[m].rev
               /\ events'[m].ready => events[m].ready
               /\ events[m] = NoEvent => events'[m] = NoEvent
    <3>1. events'[m] = old[m]
      BY <2>3, <2>x DEF AcceptedAs
    <3>2. CASE old = events
      BY <3>1, <3>2
    <3>3. CASE events[o] # NoEvent /\ old = [events EXCEPT ![o].ready = FALSE]
      <4>1. CASE m = o
        <5>1. old[m] = [events[m] EXCEPT !.ready = FALSE]
          BY <3>3, <4>1, <1>t
        <5>2. events[m] \in EventSet
          BY <1>t
        <5>3. old[m].row = events[m].row /\ old[m].rev = events[m].rev /\ ~old[m].ready
          BY <5>1, <5>2 DEF EventSet
        <5>q. QED BY <5>3, <4>1, <3>1, <3>3
      <4>2. CASE m # o
        BY <4>2, <3>1, <3>3, <1>t
      <4>q. QED BY <4>1, <4>2
    <3>q. QED BY <3>2, <3>3, <2>x DEF AcceptedAs
  <2>4. Ordering' /\ Compares' /\ Freshness'
    BY <2>1, <1>2 DEF Ordering, Compares, Freshness
  <2>5. Pending'
    BY <2>1, <2>2, <2>3, <1>2 DEF Pending, EventsBefore
  <2>6. Labels'
    <3>1. ASSUME NEW read, Newer(read, revision, wire, events, acked, broker)
          PROVE  Newer(read, revision, wire, events', acked', broker)
      BY <3>1, <2>2, <2>3 DEF Newer
    <3>q. QED BY <3>1, <2>1, <1>2 DEF Labels
  <2>7. AckInv'
    <3>1. ASSUME NEW m \in Order, m # n, events'[m].ready \/ replacements'[m] # 0 PROVE m \in acked
      <4>1. replacements'[m] # 0 => replacements[m] # 0
        BY <3>1, <2>z, <1>t
      <4>q. QED BY <4>1, <3>1, <2>3, <1>2 DEF Locks, AckInv
    <3>q. QED BY <3>1, <2>2 DEF AckInv
  <2>8. LockInv'
    <3>1. \A m \in Order : Locked(m)' => Locked(m)
      BY <2>1 DEF Locked
    <3>q. QED BY <3>1, <2>1, <2>2, <2>3, <1>2 DEF Locks, LockInv
  <2>9. Locks'
    BY <2>7, <2>8 DEF Locks
  <2>q. QED BY <2>4, <2>5, <2>6, <2>9, ChainNext
<1>q. QED BY <1>3, <1>4

---------------------------------------------------------------------------
(* The invariant.                                                          *)

LEMMA InitInv == Init => Inv
<1>1. SUFFICES ASSUME Init PROVE Inv
  OBVIOUS
<1>2. /\ broker = [NoRows EXCEPT ![1] = NewRow] /\ replaces = [o \in Order |-> 0]
      /\ stream = <<>> /\ revision = 0 /\ listening = TRUE /\ connected = TRUE /\ wire = <<>>
      /\ events = [o \in Order |-> NoEvent] /\ replacements = [o \in Order |-> 0]
      /\ base = NoRead /\ request = NoRequest /\ command = NoCommand /\ awaiting = [o \in Order |-> 0]
      /\ changes = 0 /\ lockSeen = [o \in Order |-> 0] /\ acked = {} /\ outdated = FALSE
  BY <1>1 DEF Init
<1>3. NewRow \in Row /\ NewRow.status = "PENDING" /\ NewRow.op = 0 /\ NewRow.filled = 0
  BY Sizes DEF NewRow, Row, OpenStates, Resting
<1>4. \A o \in Order : broker[o] = NewRow \/ broker[o] = NoRow
  BY <1>2, NoReadIs
<1>5. broker \in [Order -> RowOrNone]
  BY <1>2, <1>3, NoReadIs, RowIsSome DEF RowTable
<1>6. TypeOK
  <2>1. BrokerTypes
    BY <1>2, <1>5, Sizes DEF BrokerTypes, Books
  <2>2. ServiceTypes
    BY <1>2 DEF ServiceTypes
  <2>3. EventTypes
    BY <1>2, Sizes, NoEventIs DEF EventTypes
  <2>4. ReadTypes
    BY <1>2, NoReadIs DEF ReadTypes, NoRequest
  <2>5. CommandTypes
    BY <1>2, Sizes DEF CommandTypes, NoCommand
  <2>q. QED BY <2>1, <2>2, <2>3, <2>4, <2>5, TypesAre
<1>7. BrokerOk(broker, replaces)
  BY <1>2, <1>3, <1>4, NoRowIs, StatesApart, Sizes DEF BrokerOk, Resting, Processing
<1>8. request.read = NoRead
  BY <1>2 DEF NoRequest
<1>9. Truth
  <2>1. StreamTruth /\ WireTruth
    BY <1>2 DEF StreamTruth, WireTruth
  <2>2. EventTruth
    BY <1>2, <1>5, NoEventIs, NothingIsFaithful DEF EventTruth, EventOk, ReadFaithfully
  <2>3. AwaitedTruth /\ CommandTruth
    BY <1>2 DEF AwaitedTruth, CommandTruth, NoCommand
  <2>4. ReadTruth
    BY <1>2, <1>5, <1>8, NoReadIsTrue DEF ReadTruth
  <2>q. QED BY <2>1, <2>2, <2>3, <2>4 DEF Truth
<1>10. Chain
  <2>1. Ordering
    BY <1>2, <1>5, RowIs DEF Ordering, StreamOrdered, WireOrdered
  <2>2. Pending
    BY <1>2, NoEventIs DEF Pending, EventsBefore
  <2>3. <<>> \in Seq(Entries) /\ <<>> \in Seq(WireEntries) /\ 0 \in Nat
    OBVIOUS
  <2>4. /\ Compared(NoRead, wire, stream) /\ Newer(NoRead, revision, wire, events, acked, broker)
        /\ Fresh(base, NoRead, broker)
    BY <2>3, <1>2, NoReadChain
  <2>5. Compares /\ Labels /\ Freshness
    BY <2>4, <1>2, <1>8 DEF Compares, Labels, Freshness
  <2>6. AckInv
    BY <1>2, NoEventIs DEF AckInv
  <2>7. LockInv
    BY <1>3, <1>4, NoRowIs, StatesApart DEF LockInv, Locked, Processing
  <2>q. QED BY <2>1, <2>2, <2>5, <2>6, <2>7, ChainIs DEF Locks
<1>q. QED BY <1>6, <1>7, <1>9, <1>10 DEF Inv

LEMMA StepInv == Inv /\ [Next]_vars => Inv'
<1>1. SUFFICES ASSUME Inv, [Next]_vars PROVE Inv'
  OBVIOUS
<1>2. TypeOK /\ BrokerOk(broker, replaces) /\ Truth /\ Chain
  BY <1>1 DEF Inv
<1>3. CASE Broker
  <2>1. TypeOK' /\ BrokerOk(broker', replaces')
    BY <1>2, <1>3, BrokerKeepsTypes
  <2>2. Truth'
    BY <1>2, <1>3, BrokerKeepsTruth
  <2>3. Chain'
    BY <2>2, <1>2, <1>3, BrokerKeepsChain
  <2>q. QED BY <2>1, <2>2, <2>3 DEF Inv
<1>4. CASE Deliver \/ LoseStream \/ ResumeStream \/ Restart \/ Disconnect
  <2>1. TypeOK' /\ broker' = broker /\ replaces' = replaces
    BY <1>2, <1>4, ServiceKeepsTypes
  <2>2. Truth'
    BY <1>2, <1>4, ServiceKeepsTruth
  <2>3. Chain'
    BY <2>1, <1>2, <1>4, ServiceKeepsChain, DeliverKeepsChain
  <2>q. QED BY <2>1, <2>2, <2>3, <1>2 DEF Inv
<1>5. CASE Poll \/ ReadOpen \/ ReadClosed \/ FailRead
  <2>1. TypeOK' /\ broker' = broker /\ replaces' = replaces
    BY <1>2, <1>5, ReadsKeepTypes
  <2>2. Truth'
    BY <1>2, <1>5, ReadsKeepTruth
  <2>3. Chain'
    BY <2>1, <1>2, <1>5, ReadsKeepChain
  <2>q. QED BY <2>1, <2>2, <2>3, <1>2 DEF Inv
<1>6. CASE OnEvent \/ Receive \/ Reconnect
  <2>1. TypeOK' /\ broker' = broker /\ replaces' = replaces
    BY <1>2, <1>6, TabKeepsTypes
  <2>2. Truth'
    BY <1>2, <1>6, TabKeepsTruth
  <2>3. Chain'
    BY <2>1, <1>2, <1>6, OnEventKeepsChain, ReceiveKeepsChain, ReconnectKeepsChain
  <2>q. QED BY <2>1, <2>2, <2>3, <1>2 DEF Inv
<1>7. CASE (\E o \in Order : Modify(o)) \/ Acknowledge \/ FailCommand
  <2>1. TypeOK' /\ broker' = broker /\ replaces' = replaces
    <3>1. command.kind = "accepted" => command.order \in Order /\ command.id \in Order
      BY <1>2 DEF Truth, CommandTruth
    <3>q. QED BY <3>1, <1>2, <1>7, CommandsKeepTypes
  <2>2. Truth'
    BY <1>2, <1>7, CommandsKeepTruth
  <2>3. Chain'
    BY <2>1, <1>2, <1>7, CommandsKeepChain
  <2>q. QED BY <2>1, <2>2, <2>3, <1>2 DEF Inv
<1>8. CASE UNCHANGED vars
  <2>1. UNCHANGED <<broker, replaces, stream, listening, revision, connected, wire, events, replacements, base,
                    request, command, awaiting, changes, lockSeen, acked, outdated>>
    BY <1>8 DEF vars, brokerVars, serviceVars, wireVars, eventVars, readVars, commandVars
  <2>2. TypeOK'
    <3>1. BrokerTypes /\ ServiceTypes /\ EventTypes /\ ReadTypes /\ CommandTypes
      BY <1>2, TypesAre
    <3>2. BrokerTypes' /\ ServiceTypes' /\ EventTypes' /\ ReadTypes' /\ CommandTypes'
      BY <3>1, <2>1, SameTypes DEF brokerVars, eventVars, readVars, commandVars
    <3>q. QED BY <3>2, TypesAreNext
  <2>3. Truth'
    BY <2>1, <1>2, SameTruth DEF Truth
  <2>4. Chain'
    <3>1. Ordering /\ Pending /\ Compares /\ Labels /\ Freshness /\ Locks
      BY <1>2, ChainIs
    <3>2. Ordering' /\ Pending' /\ Compares' /\ Labels' /\ Freshness'
      BY <2>1, <3>1 DEF Ordering, Pending, Compares, Labels, Freshness
    <3>3. Locks'
      BY <2>1, <3>1, LocksStay DEF Locks
    <3>q. QED BY <3>2, <3>3, ChainNext
  <2>q. QED BY <2>1, <2>2, <2>3, <2>4, <1>2 DEF Inv
<1>q. QED BY <1>1, <1>3, <1>4, <1>5, <1>6, <1>7, <1>8 DEF Next

LEMMA InvHolds == Spec => []Inv
  BY InitInv, StepInv, PTL DEF Spec

---------------------------------------------------------------------------
(* What the tab shows.                                                     *)

(* What Merged makes of an order.                                          *)
LEMMA MergedIs ==
  ASSUME EventTypes, ReadTypes, NEW o \in Order
  PROVE  \E c \in BOOLEAN, m \in RowOrNone, order \in RowOrNone :
           /\ c = (events[o].ready /\ Canonical(o).status = "PENDING_REPLACE")
           /\ m = MergeRow(Canonical(o), events[o].row, c)
           /\ order = IF m # NoRow THEN m
                      ELSE IF base.label < events[o].rev THEN events[o].row ELSE Canonical(o)
           /\ \/ /\ events[o] = NoEvent \/ base.label >= events[o].rev
                 /\ Merged(o) = [open |-> base.openRows[o], recent |-> base.closedRows[o]]
              \/ /\ events[o] # NoEvent /\ order.status \in TerminalStates
                 /\ Merged(o) = [open |-> NoRow, recent |-> order]
              \/ /\ events[o] # NoEvent /\ order.status \notin TerminalStates
                 /\ Merged(o) = [open |-> order, recent |-> NoRow]
<1>1. Canonical(o) \in RowOrNone /\ events[o].row \in RowOrNone
  BY CanonicalIs DEF EventTypes, EventSet
<1>c. PICK c \in BOOLEAN : c = (events[o].ready /\ Canonical(o).status = "PENDING_REPLACE")
  OBVIOUS
<1>m. PICK m \in RowOrNone : m = MergeRow(Canonical(o), events[o].row, c)
  BY <1>1, MergeIs
<1>r. PICK order \in RowOrNone :
        order = IF m # NoRow THEN m ELSE IF base.label < events[o].rev THEN events[o].row ELSE Canonical(o)
  BY <1>1
<1>2. /\ Merged(o) = IF \/ events[o] = NoEvent
                        \/ /\ ~c /\ base.label >= events[o].rev /\ Canonical(o) # NoRow
                           /\ MergeRow(events[o].row, Canonical(o), TRUE) # NoRow
                     THEN [open |-> base.openRows[o], recent |-> base.closedRows[o]]
                     ELSE IF order.status \in TerminalStates THEN [open |-> NoRow, recent |-> order]
                     ELSE [open |-> order, recent |-> NoRow]
  BY <1>c, <1>m, <1>r DEF Merged, Or
<1>3. \/ /\ events[o] = NoEvent \/ base.label >= events[o].rev
         /\ Merged(o) = [open |-> base.openRows[o], recent |-> base.closedRows[o]]
      \/ /\ events[o] # NoEvent /\ order.status \in TerminalStates
         /\ Merged(o) = [open |-> NoRow, recent |-> order]
      \/ /\ events[o] # NoEvent /\ order.status \notin TerminalStates
         /\ Merged(o) = [open |-> order, recent |-> NoRow]
  BY <1>2
<1>q. QED BY <1>c, <1>m, <1>r, <1>3

LEMMA EndsShown ==
  ASSUME TypeOK, Truth, NEW o \in Order
  PROVE  Merged(o).recent = NoRow \/ Merged(o).recent = broker[o]
<1>1. BrokerTypes /\ EventTypes /\ ReadTypes
  BY TypesAre
<1>2. broker \in [Order -> RowOrNone] /\ events[o].row \in RowOrNone /\ Canonical(o) \in RowOrNone
  BY <1>1, CanonicalIs DEF BrokerTypes, Books, EventTypes, EventSet
<1>3. Faithful(broker, replaces, o, events[o].row) /\ Faithful(broker, replaces, o, Canonical(o))
  <2>1. Faithful(broker, replaces, o, base.openRows[o]) /\ Faithful(broker, replaces, o, base.closedRows[o])
    BY DEF Truth, ReadTruth, RowsOk, ReadFaithfully
  <2>q. QED BY <2>1, <1>1, CanonicalIs DEF Truth, EventTruth, EventOk
<1>4. base.closedRows[o] = NoRow \/ base.closedRows[o] = broker[o]
  BY DEF Truth, ReadTruth, RowsOk, ReadFaithfully, Faithful
<1>c. PICK c \in BOOLEAN, m \in RowOrNone, order \in RowOrNone :
        /\ m = MergeRow(Canonical(o), events[o].row, c)
        /\ order = IF m # NoRow THEN m
                   ELSE IF base.label < events[o].rev THEN events[o].row ELSE Canonical(o)
        /\ \/ Merged(o) = [open |-> base.openRows[o], recent |-> base.closedRows[o]]
           \/ order.status \in TerminalStates /\ Merged(o) = [open |-> NoRow, recent |-> order]
           \/ Merged(o) = [open |-> order, recent |-> NoRow]
  BY <1>1, MergedIs
<1>5. Becomes(Canonical(o), events[o].row, c, m)
  BY <1>2, <1>c, MergeIs
<1>6. Faithful(broker, replaces, o, m)
  BY <1>5, <1>2, <1>3, BecomesFaithful
<1>7. Faithful(broker, replaces, o, order)
  BY <1>6, <1>3, <1>c
<1>8. order.status \in TerminalStates => order = broker[o]
  BY <1>7 DEF Faithful
<1>q. QED BY <1>4, <1>8, <1>c

LEMMA LocksShown ==
  ASSUME Inv, ~outdated, NEW o \in Order, o \notin acked, Locked(o)
  PROVE  Merged(o).open.status \notin Resting
<1>1. TypeOK /\ Truth /\ Chain
  BY DEF Inv
<1>2. BrokerTypes /\ EventTypes /\ ReadTypes
  BY <1>1, TypesAre
<1>3. /\ events[o].row \in RowOrNone /\ Canonical(o) \in RowOrNone /\ broker[o] \in RowOrNone
      /\ base.openRows[o] \in RowOrNone /\ base.label \in Int /\ events[o].rev \in Int
  BY <1>2, CanonicalIs DEF BrokerTypes, Books, EventTypes, EventSet, ReadTypes, Reads
<1>4. Labels /\ Locks
  BY <1>1, ChainIs
<1>5. broker[o].status \in Processing /\ broker[o].status \in OpenStates /\ broker[o].status \notin TerminalStates
  BY StatesApart DEF Locked
<1>6. base.openRows[o].op = broker[o].op => base.openRows[o].status \notin Resting
  <2>1. base.openRows[o] # NoRow /\ base.openRows[o].op = broker[o].op => base.openRows[o].status \in Processing
    BY <1>1, <1>5 DEF Truth, ReadTruth, RowsOk, ReadFaithfully
  <2>q. QED BY <2>1, StatesApart, NoRowIs
<1>7. base.closedRows[o] = NoRow
  BY <1>1, <1>5 DEF Truth, ReadTruth, RowsOk, ReadFaithfully, Faithful
<1>c. PICK c \in BOOLEAN, m \in RowOrNone, order \in RowOrNone :
        /\ c = (events[o].ready /\ Canonical(o).status = "PENDING_REPLACE")
        /\ m = MergeRow(Canonical(o), events[o].row, c)
        /\ order = IF m # NoRow THEN m
                   ELSE IF base.label < events[o].rev THEN events[o].row ELSE Canonical(o)
        /\ \/ /\ events[o] = NoEvent \/ base.label >= events[o].rev
              /\ Merged(o) = [open |-> base.openRows[o], recent |-> base.closedRows[o]]
           \/ /\ events[o] # NoEvent
              /\ Merged(o) = [open |-> NoRow, recent |-> order]
           \/ /\ events[o] # NoEvent
              /\ Merged(o) = [open |-> order, recent |-> NoRow]
  BY <1>2, MergedIs
<1>8. CASE events[o] = NoEvent /\ base.openRows[o].op = broker[o].op
  <2>1. Merged(o).open = base.openRows[o]
    BY <1>8, <1>c
  <2>q. QED BY <2>1, <1>8, <1>6
<1>9. CASE events[o].row.status \in Processing /\ events[o].row.op = broker[o].op
  <2>1. events[o] # NoEvent /\ events[o].row.status \notin Resting /\ events[o].row # NoRow
    BY <1>9, NoEventIs, NoRowIs, StatesApart
  <2>2. ASSUME base.label >= events[o].rev, base.openRows[o] # NoRow
        PROVE  base.openRows[o].status \notin Resting
    <3>1. events[o].row.op <= base.openRows[o].op
      BY <2>2, <1>4, <1>5 DEF Labels, Newer
    <3>2. base.openRows[o].op <= broker[o].op
      BY <1>1 DEF Truth, ReadTruth, RowsOk, ReadFaithfully, Faithful, Upto
    <3>3. base.openRows[o].op \in Nat /\ broker[o].op \in Nat
      BY <1>3, RowIs
    <3>q. QED BY <3>1, <3>2, <3>3, <1>6, <1>9
  <2>3. base.label >= events[o].rev => base.openRows[o].status \notin Resting
    BY <2>2, NoRowIs, StatesApart
  <2>4. base.label >= events[o].rev => Canonical(o).status \notin Resting
    <3>1. Canonical(o) = base.openRows[o] \/ Canonical(o) = NoRow
      BY <1>2, <1>7, CanonicalIs
    <3>q. QED BY <3>1, <2>3, NoRowIs, StatesApart
  <2>5. m = NoRow \/ m = events[o].row
    <3>1. Becomes(Canonical(o), events[o].row, c, m)
      BY <1>3, <1>c, MergeIs
    <3>q. QED BY <3>1, <2>1 DEF Becomes
  <2>6. order.status \notin Resting
    <3>1. base.label < events[o].rev \/ base.label >= events[o].rev
      BY <1>3
    <3>q. QED BY <3>1, <2>1, <2>4, <2>5, <1>c
  <2>7. NoRow.status \notin Resting
    BY NoRowIs, StatesApart
  <2>q. QED BY <2>1, <2>3, <2>6, <2>7, <1>c
<1>q. QED BY <1>8, <1>9, <1>4 DEF Locks, LockInv

LEMMA ShownIs ==
  ASSUME NEW o \in Order
  PROVE  /\ Shown(o).open = NoRow \/ (base # NoRead /\ Shown(o).open = Merged(o).open)
         /\ Shown(o).recent = NoRow \/ (base # NoRead /\ Shown(o).recent = Merged(o).recent)
<1>1. Merged(o) = [open |-> Merged(o).open, recent |-> Merged(o).recent]
  BY DEF Merged
<1>2. CASE base = NoRead
  BY <1>2 DEF Shown
<1>3. CASE base # NoRead /\ Retired(o)
  <2>1. Shown(o) = [Merged(o) EXCEPT !.open = NoRow]
    BY <1>3 DEF Shown
  <2>q. QED BY <2>1, <1>1, <1>3
<1>4. CASE base # NoRead /\ ~Retired(o)
  BY <1>4 DEF Shown
<1>q. QED BY <1>2, <1>3, <1>4

LEMMA InvImplies == Inv => NotAhead
<1>1. SUFFICES ASSUME Inv PROVE NotAhead
  OBVIOUS
<1>2. TypeOK /\ Truth
  BY <1>1 DEF Inv
<1>3. LocksHold
  <2>1. SUFFICES ASSUME ~outdated, NEW o \in Order \ acked, Locked(o)
                 PROVE  Shown(o).open.status \notin Resting
    BY DEF LocksHold
  <2>2. Merged(o).open.status \notin Resting
    BY <1>1, <2>1, LocksShown
  <2>3. NoRow.status \notin Resting
    BY NoRowIs, StatesApart
  <2>q. QED BY <2>2, <2>3, ShownIs
<1>4. EndsAreTrue
  <2>1. ASSUME NEW o \in Order, Gone(o) PROVE [Shown(o).recent EXCEPT !.op = 0] = [broker[o] EXCEPT !.op = 0]
    <3>1. Shown(o).recent # NoRow
      BY <2>1 DEF Gone
    <3>2. Shown(o).recent = broker[o]
      BY <3>1, <1>2, ShownIs, EndsShown
    <3>q. QED BY <3>2
  <2>2. ASSUME NEW o \in Order, Retired(o) PROVE broker[o].status \notin OpenStates
    <3>1. PICK n \in Order : events[n].replaces = o
      BY <2>2 DEF Retired
    <3>2. o # 0
      BY Sizes DEF Order
    <3>3. broker[o].status = "REPLACED"
      BY <3>1, <3>2, <1>2 DEF Truth, EventTruth, EventOk
    <3>q. QED BY <3>3, StatesApart DEF TerminalStates, OpenStates, Resting, Processing
  <2>q. QED BY <2>1, <2>2 DEF EndsAreTrue
<1>q. QED BY <1>3, <1>4 DEF NotAhead

(* In every reachable state the variables have their types.                *)
THEOREM ViewTypeCorrect == Spec => []TypeOK
<1>1. Inv => TypeOK
  BY DEF Inv
<1>q. QED BY <1>1, InvHolds, PTL

(* The tab never runs ahead of the broker: an order it shows as ended has  *)
(* ended at the broker, and an operation that an event has shown is not    *)
(* taken back by a late answer or an old event.                            *)
THEOREM TabNotAhead == Spec => []NotAhead
  BY InvHolds, InvImplies, PTL

---------------------------------------------------------------------------
(* What has ended, and where that is known.                                *)

\* Where a replacement is told to be in force, the end of its original has been told or follows.
EndsToldBefore(s, rep) ==
  \A i, j \in DOMAIN s :
    i < j /\ s[i].row.status \in CompletedReplacementStates /\ rep[s[i].order] = s[j].order =>
      s[j].row.status \in TerminalStates
ToldIn(w, s, rep) ==
  /\ EndsToldBefore(s, rep) /\ EndsToldBefore(w, rep)
  /\ \A i \in DOMAIN w, j \in DOMAIN s :
       w[i].row.status \in CompletedReplacementStates /\ rep[w[i].order] = s[j].order =>
         s[j].row.status \in TerminalStates

\* o has only its end left to tell.
OnlyEnds(w, s, o) ==
  /\ \A i \in DOMAIN w : w[i].order = o => w[i].row.status \in TerminalStates
  /\ \A i \in DOMAIN s : s[i].order = o => s[i].row.status \in TerminalStates

Told == ToldIn(wire, stream, replaces)

RetiredTruly ==
  \A n \in Order : events[n].replaces # 0 =>
    events[n].replaces = replaces[n] /\ OnlyEnds(wire, stream, replaces[n])

\* An event that puts a replacement in force, or will on its acknowledgement.
InForce(x) == x.row.status \in CompletedReplacementStates \/ x.completion.status \in CompletedReplacementStates

\* The tab reads nothing while its own command is under way.
Alone ==
  /\ request.kind = "sent" => command.kind = "none"
  /\ command.kind = "accepted" =>
       /\ base.closedRows[command.order] = NoRow
       /\ InForce(events[command.id]) => OnlyEnds(wire, stream, command.order)

\* An order that an answer knows to have ended: the next one knows it too.
NextKnows ==
  \A o \in Order : base.closedRows[o] # NoRow /\ request.read.closed => request.read.closedRows[o] # NoRow

\* What the events may say against the answer.
Outdone(o) == events[o].row.status \in TerminalStates \/ (events[o] # NoEvent /\ base.label < events[o].rev)
Unbroken(o) ==
  IF base.openRows[o] = NoRow THEN events[o] = NoEvent
  ELSE \A n \in Order :
         /\ replacements[n] # o
         /\ events[n].replaces = o => events[o] = NoEvent /\ events[n].row.status \in TerminalStates
EndsKnown == \A o \in Order : base.closedRows[o] # NoRow /\ ~Outdone(o) => Unbroken(o)

Ends == Told /\ RetiredTruly /\ Alone /\ NextKnows /\ EndsKnown

Final(o) ==
  \/ events[o].row.status \in TerminalStates
  \/ /\ events[o] = NoEvent /\ base.closedRows[o] # NoRow
     /\ \/ base.openRows[o] = NoRow
        \/ \E n \in Order : events[n].replaces = o /\ events[n].row.status \in TerminalStates

LEMMA OnlyEndsShrink ==
  ASSUME NEW w, NEW s, NEW v, NEW t, NEW o, Suffix(v, w), Suffix(t, s), OnlyEnds(w, s, o)
  PROVE  OnlyEnds(v, t, o)
<1>d. PICK d \in {0, 1} : \A k \in DOMAIN v : k + d \in DOMAIN w /\ v[k] = w[k + d]
  BY DEF Suffix
<1>e. PICK e \in {0, 1} : \A k \in DOMAIN t : k + e \in DOMAIN s /\ t[k] = s[k + e]
  BY DEF Suffix
<1>1. \A k \in DOMAIN v : v[k].order = o => v[k].row.status \in TerminalStates
  BY <1>d DEF OnlyEnds
<1>2. \A k \in DOMAIN t : t[k].order = o => t[k].row.status \in TerminalStates
  BY <1>e DEF OnlyEnds
<1>q. QED BY <1>1, <1>2 DEF OnlyEnds

LEMMA EndsToldShrink ==
  ASSUME NEW S, NEW s \in Seq(S), NEW t \in Seq(S), NEW rep, Suffix(t, s), EndsToldBefore(s, rep)
  PROVE  EndsToldBefore(t, rep)
<1>d. PICK d \in {0, 1} : \A k \in DOMAIN t : k + d \in DOMAIN s /\ t[k] = s[k + d]
  BY DEF Suffix
<1>1. ASSUME NEW i \in DOMAIN t, NEW j \in DOMAIN t, i < j, t[i].row.status \in CompletedReplacementStates,
             rep[t[i].order] = t[j].order
      PROVE  t[j].row.status \in TerminalStates
  <2>1. i + d < j + d
    BY <1>1, <1>d
  <2>q. QED BY <2>1, <1>1, <1>d DEF EndsToldBefore
<1>q. QED BY <1>1 DEF EndsToldBefore

LEMMA ToldShrinks ==
  ASSUME NEW s \in Seq(Entries), NEW t \in Seq(Entries), NEW w \in Seq(WireEntries), NEW v \in Seq(WireEntries),
         NEW rep, Suffix(v, w), Suffix(t, s), ToldIn(w, s, rep)
  PROVE  ToldIn(v, t, rep)
<1>d. PICK d \in {0, 1} : \A k \in DOMAIN v : k + d \in DOMAIN w /\ v[k] = w[k + d]
  BY DEF Suffix
<1>e. PICK e \in {0, 1} : \A k \in DOMAIN t : k + e \in DOMAIN s /\ t[k] = s[k + e]
  BY DEF Suffix
<1>1. EndsToldBefore(t, rep)
  BY EndsToldShrink DEF ToldIn
<1>2. EndsToldBefore(v, rep)
  BY EndsToldShrink DEF ToldIn
<1>3. ASSUME NEW i \in DOMAIN v, NEW j \in DOMAIN t, v[i].row.status \in CompletedReplacementStates,
             rep[v[i].order] = t[j].order
      PROVE  t[j].row.status \in TerminalStates
  <2>1. i + d \in DOMAIN w /\ v[i] = w[i + d] /\ j + e \in DOMAIN s /\ t[j] = s[j + e]
    BY <1>d, <1>e
  <2>q. QED BY <2>1, <1>3 DEF ToldIn
<1>q. QED BY <1>1, <1>2, <1>3 DEF ToldIn

(* A step that leaves the tab's events and its last answer alone.          *)
LEMMA QuietKeepsEnds ==
  ASSUME Ends, Told', replaces' = replaces, events' = events, replacements' = replacements, base' = base,
         \A o : OnlyEnds(wire, stream, o) => OnlyEnds(wire', stream', o),
         command' = command \/ command'.kind # "accepted",
         request'.kind = "sent" => command'.kind = "none",
         NextKnows'
  PROVE  Ends' /\ \A o \in Order : Final(o) => Final(o)'
<1>1. RetiredTruly'
  BY DEF Ends, RetiredTruly
<1>2. Alone'
  BY DEF Ends, Alone
<1>3. EndsKnown'
  BY DEF Ends, EndsKnown, Outdone, Unbroken
<1>4. ASSUME NEW o \in Order, Final(o) PROVE Final(o)'
  BY <1>4 DEF Final
<1>q. QED BY <1>1, <1>2, <1>3, <1>4 DEF Ends

LEMMA QueuesAre ==
  ASSUME TypeOK, TypeOK'
  PROVE  /\ stream \in Seq(Entries) /\ stream' \in Seq(Entries)
         /\ wire \in Seq(WireEntries) /\ wire' \in Seq(WireEntries)
         /\ events \in [Order -> EventSet] /\ replacements \in [Order -> 0..MaxOrders]
         /\ base \in Reads /\ request.read \in Reads
         /\ broker \in [Order -> RowOrNone] /\ replaces \in [Order -> 0..MaxOrders]
<1>1. BrokerTypes /\ ServiceTypes /\ EventTypes /\ ReadTypes
  BY TypesAre
<1>2. stream' \in Seq(Entries) /\ wire' \in Seq(WireEntries)
  BY TypeOK' DEF TypeOK, Entries, WireEntries
<1>q. QED BY <1>1, <1>2 DEF BrokerTypes, Books, ServiceTypes, EventTypes, ReadTypes

(* What is lost or forgotten on the way, and commands that begin or fail.  *)
Forgets ==
  /\ replaces' = replaces /\ events' = events /\ replacements' = replacements /\ base' = base
  /\ stream' = stream \/ stream' = <<>>
  /\ wire' = wire \/ wire' = <<>>
  /\ command' = command \/ command'.kind # "accepted"
  /\ \/ request' = request /\ (command' = command \/ command'.kind = "none")
     \/ request'.kind # "sent" /\ ~request'.read.closed
     \/ command'.kind = "none" /\ ~request'.read.closed

LEMMA NoRequestIs == NoRequest.kind # "sent" /\ ~NoRequest.read.closed
BY NoReadIs DEF NoRequest

LEMMA ForgettingKeepsEnds ==
  ASSUME TypeOK, TypeOK', Ends, Forgets
  PROVE  Ends' /\ \A o \in Order : Final(o) => Final(o)'
<1>1. /\ replaces' = replaces /\ events' = events /\ replacements' = replacements /\ base' = base
      /\ command' = command \/ command'.kind # "accepted"
  BY DEF Forgets
<1>3. Suffix(stream', stream) /\ Suffix(wire', wire)
  BY QueuesAre, SuffixIs DEF Forgets
<1>4. Told'
  BY <1>1, <1>3, QueuesAre, ToldShrinks DEF Ends, Told
<1>5. \A o : OnlyEnds(wire, stream, o) => OnlyEnds(wire', stream', o)
  BY <1>3, OnlyEndsShrink
<1>6. request'.kind = "sent" => command'.kind = "none"
  BY DEF Ends, Alone, Forgets
<1>7. NextKnows'
  BY <1>1 DEF Ends, NextKnows, Forgets
<1>q. QED BY <1>1, <1>4, <1>5, <1>6, <1>7, QuietKeepsEnds

LEMMA ServiceForgets ==
  ASSUME TypeOK, LoseStream \/ ResumeStream \/ Restart \/ Disconnect \/ FailRead
  PROVE  Forgets
<1>1. CASE LoseStream
  BY <1>1 DEF Forgets, LoseStream, wireVars, eventVars, readVars, commandVars
<1>2. CASE ResumeStream
  BY <1>2 DEF Forgets, ResumeStream, brokerVars, wireVars, eventVars, readVars, commandVars
<1>3. CASE Restart
  <2>1. command'.kind = "none"
    BY <1>3 DEF Restart, NoCommand
  <2>q. QED BY <1>3, <2>1, NoRequestIs DEF Forgets, Restart, eventVars
<1>4. CASE Disconnect
  BY <1>4 DEF Forgets, Disconnect, brokerVars, serviceVars, eventVars, readVars, commandVars
<1>5. CASE FailRead
  <2>1. /\ UNCHANGED <<brokerVars, wireVars, eventVars, base, commandVars>> /\ request' = NoRequest
    BY <1>5 DEF FailRead
  <2>q. QED BY <2>1, NoRequestIs DEF Forgets, brokerVars, wireVars, eventVars, commandVars
<1>q. QED BY <1>1, <1>2, <1>3, <1>4, <1>5

LEMMA TabForgets ==
  ASSUME TypeOK, (\E o \in Order : Modify(o)) \/ FailCommand \/ Poll
  PROVE  Forgets
<1>1. CASE \E o \in Order : Modify(o)
  <2>1. /\ UNCHANGED <<brokerVars, wireVars, eventVars, base>> /\ request' = NoRequest
        /\ \E o \in Order : command' = [NoCommand EXCEPT !.kind = "sent", !.order = o]
    BY <1>1 DEF Modify
  <2>2. command'.kind = "sent"
    BY <2>1 DEF NoCommand
  <2>q. QED BY <2>1, <2>2, NoRequestIs DEF Forgets, brokerVars, wireVars, eventVars
<1>2. CASE FailCommand
  <2>1. /\ UNCHANGED <<brokerVars, wireVars, eventVars, readVars>> /\ command' = NoCommand
    BY <1>2 DEF FailCommand
  <2>2. command'.kind = "none"
    BY <2>1 DEF NoCommand
  <2>q. QED BY <2>1, <2>2 DEF Forgets, brokerVars, wireVars, eventVars, readVars
<1>3. CASE Poll
  <2>1. /\ UNCHANGED <<brokerVars, wireVars, eventVars, base, commandVars>> /\ command.kind = "none"
        /\ request' = [kind |-> "sent", read |-> [NoRead EXCEPT !.label = revision]]
    BY <1>3 DEF Poll
  <2>2. ~request'.read.closed
    BY <2>1 DEF NoRead
  <2>q. QED BY <2>1, <2>2 DEF Forgets, brokerVars, wireVars, eventVars, commandVars
<1>q. QED BY <1>1, <1>2, <1>3

(* An answer that is read now knows every order that has ended.            *)
LEMMA ReadingKeepsEnds ==
  ASSUME TypeOK, TypeOK', Truth, Ends, ReadOpen \/ ReadClosed
  PROVE  Ends' /\ \A o \in Order : Final(o) => Final(o)'
<1>1. /\ UNCHANGED <<brokerVars, wireVars, eventVars, base, commandVars>>
      /\ request'.kind = "sent" => request.kind = "sent"
  BY DEF ReadOpen, ReadClosed
<1>2. ReadTypes /\ BrokerTypes
  BY TypesAre
<1>3. NextKnows'
  <2>1. CASE ReadOpen
    <3>1. request'.read.closed = request.read.closed /\ request'.read.closedRows = request.read.closedRows
      BY <2>1, <1>2 DEF ReadOpen, ReadTypes, Reads
    <3>q. QED BY <3>1, <1>1 DEF Ends, NextKnows
  <2>2. CASE ReadClosed
    <3>r. PICK rows : rows = [o \in Order |-> IF broker[o].status \in TerminalStates THEN broker[o] ELSE NoRow]
      OBVIOUS
    <3>1. request'.read.closedRows = rows
      BY <2>2, <3>r, <1>2 DEF ReadClosed, ReadTypes, Reads
    <3>2. ASSUME NEW o \in Order, base.closedRows[o] # NoRow PROVE rows[o] # NoRow
      <4>1. base.closedRows[o].status \in TerminalStates /\ base.closedRows[o] = broker[o]
        BY <3>2 DEF Truth, ReadTruth, RowsOk, ReadFaithfully, Faithful
      <4>q. QED BY <4>1, <3>2, <3>r
    <3>q. QED BY <3>1, <3>2, <1>1 DEF NextKnows
  <2>q. QED BY <2>1, <2>2
<1>4. /\ replaces' = replaces /\ events' = events /\ replacements' = replacements /\ base' = base
      /\ stream' = stream /\ wire' = wire /\ command' = command
  BY <1>1 DEF brokerVars, wireVars, eventVars, commandVars
<1>5. Told'
  BY <1>4 DEF Ends, Told
<1>6. request'.kind = "sent" => command'.kind = "none"
  BY <1>1, <1>4 DEF Ends, Alone
<1>q. QED BY <1>3, <1>4, <1>5, <1>6, QuietKeepsEnds

(* An event that is sent on.                                               *)
LEMMA DeliverKeepsEnds ==
  ASSUME TypeOK, TypeOK', Ends, Deliver
  PROVE  Ends' /\ \A o \in Order : Final(o) => Final(o)'
<1>1. /\ stream \in Seq(Entries) /\ stream' \in Seq(Entries)
      /\ wire \in Seq(WireEntries) /\ wire' \in Seq(WireEntries)
      /\ revision' \in Nat
  <2>1. revision' \in Nat
    BY TypeOK' DEF TypeOK
  <2>q. QED BY <2>1, QueuesAre
<1>3. /\ stream # <<>> /\ stream' = Tail(stream)
      /\ UNCHANGED <<replaces, events, replacements, base, request, command>>
  BY DEF Deliver, eventVars, readVars, commandVars
<1>4. wire' = IF connected
              THEN Append(wire, [order |-> Head(stream).order, row |-> Head(stream).row, rev |-> revision'])
              ELSE wire
  BY DEF Deliver
<1>h. 1 \in DOMAIN stream /\ Head(stream) = stream[1] /\ stream[1] \in Entries
  BY <1>1, <1>3, HeadOf
<1>x. PICK x \in WireEntries : x = [order |-> stream[1].order, row |-> stream[1].row, rev |-> revision']
  BY <1>h, <1>1 DEF Entries, WireEntries
<1>6. x.order = stream[1].order /\ x.row = stream[1].row
  BY <1>x
<1>7. \A k \in DOMAIN wire' :
        \/ k \in DOMAIN wire /\ wire'[k] = wire[k]
        \/ wire'[k] = x /\ \A i \in DOMAIN wire' : i <= k
  <2>1. CASE ~connected
    BY <2>1, <1>4
  <2>2. CASE connected
    <3>1. wire' = Append(wire, x)
      BY <2>2, <1>4, <1>x, <1>h
    <3>2. /\ Len(wire) \in Nat /\ DOMAIN wire = 1..Len(wire) /\ DOMAIN wire' = 1..(Len(wire) + 1)
          /\ wire'[Len(wire) + 1] = x
          /\ \A k \in 1..Len(wire) : wire'[k] = wire[k]
      BY <3>1, <1>1, AppendProperties, LenProperties
    <3>q. QED BY <3>2
  <2>q. QED BY <2>1, <2>2
<1>8. \A k \in DOMAIN stream' : k + 1 \in DOMAIN stream /\ stream'[k] = stream[k + 1] /\ 1 < k + 1
  BY <1>1, <1>3, HeadOf
<1>9. ToldIn(wire, stream, replaces)
  BY DEF Ends, Told
<1>10. EndsToldBefore(stream', replaces)
  BY <1>1, <1>3, <1>9, SuffixIs, EndsToldShrink DEF ToldIn
<1>11. EndsToldBefore(wire', replaces)
  <2>1. SUFFICES ASSUME NEW i \in DOMAIN wire', NEW j \in DOMAIN wire', i < j,
                        wire'[i].row.status \in CompletedReplacementStates, replaces[wire'[i].order] = wire'[j].order
                 PROVE  wire'[j].row.status \in TerminalStates
    BY DEF EndsToldBefore
  <2>2. i \in Int /\ j \in Int
    BY <1>1
  <2>3. i \in DOMAIN wire /\ wire'[i] = wire[i]
    BY <2>1, <2>2, <1>7
  <2>4. CASE j \in DOMAIN wire /\ wire'[j] = wire[j]
    BY <2>1, <2>3, <2>4, <1>9 DEF ToldIn, EndsToldBefore
  <2>5. CASE wire'[j] = x
    BY <2>1, <2>3, <2>5, <1>6, <1>h, <1>9 DEF ToldIn
  <2>q. QED BY <2>4, <2>5, <1>7
<1>12. ASSUME NEW i \in DOMAIN wire', NEW j \in DOMAIN stream', wire'[i].row.status \in CompletedReplacementStates,
              replaces[wire'[i].order] = stream'[j].order
       PROVE  stream'[j].row.status \in TerminalStates
  <2>1. j + 1 \in DOMAIN stream /\ stream'[j] = stream[j + 1] /\ 1 < j + 1
    BY <1>8
  <2>2. CASE i \in DOMAIN wire /\ wire'[i] = wire[i]
    BY <2>1, <2>2, <1>12, <1>9 DEF ToldIn
  <2>3. CASE wire'[i] = x
    BY <2>1, <2>3, <1>12, <1>6, <1>h, <1>9 DEF ToldIn, EndsToldBefore
  <2>q. QED BY <2>2, <2>3, <1>7
<1>13. Told'
  BY <1>3, <1>10, <1>11, <1>12 DEF Told, ToldIn
<1>14. ASSUME NEW o, OnlyEnds(wire, stream, o) PROVE OnlyEnds(wire', stream', o)
  <2>1. x.order = o => x.row.status \in TerminalStates
    BY <1>14, <1>6, <1>h DEF OnlyEnds
  <2>2. \A i \in DOMAIN wire' : wire'[i].order = o => wire'[i].row.status \in TerminalStates
    BY <2>1, <1>7, <1>14 DEF OnlyEnds
  <2>3. \A i \in DOMAIN stream' : stream'[i].order = o => stream'[i].row.status \in TerminalStates
    BY <1>8, <1>14 DEF OnlyEnds
  <2>q. QED BY <2>2, <2>3 DEF OnlyEnds
<1>15. NextKnows' /\ (request'.kind = "sent" => command'.kind = "none")
  BY <1>3 DEF Ends, NextKnows, Alone
<1>q. QED BY <1>3, <1>13, <1>14, <1>15, QuietKeepsEnds

(* The broker tells of nothing but ends once an order has ended.           *)
LEMMA BrokerKeepsEnds ==
  ASSUME TypeOK, TypeOK', BrokerOk(broker, replaces), Truth, Truth', Ends, Broker
  PROVE  Ends' /\ \A o \in Order : Final(o) => Final(o)'
<1>1. BrokerTypes /\ ReadTypes /\ CommandTypes
  BY TypesAre
<1>2. BrokerStep
  BY <1>1, BrokerSteps DEF BrokerTypes
<1>3. Advance(broker, replaces, broker', replaces') /\ Grown(stream, stream', broker', replaces')
  BY <1>2 DEF BrokerStep
<1>4. /\ stream \in Seq(Entries) /\ stream' \in Seq(Entries) /\ wire \in Seq(WireEntries)
      /\ replaces \in [Order -> 0..MaxOrders] /\ replaces' \in [Order -> 0..MaxOrders]
      /\ events \in [Order -> EventSet]
  <2>1. replaces' \in [Order -> 0..MaxOrders]
    BY TypeOK' DEF TypeOK
  <2>q. QED BY <2>1, QueuesAre
<1>5. /\ wire' = wire /\ events' = events /\ replacements' = replacements /\ base' = base /\ request' = request
      /\ \/ command' = command
         \/ \E n \in Order :
              /\ command.kind = "sent" /\ command' = [command EXCEPT !.kind = "accepted", !.id = n]
              /\ command.order \in Order
              /\ broker[command.order].status \in Resting /\ broker[n] = NoRow
  BY <1>1, BrokerLeaves DEF wireVars, eventVars, readVars
<1>6. ASSUME NEW i \in DOMAIN wire
      PROVE  wire[i].order \in Order /\ wire[i].row # NoRow /\ replaces'[wire[i].order] = replaces[wire[i].order]
             /\ Faithful(broker', replaces', wire[i].order, wire[i].row)
  <2>1. wire[i].order \in Order /\ wire[i].row \in Row
    <3>1. wire[i] \in WireEntries
      BY <1>4
    <3>q. QED BY <3>1 DEF WireEntries
  <2>2. Faithful(broker, replaces, wire[i].order, wire[i].row)
    BY DEF Truth, WireTruth
  <2>3. Faithful(broker', replaces', wire[i].order, wire[i].row)
    BY <1>5 DEF Truth, WireTruth
  <2>q. QED BY <2>1, <2>2, <2>3, <1>3, RowIsSome DEF Faithful, Advance
<1>7. ASSUME NEW i \in DOMAIN stream
      PROVE  replaces'[stream[i].order] = replaces[stream[i].order]
  <2>1. stream[i].order \in Order /\ stream[i].row \in Row
    <3>1. stream[i] \in Entries
      BY <1>4
    <3>q. QED BY <3>1 DEF Entries
  <2>2. Faithful(broker, replaces, stream[i].order, stream[i].row)
    BY DEF Truth, StreamTruth
  <2>q. QED BY <2>1, <2>2, <1>3, RowIsSome DEF Faithful, Advance
<1>8. ASSUME NEW i \in DOMAIN stream'
      PROVE  stream'[i].order \in Order /\ Faithful(broker', replaces', stream'[i].order, stream'[i].row)
  <2>1. stream'[i] \in Entries
    BY <1>4
  <2>q. QED BY <2>1 DEF Truth, StreamTruth, Entries
<1>9. ASSUME NEW j \in DOMAIN stream', Current(broker', replaces', stream'[j]),
             broker'[stream'[j].order].status = "REPLACED"
      PROVE  stream'[j].row.status \in TerminalStates
  BY <1>9 DEF Current, TerminalStates
<1>10. ASSUME NEW i \in DOMAIN stream', NEW j \in DOMAIN stream', i < j,
              stream'[i].row.status \in CompletedReplacementStates, replaces'[stream'[i].order] = stream'[j].order
       PROVE  stream'[j].row.status \in TerminalStates
  <2>1. i \in Int /\ j \in Int /\ stream'[j].order \in Order
    BY <1>4, <1>8
  <2>2. CASE j \in DOMAIN stream /\ stream'[j] = stream[j]
    <3>1. i \in DOMAIN stream /\ stream'[i] = stream[i]
      BY <2>1, <2>2, <1>10, <1>3 DEF Grown
    <3>q. QED BY <3>1, <2>2, <1>7, <1>10 DEF Ends, Told, ToldIn, EndsToldBefore
  <2>3. CASE Current(broker', replaces', stream'[j])
    <3>1. replaces'[stream'[i].order] # 0
      BY <2>1, <1>10, Sizes DEF Order
    <3>2. broker'[stream'[j].order].status = "REPLACED"
      BY <3>1, <1>8, <1>10 DEF Faithful
    <3>q. QED BY <3>2, <2>3, <1>9
  <2>q. QED BY <2>2, <2>3, <1>3 DEF Grown
<1>11. ASSUME NEW i \in DOMAIN wire, NEW j \in DOMAIN stream',
              wire[i].row.status \in CompletedReplacementStates, replaces'[wire[i].order] = stream'[j].order
       PROVE  stream'[j].row.status \in TerminalStates
  <2>1. stream'[j].order \in Order
    BY <1>8
  <2>2. CASE j \in DOMAIN stream /\ stream'[j] = stream[j]
    BY <2>2, <1>6, <1>11 DEF Ends, Told, ToldIn
  <2>3. CASE Current(broker', replaces', stream'[j])
    <3>1. replaces'[wire[i].order] # 0
      BY <2>1, <1>11, Sizes DEF Order
    <3>2. broker'[stream'[j].order].status = "REPLACED"
      BY <3>1, <1>6, <1>11 DEF Faithful
    <3>q. QED BY <3>2, <2>3, <1>9
  <2>q. QED BY <2>2, <2>3, <1>3 DEF Grown
<1>12. EndsToldBefore(wire, replaces')
  BY <1>6 DEF Ends, Told, ToldIn, EndsToldBefore
<1>13. Told'
  <2>1. EndsToldBefore(stream', replaces')
    BY <1>10 DEF EndsToldBefore
  <2>q. QED BY <2>1, <1>5, <1>11, <1>12 DEF Told, ToldIn
<1>14. ASSUME NEW o \in Order, broker[o].status = "REPLACED", OnlyEnds(wire, stream, o)
       PROVE  OnlyEnds(wire, stream', o)
  <2>1. broker'[o].status = "REPLACED"
    BY <1>3, <1>14 DEF Advance, TerminalStates
  <2>2. ASSUME NEW j \in DOMAIN stream', stream'[j].order = o PROVE stream'[j].row.status \in TerminalStates
    <3>1. CASE j \in DOMAIN stream /\ stream'[j] = stream[j]
      BY <3>1, <2>2, <1>14 DEF OnlyEnds
    <3>2. CASE Current(broker', replaces', stream'[j])
      BY <3>2, <2>1, <2>2, <1>9
    <3>q. QED BY <3>1, <3>2, <1>3 DEF Grown
  <2>q. QED BY <2>2, <1>14 DEF OnlyEnds
<1>15. ASSUME NEW n \in Order
       PROVE  /\ Faithful(broker, replaces, n, events[n].row) /\ Faithful(broker, replaces, n, events[n].completion)
              /\ events[n].row = NoRow => events[n] = NoEvent
              /\ events[n].replaces # 0 => broker[events[n].replaces].status = "REPLACED"
  BY DEF Truth, EventTruth, EventOk
<1>16. RetiredTruly'
  <2>1. SUFFICES ASSUME NEW n \in Order, events[n].replaces # 0
                 PROVE  events[n].replaces = replaces'[n] /\ OnlyEnds(wire, stream', replaces'[n])
    BY <1>5 DEF RetiredTruly
  <2>2. events[n].replaces = replaces[n] /\ OnlyEnds(wire, stream, replaces[n])
    BY <2>1 DEF Ends, RetiredTruly
  <2>3. replaces[n] \in Order /\ broker[replaces[n]].status = "REPLACED"
    BY <2>1, <2>2, <1>4, <1>15, Sizes DEF Order
  <2>4. broker[n] # NoRow
    BY <2>1, <1>15, NoEventIs DEF Faithful
  <2>5. replaces'[n] = replaces[n]
    BY <2>4, <1>3 DEF Advance
  <2>q. QED BY <2>2, <2>3, <2>5, <1>14
<1>17. Alone'
  <2>1. CASE command' = command
    <3>1. ASSUME command.kind = "accepted", InForce(events[command.id]) PROVE OnlyEnds(wire, stream', command.order)
      <4>1. command.order \in Order /\ command.id \in Order /\ replaces[command.id] = command.order
        BY <3>1 DEF Truth, CommandTruth
      <4>2. replaces[command.id] # 0
        BY <4>1, Sizes DEF Order
      <4>3. broker[command.order].status = "REPLACED"
        BY <3>1, <4>1, <4>2, <1>15 DEF InForce, Faithful
      <4>q. QED BY <3>1, <4>1, <4>3, <1>14 DEF Ends, Alone
    <3>q. QED BY <2>1, <3>1, <1>5 DEF Ends, Alone
  <2>2. ASSUME NEW n \in Order, command.kind = "sent", command' = [command EXCEPT !.kind = "accepted", !.id = n],
               command.order \in Order, broker[command.order].status \in Resting, broker[n] = NoRow
        PROVE  Alone'
    <3>1. request.kind # "sent"
      BY <2>2 DEF Ends, Alone
    <3>2. command'.order = command.order /\ command'.id = n
      BY <2>2, <1>1 DEF CommandTypes
    <3>3. base.closedRows[command.order] = NoRow
      <4>1. base.closedRows[command.order] # NoRow => broker[command.order].status \in TerminalStates
        BY <2>2 DEF Truth, ReadTruth, RowsOk, ReadFaithfully, Faithful
      <4>q. QED BY <4>1, <2>2, StatesApart
    <3>4. ~InForce(events[n])
      <4>1. events[n].row = NoRow /\ events[n].completion = NoRow
        BY <2>2, <1>15 DEF Faithful
      <4>q. QED BY <4>1, NoRowIs DEF InForce
    <3>q. QED BY <3>1, <3>2, <3>3, <3>4, <1>5 DEF Alone
  <2>q. QED BY <2>1, <2>2, <1>5
<1>18. NextKnows' /\ EndsKnown'
  <2>1. NextKnows'
    BY <1>5 DEF Ends, NextKnows
  <2>2. EndsKnown'
    BY <1>5 DEF Ends, EndsKnown, Outdone, Unbroken
  <2>q. QED BY <2>1, <2>2
<1>19. ASSUME NEW o \in Order, Final(o) PROVE Final(o)'
  BY <1>19, <1>5 DEF Final
<1>q. QED BY <1>13, <1>16, <1>17, <1>18, <1>19 DEF Ends

(* An answer: what it knows to have ended, the events know from then on.   *)
LEMMA ReceiveKeepsEnds ==
  ASSUME TypeOK, TypeOK', Truth, Ends, Receive
  PROVE  Ends' /\ (\A o \in Order : Final(o) => Final(o)') /\ base' # NoRead
<1>1. EventTypes /\ ReadTypes /\ BrokerTypes
  BY TypesAre
<1>r. PICK read \in Reads : read = request.read
  BY <1>1 DEF ReadTypes
<1>2. /\ replaces' = replaces /\ stream' = stream /\ wire' = wire /\ replacements' = replacements /\ command' = command
      /\ base' = read /\ request' = NoRequest /\ read.open /\ read.closed /\ request.kind = "sent"
      /\ events' = [o \in Order |-> Tombstone(o, read)]
  BY <1>r DEF Receive, brokerVars, wireVars, commandVars
<1>3. base' # NoRead
  BY <1>2, NoReadIs
<1>4. ASSUME NEW o \in Order
      PROVE  /\ events'[o].replaces = events[o].replaces
             /\ read.closedRows[o] # NoRow => events'[o].row.status \in TerminalStates
                  \/ (events[o] # NoEvent /\ read.label < events[o].rev /\ events'[o] = events[o])
             /\ events[o].row.status \in TerminalStates => events'[o].row.status \in TerminalStates
  <2>t. PICK t \in EventSet :
          /\ t = Tombstone(o, read)
          /\ \/ /\ t = events[o]
                /\ \/ read.closedRows[o] = NoRow
                   \/ MergeRow(events[o].row, read.closedRows[o], TRUE) = NoRow
                   \/ events[o] # NoEvent /\ read.label < events[o].rev
             \/ /\ read.closedRows[o] # NoRow
                /\ t.row = read.closedRows[o] /\ t.rev = read.label
                /\ t.completion = events[o].completion /\ t.ready = events[o].ready
                /\ t.replaces = events[o].replaces
    BY <1>1, TombstoneIs
  <2>1. events'[o] = t
    BY <2>t, <1>2
  <2>2. /\ Faithful(broker, replaces, o, events[o].row) /\ Faithful(broker, replaces, o, read.closedRows[o])
        /\ read.closedRows[o] = NoRow \/ read.closedRows[o].status \in TerminalStates
    BY <1>r DEF Truth, EventTruth, EventOk, ReadTruth, RowsOk, ReadFaithfully
  <2>3. events[o].row \in RowOrNone /\ read.closedRows[o] \in RowOrNone /\ broker[o] \in RowOrNone
    BY <1>1 DEF EventTypes, EventSet, Reads, RowOrNone, BrokerTypes, Books
  <2>4. ASSUME read.closedRows[o] # NoRow, MergeRow(events[o].row, read.closedRows[o], TRUE) = NoRow
        PROVE  events[o].row.status \in TerminalStates
    <3>c. PICK c \in BOOLEAN : c = TRUE
      OBVIOUS
    <3>p. PICK p \in RowOrNone : p = events[o].row
      BY <2>3
    <3>n. PICK n \in Row : n = read.closedRows[o]
      BY <2>3, <2>4, RowIs
    <3>1. MergeRow(p, n, c) = NoRow
      BY <2>4, <3>c, <3>p, <3>n
    <3>2. n.filled < p.filled \/ p.status \in TerminalStates
      BY <3>1, MergeRefuses
    <3>3. n = broker[o] /\ p.filled <= n.filled
      BY <2>2, <2>4, <3>n, <3>p DEF Faithful, Upto
    <3>4. n.filled \in Nat /\ p.filled \in Nat
      BY RowIsSome, RowIs
    <3>q. QED BY <3>2, <3>3, <3>4, <3>p
  <2>q. QED BY <2>t, <2>1, <2>2, <2>4
<1>5. Told'
  BY <1>2 DEF Ends, Told
<1>6. RetiredTruly'
  BY <1>2, <1>4 DEF Ends, RetiredTruly
<1>7. Alone' /\ NextKnows'
  <2>1. command'.kind = "none" /\ request'.kind # "sent" /\ ~request'.read.closed
    BY <1>2, NoRequestIs DEF Ends, Alone
  <2>q. QED BY <2>1 DEF Alone, NextKnows
<1>8. EndsKnown'
  <2>1. SUFFICES ASSUME NEW o \in Order, read.closedRows[o] # NoRow
                 PROVE  Outdone(o)'
    BY <1>2 DEF EndsKnown
  <2>q. QED BY <2>1, <1>2, <1>4 DEF Outdone
<1>9. ASSUME NEW o \in Order, Final(o) PROVE Final(o)'
  <2>1. CASE events[o].row.status \in TerminalStates
    BY <2>1, <1>4 DEF Final
  <2>2. CASE events[o] = NoEvent /\ base.closedRows[o] # NoRow
    <3>1. read.closedRows[o] # NoRow
      BY <2>2, <1>2, <1>r DEF Ends, NextKnows
    <3>q. QED BY <2>2, <3>1, <1>4 DEF Final
  <2>q. QED BY <2>1, <2>2, <1>9 DEF Final
<1>q. QED BY <1>3, <1>5, <1>6, <1>7, <1>8, <1>9 DEF Ends

(* A new connection: of the events, those that have ended stay.            *)
LEMMA ReconnectKeepsEnds ==
  ASSUME TypeOK, TypeOK', Truth, Ends, Reconnect
  PROVE  Ends' /\ (\A o \in Order : Final(o) => Final(o)') /\ base' = base
<1>1. EventTypes /\ ReadTypes
  BY TypesAre
<1>2. /\ replaces' = replaces /\ stream' = stream /\ wire' = wire /\ command' = command
      /\ base' = base /\ request' = request
      /\ events' = [o \in Order |-> IF events[o].row.status \in TerminalStates
                                    THEN [events[o] EXCEPT !.rev = -1] ELSE NoEvent]
      /\ replacements' = [o \in Order |-> 0]
  BY DEF Reconnect, brokerVars, readVars, commandVars
<1>3. ASSUME NEW o \in Order
      PROVE  \/ /\ events[o].row.status \in TerminalStates /\ events'[o].row = events[o].row
                /\ events'[o].completion = events[o].completion /\ events'[o].replaces = events[o].replaces
             \/ events[o].row.status \notin TerminalStates /\ events'[o] = NoEvent
  <2>1. CASE events[o].row.status \in TerminalStates
    <3>1. events[o] \in EventSet
      BY <1>1 DEF EventTypes
    <3>2. events'[o] = [events[o] EXCEPT !.rev = -1]
      BY <2>1, <1>2
    <3>q. QED BY <3>1, <3>2, <2>1 DEF EventSet
  <2>2. CASE events[o].row.status \notin TerminalStates
    BY <2>2, <1>2
  <2>q. QED BY <2>1, <2>2
<1>4. NoEvent.replaces = 0 /\ ~InForce(NoEvent) /\ NoEvent.row.status \notin TerminalStates
  BY NoEventIs, NoRowIs DEF InForce
<1>5. Told' /\ NextKnows'
  BY <1>2 DEF Ends, Told, NextKnows
<1>6. RetiredTruly'
  BY <1>2, <1>3, <1>4 DEF Ends, RetiredTruly
<1>7. Alone'
  <2>1. ASSUME command.kind = "accepted", InForce(events'[command.id]) PROVE InForce(events[command.id])
    <3>1. command.id \in Order
      BY <2>1 DEF Truth, CommandTruth
    <3>q. QED BY <3>1, <2>1, <1>3, <1>4 DEF InForce
  <2>q. QED BY <2>1, <1>2 DEF Ends, Alone
<1>8. EndsKnown'
  <2>1. SUFFICES ASSUME NEW o \in Order, base.closedRows[o] # NoRow, ~Outdone(o)'
                 PROVE  Unbroken(o)'
    BY <1>2 DEF EndsKnown
  <2>2. events'[o] = NoEvent
    BY <2>1, <1>3 DEF Outdone
  <2>3. ASSUME NEW n \in Order
        PROVE  /\ replacements'[n] # o
               /\ events'[n].replaces = o => events'[n].row.status \in TerminalStates
    <3>1. o # 0
      BY Sizes DEF Order
    <3>q. QED BY <3>1, <1>2, <1>3, <1>4
  <2>q. QED BY <2>2, <2>3 DEF Unbroken
<1>9. ASSUME NEW o \in Order, Final(o) PROVE Final(o)'
  <2>1. CASE events[o].row.status \in TerminalStates
    BY <2>1, <1>3 DEF Final
  <2>2. CASE /\ events[o] = NoEvent /\ base.closedRows[o] # NoRow
             /\ \/ base.openRows[o] = NoRow
                \/ \E n \in Order : events[n].replaces = o /\ events[n].row.status \in TerminalStates
    <3>1. events'[o] = NoEvent
      BY <2>2, <1>3, <1>4
    <3>2. \A n \in Order : events[n].replaces = o /\ events[n].row.status \in TerminalStates =>
                             events'[n].replaces = o /\ events'[n].row.status \in TerminalStates
      BY <1>3
    <3>q. QED BY <2>2, <3>1, <3>2, <1>2 DEF Final
  <2>q. QED BY <2>1, <2>2, <1>9 DEF Final
<1>q. QED BY <1>2, <1>5, <1>6, <1>7, <1>8, <1>9 DEF Ends

(* An acknowledgement: the original has not ended, as far as the tab knows.*)
LEMMA AcknowledgeKeepsEnds ==
  ASSUME TypeOK, TypeOK', Truth, Ends, Acknowledge
  PROVE  Ends' /\ (\A o \in Order : Final(o) => Final(o)') /\ base' = base
<1>1. EventTypes /\ ReadTypes
  BY TypesAre
<1>2. /\ replaces' = replaces /\ stream' = stream /\ wire' = wire /\ command' = NoCommand
      /\ base' = base /\ request' = request /\ command.kind = "accepted"
  BY DEF Acknowledge, brokerVars, wireVars, readVars
<1>3. PICK o1 \in Order, n1 \in Order : o1 = command.order /\ n1 = command.id
  BY <1>2 DEF Truth, CommandTruth
<1>4. Accept(o1, n1)
  BY <1>3 DEF Acknowledge
<1>old. PICK old \in [Order -> EventSet], x \in EventSet : AcceptedAs(o1, n1, old, x)
  BY <1>1, <1>4, AcceptIs
<1>z. PICK z \in {0, o1} : replacements' = [replacements EXCEPT ![o1] = 0, ![n1] = z]
  BY <1>1, <1>4, AcceptIs
<1>5. replaces[n1] = o1 /\ base.closedRows[o1] = NoRow /\ o1 # 0
  BY <1>2, <1>3, Sizes DEF Truth, CommandTruth, Ends, Alone, Order
<1>6. ASSUME NEW o \in Order
      PROVE  /\ old[o].row = events[o].row /\ old[o].completion = events[o].completion
             /\ old[o].rev = events[o].rev /\ old[o].replaces = events[o].replaces
             /\ o # o1 => old[o] = events[o]
  <2>0. events \in [Order -> EventSet]
    BY <1>1 DEF EventTypes
  <2>1. CASE old = events
    BY <2>1
  <2>2. CASE old = [events EXCEPT ![o1].ready = FALSE]
    <3>1. CASE o = o1
      BY <2>0, <2>2, <3>1 DEF EventSet
    <3>2. CASE o # o1
      BY <2>0, <2>2, <3>2
    <3>q. QED BY <3>1, <3>2
  <2>q. QED BY <2>1, <2>2, <1>old DEF AcceptedAs
<1>7. /\ events'[n1] = x
      /\ \A o \in Order : o # n1 => events'[o] = old[o]
      /\ \/ x.row = events[n1].row
         \/ events[n1].row.status = "PENDING_REPLACE" /\ x.row = events[n1].completion /\ x.row # NoRow
      /\ x.rev = events[n1].rev
      /\ \/ x.replaces = events[n1].replaces
         \/ x.row.status \in CompletedReplacementStates /\ x.replaces = o1
      /\ x.row = NoRow => x = old[n1]
  BY <1>old, <1>6 DEF AcceptedAs
<1>8. ASSUME NEW o \in Order
      PROVE  /\ events[o].row.status \in TerminalStates => events'[o].row.status \in TerminalStates
             /\ o # o1 /\ events[o] = NoEvent => events'[o] = NoEvent
             /\ o # o1 /\ events[o] # NoEvent => events'[o] # NoEvent
             /\ events'[o].rev = events[o].rev
             /\ \/ events'[o].replaces = events[o].replaces
                \/ o = n1 /\ InForce(events[n1]) /\ events'[o].replaces = o1
  <2>1. CASE o # n1
    BY <2>1, <1>6, <1>7
  <2>2. CASE o = n1
    <3>1. events[n1].row.status \in TerminalStates => x.row.status \in TerminalStates
      BY <1>7 DEF TerminalStates
    <3>2. events[n1] = NoEvent => x = old[n1]
      <4>1. events[n1] = NoEvent => events[n1].row = NoRow /\ events[n1].row.status # "PENDING_REPLACE"
        BY NoEventIs, NoRowIs DEF OpenStates, Processing
      <4>q. QED BY <4>1, <1>7
    <3>3. x = NoEvent => x = old[n1]
      BY <1>7, NoEventIs
    <3>4. \/ x.replaces = events[n1].replaces
          \/ InForce(events[n1]) /\ x.replaces = o1
      BY <1>7 DEF InForce
    <3>q. QED BY <2>2, <3>1, <3>2, <3>3, <3>4, <1>6, <1>7
  <2>q. QED BY <2>1, <2>2
<1>9. Told' /\ NextKnows'
  BY <1>2 DEF Ends, Told, NextKnows
<1>10. RetiredTruly'
  <2>1. SUFFICES ASSUME NEW n \in Order, events'[n].replaces # 0
                 PROVE  events'[n].replaces = replaces[n] /\ OnlyEnds(wire, stream, replaces[n])
    BY <1>2 DEF RetiredTruly
  <2>2. CASE events'[n].replaces = events[n].replaces
    BY <2>1, <2>2 DEF Ends, RetiredTruly
  <2>3. CASE n = n1 /\ InForce(events[n1]) /\ events'[n].replaces = o1
    BY <2>3, <1>2, <1>3, <1>5 DEF Ends, Alone
  <2>q. QED BY <2>2, <2>3, <1>8
<1>11. Alone'
  <2>1. command'.kind = "none"
    BY <1>2 DEF NoCommand
  <2>q. QED BY <2>1 DEF Alone
<1>12. EndsKnown'
  <2>1. SUFFICES ASSUME NEW o \in Order, base.closedRows[o] # NoRow, ~Outdone(o)'
                 PROVE  Unbroken(o)'
    BY <1>2 DEF EndsKnown
  <2>2. o # o1 /\ o # 0
    BY <2>1, <1>5, Sizes DEF Order
  <2>3. ~Outdone(o)
    BY <2>1, <2>2, <1>2, <1>8 DEF Outdone
  <2>4. Unbroken(o)
    BY <2>1, <2>3 DEF Ends, EndsKnown
  <2>5. CASE base.openRows[o] = NoRow
    BY <2>2, <2>4, <2>5, <1>2, <1>8 DEF Unbroken
  <2>6. CASE base.openRows[o] # NoRow
    <3>1. ASSUME NEW n \in Order PROVE replacements'[n] # o
      <4>1. replacements[n] # o
        BY <2>4, <2>6 DEF Unbroken
      <4>2. replacements \in [Order -> 0..MaxOrders] /\ z # o
        BY <1>1, <2>2 DEF EventTypes
      <4>3. replacements'[n] \in {replacements[n], 0, z}
        BY <4>2, <1>z
      <4>q. QED BY <4>1, <4>2, <4>3, <2>2
    <3>2. ASSUME NEW n \in Order, events'[n].replaces = o
          PROVE  events'[o] = NoEvent /\ events'[n].row.status \in TerminalStates
      <4>1. events[n].replaces = o
        BY <3>2, <2>2, <1>8
      <4>2. events[o] = NoEvent /\ events[n].row.status \in TerminalStates
        BY <4>1, <2>4, <2>6 DEF Unbroken
      <4>q. QED BY <4>2, <2>2, <1>8
    <3>q. QED BY <3>1, <3>2, <2>6, <1>2 DEF Unbroken
  <2>q. QED BY <2>5, <2>6
<1>13. ASSUME NEW o \in Order, Final(o) PROVE Final(o)'
  <2>1. CASE events[o].row.status \in TerminalStates
    BY <2>1, <1>8 DEF Final
  <2>2. CASE /\ events[o] = NoEvent /\ base.closedRows[o] # NoRow
             /\ \/ base.openRows[o] = NoRow
                \/ \E n \in Order : events[n].replaces = o /\ events[n].row.status \in TerminalStates
    <3>0. o # 0
      BY Sizes DEF Order
    <3>1. events'[o] = NoEvent
      BY <2>2, <1>5, <1>8
    <3>2. ASSUME NEW n \in Order, events[n].replaces = o, events[n].row.status \in TerminalStates
          PROVE  events'[n].replaces = o /\ events'[n].row.status \in TerminalStates
      <4>1. replaces[n] = o
        BY <3>0, <3>2 DEF Ends, RetiredTruly
      <4>q. QED BY <4>1, <3>2, <1>5, <1>8
    <3>q. QED BY <2>2, <3>1, <3>2, <1>2 DEF Final
  <2>q. QED BY <2>1, <2>2, <1>13 DEF Final
<1>q. QED BY <1>2, <1>9, <1>10, <1>11, <1>12, <1>13 DEF Ends

(* What merges with an end is an end, and a merge puts nothing in force.   *)
LEMMA MergeEnds ==
  ASSUME NEW p \in RowOrNone, NEW n \in Row, NEW c \in BOOLEAN, NEW m \in RowOrNone,
         m = MergeRow(p, n, c), Becomes(p, n, c, m), m # NoRow
  PROVE  /\ p.status \in TerminalStates => m.status \in TerminalStates
         /\ n.status \in TerminalStates => m.status \in TerminalStates
         /\ m.status \in CompletedReplacementStates => n.status \in CompletedReplacementStates
<1>1. ASSUME p.status \in TerminalStates PROVE m.status \in TerminalStates
  <2>1. p # NoRow /\ p.status \notin Processing
    BY <1>1, NoRowIs, StatesApart
  <2>2. m = n \/ m = NoRow
    BY <2>1 DEF MergeRow
  <2>3. p.status = n.status
    BY <2>1, <1>1 DEF MergeRow
  <2>q. QED BY <2>2, <2>3, <1>1
<1>2. ASSUME n.status \in TerminalStates PROVE m.status \in TerminalStates
  <2>1. n.status \notin Resting
    BY <1>2, StatesApart
  <2>q. QED BY <2>1, <1>2 DEF Becomes
<1>3. ASSUME m.status \in CompletedReplacementStates PROVE n.status \in CompletedReplacementStates
  <2>1. m.status \notin Processing
    BY <1>3, StatesApart
  <2>q. QED BY <2>1, <1>3 DEF Becomes
<1>q. QED BY <1>1, <1>2, <1>3

(* An event: an end is not taken back, and once it is the only thing left  *)
(* to tell, nothing else comes.                                            *)
LEMMA OnEventKeepsEnds ==
  ASSUME TypeOK, TypeOK', Truth, Ends, OnEvent
  PROVE  Ends' /\ (\A o \in Order : Final(o) => Final(o)') /\ base' = base
<1>1. EventTypes /\ ReadTypes /\ ServiceTypes
  BY TypesAre
<1>t. /\ stream \in Seq(Entries) /\ wire \in Seq(WireEntries) /\ wire' \in Seq(WireEntries)
      /\ events \in [Order -> EventSet] /\ replacements \in [Order -> 0..MaxOrders] /\ base \in Reads
      /\ replaces \in [Order -> 0..MaxOrders]
  BY QueuesAre
<1>2. /\ replaces' = replaces /\ stream' = stream /\ base' = base /\ request' = request /\ command' = command
      /\ wire # <<>> /\ wire' = Tail(wire)
  BY DEF OnEvent, brokerVars, readVars, commandVars
<1>h. /\ 1 \in DOMAIN wire /\ Head(wire) = wire[1] /\ wire[1] \in WireEntries
      /\ \A k \in DOMAIN wire' : k + 1 \in DOMAIN wire /\ wire'[k] = wire[k + 1] /\ 1 < k + 1
  BY <1>t, <1>2, HeadOf
<1>o. PICK o \in Order, row \in Row, rev \in Nat :
        o = wire[1].order /\ row = wire[1].row /\ rev = wire[1].rev
  BY <1>h DEF WireEntries
<1>3. Apply(o, row, rev)
  BY <1>h, <1>o DEF OnEvent
<1>4. Suffix(wire', wire) /\ Suffix(stream, stream)
  BY <1>t, <1>2, SuffixIs
<1>5. Told'
  <2>1. ToldIn(wire, stream, replaces)
    BY DEF Ends, Told
  <2>2. ToldIn(wire', stream, replaces)
    BY <2>1, <1>t, <1>4, ToldShrinks
  <2>q. QED BY <2>2, <1>2 DEF Told
<1>6. \A k : OnlyEnds(wire, stream, k) => OnlyEnds(wire', stream, k)
  BY <1>4, OnlyEndsShrink
<1>7. ASSUME row.status \in CompletedReplacementStates PROVE OnlyEnds(wire', stream, replaces[o])
  <2>1. \A k \in DOMAIN wire' : wire'[k].order = replaces[o] => wire'[k].row.status \in TerminalStates
    BY <1>7, <1>h, <1>o DEF Ends, Told, ToldIn, EndsToldBefore
  <2>2. \A k \in DOMAIN stream : stream[k].order = replaces[o] => stream[k].row.status \in TerminalStates
    BY <1>7, <1>h, <1>o DEF Ends, Told, ToldIn
  <2>q. QED BY <2>1, <2>2 DEF OnlyEnds
<1>8. ASSUME OnlyEnds(wire, stream, o) PROVE row.status \in TerminalStates
  BY <1>8, <1>h, <1>o DEF OnlyEnds
<1>9. NextKnows'
  BY <1>2 DEF Ends, NextKnows
<1>10. CASE events' = events /\ replacements' = replacements
  <2>1. request'.kind = "sent" => command'.kind = "none"
    BY <1>2 DEF Ends, Alone
  <2>2. \A k : OnlyEnds(wire, stream, k) => OnlyEnds(wire', stream', k)
    BY <1>2, <1>6
  <2>q. QED BY <1>2, <1>5, <1>9, <1>10, <2>1, <2>2, QuietKeepsEnds
<1>11. CASE ~(events' = events /\ replacements' = replacements)
  <2>p. PICK p \in RowOrNone, m \in RowOrNone, c \in BOOLEAN :
           /\ p = IF events[o] # NoEvent THEN events[o].row ELSE Canonical(o)
           /\ m = MergeRow(p, row, c)
           /\ Becomes(p, row, c, m)
           /\ \E x \in EventSet :
                /\ m # NoRow /\ ~(events[o] # NoEvent /\ rev <= events[o].rev)
                /\ events' = [events EXCEPT ![o] = x]
                /\ x.row = m /\ x.rev = rev
                /\ x.completion = NoRow \/ x.completion = row
                /\ \/ x.replaces = events[o].replaces
                   \/ /\ m.status \in CompletedReplacementStates /\ replacements[o] # 0
                      /\ x.replaces = replacements[o]
                /\ replacements' = replacements \/ replacements' = [replacements EXCEPT ![o] = 0]
    <3>1. \E q \in RowOrNone, m \in RowOrNone, d \in BOOLEAN :
           /\ q = IF events[o] # NoEvent THEN events[o].row ELSE Canonical(o)
           /\ d = (replacements[o] # 0 /\ q.status = "PENDING_REPLACE")
           /\ m = MergeRow(q, row, d)
           /\ Becomes(q, row, d, m)
           /\ \/ /\ events' = events /\ replacements' = replacements
                 /\ m = NoRow \/ (events[o] # NoEvent /\ rev <= events[o].rev)
              \/ \E x \in EventSet :
                   /\ m # NoRow /\ ~(events[o] # NoEvent /\ rev <= events[o].rev)
                   /\ events' = [events EXCEPT ![o] = x]
                   /\ x.row = m /\ x.rev = rev
                   /\ x.completion = NoRow \/ x.completion = row
                   /\ x.ready => replacements[o] # 0 \/ events[o].ready
                   /\ \/ x.replaces = events[o].replaces
                      \/ /\ m.status \in CompletedReplacementStates /\ replacements[o] # 0
                         /\ x.replaces = replacements[o]
                   /\ replacements' = replacements \/ replacements' = [replacements EXCEPT ![o] = 0]
      BY <1>1, <1>3, ApplyIs
    <3>q. QED BY <3>1, <1>11
  <2>x. PICK x \in EventSet :
                /\ m # NoRow /\ ~(events[o] # NoEvent /\ rev <= events[o].rev)
                /\ events' = [events EXCEPT ![o] = x]
                /\ x.row = m /\ x.rev = rev
                /\ x.completion = NoRow \/ x.completion = row
                /\ \/ x.replaces = events[o].replaces
                   \/ /\ m.status \in CompletedReplacementStates /\ replacements[o] # 0
                      /\ x.replaces = replacements[o]
                /\ replacements' = replacements \/ replacements' = [replacements EXCEPT ![o] = 0]
    BY <2>p
  <2>1. /\ p.status \in TerminalStates => m.status \in TerminalStates
        /\ row.status \in TerminalStates => m.status \in TerminalStates
        /\ m.status \in CompletedReplacementStates => row.status \in CompletedReplacementStates
    BY <2>p, <2>x, MergeEnds
  <2>2. /\ events'[o] = x /\ \A k \in Order : k # o => events'[k] = events[k]
        /\ \A k \in Order : replacements'[k] = replacements[k] \/ replacements'[k] = 0
    BY <2>x, <1>t
  <2>3. replacements[o] # 0 => replaces[o] = replacements[o]
    BY DEF Truth, AwaitedTruth
  <2>4. events[o].row.status \in TerminalStates => m.status \in TerminalStates
    <3>1. events[o].row.status \in TerminalStates => p = events[o].row
      BY <2>p, NoEventIs, NoRowIs
    <3>q. QED BY <3>1, <2>1
  <2>5. events[o] = NoEvent /\ base.openRows[o] = NoRow /\ base.closedRows[o] # NoRow => m.status \in TerminalStates
    <3>1. base.closedRows[o] = NoRow \/ base.closedRows[o].status \in TerminalStates
      BY DEF Truth, ReadTruth, RowsOk
    <3>2. base.openRows[o] = NoRow => Canonical(o) = base.closedRows[o]
      BY <1>1, CanonicalIs
    <3>q. QED BY <3>1, <3>2, <2>p, <2>1
  <2>6. x # NoEvent
    BY <2>x, NoEventIs
  <2>7. x.replaces # 0 => x.replaces = replaces[o]
    BY <2>x, <2>3 DEF Ends, RetiredTruly
  <2>8. RetiredTruly'
    <3>1. SUFFICES ASSUME NEW n \in Order, events'[n].replaces # 0
                   PROVE  events'[n].replaces = replaces[n] /\ OnlyEnds(wire', stream, replaces[n])
      BY <1>2 DEF RetiredTruly
    <3>2. CASE events'[n].replaces = events[n].replaces
      BY <3>1, <3>2, <1>6 DEF Ends, RetiredTruly
    <3>3. CASE n = o /\ m.status \in CompletedReplacementStates
      BY <3>1, <3>3, <2>1, <2>2, <2>7, <1>7
    <3>q. QED BY <3>2, <3>3, <2>2, <2>x
  <2>9. Alone'
    <3>1. ASSUME command.kind = "accepted", InForce(events'[command.id])
          PROVE  OnlyEnds(wire', stream, command.order)
      <4>1. command.id \in Order /\ replaces[command.id] = command.order
        BY <3>1 DEF Truth, CommandTruth
      <4>2. CASE command.id # o
        BY <3>1, <4>1, <4>2, <2>2, <1>6 DEF Ends, Alone
      <4>3. CASE command.id = o
        <5>1. row.status \in CompletedReplacementStates
          BY <3>1, <4>3, <2>1, <2>2, <2>x, NoRowIs DEF InForce
        <5>q. QED BY <5>1, <4>1, <4>3, <1>7
      <4>q. QED BY <4>2, <4>3
    <3>q. QED BY <3>1, <1>2 DEF Ends, Alone
  <2>10. ASSUME NEW n \in Order, NEW k \in Order, events[n].replaces = k, events[n].row.status \in TerminalStates
         PROVE  events'[n].replaces = k /\ events'[n].row.status \in TerminalStates
    <3>1. k # 0
      BY Sizes DEF Order
    <3>2. replaces[n] = k
      BY <3>1, <2>10 DEF Ends, RetiredTruly
    <3>3. CASE n # o
      BY <3>3, <2>2, <2>10
    <3>4. CASE n = o
      <4>1. x.replaces = k
        BY <3>2, <3>4, <2>x, <2>3, <2>10
      <4>q. QED BY <4>1, <3>4, <2>2, <2>4, <2>x, <2>10
    <3>q. QED BY <3>3, <3>4
  <2>11. ASSUME NEW n \in Order, n # o, events[n].replaces = o PROVE m.status \in TerminalStates
    <3>1. o # 0
      BY Sizes DEF Order
    <3>2. OnlyEnds(wire, stream, o)
      BY <3>1, <2>11 DEF Ends, RetiredTruly
    <3>q. QED BY <3>2, <2>1, <1>8
  <2>12. EndsKnown'
    <3>1. SUFFICES ASSUME NEW k \in Order, base.closedRows[k] # NoRow, ~Outdone(k)'
                   PROVE  Unbroken(k)'
      BY <1>2 DEF EndsKnown
    <3>0. k # 0
      BY Sizes DEF Order
    <3>2. ~Outdone(k)
      <4>1. CASE k # o
        BY <3>1, <4>1, <2>2, <1>2 DEF Outdone
      <4>2. CASE k = o
        <5>1. m.status \notin TerminalStates /\ ~(base.label < rev)
          BY <3>1, <4>2, <2>2, <2>6, <2>x, <1>2 DEF Outdone
        <5>2. events[o].row.status \notin TerminalStates
          BY <5>1, <2>4
        <5>3. base.label \in Int /\ events[o].rev \in Int
          BY <1>t DEF Reads, EventSet
        <5>4. events[o] # NoEvent => ~(base.label < events[o].rev)
          BY <5>1, <5>3, <2>x
        <5>q. QED BY <4>2, <5>2, <5>4 DEF Outdone
      <4>q. QED BY <4>1, <4>2
    <3>3. Unbroken(k)
      BY <3>1, <3>2 DEF Ends, EndsKnown
    <3>4. CASE base.openRows[k] = NoRow
      <4>1. events[k] = NoEvent
        BY <3>3, <3>4 DEF Unbroken
      <4>2. k # o
        BY <4>1, <3>1, <3>4, <2>2, <2>5, <2>x DEF Outdone
      <4>q. QED BY <4>1, <4>2, <3>4, <2>2, <1>2 DEF Unbroken
    <3>5. CASE base.openRows[k] # NoRow
      <4>1. \A n \in Order : replacements[n] # k
        BY <3>3, <3>5 DEF Unbroken
      <4>2. \A n \in Order : replacements'[n] # k
        BY <4>1, <3>0, <2>2
      <4>3. ASSUME NEW n \in Order, events'[n].replaces = k
            PROVE  events'[k] = NoEvent /\ events'[n].row.status \in TerminalStates
        <5>1. events[n].replaces = k
          <6>1. CASE n # o
            BY <6>1, <4>3, <2>2
          <6>2. CASE n = o
            BY <6>2, <4>1, <4>3, <2>2, <2>x
          <6>q. QED BY <6>1, <6>2
        <5>2. events[k] = NoEvent /\ events[n].row.status \in TerminalStates
          BY <5>1, <3>3, <3>5 DEF Unbroken
        <5>3. k # o
          <6>1. SUFFICES ASSUME k = o PROVE FALSE
            OBVIOUS
          <6>2. n # o
            BY <6>1, <5>2, NoEventIs, NoRowIs
          <6>3. m.status \in TerminalStates
            BY <6>1, <6>2, <5>1, <2>11
          <6>q. QED BY <6>1, <6>3, <3>1, <2>2, <2>x DEF Outdone
        <5>q. QED BY <5>1, <5>2, <5>3, <2>2, <2>10
      <4>q. QED BY <4>2, <4>3, <3>5, <1>2 DEF Unbroken
    <3>q. QED BY <3>4, <3>5
  <2>13. ASSUME NEW k \in Order, Final(k) PROVE Final(k)'
    <3>1. CASE events[k].row.status \in TerminalStates
      BY <3>1, <2>2, <2>4, <2>x DEF Final
    <3>2. CASE /\ events[k] = NoEvent /\ base.closedRows[k] # NoRow
               /\ \/ base.openRows[k] = NoRow
                  \/ \E n \in Order : events[n].replaces = k /\ events[n].row.status \in TerminalStates
      <4>1. CASE k # o
        <5>1. events'[k] = NoEvent
          BY <4>1, <3>2, <2>2
        <5>2. (\E n \in Order : events[n].replaces = k /\ events[n].row.status \in TerminalStates) =>
                \E n \in Order : events'[n].replaces = k /\ events'[n].row.status \in TerminalStates
          BY <2>10
        <5>q. QED BY <5>1, <5>2, <3>2, <1>2 DEF Final
      <4>2. CASE k = o
        <5>1. m.status \in TerminalStates
          <6>1. CASE base.openRows[o] = NoRow
            BY <6>1, <4>2, <3>2, <2>5
          <6>2. ASSUME NEW n \in Order, events[n].replaces = k, events[n].row.status \in TerminalStates
                PROVE  m.status \in TerminalStates
            <7>1. n # o
              BY <6>2, <4>2, <3>2, NoEventIs, NoRowIs
            <7>q. QED BY <7>1, <6>2, <4>2, <2>11
          <6>q. QED BY <6>1, <6>2, <4>2, <3>2
        <5>q. QED BY <5>1, <4>2, <2>2, <2>x DEF Final
      <4>q. QED BY <4>1, <4>2
    <3>q. QED BY <3>1, <3>2, <2>13 DEF Final
  <2>q. QED BY <1>2, <1>5, <1>9, <2>8, <2>9, <2>12, <2>13 DEF Ends
<1>q. QED BY <1>10, <1>11

LEMMA InitEnds == Init => Ends
<1>1. SUFFICES ASSUME Init PROVE Ends
  OBVIOUS
<1>2. /\ wire = <<>> /\ stream = <<>> /\ events = [o \in Order |-> NoEvent]
      /\ base = NoRead /\ request = NoRequest /\ command = NoCommand
  BY <1>1 DEF Init
<1>3. command.kind = "none" /\ request.kind # "sent"
  BY <1>2, NoRequestIs DEF NoCommand
<1>4. DOMAIN wire = {} /\ DOMAIN stream = {}
  BY <1>2
<1>5. Told
  BY <1>4 DEF Told, ToldIn, EndsToldBefore
<1>6. RetiredTruly
  BY <1>2, NoEventIs DEF RetiredTruly
<1>7. Alone
  BY <1>3 DEF Alone
<1>8. \A o \in Order : base.closedRows[o] = NoRow
  BY <1>2, NoReadIs
<1>9. NextKnows /\ EndsKnown
  BY <1>8 DEF NextKnows, EndsKnown
<1>q. QED BY <1>5, <1>6, <1>7, <1>9 DEF Ends

(* Whatever happens, what has ended for the tab stays so.                  *)
LEMMA EndsStep ==
  Inv /\ Inv' /\ Ends /\ [Next]_vars =>
    Ends' /\ (\A o \in Order : Final(o) => Final(o)') /\ (base # NoRead => base' # NoRead)
<1>1. SUFFICES ASSUME Inv, Inv', Ends, [Next]_vars
               PROVE  Ends' /\ (\A o \in Order : Final(o) => Final(o)') /\ (base # NoRead => base' # NoRead)
  OBVIOUS
<1>2. TypeOK /\ BrokerOk(broker, replaces) /\ Truth /\ TypeOK' /\ Truth'
  BY <1>1 DEF Inv
<1>3. CASE Broker
  <2>1. base' = base
    BY <1>2, <1>3, BrokerLeaves, TypesAre DEF readVars
  <2>q. QED BY <2>1, <1>1, <1>2, <1>3, BrokerKeepsEnds
<1>4. CASE LoseStream \/ ResumeStream \/ Restart \/ Disconnect \/ FailRead
  <2>1. Forgets
    BY <1>2, <1>4, ServiceForgets
  <2>2. base' = base
    BY <2>1 DEF Forgets
  <2>q. QED BY <2>1, <2>2, <1>1, <1>2, ForgettingKeepsEnds
<1>5. CASE (\E o \in Order : Modify(o)) \/ FailCommand \/ Poll
  <2>1. Forgets
    BY <1>2, <1>5, TabForgets
  <2>2. base' = base
    BY <2>1 DEF Forgets
  <2>q. QED BY <2>1, <2>2, <1>1, <1>2, ForgettingKeepsEnds
<1>6. CASE Deliver
  <2>1. base' = base
    BY <1>6 DEF Deliver, readVars
  <2>q. QED BY <2>1, <1>1, <1>2, <1>6, DeliverKeepsEnds
<1>7. CASE ReadOpen \/ ReadClosed
  <2>1. base' = base
    BY <1>7 DEF ReadOpen, ReadClosed
  <2>q. QED BY <2>1, <1>1, <1>2, <1>7, ReadingKeepsEnds
<1>8. CASE OnEvent
  BY <1>1, <1>2, <1>8, OnEventKeepsEnds
<1>9. CASE Receive
  BY <1>1, <1>2, <1>9, ReceiveKeepsEnds
<1>10. CASE Reconnect
  BY <1>1, <1>2, <1>10, ReconnectKeepsEnds
<1>11. CASE Acknowledge
  BY <1>1, <1>2, <1>11, AcknowledgeKeepsEnds
<1>12. CASE UNCHANGED vars
  <2>1. UNCHANGED <<replaces, stream, wire, events, replacements, base, request, command>>
    BY <1>12 DEF vars, brokerVars, wireVars, eventVars, readVars, commandVars
  <2>2. Forgets
    BY <2>1 DEF Forgets
  <2>q. QED BY <2>1, <2>2, <1>1, <1>2, ForgettingKeepsEnds
<1>q. QED BY <1>1, <1>3, <1>4, <1>5, <1>6, <1>7, <1>8, <1>9, <1>10, <1>11, <1>12 DEF Next

LEMMA EndsHold == Spec => []Ends
  BY InitInv, StepInv, InitEnds, EndsStep, PTL DEF Spec

(* An order is shown as ended just when it has ended for the tab.          *)
LEMMA MergedEnds ==
  ASSUME TypeOK, Truth, NEW o \in Order, events[o].row.status \in TerminalStates
  PROVE  Merged(o).open = NoRow /\ Merged(o).recent # NoRow
<1>1. BrokerTypes /\ EventTypes /\ ReadTypes
  BY TypesAre
<1>2. broker[o] \in RowOrNone /\ events[o].row \in RowOrNone /\ Canonical(o) \in RowOrNone
  BY <1>1, CanonicalIs DEF BrokerTypes, Books, EventTypes, EventSet
<1>3. events[o].row = broker[o] /\ events[o].row # NoRow
  BY NoRowIs DEF Truth, EventTruth, EventOk, Faithful
<1>4. /\ Faithful(broker, replaces, o, base.openRows[o]) /\ Faithful(broker, replaces, o, base.closedRows[o])
      /\ base.openRows[o] = NoRow \/ base.openRows[o].status \in OpenStates
      /\ base.closedRows[o] = NoRow \/ base.closedRows[o].status \in TerminalStates
  BY DEF Truth, ReadTruth, RowsOk, ReadFaithfully
<1>5. Faithful(broker, replaces, o, Canonical(o))
  BY <1>1, <1>4, CanonicalIs
<1>6. ~(events[o].row.filled < Canonical(o).filled)
  <2>1. Canonical(o).filled <= broker[o].filled /\ Canonical(o).filled \in Nat /\ broker[o].filled \in Nat
    BY <1>2, <1>5, RowIs DEF Faithful, Upto
  <2>q. QED BY <2>1, <1>3
<1>7. Canonical(o).status \in TerminalStates => Canonical(o) = broker[o]
  BY <1>5 DEF Faithful
<1>8. events[o].row.status \notin Resting
  BY StatesApart
<1>c. PICK c \in BOOLEAN : c = (events[o].ready /\ Canonical(o).status = "PENDING_REPLACE")
  OBVIOUS
<1>9. MergeRow(Canonical(o), events[o].row, c) = events[o].row
  BY <1>3, <1>6, <1>7, <1>8 DEF MergeRow
<1>r. PICK mr : mr = MergeRow(events[o].row, Canonical(o), TRUE)
  OBVIOUS
<1>10. Merged(o) = IF \/ events[o] = NoEvent
                      \/ /\ ~c /\ base.label >= events[o].rev /\ Canonical(o) # NoRow
                         /\ mr # NoRow
                   THEN [open |-> base.openRows[o], recent |-> base.closedRows[o]]
                   ELSE IF events[o].row.status \in TerminalStates THEN [open |-> NoRow, recent |-> events[o].row]
                   ELSE [open |-> events[o].row, recent |-> NoRow]
  BY <1>c, <1>r, <1>9, <1>3 DEF Merged, Or
<1>11. \/ Merged(o) = [open |-> NoRow, recent |-> events[o].row]
       \/ /\ Canonical(o) # NoRow /\ mr # NoRow
          /\ Merged(o) = [open |-> base.openRows[o], recent |-> base.closedRows[o]]
  BY <1>3, <1>10, NoEventIs
<1>12. CASE /\ Canonical(o) # NoRow /\ mr # NoRow
            /\ Merged(o) = [open |-> base.openRows[o], recent |-> base.closedRows[o]]
  <2>1. Canonical(o).status \in TerminalStates
    BY <1>3, <1>r, <1>12 DEF MergeRow
  <2>2. base.openRows[o] = NoRow
    <3>1. base.openRows[o] # NoRow => Canonical(o).status \in OpenStates
      BY <1>1, <1>4, CanonicalIs
    <3>q. QED BY <3>1, <2>1, StatesApart
  <2>3. base.closedRows[o] # NoRow
    BY <2>2, <1>1, <1>12, CanonicalIs
  <2>q. QED BY <2>2, <2>3, <1>12
<1>q. QED BY <1>3, <1>11, <1>12

EndsInv == \A o \in Order : Gone(o) <=> base # NoRead /\ Final(o)

LEMMA GoneIs ==
  ASSUME NEW o \in Order
  PROVE  Gone(o) <=> /\ base # NoRead /\ Merged(o).recent # NoRow
                     /\ Merged(o).open = NoRow \/ Retired(o)
<1>1. Merged(o) = [open |-> Merged(o).open, recent |-> Merged(o).recent]
  BY DEF Merged
<1>2. CASE base = NoRead
  BY <1>2 DEF Shown, Gone
<1>3. CASE base # NoRead /\ Retired(o)
  <2>1. Shown(o) = [Merged(o) EXCEPT !.open = NoRow]
    BY <1>3 DEF Shown
  <2>2. Shown(o).open = NoRow /\ Shown(o).recent = Merged(o).recent
    BY <2>1, <1>1
  <2>q. QED BY <2>2, <1>3 DEF Gone
<1>4. CASE base # NoRead /\ ~Retired(o)
  BY <1>4 DEF Shown, Gone
<1>q. QED BY <1>2, <1>3, <1>4

LEMMA EndsAreFinal == Inv /\ Ends => EndsInv
<1>1. SUFFICES ASSUME Inv, Ends, NEW o \in Order PROVE Gone(o) <=> base # NoRead /\ Final(o)
  BY DEF EndsInv
<1>2. TypeOK /\ Truth
  BY <1>1 DEF Inv
<1>3. BrokerTypes /\ EventTypes /\ ReadTypes
  BY <1>2, TypesAre
<1>4. /\ broker \in [Order -> RowOrNone] /\ events[o].row \in RowOrNone /\ Canonical(o) \in RowOrNone
      /\ base.label \in Int /\ events[o].rev \in Int
  BY <1>3, CanonicalIs DEF BrokerTypes, Books, EventTypes, EventSet, ReadTypes, Reads
<1>5. /\ base.openRows[o] = NoRow \/ base.openRows[o].status \in OpenStates
      /\ base.closedRows[o] = NoRow \/ base.closedRows[o].status \in TerminalStates
      /\ events[o].row = NoRow => events[o] = NoEvent
  BY <1>2 DEF Truth, ReadTruth, RowsOk, EventTruth, EventOk
<1>6. events[o] = NoEvent =>
        /\ Merged(o) = [open |-> base.openRows[o], recent |-> base.closedRows[o]]
        /\ events[o].row.status \notin TerminalStates
  BY NoEventIs, NoRowIs DEF Merged
<1>7. Unbroken(o) /\ Retired(o) /\ base.openRows[o] # NoRow =>
        events[o] = NoEvent /\ \E n \in Order : events[n].replaces = o /\ events[n].row.status \in TerminalStates
  BY DEF Unbroken, Retired
<1>8. ASSUME base # NoRead, Final(o) PROVE Gone(o)
  <2>1. CASE events[o].row.status \in TerminalStates
    BY <2>1, <1>2, <1>8, MergedEnds, GoneIs
  <2>2. CASE /\ events[o] = NoEvent /\ base.closedRows[o] # NoRow
             /\ \/ base.openRows[o] = NoRow
                \/ \E n \in Order : events[n].replaces = o /\ events[n].row.status \in TerminalStates
    BY <2>2, <1>6, <1>8, GoneIs DEF Retired
  <2>q. QED BY <2>1, <2>2, <1>8 DEF Final
<1>9. ASSUME Gone(o) PROVE Final(o)
  <2>1. base # NoRead /\ Merged(o).recent # NoRow /\ (Merged(o).open = NoRow \/ Retired(o))
    BY <1>9, GoneIs
  <2>2. SUFFICES ASSUME events[o].row.status \notin TerminalStates PROVE Final(o)
    BY DEF Final
  <2>3. base.closedRows[o] # NoRow /\ ~(events[o] # NoEvent /\ base.label < events[o].rev) => Unbroken(o)
    BY <1>1, <2>2 DEF Ends, EndsKnown, Outdone
  <2>4. CASE events[o] = NoEvent
    <3>1. base.closedRows[o] # NoRow /\ (base.openRows[o] = NoRow \/ Retired(o))
      BY <2>1, <2>4, <1>6
    <3>q. QED BY <3>1, <2>3, <2>4, <1>7 DEF Final
  <2>5. CASE events[o] # NoEvent
    <3>c. PICK c \in BOOLEAN, m \in RowOrNone, order \in RowOrNone :
            /\ c = (events[o].ready /\ Canonical(o).status = "PENDING_REPLACE")
            /\ m = MergeRow(Canonical(o), events[o].row, c)
            /\ order = IF m # NoRow THEN m
                       ELSE IF base.label < events[o].rev THEN events[o].row ELSE Canonical(o)
            /\ \/ /\ events[o] = NoEvent \/ base.label >= events[o].rev
                  /\ Merged(o) = [open |-> base.openRows[o], recent |-> base.closedRows[o]]
               \/ /\ events[o] # NoEvent /\ order.status \in TerminalStates
                  /\ Merged(o) = [open |-> NoRow, recent |-> order]
               \/ /\ events[o] # NoEvent /\ order.status \notin TerminalStates
                  /\ Merged(o) = [open |-> order, recent |-> NoRow]
      BY <1>3, MergedIs
    <3>1. m.status \notin TerminalStates
      <4>1. Becomes(Canonical(o), events[o].row, c, m)
        BY <1>4, <3>c, MergeIs
      <4>q. QED BY <4>1, <2>2, NoRowIs, StatesApart DEF Becomes
    <3>2. CASE base.label >= events[o].rev /\ Merged(o) = [open |-> base.openRows[o], recent |-> base.closedRows[o]]
      <4>1. base.closedRows[o] # NoRow /\ (base.openRows[o] = NoRow \/ Retired(o))
        BY <2>1, <3>2
      <4>2. Unbroken(o)
        BY <4>1, <3>2, <2>3, <1>4
      <4>3. events[o] = NoEvent
        BY <4>1, <4>2, <1>7 DEF Unbroken
      <4>q. QED BY <4>3, <2>5
    <3>3. CASE order.status \in TerminalStates
      <4>1. order = Canonical(o) /\ ~(base.label < events[o].rev)
        BY <3>c, <3>1, <3>3, <2>2
      <4>2. base.openRows[o] = NoRow
        <5>1. base.openRows[o] # NoRow => Canonical(o).status \in OpenStates
          BY <1>3, <1>5, CanonicalIs
        <5>q. QED BY <5>1, <4>1, <3>3, StatesApart
      <4>3. base.closedRows[o] # NoRow
        BY <4>1, <4>2, <3>3, <1>3, CanonicalIs, NoRowIs
      <4>4. events[o] = NoEvent
        BY <4>1, <4>2, <4>3, <2>3 DEF Unbroken
      <4>q. QED BY <4>4, <2>5
    <3>4. CASE Merged(o) = [open |-> order, recent |-> NoRow]
      BY <3>4, <2>1
    <3>q. QED BY <3>2, <3>3, <3>4, <3>c, <2>5
  <2>q. QED BY <2>4, <2>5
<1>10. Gone(o) => base # NoRead
  BY GoneIs
<1>q. QED BY <1>8, <1>9, <1>10

(* An order that is shown as ended is never shown open again, whatever     *)
(* events and answers are late, whatever is lost and reconnected.          *)
THEOREM EndsStay == Spec => NoResurrection
<1>1. Inv /\ Inv' /\ Ends /\ EndsInv /\ EndsInv' /\ [Next]_vars => [\A o \in Order : Gone(o) => Gone(o)']_vars
  BY EndsStep DEF EndsInv
<1>q. QED BY <1>1, InvHolds, EndsHold, EndsAreFinal, PTL DEF NoResurrection, Spec
=============================================================================
