----------------------------- MODULE OrderView -----------------------------
(***************************************************************************)
(* The orders a tab shows of one account and code.  Snapshots of single    *)
(* orders come as events, from the broker over the trading service         *)
(* (hoga/trading/service.py) and the websocket; the lists of open and      *)
(* closed orders come as answers of reads that the tab begins              *)
(* (frontend/src/api/trading.ts).  tradingRefresh.ts merges both into what *)
(* is shown, and an order that shows itself under processing is locked.    *)
(* The tab's own modifications (OrderWindow.tsx) are acknowledged with the *)
(* ID of the replacement.                                                  *)
(* An order is its number: the replacement of a modification gets the next *)
(* one.  Symbol, side and price, which are those of the order, the limit   *)
(* of ten closed rows and the 200 kept tombstones are left out; when a     *)
(* read begins (interval, refresh timers, focus) is left to chance.        *)
(***************************************************************************)
EXTENDS Integers, Sequences

CONSTANTS
  MaxOrders,    \* orders
  Quantity,     \* of each of them
  MaxChanges,   \* changes at the broker, commands, and faults: reads that fail,
                \* connections that are lost, restarts of the service
  MaxStream,    \* events under way before the broker changes anything more
  MaxWire       \* events under way before the service sends more

Order == 1..MaxOrders
ASSUME ViewAssumption ==
  /\ MaxChanges \in Nat
  /\ {MaxOrders, Quantity, MaxStream, MaxWire} \subseteq Nat \ {0}

VARIABLES
  broker,        \* the row of every order at the broker
  replaces,      \* the order that an order is the replacement of, or 0
  stream,        \* events from the broker to the service
  listening,     \* the service's stream is up
  revision,      \* of the service
  connected,     \* the tab's websocket
  wire,          \* events from the service to the tab
  events,        \* the tab's last event, or tombstone, of every order
  replacements,  \* the original of an acknowledged replacement, or 0
  base,          \* the last answer
  request,       \* the read under way
  command,       \* the modification under way
  awaiting,      \* pendingIds: the replacement that an order waits for, or 0
  changes,       \* counter for the bound
  lockSeen,      \* history: the last operation on an order that an event has shown
  acked,         \* history: replacements this tab has been acknowledged
  outdated       \* history: the last answer is from before a restart of the service

brokerVars == <<broker, replaces, stream>>
serviceVars == <<listening, revision>>
wireVars == <<connected, wire>>
eventVars == <<events, replacements, acked>>
readVars == <<base, request, outdated>>
commandVars == <<command, awaiting>>
vars == <<brokerVars, serviceVars, wireVars, eventVars, readVars, commandVars, changes, lockSeen>>

Resting == {"PENDING", "PARTIAL_FILLED"}
Processing == {"PENDING_CANCEL", "PENDING_REPLACE"}
OpenStates == Resting \cup Processing
TerminalStates == {"FILLED", "CANCELED", "REPLACED", "REPLACE_REJECTED"}

CompletedReplacementStates == Resting \cup {"FILLED", "CANCELED", "REPLACED"}

\* op counts the operations on an order that have begun.
Row == [status : OpenStates \cup TerminalStates, filled : 0..Quantity, op : Nat]
NoRow == [status |-> "NONE", filled |-> 0, op |-> 0]
NoRows == [o \in Order |-> NoRow]
NewRow == [status |-> "PENDING", filled |-> 0, op |-> 0]
NoEvent == [row |-> NoRow, rev |-> -1, completion |-> NoRow, ready |-> FALSE, replaces |-> 0]
NoRead == [label |-> -1, open |-> FALSE, closed |-> FALSE, openRows |-> NoRows, closedRows |-> NoRows]
NoRequest == [kind |-> "none", read |-> NoRead]
NoCommand == [kind |-> "none", order |-> 0, id |-> 0]
Reads == [label : Int, open : BOOLEAN, closed : BOOLEAN,
          openRows : [Order -> Row \cup {NoRow}], closedRows : [Order -> Row \cup {NoRow}]]

TypeOK ==
  /\ broker \in [Order -> Row \cup {NoRow}] /\ replaces \in [Order -> 0..MaxOrders]
  /\ stream \in Seq([order : Order, row : Row])
  /\ listening \in BOOLEAN /\ revision \in Nat /\ connected \in BOOLEAN
  /\ wire \in Seq([order : Order, row : Row, rev : Nat])
  /\ events \in [Order -> [row : Row \cup {NoRow}, rev : Int, completion : Row \cup {NoRow},
                           ready : BOOLEAN, replaces : 0..MaxOrders]]
  /\ replacements \in [Order -> 0..MaxOrders] /\ acked \subseteq Order
  /\ base \in Reads /\ request \in [kind : {"none", "sent"}, read : Reads]
  /\ command \in [kind : {"none", "sent", "accepted"}, order : 0..MaxOrders, id : 0..MaxOrders]
  /\ awaiting \in [Order -> 0..MaxOrders]
  /\ changes \in Nat /\ lockSeen \in [Order -> Nat] /\ outdated \in BOOLEAN

Init ==
  /\ broker = [NoRows EXCEPT ![1] = NewRow]
  /\ replaces = [o \in Order |-> 0]
  /\ stream = <<>> /\ listening = TRUE /\ revision = 0
  /\ connected = TRUE /\ wire = <<>>
  /\ events = [o \in Order |-> NoEvent] /\ replacements = [o \in Order |-> 0]
  /\ base = NoRead /\ request = NoRequest
  /\ command = NoCommand /\ awaiting = [o \in Order |-> 0]
  /\ changes = 0
  /\ lockSeen = [o \in Order |-> 0] /\ acked = {} /\ outdated = FALSE

---------------------------------------------------------------------------
(* The broker.  Every change of an order is an event.                      *)

Rested(r) == [r EXCEPT !.status = IF r.filled = 0 THEN "PENDING" ELSE "PARTIAL_FILLED"]
Ev(o, r) == [order |-> o, row |-> r]
Emit(evs) ==
  IF listening THEN Len(stream) < MaxStream /\ stream' = stream \o evs ELSE UNCHANGED stream
Change == changes < MaxChanges /\ changes' = changes + 1

\* The replacement of a modification that is under way.
Unconfirmed(n) ==
  /\ broker[n].status = "PENDING_REPLACE" /\ replaces[n] # 0
  /\ broker[replaces[n]].status # "REPLACED"

\* The event of a fill may name the order partially filled while it is processed.
Fill(o) ==
  /\ Change /\ broker[o].status \in OpenStates /\ ~Unconfirmed(o)
  /\ LET more == [broker[o] EXCEPT !.filled = @ + 1]
         row  == IF more.filled = Quantity THEN [more EXCEPT !.status = "FILLED"]
                 ELSE IF more.status \in Resting THEN Rested(more) ELSE more
     IN /\ broker' = [broker EXCEPT ![o] = row]
        /\ \E told \in {row} \cup (IF row.status \in Processing THEN {Rested(row)} ELSE {}) :
             Emit(<<Ev(o, told)>>)
  /\ UNCHANGED <<replaces, serviceVars, wireVars, eventVars, readVars, commandVars, lockSeen>>

\* A modification is taken: this tab's, or one from elsewhere.
StartReplace(o, own) ==
  /\ broker[o].status \in Resting
  /\ IF own THEN command.kind = "sent" /\ command.order = o /\ UNCHANGED changes ELSE Change
  /\ \E n \in Order :
       /\ broker[n] = NoRow /\ \A m \in 1..(n - 1) : broker[m] # NoRow
       /\ LET old == [broker[o] EXCEPT !.status = "PENDING_REPLACE", !.op = @ + 1]
              new == [NewRow EXCEPT !.status = "PENDING_REPLACE", !.op = 1]
          IN /\ broker' = [broker EXCEPT ![o] = old, ![n] = new]
             /\ Emit(<<Ev(o, old), Ev(n, new)>>)
       /\ replaces' = [replaces EXCEPT ![n] = o]
       /\ command' = IF own THEN [command EXCEPT !.kind = "accepted", !.id = n] ELSE command
  /\ UNCHANGED <<serviceVars, wireVars, eventVars, readVars, awaiting, lockSeen>>

EndReplace(n) ==
  /\ Unconfirmed(n) /\ broker[replaces[n]].status = "PENDING_REPLACE"
  /\ LET o == replaces[n]
         old == [broker[o] EXCEPT !.status = "REPLACED"]
         new == Rested(broker[n])
     IN /\ broker' = [broker EXCEPT ![o] = old, ![n] = new]
        /\ Emit(<<Ev(o, old), Ev(n, new)>>) \/ Emit(<<Ev(n, new), Ev(o, old)>>)
  /\ UNCHANGED <<replaces, changes, serviceVars, wireVars, eventVars, readVars, commandVars, lockSeen>>

RejectReplace(n) ==
  /\ Unconfirmed(n)
  /\ LET o == replaces[n]
         old == IF broker[o].status = "PENDING_REPLACE" THEN Rested(broker[o]) ELSE broker[o]
         new == [broker[n] EXCEPT !.status = "REPLACE_REJECTED"]
     IN /\ broker' = [broker EXCEPT ![o] = old, ![n] = new]
        /\ Emit(<<Ev(n, new)>> \o (IF old = broker[o] THEN <<>> ELSE <<Ev(o, old)>>))
  /\ UNCHANGED <<replaces, changes, serviceVars, wireVars, eventVars, readVars, commandVars, lockSeen>>

StartCancel(o) ==
  /\ Change /\ broker[o].status \in Resting
  /\ broker' = [broker EXCEPT ![o].status = "PENDING_CANCEL", ![o].op = @ + 1]
  /\ Emit(<<Ev(o, broker'[o])>>)
  /\ UNCHANGED <<replaces, serviceVars, wireVars, eventVars, readVars, commandVars, lockSeen>>

EndCancel(o) ==
  /\ broker[o].status = "PENDING_CANCEL"
  /\ \E row \in {Rested(broker[o]), [broker[o] EXCEPT !.status = "CANCELED"]} :
       /\ broker' = [broker EXCEPT ![o] = row]
       /\ Emit(<<Ev(o, row)>>)
  /\ UNCHANGED <<replaces, changes, serviceVars, wireVars, eventVars, readVars, commandVars, lockSeen>>

---------------------------------------------------------------------------
(* The trading service.                                                    *)

\* order_event: an event is published with the new revision.
Deliver ==
  /\ stream # <<>> /\ Len(wire) < MaxWire
  /\ stream' = Tail(stream) /\ revision' = revision + 1
  /\ wire' = IF connected
             THEN Append(wire, [order |-> Head(stream).order, row |-> Head(stream).row, rev |-> revision'])
             ELSE wire
  /\ UNCHANGED <<broker, replaces, changes, listening, connected, eventVars, readVars, commandVars, lockSeen>>

\* _events_loop: both ends of a stream count as a change.
LoseStream ==
  /\ Change /\ listening /\ listening' = FALSE
  /\ stream' = <<>> /\ revision' = revision + 1
  /\ UNCHANGED <<broker, replaces, wireVars, eventVars, readVars, commandVars, lockSeen>>

ResumeStream ==
  /\ ~listening /\ listening' = TRUE /\ revision' = revision + 1
  /\ UNCHANGED <<brokerVars, wireVars, eventVars, readVars, commandVars, changes, lockSeen>>

\* The service starts anew: revisions count from 0, and every connection ends.
Restart ==
  /\ Change /\ listening' = FALSE /\ stream' = <<>> /\ revision' = 0
  /\ connected' = FALSE /\ wire' = <<>> /\ request' = NoRequest
  /\ command' = NoCommand /\ outdated' = (base # NoRead)
  /\ UNCHANGED <<broker, replaces, eventVars, base, awaiting, lockSeen>>

\* order_state: the open and the closed orders are read one by one, in any order.
ReadOpen ==
  /\ request.kind = "sent" /\ ~request.read.open
  /\ request' = [request EXCEPT !.read.open = TRUE,
       !.read.openRows = [o \in Order |-> IF broker[o].status \in OpenStates THEN broker[o] ELSE NoRow]]
  /\ UNCHANGED <<brokerVars, serviceVars, wireVars, eventVars, base, outdated, commandVars, changes, lockSeen>>

ReadClosed ==
  /\ request.kind = "sent" /\ ~request.read.closed
  /\ request' = [request EXCEPT !.read.closed = TRUE,
       !.read.closedRows = [o \in Order |-> IF broker[o].status \in TerminalStates THEN broker[o] ELSE NoRow]]
  /\ UNCHANGED <<brokerVars, serviceVars, wireVars, eventVars, base, outdated, commandVars, changes, lockSeen>>

---------------------------------------------------------------------------
(* The tab: what its events and its last answer make of an order.          *)

\* mergeOrderSnapshot: NoRow for one that does not follow on.
MergeRow(previous, next, canonical) ==
  IF previous = NoRow THEN next
  ELSE IF \/ next.filled < previous.filled
          \/ previous.status \in TerminalStates /\ previous.status # next.status
       THEN NoRow
  ELSE IF ~canonical /\ previous.status \in Processing /\ next.status \in Resting
       THEN [next EXCEPT !.status = previous.status]
  ELSE next

Or(r, s) == IF r # NoRow THEN r ELSE s
Canonical(o) == Or(base.openRows[o], base.closedRows[o])

\* Mutant: an answer that is newer does not beat an event.
MergedEventFirst(o) ==
  LET e == events[o]
      canonical == Canonical(o)
      order == Or(MergeRow(canonical, e.row, FALSE), IF base.label < e.rev THEN e.row ELSE canonical)
  IN IF e = NoEvent THEN [open |-> base.openRows[o], recent |-> base.closedRows[o]]
     ELSE IF order.status \in TerminalStates THEN [open |-> NoRow, recent |-> order]
     ELSE [open |-> order, recent |-> NoRow]

\* mergeTradingOrderEvents, of one order: its rows among the open and the recent ones.
Merged(o) ==
  LET e == events[o]
      canonical == Canonical(o)
      completed == e.ready /\ canonical.status = "PENDING_REPLACE"
      order == Or(MergeRow(canonical, e.row, completed),
                  IF base.label < e.rev THEN e.row ELSE canonical)
      asRead == [open |-> base.openRows[o], recent |-> base.closedRows[o]]
  IN IF \/ e = NoEvent
        \/ /\ ~completed /\ base.label >= e.rev /\ canonical # NoRow
           /\ MergeRow(e.row, canonical, TRUE) # NoRow
     THEN asRead
     ELSE IF order.status \in TerminalStates THEN [open |-> NoRow, recent |-> order]
     ELSE [open |-> order, recent |-> NoRow]

\* An event that makes a replacement ready retires its original.
Retired(o) == \E n \in Order : events[n].replaces = o

Shown(o) ==
  IF base = NoRead THEN [open |-> NoRow, recent |-> NoRow]
  ELSE IF Retired(o) THEN [Merged(o) EXCEPT !.open = NoRow] ELSE Merged(o)

Settled(r) == r.status \in Resting \cup TerminalStates
SeenLock(o, r) == IF r.status \in Processing /\ r.op > lockSeen[o] THEN r.op ELSE lockSeen[o]

\* Mutant: a resting event ends a replacement without an acknowledgement.
ApplyUnasked(o, row, rev) ==
  LET prior        == events[o]
      previous     == IF prior # NoEvent THEN prior.row ELSE Canonical(o)
      merged       == MergeRow(previous, row, previous.status = "PENDING_REPLACE")
  IN IF (prior # NoEvent /\ rev <= prior.rev) \/ merged = NoRow
     THEN UNCHANGED <<events, replacements>>
     ELSE /\ events' = [events EXCEPT ![o] = [NoEvent EXCEPT !.row = merged, !.rev = rev]]
          /\ UNCHANGED replacements

\* applyTradingOrderEvent.
Apply(o, row, rev) ==
  LET prior        == events[o]
      previous     == IF prior # NoEvent THEN prior.row ELSE Canonical(o)
      acknowledged == replacements[o] # 0
      merged       == MergeRow(previous, row, acknowledged /\ previous.status = "PENDING_REPLACE")
      held         == previous.status = "PENDING_REPLACE" /\ row.status \in Resting
                      /\ merged.status # row.status
      ready        == merged.status \in CompletedReplacementStates
  IN IF (prior # NoEvent /\ rev <= prior.rev) \/ merged = NoRow
     THEN UNCHANGED <<events, replacements>>
     ELSE /\ events' = [events EXCEPT ![o] =
               [row |-> merged, rev |-> rev, completion |-> IF held THEN row ELSE NoRow,
                ready |-> ready /\ (acknowledged \/ prior.ready),
                replaces |-> IF ready /\ acknowledged THEN replacements[o] ELSE prior.replaces]]
          /\ replacements' = IF Settled(merged) THEN [replacements EXCEPT ![o] = 0] ELSE replacements

OnEvent ==
  /\ connected /\ wire # <<>>
  /\ wire' = Tail(wire)
  /\ LET e == Head(wire) IN
     /\ Apply(e.order, e.row, e.rev)
     /\ lockSeen' = [lockSeen EXCEPT ![e.order] = SeenLock(e.order, e.row)]
  /\ UNCHANGED <<brokerVars, serviceVars, connected, acked, readVars, commandVars, changes>>

\* A read begins, unless a command is under way; the service notes its revision first.
Poll ==
  /\ request.kind = "none" /\ command.kind = "none"
  /\ request' = [kind |-> "sent", read |-> [NoRead EXCEPT !.label = revision]]
  /\ UNCHANGED <<brokerVars, serviceVars, wireVars, eventVars, base, outdated, commandVars, changes, lockSeen>>

\* acceptTradingOrderSnapshot: closed rows leave tombstones against late answers.
Tombstone(o, read) ==
  LET e == events[o]
      row == read.closedRows[o]
      merged == MergeRow(e.row, row, TRUE)
  IN IF row = NoRow \/ merged = NoRow \/ (e # NoEvent /\ read.label < e.rev) THEN e
     ELSE [e EXCEPT !.row = merged, !.rev = read.label]

Receive ==
  /\ request.kind = "sent" /\ request.read.open /\ request.read.closed
  /\ base' = request.read /\ request' = NoRequest /\ outdated' = FALSE
  /\ events' = [o \in Order |-> Tombstone(o, request.read)]
  /\ UNCHANGED <<brokerVars, serviceVars, wireVars, replacements, acked, commandVars, changes, lockSeen>>

FailRead ==
  /\ Change /\ request.kind = "sent" /\ request' = NoRequest
  /\ UNCHANGED <<brokerVars, serviceVars, wireVars, eventVars, base, outdated, commandVars, lockSeen>>

Disconnect ==
  /\ Change /\ connected /\ connected' = FALSE /\ wire' = <<>>
  /\ UNCHANGED <<brokerVars, serviceVars, eventVars, readVars, commandVars, lockSeen>>

\* Mutant: all events are forgotten.
ReconnectAnew ==
  /\ ~connected /\ connected' = TRUE
  /\ events' = [o \in Order |-> NoEvent]
  /\ replacements' = [o \in Order |-> 0]
  /\ lockSeen' = [o \in Order |-> 0]
  /\ UNCHANGED <<brokerVars, serviceVars, wire, acked, readVars, commandVars, changes>>

\* resetTradingOrderEvents: of the events, only what is terminal is kept.
Reconnect ==
  /\ ~connected /\ connected' = TRUE
  /\ events' = [o \in Order |-> IF events[o].row.status \in TerminalStates
                                THEN [events[o] EXCEPT !.rev = -1] ELSE NoEvent]
  /\ replacements' = [o \in Order |-> 0]
  /\ lockSeen' = [o \in Order |-> 0]
  /\ UNCHANGED <<brokerVars, serviceVars, wire, acked, readVars, commandVars, changes>>

---------------------------------------------------------------------------
(* The order window's modifications.                                       *)

\* editableOrder and awaitingResult.
Rejected(n) == Shown(n).recent.status = "REPLACE_REJECTED"
AwaitsResult(o) == awaiting[o] # 0 /\ ~Rejected(awaiting[o])
Editable(o) == Shown(o).open.status \in Resting /\ ~AwaitsResult(o)

\* pauseTradingRefresh: the read under way is cancelled.
Modify(o) ==
  /\ Change /\ command.kind = "none" /\ Editable(o)
  /\ command' = [NoCommand EXCEPT !.kind = "sent", !.order = o]
  /\ request' = NoRequest
  /\ UNCHANGED <<brokerVars, serviceVars, wireVars, eventVars, base, outdated, awaiting, lockSeen>>

\* acceptTradingReplacement, with the events that came before the acknowledgement.
Accept(o, n) ==
  LET old == IF events[o] = NoEvent THEN events ELSE [events EXCEPT ![o].ready = FALSE]
      e   == old[n]
      completed == MergeRow(e.row, e.completion, TRUE)
      new == IF e.row.status = "PENDING_REPLACE" /\ e.completion # NoRow /\ completed # NoRow
             THEN [e EXCEPT !.row = completed, !.completion = NoRow] ELSE e
      ready == new.row.status \in CompletedReplacementStates
  IN /\ events' = [old EXCEPT ![n] =
                    IF ready THEN [new EXCEPT !.ready = TRUE, !.replaces = o] ELSE new]
     /\ replacements' = [replacements EXCEPT ![o] = 0, ![n] = IF Settled(new.row) THEN 0 ELSE o]

Acknowledge ==
  /\ command.kind = "accepted"
  /\ Accept(command.order, command.id)
  /\ acked' = acked \cup {command.id}
  /\ awaiting' = [awaiting EXCEPT ![command.order] = command.id]
  /\ command' = NoCommand
  /\ UNCHANGED <<brokerVars, serviceVars, wireVars, readVars, changes, lockSeen>>

\* The command is refused, or its answer is lost.
FailCommand ==
  /\ \/ command.kind = "sent" /\ UNCHANGED changes
     \/ command.kind = "accepted" /\ Change
  /\ command' = NoCommand
  /\ UNCHANGED <<brokerVars, serviceVars, wireVars, eventVars, readVars, awaiting, lockSeen>>

---------------------------------------------------------------------------
Broker ==
  \/ \E o \in Order : Fill(o) \/ StartCancel(o) \/ \E own \in BOOLEAN : StartReplace(o, own)
  \/ \E o \in Order : EndReplace(o) \/ RejectReplace(o) \/ EndCancel(o)
Next ==
  \/ Broker \/ Deliver \/ LoseStream \/ ResumeStream \/ Restart \/ ReadOpen \/ ReadClosed
  \/ OnEvent \/ Poll \/ Receive \/ FailRead \/ Disconnect \/ Reconnect
  \/ \E o \in Order : Modify(o)
  \/ Acknowledge \/ FailCommand

\* Operations end, what is sent arrives, and the tab reads at every interval.
Fairness ==
  /\ \A o \in Order : WF_vars(EndReplace(o) \/ RejectReplace(o)) /\ WF_vars(EndCancel(o))
  /\ WF_vars(Deliver) /\ WF_vars(ResumeStream) /\ WF_vars(OnEvent) /\ WF_vars(Reconnect)
  /\ WF_vars(Poll) /\ WF_vars(ReadOpen) /\ WF_vars(ReadClosed) /\ WF_vars(Receive)
  /\ WF_vars(Acknowledge \/ FailCommand)

Spec == Init /\ [][Next]_vars /\ Fairness

---------------------------------------------------------------------------
Gone(o) == LET s == Shown(o) IN s.open = NoRow /\ s.recent # NoRow
Listed(o) == LET s == Shown(o) IN Or(s.open, s.recent)

(* An order that is shown as ended is never shown open again, whatever     *)
(* events and answers are late, whatever was lost and reconnected.         *)
NoResurrection == [][\A o \in Order : Gone(o) => Gone(o)']_vars

(* Not kept by the code, see the README: 'late REST data and old event     *)
(* revisions cannot undo new fills' (tradingOrderEvents.test.ts).          *)
FillsGrow ==
  [][\/ Reconnect
     \/ \A o \in Order : Listed(o).filled > Listed(o)'.filled => Listed(o)' = NoRow]_vars

(* An order whose processing an event has shown is not shown as resting    *)
(* before that operation has ended at the broker, unless it is one that    *)
(* the tab itself was acknowledged, or what it shows is an answer of a     *)
(* service that has restarted since.                                       *)
Locked(o) == broker[o].status \in Processing /\ lockSeen[o] = broker[o].op
LocksHold ==
  ~outdated => \A o \in Order \ acked : Locked(o) => Shown(o).open.status \notin Resting

(* Not kept by the code, see the README.                                   *)
(* 'A later request on this ID must not inherit a previous completion      *)
(* permission' (tradingOrderEvents.test.ts): the same of every order.      *)
NoInheritedUnlock == \A o \in Order : Locked(o) => Shown(o).open.status \notin Resting

(* An order that is shown as ended has ended at the broker with that row;  *)
(* an order that is taken off the list for its replacement was replaced.   *)
EndsAreTrue ==
  \A o \in Order :
    /\ Gone(o) => [Shown(o).recent EXCEPT !.op = 0] = [broker[o] EXCEPT !.op = 0]
    /\ base # NoRead /\ Retired(o) => broker[o].status \notin OpenStates

(* What the tab shows of an order does not run ahead of the broker.        *)
NotAhead == LocksHold /\ EndsAreTrue

(* In the end the tab shows what is true, whatever was lost before.        *)
Converged ==
  \A o \in Order :
    Shown(o).open = IF broker[o].status \in OpenStates THEN broker[o] ELSE NoRow
Converges == <>[]Converged
=============================================================================
