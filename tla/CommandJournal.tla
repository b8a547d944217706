--------------------------- MODULE CommandJournal ---------------------------
(***************************************************************************)
(* The command journal: one sqlite row per command id, written BEFORE a    *)
(* request leaves the process and read by every later decision about it    *)
(* (hoga/trading/service.py, class CommandJournal; shared by both trading  *)
(* services through hoga/trading/commands.py).                             *)
(*                                                                         *)
(* A command id is a member of Cmd and its payload is fixed by constants:  *)
(* begin() refuses the same id with another payload and changes nothing,   *)
(* so no state is lost by giving each id one payload.  The table itself is *)
(* a variable of the module that owns it and an argument here:             *)
(*   journal[c]  the state column, "none" where there is no row            *)
(*   begun       the ids in the order of their created column              *)
(***************************************************************************)
EXTENDS Naturals, Sequences, FiniteSets

CONSTANTS
  Cmd,      \* command ids a client, or a bulk cancel, may use
  NoCmd,    \* no command
  Key,      \* (account, code) pairs
  Order,    \* broker order ids
  NoOrder,  \* the empty order_id of a create or a bulk payload
  Kind,     \* payload action of each command
  KeyOf,    \* payload account and code of each command
  OrderOf,  \* payload order_id of each command
  Parent    \* the bulk cancel whose uuid5 gives this id, or NoCmd

ASSUME PayloadAssumption ==
  /\ NoCmd \notin Cmd
  /\ NoOrder \notin Order
  /\ Kind \in [Cmd -> {"create", "modify", "cancel", "bulk"}]
  /\ KeyOf \in [Cmd -> Key]
  /\ OrderOf \in [Cmd -> Order \cup {NoOrder}]
  /\ Parent \in [Cmd -> Cmd \cup {NoCmd}]
  /\ \A c \in Cmd : (OrderOf[c] \in Order) <=> (Kind[c] \in {"modify", "cancel"})
  /\ \A c \in Cmd : Parent[c] # NoCmd =>
        Kind[c] = "cancel" /\ Kind[Parent[c]] = "bulk" /\ KeyOf[c] = KeyOf[Parent[c]]

JournalState == {"none", "prepared", "sending", "batch", "accepted", "rejected",
                 "unknown", "reviewed"}

\* The rows that unresolved() selects: sent, or about to be, without a known end.
UnresolvedState == {"sending", "unknown"}

Single == {c \in Cmd : Kind[c] # "bulk"}
Bulk == {c \in Cmd : Kind[c] = "bulk"}
Children(b) == {c \in Cmd : Parent[c] = b}

\* begin() answers "new" only for an id without a row.
IsNew(journal, c) == journal[c] = "none"

Unresolved(journal, k) == {c \in Cmd : journal[c] \in UnresolvedState /\ KeyOf[c] = k}

\* A row of this order, of another command that no task is running.
UncertainOperation(journal, active, c) ==
  \E d \in Unresolved(journal, KeyOf[c]) \ (active \cup {c}) : OrderOf[d] = OrderOf[c]

\* The rows latest_operation() selects: accepted operations on this order.
AcceptedOperations(journal, begun, c) ==
  {i \in DOMAIN begun : /\ journal[begun[i]] = "accepted"
                        /\ KeyOf[begun[i]] = KeyOf[c]
                        /\ OrderOf[begun[i]] = OrderOf[c]}

\* ORDER BY created DESC: the first row of the answer.
IsLatest(i, rows) == i \in rows /\ \A j \in rows : j <= i

\* review() rewrites only rows without a known end.
Reviewable(journal, c) == journal[c] \in UnresolvedState \cup {"reviewed"}
=============================================================================
