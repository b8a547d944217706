---------------------------- MODULE TossTrading ----------------------------
(***************************************************************************)
(* The command path of TradingService (hoga/trading/service.py): durable   *)
(* dispatch, the per-order and per-(account, code) locks, the modification *)
(* slots, the barrier a create passes before its uncertainty check, the    *)
(* bulk cancel with its frozen targets, manual review, and a crash of the  *)
(* process at any point.  The broker is external.                          *)
(*                                                                         *)
(* One action is what a task does between two awaits.  asyncio.Lock wakes  *)
(* its waiters in FIFO order and no command task is ever cancelled (every  *)
(* waiter shields it), so a lock is the sequence of tasks that asked for   *)
(* it, its owner first.                                                    *)
(***************************************************************************)
EXTENDS CommandJournal

CONSTANTS
  ModifySlots,  \* MAX_CONCURRENT_MODIFICATIONS
  CancelSlots,  \* MAX_CONCURRENT_CANCELS
  MaxCrashes    \* bound on process crashes (not in the code)

ASSUME SlotAssumption ==
  /\ ModifySlots \in Nat \ {0}
  /\ CancelSlots \in Nat \ {0}
  /\ MaxCrashes \in Nat

VARIABLES
  journal,   \* durable: state column
  begun,     \* durable: ids by created column
  targets,   \* durable: the frozen targets of a bulk cancel (result column)
  tasks,     \* self._commands and self._batches
  pc,        \* where each task is suspended
  orderQ,    \* self._order_locks: owner and waiters
  keyQ,      \* self._locks: owner and waiters
  mods,      \* self._modifications
  barrier,   \* the modifications a create gathered
  prior,     \* the operation whose status is being read
  left,      \* targets a bulk cancel has not dispatched in this run
  broker,    \* external: what the broker did with the POST
  posts,     \* history: POSTs that left the process
  crashes

durable == <<journal, begun, targets>>
locks == <<orderQ, keyQ, mods, barrier>>
external == <<broker, posts>>
vars == <<durable, tasks, pc, locks, prior, left, external, crashes>>

PC == {"idle", "order", "key", "barrier", "check", "read", "prior", "ready", "sent",
       "open", "run", "failed"}

TypeOK ==
  /\ journal \in [Cmd -> JournalState \ {"prepared"}]
  /\ begun \in Seq(Cmd)
  /\ \A b \in Cmd : targets[b] \subseteq Children(b) /\ left[b] \subseteq Children(b)
  /\ targets \in [Cmd -> SUBSET Cmd]
  /\ tasks \in SUBSET Cmd
  /\ pc \in [Cmd -> PC]
  /\ orderQ \in [Order -> Seq(Cmd)]
  /\ keyQ \in [Key -> Seq(Cmd)]
  /\ mods \in [Key -> SUBSET Cmd]
  /\ barrier \in [Cmd -> SUBSET Cmd]
  /\ prior \in [Cmd -> Cmd \cup {NoCmd}]
  /\ left \in [Cmd -> SUBSET Cmd]
  /\ broker \in [Cmd -> {"none", "inflight", "refused", "applied", "undone"}]
  /\ posts \in [Cmd -> Nat]
  /\ crashes \in 0..MaxCrashes

Init ==
  /\ journal = [c \in Cmd |-> "none"]
  /\ begun = <<>>
  /\ targets = [c \in Cmd |-> {}]
  /\ tasks = {}
  /\ pc = [c \in Cmd |-> "idle"]
  /\ orderQ = [o \in Order |-> <<>>]
  /\ keyQ = [k \in Key |-> <<>>]
  /\ mods = [k \in Key |-> {}]
  /\ barrier = [c \in Cmd |-> {}]
  /\ prior = [c \in Cmd |-> NoCmd]
  /\ left = [c \in Cmd |-> {}]
  /\ broker = [c \in Cmd |-> "none"]
  /\ posts = [c \in Cmd |-> 0]
  /\ crashes = 0

-----------------------------------------------------------------------------
(* Helpers *)

\* The state of a new row: prepared=False.
NewRow == "sending"

Goto(c, l) == pc' = [pc EXCEPT ![c] = l]

\* c owns a lock whose owner and waiters are q.
Owns(c, q) == q # <<>> /\ Head(q) = c

\* The owner leaves the lock; a task that does not own it leaves it alone.
Release(c, q) == IF Owns(c, q) THEN Tail(q) ELSE q

\* Modifications that hold one of self._modify_slots.
SlotHolders == {c \in tasks : Kind[c] = "modify" /\ pc[c] # "order"}

\* uncertain(): unresolved rows that no task of this process is working on.
Uncertain(k) == Unresolved(journal, k) \ tasks

(***************************************************************************)
(* The end of _execute: the row gets state s (it keeps "sending" when s is *)
(* "sending"), the exit stack releases the locks, the finally clause       *)
(* forgets the task and the modification.                                  *)
(***************************************************************************)
Leave(c, s) ==
  /\ journal' = [journal EXCEPT ![c] = s]
  /\ tasks' = tasks \ {c}
  /\ orderQ' = [o \in Order |-> Release(c, orderQ[o])]
  /\ keyQ' = [k \in Key |-> Release(c, keyQ[k])]
  /\ mods' = [k \in Key |-> mods[k] \ {c}]
  /\ barrier' = [barrier EXCEPT ![c] = {}]
  /\ prior' = [prior EXCEPT ![c] = NoCmd]
  /\ UNCHANGED <<begun, targets, left, external, crashes>>

Finish(c, s) == Leave(c, s) /\ Goto(c, "idle")

(***************************************************************************)
(* dispatch_command for an id without a row: the row, the task and its     *)
(* first step, which asks for the order lock (modify, cancel) or for the   *)
(* key lock (create).  Tasks start in the order they were created, so the  *)
(* order of created columns is the order of the lock's waiters.            *)
(***************************************************************************)
StartCommand(c) ==
  /\ IsNew(journal, c)
  /\ journal' = [journal EXCEPT ![c] = NewRow]
  /\ begun' = Append(begun, c)
  /\ tasks' = tasks \cup {c}
  /\ IF Kind[c] = "create"
       THEN /\ Goto(c, "key")
            /\ keyQ' = [keyQ EXCEPT ![KeyOf[c]] = Append(@, c)]
            /\ UNCHANGED orderQ
       ELSE /\ Goto(c, "order")
            /\ orderQ' = [orderQ EXCEPT ![OrderOf[c]] = Append(@, c)]
            /\ UNCHANGED keyQ
  /\ UNCHANGED <<targets, mods, barrier, prior, external, crashes>>

-----------------------------------------------------------------------------
(* Commands *)

\* execute() of a client's own command.  A retry of an id that has a row
\* replays its result, joins its task or answers 409: no state changes.
Dispatch(c) ==
  /\ Kind[c] # "bulk" /\ Parent[c] = NoCmd
  /\ StartCommand(c)
  /\ UNCHANGED left

TakeOrderLock(c) ==
  /\ pc[c] = "order" /\ Owns(c, orderQ[OrderOf[c]])
  /\ IF Kind[c] = "modify"
       THEN /\ Cardinality(SlotHolders) < ModifySlots
            /\ Goto(c, "key")
            /\ keyQ' = [keyQ EXCEPT ![KeyOf[c]] = Append(@, c)]
       ELSE Goto(c, "check") /\ UNCHANGED keyQ
  /\ UNCHANGED <<durable, tasks, orderQ, mods, barrier, prior, left, external, crashes>>

\* A modification registers under the key lock and gives it back at once.
Register(c) ==
  /\ Kind[c] = "modify" /\ pc[c] = "key" /\ Owns(c, keyQ[KeyOf[c]])
  /\ mods' = [mods EXCEPT ![KeyOf[c]] = @ \cup {c}]
  /\ keyQ' = [keyQ EXCEPT ![KeyOf[c]] = Tail(@)]
  /\ Goto(c, "check")
  /\ UNCHANGED <<durable, tasks, orderQ, barrier, prior, left, external, crashes>>

\* Mutant of TakeKeyLock: waits for every running modification, the ones that
\* have not registered included.
TakeKeyLockForAll(c) ==
  /\ Kind[c] = "create" /\ pc[c] = "key" /\ Owns(c, keyQ[KeyOf[c]])
  /\ barrier' = [barrier EXCEPT ![c] = {d \in tasks : Kind[d] = "modify" /\ KeyOf[d] = KeyOf[c]}]
  /\ Goto(c, "barrier")
  /\ UNCHANGED <<durable, tasks, orderQ, keyQ, mods, prior, left, external, crashes>>

\* A create keeps the key lock and gathers the modifications registered so far.
TakeKeyLock(c) ==
  /\ Kind[c] = "create" /\ pc[c] = "key" /\ Owns(c, keyQ[KeyOf[c]])
  /\ barrier' = [barrier EXCEPT ![c] = mods[KeyOf[c]]]
  /\ Goto(c, "barrier")
  /\ UNCHANGED <<durable, tasks, orderQ, keyQ, mods, prior, left, external, crashes>>

\* Mutant of PassBarrier: the gather is not awaited.
PassBarrierAtOnce(c) ==
  /\ pc[c] = "barrier"
  /\ Goto(c, "check")
  /\ UNCHANGED <<durable, tasks, locks, prior, left, external, crashes>>

PassBarrier(c) ==
  /\ pc[c] = "barrier"
  /\ barrier[c] \cap tasks = {}
  /\ Goto(c, "check")
  /\ UNCHANGED <<durable, tasks, locks, prior, left, external, crashes>>

\* _submit of a create, after the stock read: no other uncertain command of
\* this account and code.
CheckCreate(c) ==
  /\ Kind[c] = "create" /\ pc[c] = "check"
  /\ Uncertain(KeyOf[c]) \subseteq {c}
  /\ Goto(c, "ready")
  /\ UNCHANGED <<durable, tasks, locks, prior, left, external, crashes>>

\* _submit of a modify or cancel: no uncertain operation on the same order.
CheckOrder(c) ==
  /\ Kind[c] \in {"modify", "cancel"} /\ pc[c] = "check"
  /\ ~UncertainOperation(journal, tasks, c)
  /\ Goto(c, "read")
  /\ UNCHANGED <<durable, tasks, locks, prior, left, external, crashes>>

\* The order is editable (a fresh read, or the OPEN list a bulk cancel read);
\* the latest accepted operation on it, if any, is read next.
ReadOrder(c) ==
  /\ pc[c] = "read"
  /\ LET rows == AcceptedOperations(journal, begun, c)
     IN  \/ rows = {} /\ Goto(c, "ready") /\ UNCHANGED prior
         \/ \E i \in rows : /\ IsLatest(i, rows)
                           /\ prior' = [prior EXCEPT ![c] = begun[i]]
                           /\ Goto(c, "prior")
  /\ UNCHANGED <<durable, tasks, locks, left, external, crashes>>

\* Only CANCEL_REJECTED or REPLACE_REJECTED allows another operation.
ReadPrior(c) ==
  /\ pc[c] = "prior"
  /\ broker[prior[c]] = "undone"
  /\ Goto(c, "ready")
  /\ UNCHANGED <<durable, tasks, locks, prior, left, external, crashes>>

\* A TradingError before the POST: a failed check or read, the amount check,
\* the token.
Refuse(c) ==
  /\ pc[c] \in {"check", "read", "prior", "ready"}
  /\ Finish(c, "rejected")

\* TossClient.request after the token and the pacing delay.
Post(c) ==
  /\ pc[c] = "ready"
  /\ Goto(c, "sent")
  /\ posts' = [posts EXCEPT ![c] = @ + 1]
  /\ broker' = [broker EXCEPT ![c] = "inflight"]
  /\ UNCHANGED <<durable, tasks, locks, prior, left, crashes>>

\* A well-formed answer: success with an order id, or a 4xx.
Answer(c) ==
  /\ pc[c] = "sent"
  /\ \/ broker[c] \in {"applied", "undone"} /\ Finish(c, "accepted")
     \/ broker[c] = "refused" /\ Finish(c, "rejected")

\* Network error, timeout, 5xx or an unreadable answer, whatever the broker did.
LoseAnswer(c) ==
  /\ pc[c] = "sent"
  /\ Finish(c, "unknown")

\* Any other exception (a malformed order, a failed journal write) ends the
\* task, leaves the row as it is, and fails the bulk cancel that awaits it.
Die(c) ==
  /\ pc[c] \in {"check", "read", "prior", "ready", "sent"}
  /\ Leave(c, journal[c])
  /\ LET awaits(b) == b = Parent[c] /\ pc[b] = "run" /\ c \notin left[b]
     IN  pc' = [x \in Cmd |-> IF x = c THEN "idle"
                              ELSE IF awaits(x) THEN "failed" ELSE pc[x]]

-----------------------------------------------------------------------------
(* Bulk cancel *)

\* cancel_all(): a new id, or a frozen one no task is running.
BulkBegin(b) ==
  /\ Kind[b] = "bulk" /\ b \notin tasks
  /\ \/ IsNew(journal, b) /\ journal' = [journal EXCEPT ![b] = "sending"]
                          /\ begun' = Append(begun, b)
     \/ journal[b] = "batch" /\ UNCHANGED <<journal, begun>>
  /\ tasks' = tasks \cup {b}
  /\ Goto(b, "open")
  /\ UNCHANGED <<targets, locks, prior, left, external, crashes>>

\* The OPEN list arrives.  The first run freezes the targets it names; a
\* resumed one keeps the frozen ones.
BulkFreeze(b) ==
  /\ pc[b] = "open"
  /\ \/ /\ journal[b] = "sending"
        /\ \E T \in SUBSET Children(b) : targets' = [targets EXCEPT ![b] = T]
        /\ journal' = [journal EXCEPT ![b] = "batch"]
     \/ journal[b] = "batch" /\ UNCHANGED <<journal, targets>>
  /\ left' = [left EXCEPT ![b] = targets'[b]]
  /\ Goto(b, "run")
  /\ UNCHANGED <<begun, tasks, locks, prior, external, crashes>>

\* The OPEN list cannot be read (TradingError): only an unfrozen bulk ends.
BulkRefuse(b) ==
  /\ pc[b] = "open"
  /\ Finish(b, IF journal[b] = "sending" THEN "rejected" ELSE journal[b])

\* cancel_target(): the child's command, with its deterministic id.  A child
\* that has a row is joined or answered from the journal.  The coroutines of
\* a failed run are not cancelled: they go on dispatching.
BulkChild(b, c) ==
  /\ c \in left[b]
  /\ Cardinality({d \in tasks : Parent[d] # NoCmd}) < CancelSlots
  /\ left' = [left EXCEPT ![b] = @ \ {c}]
  /\ \/ StartCommand(c)
     \/ /\ ~IsNew(journal, c)
        /\ UNCHANGED <<durable, tasks, pc, locks, prior, external, crashes>>

BulkFinish(b) ==
  /\ pc[b] = "run" /\ left[b] = {}
  /\ Children(b) \cap tasks = {}
  /\ Finish(b, "accepted")

\* An exception that is not a TradingError: from the OPEN list, or from a
\* child whose task died.
BulkDie(b) ==
  /\ pc[b] \in {"open", "failed"}
  /\ Finish(b, journal[b])

-----------------------------------------------------------------------------
(* The operator, the process and the broker *)

\* Mutant of Review: the running commands are not looked at.
ReviewRunning(c) ==
  /\ Reviewable(journal, c)
  /\ journal' = [journal EXCEPT ![c] = "reviewed"]
  /\ UNCHANGED <<begun, targets, tasks, pc, locks, prior, left, external, crashes>>

\* review(): the operator settles a row no task is working on.
Review(c) ==
  /\ c \notin tasks
  /\ Reviewable(journal, c)
  /\ journal' = [journal EXCEPT ![c] = "reviewed"]
  /\ UNCHANGED <<begun, targets, tasks, pc, locks, prior, left, external, crashes>>

\* The process dies and comes back: only the journal is left.
Crash ==
  /\ crashes < MaxCrashes
  /\ crashes' = crashes + 1
  /\ tasks' = {}
  /\ pc' = [c \in Cmd |-> "idle"]
  /\ orderQ' = [o \in Order |-> <<>>]
  /\ keyQ' = [k \in Key |-> <<>>]
  /\ mods' = [k \in Key |-> {}]
  /\ barrier' = [c \in Cmd |-> {}]
  /\ prior' = [c \in Cmd |-> NoCmd]
  /\ left' = [c \in Cmd |-> {}]
  /\ UNCHANGED <<durable, external>>

\* The broker takes or refuses a request it got; it may later reject an
\* operation it had taken (CANCEL_REJECTED, REPLACE_REJECTED).
BrokerStep(c) ==
  /\ \/ broker[c] = "inflight" /\ \E r \in {"applied", "refused"} :
                                     broker' = [broker EXCEPT ![c] = r]
     \/ /\ broker[c] = "applied" /\ Kind[c] # "create"
        /\ broker' = [broker EXCEPT ![c] = "undone"]
  /\ UNCHANGED <<durable, tasks, pc, locks, prior, left, posts, crashes>>

Step(c) ==
  \/ TakeOrderLock(c) \/ Register(c) \/ TakeKeyLock(c) \/ PassBarrier(c)
  \/ CheckCreate(c) \/ CheckOrder(c) \/ ReadOrder(c) \/ ReadPrior(c)
  \/ Refuse(c) \/ Post(c) \/ Answer(c) \/ LoseAnswer(c)

BulkStep(b) ==
  \/ BulkFreeze(b) \/ BulkRefuse(b) \/ BulkFinish(b) \/ BulkDie(b)
  \/ \E c \in Cmd : BulkChild(b, c)

Next ==
  \/ \E c \in Cmd : Dispatch(c) \/ BulkBegin(c) \/ Step(c) \/ Die(c) \/ BulkStep(c)
                    \/ Review(c) \/ BrokerStep(c)
  \/ Crash

\* The event loop runs every task that can go on, and every HTTP call ends
\* (the client has a timeout).  Nothing obliges a client, the operator or the
\* broker to act, nor an exception to come.
Fairness ==
  /\ \A c \in Cmd \ Bulk : WF_vars(Step(c))
  /\ \A b \in Bulk : WF_vars(BulkStep(b))

Spec == Init /\ [][Next]_vars /\ Fairness

-----------------------------------------------------------------------------
(* Properties *)

Sent(c) == pc[c] = "sent"

\* c has been sent and nobody knows, or has reviewed, its outcome.
InDoubt(c) == posts[c] > 0 /\ journal[c] \in UnresolvedState

\* A command id reaches the broker at most once, whatever retries, crashes and
\* restarts follow ("restart never replays writes", service.py:63).
AtMostOnePost == \A c \in Cmd : posts[c] <= 1

\* What the journal tells a client is what the broker did.
OutcomeIsTrue ==
  \A c \in Single :
    /\ journal[c] = "accepted" => broker[c] \in {"applied", "undone"}
    /\ journal[c] = "rejected" => broker[c] \in {"none", "refused"}

\* The strengthening that makes the two above inductive: what the place of a
\* task and its row say of the requests sent.
SubmissionInv ==
  /\ \A c \in Cmd : c \in tasks <=> pc[c] # "idle"
  /\ \A c \in Bulk : posts[c] = 0 /\ pc[c] \in {"idle", "open", "run", "failed"}
  /\ \A c \in Single :
       /\ pc[c] \notin {"open", "run", "failed"}
       /\ c \in tasks => journal[c] = "sending"
       /\ journal[c] # "batch"
       /\ journal[c] = "none" => posts[c] = 0
       /\ journal[c] = "unknown" => posts[c] = 1
       /\ pc[c] \notin {"idle", "sent"} => posts[c] = 0
       /\ pc[c] = "sent" => posts[c] = 1
  /\ \A c \in Cmd : posts[c] = 0 <=> broker[c] = "none"
  /\ AtMostOnePost
  /\ OutcomeIsTrue

\* While a create is at the broker no other create or modify of its account and
\* code is in doubt: neither at the broker, nor lost and not yet reviewed.
CreateAlone ==
  \A c, d \in Cmd :
    (Sent(c) /\ Kind[c] = "create" /\ c # d /\ KeyOf[c] = KeyOf[d]
       /\ Kind[d] \in {"create", "modify"})
      => ~InDoubt(d)

\* While an operation on an order is at the broker, every other operation on
\* that order is over: not in doubt, and if accepted, rejected afterwards.
OneOperationPerOrder ==
  \A c, d \in Cmd :
    (Sent(c) /\ c # d /\ OrderOf[c] \in Order /\ OrderOf[d] = OrderOf[c]
       /\ KeyOf[c] = KeyOf[d])
      => ~InDoubt(d) /\ ~(journal[d] = "accepted" /\ broker[d] = "applied")

\* A bulk cancel cancels only orders it had frozen in the journal before.
FrozenBeforeCancel ==
  \A b \in Bulk : \A c \in Children(b) :
    journal[c] # "none" => c \in targets[b] /\ journal[b] \in {"batch", "accepted"}

\* Once a bulk cancel has told its client that it is done, every frozen target
\* has had its own command and none of them is still running.
BulkAnswersForAll ==
  \A b \in Bulk : journal[b] = "accepted" =>
    \A c \in targets[b] : journal[c] # "none" /\ c \notin tasks

\* The writes of one account are sound together: creates alone, one operation at
\* a time on an order, and bulk cancels that cancel what they froze and answer.
WritesSound ==
  CreateAlone /\ OneOperationPerOrder /\ FrozenBeforeCancel /\ BulkAnswersForAll

\* No chain of order lock, modify slot, key lock, barrier and cancel slot holds a
\* task for ever: every command and every bulk cancel ends.
EveryTaskEnds == \A c \in Cmd : c \in tasks ~> c \notin tasks

\* The abstract view of a row and of the broker.
Told(s) == CASE s = "none" -> "nothing"
             [] s \in {"prepared", "sending"} -> "pending"
             [] OTHER -> s

Effect(b) == CASE b \in {"none", "inflight"} -> "none"
               [] b \in {"applied", "undone"} -> "taken"
               [] OTHER -> b

Promise == INSTANCE SingleSubmission WITH
  Cmd <- Single,
  told <- [c \in Single |-> Told(journal[c])],
  submitted <- [c \in Single |-> posts[c]],
  effect <- [c \in Single |-> Effect(broker[c])]

\* The service implements the promise: at most one submission of a command,
\* told as it happened, through crashes, retries and reviews.
ImplementsPromise == Promise!Init /\ [][Promise!Next]_Promise!vars
=============================================================================
