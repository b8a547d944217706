--------------------------- MODULE KiwoomTrading ---------------------------
(***************************************************************************)
(* The Kiwoom command path of BrokerTradingService                         *)
(* (hoga/trading/multi_broker.py) for one account and code: dispatch, the  *)
(* code gate (KiwoomCodeGate), the preflight reads, the durable "sending"  *)
(* mark just before the HTTP request, the classification of every end,     *)
(* the sequential bulk cancel, review, and a crash at any point.           *)
(*                                                                         *)
(* The variables of the gate are those of KiwoomCodeGate; a ticket is the  *)
(* command that holds it, its order_ref the order.  The modify slot and    *)
(* the order lock taken behind the gate are never contended by commands of *)
(* one code (the gate admits MaxGranted modifications of different orders, *)
(* or one write); waiting for them because of other codes ends in the      *)
(* deadline, like every other preflight failure (Refuse).                  *)
(***************************************************************************)
EXTENDS CommandJournal, KiwoomCodeGate

CONSTANTS
  Real,        \* the account is a real one (not a mock one)
  MaxCrashes   \* bound on process crashes (not in the code)

VARIABLES
  journal,   \* durable: state column
  targets,   \* durable: the frozen targets of a bulk cancel
  tasks,     \* self._tasks and self._batches
  pc,        \* where each task is suspended
  left,      \* targets a bulk cancel has not dispatched in this run
  broker,    \* external: what the broker did with the request
  posts,     \* history: requests that left the process
  crashes

Modify == {c \in Cmd : Kind[c] = "modify"}

\* A proof of identity holds the number of its order (kiwoom_admission.py:50).
ASSUME KiwoomAssumption ==
  /\ Real \in BOOLEAN
  /\ MaxCrashes \in Nat
  /\ \A c, d \in Cmd : KeyOf[c] = KeyOf[d]
  /\ Lease = Single /\ Ref = Order
  /\ \A c \in Lease : RefOf[c] = OrderOf[c]
  /\ Parallel = IF Real THEN Modify ELSE {}
  /\ \A o \in Order : o \in Related[o]

durable == <<journal, targets>>
external == <<broker, posts>>
vars == <<gateVars, durable, tasks, pc, left, external, crashes>>

TypeOK ==
  /\ GateTypeOK
  /\ journal \in [Cmd -> JournalState]
  /\ \A c \in Single : journal[c] # "batch"
  /\ \A b \in Bulk : journal[b] \in {"none", "prepared", "batch", "accepted", "reviewed"}
  /\ targets \in [Cmd -> SUBSET Cmd]
  /\ left \in [Cmd -> SUBSET Cmd]
  /\ \A b \in Cmd : targets[b] \subseteq Children(b) /\ left[b] \subseteq Children(b)
  /\ tasks \in SUBSET Cmd
  /\ pc \in [Cmd -> {"idle", "gate", "read", "ready", "sending", "sent", "open", "run", "failed"}]
  /\ broker \in [Cmd -> {"none", "inflight", "refused", "applied", "undone"}]
  /\ posts \in [Cmd -> Nat]
  /\ crashes \in 0..MaxCrashes

Init ==
  /\ GateInit
  /\ journal = [c \in Cmd |-> "none"]
  /\ targets = [c \in Cmd |-> {}]
  /\ left = [c \in Cmd |-> {}]
  /\ tasks = {}
  /\ pc = [c \in Cmd |-> "idle"]
  /\ broker = [c \in Cmd |-> "none"]
  /\ posts = [c \in Cmd |-> 0]
  /\ crashes = 0

-----------------------------------------------------------------------------
Goto(c, l) == pc' = [pc EXCEPT ![c] = l]

\* self.unresolved(): what a task of this process is not working on.
UnresolvedNow == {c \in Cmd : journal[c] \in UnresolvedState \cup {"prepared"}} \ tasks

\* The rows that refuse command c after its account check.
Blocking(c) ==
  {d \in UnresolvedNow :
     \/ Kind[c] = "create"
     \/ Real /\ c \notin follower /\ Kind[d] \in {"create", "modify"}
     \/ OrderOf[d] = OrderOf[c]}

\* Mutant of PriorOperationsOver: an accepted operation counts as over.
PriorOperationsTold(c) ==
  \A d \in Single \ {c} :
    OrderOf[d] = OrderOf[c] => journal[d] \notin {"sending", "unknown"}

\* Every earlier operation on the order was accepted and then rejected.
PriorOperationsOver(c) ==
  \A d \in Single \ {c} :
    OrderOf[d] = OrderOf[c] /\ journal[d] \in {"accepted", "sending", "unknown"}
      => journal[d] = "accepted" /\ broker[d] = "undone"

\* The end of _execute: the row, lease.complete, the task, the gate (which a
\* ticket may leave from the queue when its deadline passes).
Leave(c, s, uncertain) ==
  /\ journal' = [journal EXCEPT ![c] = s]
  /\ Exit(c, uncertain) \/ Expire(c)
  /\ tasks' = tasks \ {c}
  /\ UNCHANGED <<targets, left, external, crashes>>

Finish(c, s, uncertain) == Leave(c, s, uncertain) /\ Goto(c, "idle")

-----------------------------------------------------------------------------
(* Commands *)

\* dispatch_command for a new id; the task's first step queues its ticket.
StartCommand(c) ==
  /\ IsNew(journal, c)
  /\ journal' = [journal EXCEPT ![c] = "prepared"]
  /\ tasks' = tasks \cup {c}
  /\ Goto(c, "gate")
  /\ Enter(c)
  /\ UNCHANGED <<targets, external, crashes>>

Dispatch(c) ==
  /\ c \in Single /\ Parent[c] = NoCmd
  /\ StartCommand(c)
  /\ UNCHANGED left

\* A ticket takes its turn at the gate.
WaitTurn(c) ==
  /\ pc[c] = "gate"
  /\ Grant(c) \/ Sleep(c)
  /\ UNCHANGED <<durable, tasks, pc, left, external, crashes>>

\* The account is read afresh; no unresolved row stands in the way.
CheckUnresolved(c) ==
  /\ pc[c] = "gate" /\ c \in active
  /\ Blocking(c) = {}
  /\ Goto(c, IF Kind[c] = "create" THEN "ready" ELSE "read")
  /\ UNCHANGED <<gateVars, durable, tasks, left, external, crashes>>

\* The order is read afresh: editable, its earlier operations over.  A
\* modification shows the snapshot, which proves the orders in s, to the gate.
ReadOrder(c) ==
  /\ pc[c] = "read"
  /\ PriorOperationsOver(c)
  /\ Goto(c, "ready")
  /\ IF Real /\ c \in Modify
       THEN \E s \in SUBSET Order : ObserveLeader(c, s) \/ ObserveFollower(c, s)
       ELSE UNCHANGED gateVars
  /\ UNCHANGED <<durable, tasks, left, external, crashes>>

\* Mutant of MarkSending: the row is written after the request.
MarkSendingLater(c) ==
  /\ pc[c] = "ready"
  /\ Goto(c, "sending")
  /\ UNCHANGED <<gateVars, durable, tasks, left, external, crashes>>

\* before_send: token and budget are there, the deadline has not passed.
MarkSending(c) ==
  /\ pc[c] = "ready"
  /\ journal' = [journal EXCEPT ![c] = "sending"]
  /\ Goto(c, "sending")
  /\ UNCHANGED <<gateVars, targets, tasks, left, external, crashes>>

Post(c) ==
  /\ pc[c] = "sending"
  /\ posts' = [posts EXCEPT ![c] = @ + 1]
  /\ broker' = [broker EXCEPT ![c] = "inflight"]
  /\ Goto(c, "sent")
  /\ UNCHANGED <<gateVars, durable, tasks, left, crashes>>

\* Mutant of Refuse: an unresolved row is waited for.
RefuseAfterGate(c) ==
  /\ pc[c] \in {"read", "ready"}
  /\ Finish(c, "rejected", FALSE)

\* A failure before before_send: the deadline, in the queue or later, a refused
\* check, a failed read.
Refuse(c) ==
  /\ pc[c] \in {"gate", "read", "ready"}
  /\ Finish(c, "rejected", FALSE)

\* A well-formed answer.
Answer(c) ==
  /\ pc[c] = "sent"
  /\ \/ broker[c] \in {"applied", "undone"} /\ Finish(c, "accepted", FALSE)
     \/ broker[c] = "refused" /\ Finish(c, "rejected", FALSE)

\* A lost or unusable answer, or a failure after it.
LoseAnswer(c) ==
  /\ pc[c] = "sent"
  /\ Finish(c, "unknown", TRUE)

\* The journal cannot be written: the row stays as it is, the outcome is
\* uncertain after before_send, and a bulk cancel that awaits this one ends,
\* unless the failure came while another exception was being recorded.
LoseRecord(c) ==
  /\ pc[c] \in {"gate", "read", "ready", "sent"}
  /\ Leave(c, journal[c], pc[c] = "sent")
  /\ LET awaits(b) == b = Parent[c] /\ pc[b] = "run" /\ c \notin left[b]
     IN  \E passes \in BOOLEAN :
           pc' = [x \in Cmd |-> IF x = c THEN "idle"
                                ELSE IF passes /\ awaits(x) THEN "failed" ELSE pc[x]]

-----------------------------------------------------------------------------
(* Bulk cancel *)

BulkBegin(b) ==
  /\ Kind[b] = "bulk" /\ b \notin tasks
  /\ \/ IsNew(journal, b) /\ journal' = [journal EXCEPT ![b] = "prepared"] /\ Goto(b, "open")
                          /\ UNCHANGED left
     \/ /\ journal[b] = "batch" /\ UNCHANGED journal
        /\ left' = [left EXCEPT ![b] = targets[b]]
        /\ Goto(b, "run")
  /\ tasks' = tasks \cup {b}
  /\ UNCHANGED <<gateVars, targets, external, crashes>>

\* The orders of a fresh snapshot are frozen before the first cancel.
BulkFreeze(b) ==
  /\ pc[b] = "open"
  /\ \E T \in SUBSET Children(b) :
       /\ targets' = [targets EXCEPT ![b] = T]
       /\ left' = [left EXCEPT ![b] = T]
  /\ journal' = [journal EXCEPT ![b] = "batch"]
  /\ Goto(b, "run")
  /\ UNCHANGED <<gateVars, tasks, external, crashes>>

\* One child at a time; a child with a row is joined or answered.
BulkChild(b, c) ==
  /\ pc[b] = "run" /\ c \in left[b]
  /\ Children(b) \cap tasks = {}
  /\ left' = [left EXCEPT ![b] = @ \ {c}]
  /\ \/ StartCommand(c)
     \/ ~IsNew(journal, c) /\ UNCHANGED <<gateVars, durable, tasks, pc, external, crashes>>

\* The bulk ends: with its result, or, when the snapshot or a child's record
\* fails, with the row as it is.
BulkEnd(b) ==
  /\ \/ /\ pc[b] = "run" /\ left[b] = {} /\ Children(b) \cap tasks = {}
        /\ journal' = [journal EXCEPT ![b] = "accepted"]
     \/ pc[b] \in {"open", "failed"} /\ UNCHANGED journal
  /\ tasks' = tasks \ {b}
  /\ left' = [left EXCEPT ![b] = {}]
  /\ Goto(b, "idle")
  /\ UNCHANGED <<gateVars, targets, external, crashes>>

-----------------------------------------------------------------------------
(* The operator, the process and the broker *)

\* Mutant of Review: the running commands are not looked at.
ReviewRunning(c) ==
  /\ Reviewable(journal, c) \/ journal[c] = "prepared"
  /\ journal' = [journal EXCEPT ![c] = "reviewed"]
  /\ UNCHANGED <<gateVars, targets, tasks, pc, left, external, crashes>>

Review(c) ==
  /\ c \notin tasks
  /\ Reviewable(journal, c) \/ journal[c] = "prepared"
  /\ journal' = [journal EXCEPT ![c] = "reviewed"]
  /\ UNCHANGED <<gateVars, targets, tasks, pc, left, external, crashes>>

\* Only the journal survives; every command whose ticket is gone has a row and
\* never queues again.
Crash ==
  /\ crashes < MaxCrashes
  /\ crashes' = crashes + 1
  /\ queue' = <<>> /\ active' = {} /\ fence' = {} /\ granted' = 0
  /\ admission' = "open" /\ follower' = {} /\ proven' = {}
  /\ place' = [c \in Single |-> IF place[c] = "out" THEN "out" ELSE "gone"]
  /\ tasks' = {}
  /\ pc' = [c \in Cmd |-> "idle"]
  /\ left' = [c \in Cmd |-> {}]
  /\ UNCHANGED <<durable, external>>

BrokerStep(c) ==
  /\ \/ broker[c] = "inflight" /\ \E r \in {"applied", "refused"} :
                                     broker' = [broker EXCEPT ![c] = r]
     \/ /\ broker[c] = "applied" /\ Kind[c] # "create"
        /\ broker' = [broker EXCEPT ![c] = "undone"]
  /\ UNCHANGED <<gateVars, durable, tasks, pc, left, posts, crashes>>

Step(c) ==
  \/ WaitTurn(c) \/ CheckUnresolved(c) \/ ReadOrder(c) \/ MarkSending(c)
  \/ Post(c) \/ Refuse(c) \/ Answer(c) \/ LoseAnswer(c)

BulkStep(b) == BulkFreeze(b) \/ BulkEnd(b) \/ \E c \in Cmd : BulkChild(b, c)

Next ==
  \/ \E c \in Single : Dispatch(c) \/ Step(c) \/ LoseRecord(c)
  \/ \E b \in Bulk : BulkBegin(b) \/ BulkStep(b)
  \/ \E c \in Cmd : Review(c) \/ BrokerStep(c)
  \/ Crash

\* The event loop runs every task that can go on; reads and requests end.
Fairness ==
  /\ \A c \in Single : WF_vars(Step(c))
  /\ \A b \in Bulk : WF_vars(BulkStep(b))

Spec == Init /\ [][Next]_vars /\ Fairness

-----------------------------------------------------------------------------
(* Properties *)

AtBroker(c) == pc[c] \in {"sending", "sent"}

\* c has been sent and nobody knows, or has reviewed, its outcome.
InDoubt(c) == posts[c] > 0 /\ journal[c] \in UnresolvedState

\* A create at the broker is the only command of its code in doubt; a cancel of a
\* real account is beside no create or modify in doubt.
WriteAlone ==
  \A c, d \in Single : (AtBroker(c) /\ c # d /\ InDoubt(d)) =>
    /\ Kind[c] # "create"
    /\ Real /\ Kind[c] = "cancel" => Kind[d] = "cancel"

\* Modifications of a real account in doubt at the same time are of different
\* order families: the gate's cohort, its freezing and the unresolved check,
\* none of which suffices alone.
FamiliesApart ==
  \A c, d \in Single :
    (Real /\ AtBroker(c) /\ Kind[c] = "modify" /\ c # d /\ InDoubt(d) /\ Kind[d] # "cancel")
      => Kind[d] = "modify" /\ Related[OrderOf[c]] \cap Related[OrderOf[d]] = {}

\* While an operation on an order is at the broker, every other operation on that
\* order is over: not in doubt, and if accepted, rejected afterwards.
OneOperationPerOrder ==
  \A c, d \in Single :
    (AtBroker(c) /\ c # d /\ OrderOf[c] \in Order /\ OrderOf[d] = OrderOf[c])
      => ~InDoubt(d) /\ ~(journal[d] = "accepted" /\ broker[d] = "applied")

\* A modification joins a running epoch only while no create or modification of
\* the code has an outcome that is unknown and not reviewed.
JoinInCertainty ==
  [][\A c \in Single : c \in follower' \ follower =>
       \A d \in Single : InDoubt(d) /\ Kind[d] # "cancel" => d \in tasks]_vars

\* Nothing is at the broker that the journal shows as never sent, whenever the
\* process dies: a row left "prepared" may be given up safely.
SentIsOnRecord ==
  \A c \in Single : journal[c] \in {"none", "prepared"} => broker[c] = "none"

\* A bulk cancel cancels only orders it had frozen in the journal before.
FrozenBeforeCancel ==
  \A b \in Bulk : \A c \in Children(b) :
    journal[c] # "none" => c \in targets[b] /\ journal[b] \in {"batch", "accepted"}

\* The writes of one account and code are sound together: creates alone, modifies
\* beside other families only, one operation at a time on an order, and bulk
\* cancels that cancel what they froze.
WritesSound ==
  WriteAlone /\ FamiliesApart /\ OneOperationPerOrder /\ FrozenBeforeCancel

\* No ticket, epoch or bulk cancel holds a task for ever.
EveryTaskEnds == \A c \in Cmd : c \in tasks ~> c \notin tasks

Told(s) == CASE s = "none" -> "nothing"
             [] s \in {"prepared", "sending"} -> "pending"
             [] OTHER -> s

Effect(b) == CASE b \in {"none", "inflight"} -> "none"
               [] b \in {"applied", "undone"} -> "taken"
               [] OTHER -> b

Promise == INSTANCE SingleSubmission WITH
  Cmd <- Single,
  told <- [c \in Single |-> Told(journal[c])],
  submitted <- [c \in Single |-> posts[c]],
  effect <- [c \in Single |-> Effect(broker[c])]

\* The Kiwoom path keeps the same promise as the Toss path.
ImplementsPromise == Promise!Init /\ [][Promise!Next]_Promise!vars
=============================================================================
