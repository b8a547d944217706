-------------------------- MODULE TossTradingProof --------------------------
(***************************************************************************)
(* Proofs about TossTrading, for every set of commands, keys and orders,   *)
(* every number of slots and every number of crashes.                      *)
(*                                                                         *)
(* First the types, and that the journal keeps the promise of              *)
(* SingleSubmission.  Then that the writes of an account are sound         *)
(* (WritesSound), in five parts, each an invariant proved on its own:      *)
(*   RowsInv    the journal has one row per id, in the order of begin()    *)
(*   LockInv    a lock's queue holds exactly the tasks that asked for it;  *)
(*              only its head is past it; an order's queue is in the order *)
(*              of the rows, which is why the latest accepted row is the   *)
(*              one that was sent last                                     *)
(*   FifoInv    the operations on an order end in the order of their rows  *)
(*   DoubtInv   what a task has checked stays true while it holds its lock *)
(*   BulkInv    what a bulk cancel froze, dispatched and awaited           *)
(***************************************************************************)
EXTENDS TossTrading, SequenceTheorems, TLAPS

(***************************************************************************)
(* Type correctness.                                                       *)
(***************************************************************************)
LEMMA OrderOfLocked ==
  ASSUME NEW c \in Cmd, Kind[c] \in {"modify", "cancel"}
  PROVE  OrderOf[c] \in Order
BY PayloadAssumption

LEMMA ReleaseType ==
  ASSUME NEW c, NEW q \in Seq(Cmd)
  PROVE  Release(c, q) \in Seq(Cmd)
BY DEF Release, Owns

LEMMA Enqueue ==
  ASSUME NEW S, NEW f \in [S -> Seq(Cmd)], NEW x \in S, NEW c \in Cmd
  PROVE  [f EXCEPT ![x] = Append(@, c)] \in [S -> Seq(Cmd)]
<1>1. Append(f[x], c) \in Seq(Cmd)
  BY AppendProperties
<1> QED  BY <1>1

LEMMA Dequeue ==
  ASSUME NEW S, NEW f \in [S -> Seq(Cmd)], NEW x \in S, f[x] # <<>>
  PROVE  [f EXCEPT ![x] = Tail(@)] \in [S -> Seq(Cmd)]
<1>1. Tail(f[x]) \in Seq(Cmd)
  BY HeadTailProperties
<1> QED  BY <1>1

LEMMA LeaveType ==
  ASSUME TypeOK, NEW c \in Cmd, NEW s \in JournalState \ {"prepared"}, Leave(c, s),
         pc' \in [Cmd -> PC]
  PROVE  TypeOK'
<1>1. /\ journal' \in [Cmd -> JournalState \ {"prepared"}]
      /\ tasks' \in SUBSET Cmd
      /\ mods' \in [Key -> SUBSET Cmd]
      /\ barrier' \in [Cmd -> SUBSET Cmd]
      /\ prior' \in [Cmd -> Cmd \cup {NoCmd}]
  BY DEF TypeOK, Leave
<1>2. orderQ' \in [Order -> Seq(Cmd)] /\ keyQ' \in [Key -> Seq(Cmd)]
  BY ReleaseType DEF TypeOK, Leave
<1>3. UNCHANGED <<begun, targets, left, broker, posts, crashes>>
  BY DEF Leave, external
<1> QED  BY <1>1, <1>2, <1>3 DEF TypeOK

LEMMA FinishType ==
  ASSUME TypeOK, NEW c \in Cmd, NEW s \in JournalState \ {"prepared"}, Finish(c, s)
  PROVE  TypeOK'
<1>1. pc' \in [Cmd -> PC]
  BY DEF TypeOK, Finish, Goto, PC
<1> QED  BY <1>1, LeaveType DEF Finish

LEMMA StartType ==
  ASSUME TypeOK, NEW c \in Single, StartCommand(c), left' \in [Cmd -> SUBSET Cmd],
         \A b \in Cmd : left'[b] \subseteq left[b]
  PROVE  TypeOK'
<1>1. c \in Cmd /\ KeyOf[c] \in Key
  BY PayloadAssumption DEF Single
<1>2. journal' \in [Cmd -> JournalState \ {"prepared"}] /\ tasks' \in SUBSET Cmd
  BY <1>1 DEF TypeOK, StartCommand, NewRow, JournalState
<1>3. begun' \in Seq(Cmd)
  BY <1>1, AppendProperties DEF TypeOK, StartCommand
<1>5. pc' \in [Cmd -> PC] /\ orderQ' \in [Order -> Seq(Cmd)] /\ keyQ' \in [Key -> Seq(Cmd)]
  <2>1. CASE Kind[c] = "create"
    <3>1. Goto(c, "key") /\ keyQ' = [keyQ EXCEPT ![KeyOf[c]] = Append(@, c)] /\ orderQ' = orderQ
      BY <2>1 DEF StartCommand
    <3>2. keyQ' \in [Key -> Seq(Cmd)]
      BY <1>1, <3>1, Enqueue DEF TypeOK
    <3>3. pc' \in [Cmd -> PC]
      BY <3>1 DEF Goto, PC, TypeOK
    <3> QED  BY <3>1, <3>2, <3>3 DEF TypeOK
  <2>2. CASE Kind[c] # "create"
    <3>1. Goto(c, "order") /\ orderQ' = [orderQ EXCEPT ![OrderOf[c]] = Append(@, c)] /\ keyQ' = keyQ
      BY <2>2 DEF StartCommand
    <3>2. OrderOf[c] \in Order
      BY <1>1, <2>2, PayloadAssumption DEF Single
    <3>3. orderQ' \in [Order -> Seq(Cmd)]
      BY <1>1, <3>1, <3>2, Enqueue DEF TypeOK
    <3>4. pc' \in [Cmd -> PC]
      BY <3>1 DEF Goto, PC, TypeOK
    <3> QED  BY <3>1, <3>3, <3>4 DEF TypeOK
  <2> QED  BY <2>1, <2>2
<1>4. UNCHANGED <<targets, mods, barrier, prior, broker, posts, crashes>>
  BY DEF StartCommand, external
<1> QED  BY <1>2, <1>3, <1>4, <1>5 DEF TypeOK

LEMMA StepType ==
  ASSUME TypeOK, NEW c \in Cmd, Step(c) \/ Die(c)
  PROVE  TypeOK'
<1> USE DEF durable, locks, external, Goto, PC
<1>0. KeyOf[c] \in Key
  BY PayloadAssumption
<1>1. CASE TakeOrderLock(c)
  <2>1. \/ keyQ' = [keyQ EXCEPT ![KeyOf[c]] = Append(@, c)]
        \/ UNCHANGED keyQ
    BY <1>1 DEF TakeOrderLock
  <2>2. CASE keyQ' = [keyQ EXCEPT ![KeyOf[c]] = Append(@, c)]
    <3>1. keyQ' \in [Key -> Seq(Cmd)]
      BY <1>0, <2>2, Enqueue DEF TypeOK
    <3> QED  BY <1>1, <3>1 DEF TakeOrderLock, TypeOK
  <2>3. CASE UNCHANGED keyQ
    BY <1>1, <2>3 DEF TakeOrderLock, TypeOK
  <2> QED  BY <2>1, <2>2, <2>3
<1>2. CASE Register(c)
  <2>1. keyQ' \in [Key -> Seq(Cmd)]
    BY <1>0, <1>2, Dequeue DEF Register, Owns, TypeOK
  <2> QED  BY <1>0, <1>2, <2>1 DEF Register, TypeOK
<1>3. CASE TakeKeyLock(c)
  BY <1>0, <1>3 DEF TakeKeyLock, TypeOK
<1>4. CASE PassBarrier(c) \/ CheckCreate(c) \/ CheckOrder(c) \/ ReadPrior(c)
  BY <1>4 DEF PassBarrier, CheckCreate, CheckOrder, ReadPrior, TypeOK
<1>5. CASE ReadOrder(c)
  <2>1. CASE UNCHANGED prior /\ Goto(c, "ready")
    BY <1>5, <2>1 DEF ReadOrder, TypeOK
  <2>2. CASE \E i \in DOMAIN begun : prior' = [prior EXCEPT ![c] = begun[i]] /\ Goto(c, "prior")
    BY <1>5, <2>2 DEF ReadOrder, TypeOK
  <2> QED  BY <1>5, <2>1, <2>2 DEF ReadOrder, AcceptedOperations
<1>6. CASE Refuse(c) \/ Answer(c) \/ LoseAnswer(c)
  <2>1. PICK s \in JournalState \ {"prepared"} : Finish(c, s)
    BY <1>6 DEF Refuse, Answer, LoseAnswer, JournalState
  <2> QED  BY <2>1, FinishType
<1>7. CASE Post(c)
  BY <1>7 DEF Post, TypeOK
<1>8. CASE Die(c)
  <2>1. pc' \in [Cmd -> PC]
    BY <1>8 DEF Die, TypeOK
  <2>2. journal[c] \in JournalState \ {"prepared"}
    BY DEF TypeOK
  <2> QED  BY <1>8, <2>1, <2>2, LeaveType DEF Die
<1> QED  BY <1>1, <1>2, <1>3, <1>4, <1>5, <1>6, <1>7, <1>8 DEF Step

LEMMA BulkType ==
  ASSUME TypeOK, NEW b \in Cmd, BulkBegin(b) \/ BulkStep(b)
  PROVE  TypeOK'
<1> USE DEF durable, locks, external, Goto, PC, JournalState
<1>1. CASE BulkBegin(b)
  <2>1. \/ journal' = [journal EXCEPT ![b] = "sending"] /\ begun' = Append(begun, b)
        \/ UNCHANGED <<journal, begun>>
    BY <1>1 DEF BulkBegin
  <2>2. begun' \in Seq(Cmd)
    <3>1. Append(begun, b) \in Seq(Cmd)
      BY AppendProperties DEF TypeOK
    <3> QED  BY <2>1, <3>1 DEF TypeOK
  <2>4. journal' \in [Cmd -> JournalState \ {"prepared"}]
    BY <2>1 DEF TypeOK
  <2>3. tasks' \in SUBSET Cmd /\ pc' \in [Cmd -> PC]
    BY <1>1 DEF BulkBegin, TypeOK
  <2> QED  BY <1>1, <2>2, <2>3, <2>4 DEF TypeOK, BulkBegin
<1>2. CASE BulkFreeze(b)
  <2>1. CASE journal[b] = "sending"
    <3>1. PICK T \in SUBSET Children(b) : targets' = [targets EXCEPT ![b] = T]
      BY <1>2, <2>1 DEF BulkFreeze
    <3>2. T \subseteq Cmd
      BY DEF Children
    <3>3. /\ targets' \in [Cmd -> SUBSET Cmd]
          /\ left' = [left EXCEPT ![b] = T]
      BY <1>2, <3>1, <3>2 DEF BulkFreeze, TypeOK
    <3>4. journal' = [journal EXCEPT ![b] = "batch"] /\ pc' = [pc EXCEPT ![b] = "run"]
      BY <1>2, <2>1 DEF BulkFreeze
    <3>5. UNCHANGED <<begun, tasks, orderQ, keyQ, mods, barrier, prior, broker, posts, crashes>>
      BY <1>2 DEF BulkFreeze
    <3> QED  BY <3>1, <3>2, <3>3, <3>4, <3>5 DEF TypeOK
  <2>2. CASE journal[b] = "batch"
    <3>1. UNCHANGED <<targets, journal>> /\ left' = [left EXCEPT ![b] = targets[b]]
      BY <1>2, <2>2 DEF BulkFreeze
    <3>2. pc' = [pc EXCEPT ![b] = "run"]
      BY <1>2 DEF BulkFreeze
    <3>3. UNCHANGED <<begun, tasks, orderQ, keyQ, mods, barrier, prior, broker, posts, crashes>>
      BY <1>2 DEF BulkFreeze
    <3> QED  BY <3>1, <3>2, <3>3 DEF TypeOK
  <2> QED  BY <1>2, <2>1, <2>2 DEF BulkFreeze
<1>3. CASE BulkRefuse(b) \/ BulkFinish(b) \/ BulkDie(b)
  <2>1. PICK s \in JournalState \ {"prepared"} : Finish(b, s)
    BY <1>3 DEF TypeOK, BulkRefuse, BulkFinish, BulkDie
  <2> QED  BY <2>1, FinishType
<1>4. ASSUME NEW c \in Cmd, BulkChild(b, c)
      PROVE  TypeOK'
  <2>1. left' = [left EXCEPT ![b] = @ \ {c}] /\ c \in Children(b)
    BY <1>4 DEF BulkChild, TypeOK
  <2>2. left' \in [Cmd -> SUBSET Cmd] /\ \A a \in Cmd : left'[a] \subseteq left[a]
    BY <2>1 DEF TypeOK
  <2>3. c \in Single
    BY <2>1, PayloadAssumption DEF Single, Children
  <2>4. CASE StartCommand(c)
    BY <2>2, <2>3, <2>4, StartType
  <2>5. CASE UNCHANGED <<durable, tasks, pc, locks, prior, external, crashes>>
    BY <2>2, <2>5 DEF TypeOK
  <2> QED  BY <1>4, <2>4, <2>5 DEF BulkChild
<1> QED  BY <1>1, <1>2, <1>3, <1>4 DEF BulkStep
LEMMA TypeInit == Init => TypeOK
BY SlotAssumption, EmptySeq DEF Init, TypeOK, JournalState, PC

LEMMA TypeNext == TypeOK /\ [Next]_vars => TypeOK'
<1> SUFFICES ASSUME TypeOK, [Next]_vars
             PROVE  TypeOK'
  OBVIOUS
<1> USE DEF durable, locks, external
<1>1. ASSUME NEW c \in Cmd, Dispatch(c)
      PROVE  TypeOK'
  BY <1>1, StartType DEF Dispatch, TypeOK, Single
<1>2. ASSUME NEW c \in Cmd, Review(c)
      PROVE  TypeOK'
  BY <1>2 DEF Review, TypeOK, JournalState
<1>3. ASSUME NEW c \in Cmd, BrokerStep(c)
      PROVE  TypeOK'
  BY <1>3 DEF BrokerStep, TypeOK
<1>4. CASE Crash
  BY <1>4, SlotAssumption, EmptySeq DEF Crash, TypeOK, PC
<1>5. CASE UNCHANGED vars
  BY <1>5 DEF vars, TypeOK
<1> QED  BY <1>1, <1>2, <1>3, <1>4, <1>5, StepType, BulkType DEF Next

\* Every variable keeps its type.
THEOREM TypeCorrect == Spec => []TypeOK
BY TypeInit, TypeNext, PTL DEF Spec

-----------------------------------------------------------------------------
(***************************************************************************)
(* One submission, truthfully told.                                        *)
(***************************************************************************)
LEMMA LeaveSubmission ==
  ASSUME TypeOK, SubmissionInv, NEW c \in Cmd, NEW s, Leave(c, s), c \in tasks,
         c \in Single =>
           /\ s \in {"sending", "accepted", "rejected", "unknown"}
           /\ s = "accepted" => broker[c] \in {"applied", "undone"}
           /\ s = "rejected" => broker[c] \in {"none", "refused"}
           /\ s = "unknown" => posts[c] = 1,
         pc' \in [Cmd -> PC], pc'[c] = "idle",
         \A d \in Cmd \ {c} :
           pc'[d] = pc[d] \/ (pc[d] = "run" /\ pc'[d] = "failed")
  PROVE  SubmissionInv'
<1> USE DEF Single, Bulk
<1>1. /\ journal' = [journal EXCEPT ![c] = s]
      /\ tasks' = tasks \ {c}
      /\ UNCHANGED <<broker, posts>>
  BY DEF Leave, external
<1>2. \A d \in Cmd : d \in tasks' <=> pc'[d] # "idle"
  BY <1>1 DEF SubmissionInv
<1>3. \A d \in Bulk : posts'[d] = 0 /\ pc'[d] \in {"idle", "open", "run", "failed"}
  BY <1>1 DEF SubmissionInv
<1>4. ASSUME NEW d \in Single
      PROVE  /\ pc'[d] \notin {"open", "run", "failed"}
             /\ d \in tasks' => journal'[d] = "sending"
             /\ journal'[d] # "batch"
             /\ journal'[d] = "none" => posts'[d] = 0
             /\ journal'[d] = "unknown" => posts'[d] = 1
             /\ pc'[d] \notin {"idle", "sent"} => posts'[d] = 0
             /\ pc'[d] = "sent" => posts'[d] = 1
  BY <1>1 DEF SubmissionInv, TypeOK
<1>5. (\A d \in Cmd : posts[d] = 0 <=> broker[d] = "none")' /\ AtMostOnePost'
  BY <1>1 DEF SubmissionInv, AtMostOnePost
<1>6. OutcomeIsTrue'
  BY <1>1 DEF SubmissionInv, OutcomeIsTrue, TypeOK
<1> QED  BY <1>2, <1>3, <1>4, <1>5, <1>6 DEF SubmissionInv

LEMMA FinishSubmission ==
  ASSUME TypeOK, SubmissionInv, NEW c \in Cmd, NEW s, Finish(c, s), c \in tasks,
         c \in Single =>
           /\ s \in {"sending", "accepted", "rejected", "unknown"}
           /\ s = "accepted" => broker[c] \in {"applied", "undone"}
           /\ s = "rejected" => broker[c] \in {"none", "refused"}
           /\ s = "unknown" => posts[c] = 1
  PROVE  SubmissionInv'
<1>1. /\ pc' \in [Cmd -> PC]
      /\ pc'[c] = "idle"
      /\ \A d \in Cmd \ {c} : pc'[d] = pc[d]
  BY DEF Finish, Goto, TypeOK, PC
<1> QED  BY <1>1, LeaveSubmission DEF Finish

LEMMA StartSubmission ==
  ASSUME TypeOK, SubmissionInv, NEW c \in Single, StartCommand(c)
  PROVE  SubmissionInv'
<1> USE DEF Single, Bulk
<1>1. /\ journal[c] = "none"
      /\ journal' = [journal EXCEPT ![c] = "sending"]
      /\ tasks' = tasks \cup {c}
      /\ UNCHANGED <<broker, posts>>
  BY DEF StartCommand, NewRow, external, IsNew
<1>2. /\ pc'[c] \in {"key", "order"}
      /\ \A d \in Cmd \ {c} : pc'[d] = pc[d]
  BY DEF StartCommand, Goto, TypeOK
<1>3. posts[c] = 0 /\ broker[c] = "none"
  BY <1>1 DEF SubmissionInv
<1>4. \A d \in Single \ {c} : journal'[d] = journal[d]
  BY <1>1 DEF TypeOK
<1>5. journal'[c] = "sending"
  BY <1>1 DEF TypeOK
<1>6. OutcomeIsTrue' /\ AtMostOnePost'
  BY <1>1, <1>4, <1>5 DEF SubmissionInv, OutcomeIsTrue, AtMostOnePost
<1>7. \A d \in Bulk : d # c
  OBVIOUS
<1> QED  BY <1>1, <1>2, <1>3, <1>4, <1>5, <1>6, <1>7 DEF SubmissionInv

\* A task that goes on to a place before the POST.
LEMMA GoSubmission ==
  ASSUME TypeOK, SubmissionInv, NEW c \in Single, NEW l \in PC, Goto(c, l),
         pc[c] \notin {"idle", "sent"}, l \notin {"idle", "sent", "open", "run", "failed"},
         UNCHANGED <<journal, tasks, broker, posts>>
  PROVE  SubmissionInv'
BY DEF SubmissionInv, AtMostOnePost, OutcomeIsTrue, TypeOK, Goto, Single, Bulk

LEMMA StepSubmission ==
  ASSUME TypeOK, SubmissionInv, NEW c \in Cmd, Step(c) \/ Die(c)
  PROVE  SubmissionInv'
<1> USE DEF durable, locks, external
<1>0. c \in Single /\ pc[c] \notin {"idle", "open", "run", "failed"}
  BY PayloadAssumption DEF Step, TakeOrderLock, Register, TakeKeyLock, PassBarrier, CheckCreate,
     CheckOrder, ReadOrder, ReadPrior, Refuse, Post, Answer, LoseAnswer, Die,
     SubmissionInv, Single, Bulk
<1>1. c \in tasks
  BY <1>0 DEF SubmissionInv
<1>2. ASSUME \/ TakeOrderLock(c) \/ Register(c) \/ TakeKeyLock(c) \/ PassBarrier(c)
             \/ CheckCreate(c) \/ CheckOrder(c) \/ ReadOrder(c) \/ ReadPrior(c)
      PROVE  SubmissionInv'
  <2>1. UNCHANGED <<journal, tasks, broker, posts>> /\ pc[c] # "sent"
    BY <1>2 DEF TakeOrderLock, Register, TakeKeyLock, PassBarrier, CheckCreate, CheckOrder,
       ReadOrder, ReadPrior
  <2>2. \E l \in PC \ {"idle", "sent", "open", "run", "failed"} : Goto(c, l)
    BY <1>2 DEF TakeOrderLock, Register, TakeKeyLock, PassBarrier, CheckCreate, CheckOrder,
       ReadOrder, ReadPrior, PC
  <2> QED  BY <1>0, <2>1, <2>2, GoSubmission
<1>3. CASE Refuse(c)
  <2>1. broker[c] = "none"
    BY <1>0, <1>3 DEF Refuse, SubmissionInv
  <2> QED  BY <1>1, <1>3, <2>1, FinishSubmission DEF Refuse
<1>4. CASE Post(c)
  BY <1>0, <1>1, <1>4 DEF Post, Goto, SubmissionInv, AtMostOnePost, OutcomeIsTrue, TypeOK, Single, Bulk
<1>5. CASE Answer(c)
  BY <1>1, <1>5, FinishSubmission DEF Answer
<1>6. CASE LoseAnswer(c)
  BY <1>0, <1>1, <1>6, FinishSubmission DEF LoseAnswer, SubmissionInv
<1>7. CASE Die(c)
  <2>1. /\ pc' \in [Cmd -> PC]
        /\ pc'[c] = "idle"
        /\ \A d \in Cmd \ {c} :
             pc'[d] = pc[d] \/ (pc[d] = "run" /\ pc'[d] = "failed")
    BY <1>7 DEF Die, TypeOK, PC
  <2>2. journal[c] = "sending"
    BY <1>0, <1>1 DEF SubmissionInv
  <2> QED  BY <1>1, <1>7, <2>1, <2>2, LeaveSubmission DEF Die
<1> QED  BY <1>2, <1>3, <1>4, <1>5, <1>6, <1>7 DEF Step

LEMMA BulkSubmission ==
  ASSUME TypeOK, SubmissionInv, NEW b \in Cmd, BulkBegin(b) \/ BulkStep(b)
  PROVE  SubmissionInv'
<1> USE DEF durable, locks, external
<1>1. CASE BulkBegin(b)
  BY <1>1 DEF BulkBegin, Goto, SubmissionInv, AtMostOnePost, OutcomeIsTrue, TypeOK, Single, Bulk
<1>2. CASE BulkFreeze(b)
  <2>1. b \in Bulk /\ b \in tasks
    BY <1>2 DEF BulkFreeze, SubmissionInv, Single, Bulk
  <2>2. /\ \A c \in Single : journal'[c] = journal[c] /\ pc'[c] = pc[c]
        /\ \A c \in Cmd \ {b} : pc'[c] = pc[c]
        /\ pc'[b] = "run"
        /\ UNCHANGED <<tasks, broker, posts>>
    BY <1>2, <2>1 DEF BulkFreeze, Goto, TypeOK, Single, Bulk
  <2> QED  BY <2>1, <2>2 DEF SubmissionInv, AtMostOnePost, OutcomeIsTrue, Single, Bulk
<1>3. CASE BulkRefuse(b) \/ BulkFinish(b) \/ BulkDie(b)
  <2>1. PICK s : Finish(b, s)
    BY <1>3 DEF BulkRefuse, BulkFinish, BulkDie
  <2>2. b \in tasks /\ b \notin Single
    BY <1>3 DEF BulkRefuse, BulkFinish, BulkDie, SubmissionInv, Single
  <2> QED  BY <2>1, <2>2, FinishSubmission
<1>4. ASSUME NEW c \in Cmd, BulkChild(b, c)
      PROVE  SubmissionInv'
  <2>0. c \in Children(b)
    BY <1>4 DEF BulkChild, TypeOK
  <2>1. c \in Single
    BY <2>0, PayloadAssumption DEF Single, Children
  <2>2. CASE StartCommand(c)
    BY <2>1, <2>2, StartSubmission
  <2>3. CASE UNCHANGED <<durable, tasks, pc, locks, prior, external, crashes>>
    BY <2>3 DEF SubmissionInv, AtMostOnePost, OutcomeIsTrue
  <2> QED  BY <1>4, <2>2, <2>3 DEF BulkChild
<1> QED  BY <1>1, <1>2, <1>3, <1>4 DEF BulkStep

LEMMA SubmissionInit == Init => SubmissionInv
BY DEF Init, SubmissionInv, AtMostOnePost, OutcomeIsTrue, Single, Bulk

LEMMA SubmissionNext == TypeOK /\ SubmissionInv /\ [Next]_vars => SubmissionInv'
<1> SUFFICES ASSUME TypeOK, SubmissionInv, [Next]_vars
             PROVE  SubmissionInv'
  OBVIOUS
<1> USE DEF durable, locks, external
<1>1. ASSUME NEW c \in Cmd, Dispatch(c)
      PROVE  SubmissionInv'
  BY <1>1, StartSubmission DEF Dispatch, Single
<1>2. ASSUME NEW c \in Cmd, Review(c)
      PROVE  SubmissionInv'
  BY <1>2 DEF Review, Reviewable, UnresolvedState, SubmissionInv, AtMostOnePost, OutcomeIsTrue,
     TypeOK, Single, Bulk
<1>3. ASSUME NEW c \in Cmd, BrokerStep(c)
      PROVE  SubmissionInv'
  BY <1>3 DEF BrokerStep, SubmissionInv, AtMostOnePost, OutcomeIsTrue, TypeOK, Single, Bulk
<1>4. CASE Crash
  BY <1>4 DEF Crash, SubmissionInv, AtMostOnePost, OutcomeIsTrue, Single, Bulk
<1>5. CASE UNCHANGED vars
  BY <1>5 DEF vars, SubmissionInv, AtMostOnePost, OutcomeIsTrue
<1> QED  BY <1>1, <1>2, <1>3, <1>4, <1>5, StepSubmission, BulkSubmission DEF Next

\* No command id is ever submitted twice.
THEOREM SubmittedOnce == Spec => []AtMostOnePost
<1>1. Spec => [](TypeOK /\ SubmissionInv)
  BY TypeInit, TypeNext, SubmissionInit, SubmissionNext, PTL DEF Spec
<1>2. SubmissionInv => AtMostOnePost
  BY DEF SubmissionInv
<1> QED  BY <1>1, <1>2, PTL

\* The journal never contradicts the broker.
THEOREM ToldTruly == Spec => []OutcomeIsTrue
<1>1. Spec => [](TypeOK /\ SubmissionInv)
  BY TypeInit, TypeNext, SubmissionInit, SubmissionNext, PTL DEF Spec
<1>2. SubmissionInv => OutcomeIsTrue
  BY DEF SubmissionInv
<1> QED  BY <1>1, <1>2, PTL

-----------------------------------------------------------------------------
(***************************************************************************)
(* The implementation of SingleSubmission.  Every step records a command,  *)
(* submits one, tells or settles one, is a decision of the broker, or is   *)
(* invisible to the promise.                                               *)
(***************************************************************************)
LEMMA InvisibleStep ==
  ASSUME \A c \in Single : journal'[c] = journal[c],
         UNCHANGED posts,
         \A c \in Single : Effect(broker'[c]) = Effect(broker[c])
  PROVE  UNCHANGED Promise!vars
BY DEF Promise!vars

LEMMA RecordStep ==
  ASSUME TypeOK, NEW c \in Single, StartCommand(c)
  PROVE  Promise!Record(c)
<1>1. /\ journal[c] = "none"
      /\ journal' = [journal EXCEPT ![c] = "sending"]
      /\ UNCHANGED <<broker, posts>>
  BY DEF StartCommand, NewRow, external, IsNew
<1> QED  BY <1>1 DEF Promise!Record, Told, TypeOK, Single

LEMMA TellStep ==
  ASSUME TypeOK, SubmissionInv, NEW c \in Single, NEW s, Leave(c, s), c \in tasks,
         \/ s = "accepted" /\ broker[c] \in {"applied", "undone"}
         \/ s = "rejected" /\ broker[c] \in {"none", "refused"}
         \/ s = "unknown" /\ posts[c] = 1
  PROVE  Promise!Tell(c)
<1>1. /\ journal[c] = "sending"
      /\ journal' = [journal EXCEPT ![c] = s]
      /\ UNCHANGED <<broker, posts>>
  BY DEF Leave, external, SubmissionInv
<1>2. Told(journal[c]) = "pending" /\ Told(s) = s
  BY <1>1 DEF Told
<1>3. /\ [d \in Single |-> Told(journal[d])]' =
           [[d \in Single |-> Told(journal[d])] EXCEPT ![c] = s]
      /\ UNCHANGED [d \in Single |-> posts[d]]
      /\ UNCHANGED [d \in Single |-> Effect(broker[d])]
  BY <1>1, <1>2 DEF TypeOK, Single
<1>4. CASE s = "accepted"
  BY <1>2, <1>3, <1>4 DEF Promise!Tell, Effect
<1>5. CASE s = "rejected"
  <2>1. Effect(broker[c]) = "refused" \/ posts[c] = 0
    BY <1>5 DEF Effect, SubmissionInv, Single
  <2> QED  BY <1>2, <1>3, <1>5, <2>1 DEF Promise!Tell
<1>6. CASE s = "unknown"
  BY <1>2, <1>3, <1>6 DEF Promise!Tell
<1> QED  BY <1>4, <1>5, <1>6

LEMMA StepPromise ==
  ASSUME TypeOK, SubmissionInv, NEW c \in Cmd, Step(c) \/ Die(c)
  PROVE  [Promise!Next]_Promise!vars
<1> USE DEF durable, locks, external
<1>0. c \in Single /\ pc[c] \notin {"idle", "open", "run", "failed"}
  BY PayloadAssumption DEF Step, TakeOrderLock, Register, TakeKeyLock, PassBarrier, CheckCreate,
     CheckOrder, ReadOrder, ReadPrior, Refuse, Post, Answer, LoseAnswer, Die,
     SubmissionInv, Single, Bulk
<1>1. c \in tasks /\ journal[c] = "sending"
  BY <1>0 DEF SubmissionInv, Single
<1>2. ASSUME \/ TakeOrderLock(c) \/ Register(c) \/ TakeKeyLock(c) \/ PassBarrier(c)
             \/ CheckCreate(c) \/ CheckOrder(c) \/ ReadOrder(c) \/ ReadPrior(c)
             \/ Die(c)
      PROVE  UNCHANGED Promise!vars
  <2>1. (\A d \in Single : journal'[d] = journal[d]) /\ UNCHANGED <<broker, posts>>
    BY <1>2 DEF TakeOrderLock, Register, TakeKeyLock, PassBarrier, CheckCreate, CheckOrder,
       ReadOrder, ReadPrior, Die, Leave, TypeOK
  <2> QED  BY <2>1, InvisibleStep
<1>3. CASE Refuse(c)
  <2>1. broker[c] = "none"
    BY <1>0, <1>3 DEF Refuse, SubmissionInv
  <2>2. Promise!Tell(c)
    BY <1>0, <1>1, <1>3, <2>1, TellStep DEF Refuse, Finish
  <2> QED  BY <1>0, <2>2 DEF Promise!Next
<1>4. CASE Post(c)
  <2>1. /\ posts[c] = 0 /\ broker[c] = "none"
        /\ posts' = [posts EXCEPT ![c] = @ + 1]
        /\ broker' = [broker EXCEPT ![c] = "inflight"]
        /\ UNCHANGED journal
    BY <1>0, <1>4 DEF Post, SubmissionInv
  <2>2. \A d \in Single : Effect(broker'[d]) = Effect(broker[d])
    BY <2>1 DEF Effect, TypeOK, Single
  <2>3. Told(journal[c]) = "pending"
    BY <1>1 DEF Told
  <2>4. [d \in Single |-> posts[d]]' = [[d \in Single |-> posts[d]] EXCEPT ![c] = 1]
    <3>1. posts' = [posts EXCEPT ![c] = 1]
      BY <2>1
    <3> QED  BY <1>0, <3>1 DEF TypeOK, Single
  <2>5. /\ UNCHANGED [d \in Single |-> Told(journal[d])]
        /\ UNCHANGED [d \in Single |-> Effect(broker[d])]
    BY <2>1, <2>2
  <2>6. Promise!Submit(c)
    BY <1>0, <2>1, <2>3, <2>4, <2>5 DEF Promise!Submit
  <2> QED  BY <1>0, <2>6 DEF Promise!Next
<1>5. CASE Answer(c)
  <2>1. Promise!Tell(c)
    BY <1>0, <1>1, <1>5, TellStep DEF Answer, Finish
  <2> QED  BY <1>0, <2>1 DEF Promise!Next
<1>6. CASE LoseAnswer(c)
  <2>1. posts[c] = 1
    BY <1>0, <1>6 DEF LoseAnswer, SubmissionInv
  <2>2. Promise!Tell(c)
    BY <1>0, <1>1, <1>6, <2>1, TellStep DEF LoseAnswer, Finish
  <2> QED  BY <1>0, <2>2 DEF Promise!Next
<1> QED  BY <1>2, <1>3, <1>4, <1>5, <1>6 DEF Step

LEMMA BulkPromise ==
  ASSUME TypeOK, SubmissionInv, NEW b \in Cmd, BulkBegin(b) \/ BulkStep(b)
  PROVE  [Promise!Next]_Promise!vars
<1> USE DEF durable, locks, external
<1>1. ASSUME BulkBegin(b) \/ BulkFreeze(b) \/ BulkRefuse(b) \/ BulkFinish(b) \/ BulkDie(b)
      PROVE  UNCHANGED Promise!vars
  <2>1. b \notin Single
    BY <1>1 DEF BulkBegin, BulkFreeze, BulkRefuse, BulkFinish, BulkDie, SubmissionInv, Single
  <2>2. (\A d \in Single : journal'[d] = journal[d]) /\ UNCHANGED <<broker, posts>>
    BY <1>1, <2>1 DEF BulkBegin, BulkFreeze, BulkRefuse, BulkFinish, BulkDie, Finish, Leave,
       TypeOK, Single
  <2> QED  BY <2>2, InvisibleStep
<1>2. ASSUME NEW c \in Cmd, BulkChild(b, c)
      PROVE  [Promise!Next]_Promise!vars
  <2>1. c \in Children(b)
    BY <1>2 DEF BulkChild, TypeOK
  <2>2. c \in Single
    BY <2>1, PayloadAssumption DEF Single, Children
  <2>3. CASE StartCommand(c)
    BY <2>2, <2>3, RecordStep DEF Promise!Next
  <2>4. CASE UNCHANGED <<durable, tasks, pc, locks, prior, external, crashes>>
    BY <2>4, InvisibleStep
  <2> QED  BY <1>2, <2>3, <2>4 DEF BulkChild
<1> QED  BY <1>1, <1>2 DEF BulkStep

LEMMA NextPromise ==
  ASSUME TypeOK, SubmissionInv, [Next]_vars
  PROVE  [Promise!Next]_Promise!vars
<1> USE DEF durable, locks, external
<1>1. ASSUME NEW c \in Cmd, Dispatch(c)
      PROVE  [Promise!Next]_Promise!vars
  BY <1>1, RecordStep DEF Dispatch, Single, Promise!Next
<1>2. ASSUME NEW c \in Cmd, Review(c)
      PROVE  [Promise!Next]_Promise!vars
  <2>1. /\ journal[c] \in {"sending", "unknown", "reviewed"}
        /\ journal' = [journal EXCEPT ![c] = "reviewed"]
        /\ UNCHANGED <<broker, posts>>
    BY <1>2 DEF Review, Reviewable, UnresolvedState
  <2>2. CASE c \in Single /\ journal[c] # "reviewed"
    <3>1. Told(journal[c]) \in {"pending", "unknown"} /\ Told("reviewed") = "reviewed"
      BY <2>1, <2>2 DEF Told
    <3>2. Promise!Settle(c)
      BY <2>1, <2>2, <3>1 DEF Promise!Settle, TypeOK, Single
    <3> QED  BY <2>2, <3>2 DEF Promise!Next
  <2>3. CASE ~(c \in Single /\ journal[c] # "reviewed")
    <3>1. \A d \in Single : journal'[d] = journal[d]
      BY <2>1, <2>3 DEF TypeOK, Single
    <3> QED  BY <2>1, <3>1, InvisibleStep
  <2> QED  BY <2>2, <2>3
<1>3. ASSUME NEW c \in Cmd, BrokerStep(c)
      PROVE  [Promise!Next]_Promise!vars
  <2>1. CASE c \in Single /\ broker[c] = "inflight"
    <3>1. PICK r \in {"applied", "refused"} : broker' = [broker EXCEPT ![c] = r]
      BY <1>3, <2>1 DEF BrokerStep
    <3>2. posts[c] = 1 /\ UNCHANGED <<journal, posts>>
      BY <1>3, <2>1 DEF BrokerStep, SubmissionInv, AtMostOnePost, TypeOK
    <3>3. Effect(broker[c]) = "none" /\ Effect(r) \in {"taken", "refused"}
      BY <2>1 DEF Effect
    <3>4. Promise!Decide(c)
      BY <2>1, <3>1, <3>2, <3>3 DEF Promise!Decide, TypeOK, Single
    <3> QED  BY <2>1, <3>4 DEF Promise!Next
  <2>2. CASE c \in Single /\ broker[c] # "inflight"
    <3>1. broker[c] = "applied" /\ broker' = [broker EXCEPT ![c] = "undone"]
      BY <1>3, <2>2 DEF BrokerStep
    <3>2. \A d \in Single : Effect(broker'[d]) = Effect(broker[d])
      BY <3>1 DEF Effect, TypeOK
    <3> QED  BY <1>3, <3>2, InvisibleStep DEF BrokerStep
  <2>3. CASE c \notin Single
    <3>1. broker[c] = "none"
      BY <2>3 DEF SubmissionInv, Single, Bulk
    <3> QED  BY <1>3, <3>1 DEF BrokerStep
  <2> QED  BY <2>1, <2>2, <2>3
<1>4. CASE Crash
  BY <1>4, InvisibleStep DEF Crash
<1>5. CASE UNCHANGED vars
  BY <1>5, InvisibleStep DEF vars
<1> QED  BY <1>1, <1>2, <1>3, <1>4, <1>5, StepPromise, BulkPromise DEF Next

\* The service implements the promise of SingleSubmission.
THEOREM PromiseKept == Spec => ImplementsPromise
<1>1. Init => Promise!Init
  BY DEF Init, Promise!Init, Told, Effect, Single
<1>2. Spec => [](TypeOK /\ SubmissionInv)
  BY TypeInit, TypeNext, SubmissionInit, SubmissionNext, PTL DEF Spec
<1> QED  BY <1>1, <1>2, NextPromise, PTL DEF Spec, ImplementsPromise

-----------------------------------------------------------------------------
(* The invariants *)

\* A command that names an order: a modify or a cancel.
Operation(c) == OrderOf[c] \in Order

\* c is in the queue q, and c is ahead of d in it.
In(c, q) == \E i \in DOMAIN q : q[i] = c
Ahead(c, d, q) == \E i, j \in DOMAIN q : i < j /\ q[i] = c /\ q[j] = d

\* c has an older row than d.
Older(c, d) == Ahead(c, d, begun)

RowsInv ==
  /\ \A c, d \in Cmd : Older(c, d) => c # d /\ ~Older(d, c)
  /\ \A c \in Cmd : journal[c] # "none" <=> In(c, begun)
  /\ \A c \in tasks : journal[c] # "none"

\* The places a task of each kind can be at.
PlaceInv ==
  \A c \in Cmd :
    /\ pc[c] \in {"order", "read", "prior"} => Operation(c)
    /\ pc[c] = "barrier" => Kind[c] = "create"

Registered(c) == c \in tasks /\ Kind[c] = "modify" /\ pc[c] \notin {"order", "key"}

\* Tasks that own or wait for the key lock.
UsesKey(c) == Kind[c] = "create" \/ (Kind[c] = "modify" /\ pc[c] = "key")

OrderQueueInv ==
  /\ \A o \in Order : \A c \in Cmd :
       In(c, orderQ[o]) <=> c \in tasks /\ OrderOf[c] = o
  /\ \A o \in Order : \A c, d \in Cmd :
       Ahead(c, d, orderQ[o]) => Older(c, d) /\ pc[d] = "order"

KeyQueueInv ==
  /\ \A k \in Key : \A c \in Cmd :
       In(c, keyQ[k]) <=> c \in tasks /\ UsesKey(c) /\ KeyOf[c] = k
  /\ \A k \in Key : \A c, d \in Cmd :
       Ahead(c, d, keyQ[k]) => c # d /\ pc[d] = "key"

\* A create at its barrier has gathered every registered modification of its
\* key, and a create past it runs with none.
BarrierInv ==
  /\ \A d \in Cmd : Registered(d) => d \in mods[KeyOf[d]]
  /\ \A c, d \in Cmd :
       (Kind[c] = "create" /\ Registered(d) /\ KeyOf[d] = KeyOf[c]) =>
         /\ pc[c] = "barrier" => d \in barrier[c]
         /\ pc[c] \notin {"check", "ready", "sent"}

\* An order's operations end in the order of their rows.
FifoInv ==
  \A c, d \in Cmd :
    (c \in tasks /\ Operation(c) /\ OrderOf[d] = OrderOf[c] /\ Older(c, d)) => d \in tasks

LockInv == PlaceInv /\ OrderQueueInv /\ KeyQueueInv /\ BarrierInv

\* A row of d that no task is working on and whose outcome nobody knows.
Lost(d) == d \notin tasks /\ journal[d] \in UnresolvedState

Standing(d) == journal[d] = "accepted" /\ broker[d] = "applied"

SameOrder(c, d) == c # d /\ Operation(c) /\ OrderOf[d] = OrderOf[c] /\ KeyOf[d] = KeyOf[c]

DoubtInv ==
  /\ \A c, d \in Cmd :
       (Kind[c] = "create" /\ pc[c] \in {"ready", "sent"} /\ KeyOf[d] = KeyOf[c]
          /\ Kind[d] \in {"create", "modify"}) => ~Lost(d)
  /\ \A c, d \in Cmd :
       (SameOrder(c, d) /\ pc[c] \in {"read", "prior", "ready", "sent"}) => ~Lost(d)
  /\ \A c, d \in Cmd :
       (SameOrder(c, d) /\ pc[c] = "prior" /\ prior[c] # d) => ~Standing(d)
  /\ \A c, d \in Cmd :
       (SameOrder(c, d) /\ pc[c] \in {"ready", "sent"}) => ~Standing(d)
  /\ \A c, d \in Cmd :
       (SameOrder(c, d) /\ Older(c, d) /\ journal[d] = "accepted") => ~Standing(c)

BulkInv ==
  /\ \A b \in Bulk :
       /\ pc[b] = "open" => journal[b] \in {"sending", "batch"}
       /\ pc[b] \in {"run", "failed"} => journal[b] = "batch"
       /\ left[b] \subseteq targets[b]
       /\ left[b] # {} => journal[b] = "batch"
       /\ pc[b] = "run" => \A c \in targets[b] \ left[b] : journal[c] # "none"
  /\ FrozenBeforeCancel
  /\ BulkAnswersForAll
-----------------------------------------------------------------------------
(* Queues *)

LEMMA AppendQueue ==
  ASSUME NEW S, NEW q \in Seq(S), NEW c \in S, NEW d, NEW e
  PROVE  /\ In(d, Append(q, c)) <=> In(d, q) \/ d = c
         /\ Ahead(d, e, Append(q, c)) <=> Ahead(d, e, q) \/ (In(d, q) /\ e = c)
<1> DEFINE a == Append(q, c)
<1>1. /\ Len(q) \in Nat /\ DOMAIN q = 1 .. Len(q) /\ DOMAIN a = 1 .. (Len(q) + 1)
      /\ \A p \in DOMAIN q : a[p] = q[p]
      /\ a[Len(q) + 1] = c
  BY AppendProperties, LenProperties
<1> HIDE DEF a
<1>2. In(d, a) <=> In(d, q) \/ d = c
  BY <1>1 DEF In
<1>3. Ahead(d, e, a) <=> Ahead(d, e, q) \/ (In(d, q) /\ e = c)
  <2>1. ASSUME Ahead(d, e, a)
        PROVE  Ahead(d, e, q) \/ (In(d, q) /\ e = c)
    <3>1. PICK i, j \in DOMAIN a : i < j /\ a[i] = d /\ a[j] = e
      BY <2>1 DEF Ahead
    <3>2. i \in DOMAIN q /\ q[i] = d
      BY <1>1, <3>1
    <3>3. CASE j \in DOMAIN q
      BY <1>1, <3>1, <3>2, <3>3 DEF Ahead
    <3>4. CASE j = Len(q) + 1
      BY <1>1, <3>1, <3>2, <3>4 DEF In
    <3> QED  BY <1>1, <3>3, <3>4
  <2>2. ASSUME Ahead(d, e, q) \/ (In(d, q) /\ e = c)
        PROVE  Ahead(d, e, a)
    <3>1. CASE Ahead(d, e, q)
      BY <1>1, <3>1 DEF Ahead
    <3>2. CASE In(d, q) /\ e = c
      <4>1. PICK i \in DOMAIN q : q[i] = d
        BY <3>2 DEF In
      <4>2. /\ i \in DOMAIN a /\ a[i] = d /\ Len(q) + 1 \in DOMAIN a
            /\ i < Len(q) + 1 /\ a[Len(q) + 1] = e
        BY <1>1, <3>2, <4>1
      <4> QED  BY <4>2 DEF Ahead
    <3> QED  BY <2>2, <3>1, <3>2
  <2> QED  BY <2>1, <2>2
<1> QED  BY <1>2, <1>3 DEF a

LEMMA HeadQueue ==
  ASSUME NEW S, NEW q \in Seq(S), NEW c
  PROVE  /\ In(c, q) => c \in S /\ q # <<>> /\ (Owns(c, q) \/ Ahead(Head(q), c, q))
         /\ Owns(c, q) => In(c, q)
<1>1. /\ Len(q) \in Nat /\ DOMAIN q = 1 .. Len(q)
      /\ q # <<>> => Len(q) # 0 /\ Head(q) = q[1]
      /\ q = <<>> => Len(q) = 0
      /\ \A i \in DOMAIN q : q[i] \in S
  BY LenProperties, EmptySeq, HeadTailProperties, ElementOfSeq
<1>2. ASSUME In(c, q)
      PROVE  c \in S /\ q # <<>> /\ (Owns(c, q) \/ Ahead(Head(q), c, q))
  <2>1. PICK i \in DOMAIN q : q[i] = c
    BY <1>2 DEF In
  <2>2. c \in S /\ q # <<>> /\ 1 \in DOMAIN q /\ i >= 1
    BY <1>1, <2>1
  <2>3. CASE i = 1
    BY <1>1, <2>1, <2>2, <2>3 DEF Owns
  <2>4. CASE i # 1
    BY <1>1, <2>1, <2>2, <2>4 DEF Ahead
  <2> QED  BY <2>2, <2>3, <2>4
<1>3. ASSUME Owns(c, q)
      PROVE  In(c, q)
  BY <1>1, <1>3 DEF Owns, In
<1> QED  BY <1>2, <1>3

LEMMA TailQueue ==
  ASSUME NEW S, NEW q \in Seq(S), q # <<>>, NEW d, NEW e
  PROVE  /\ In(d, q) <=> d = Head(q) \/ In(d, Tail(q))
         /\ Ahead(d, e, Tail(q)) => Ahead(d, e, q)
         /\ In(d, Tail(q)) => Ahead(Head(q), d, q)
<1> DEFINE t == Tail(q)
<1>0. /\ t \in Seq(S) /\ Len(t) = Len(q) - 1 /\ Head(q) = q[1]
      /\ \A p \in 1 .. Len(t) : t[p] = q[p + 1]
  BY HeadTailProperties
<1>1. /\ DOMAIN q = 1 .. Len(q) /\ Len(q) \in Nat /\ Len(q) # 0 /\ DOMAIN t = 1 .. (Len(q) - 1)
      /\ \A p \in DOMAIN t : p + 1 \in DOMAIN q /\ t[p] = q[p + 1]
      /\ Head(q) = q[1]
  BY <1>0, LenProperties, EmptySeq
<1> HIDE DEF t
<1>2. /\ In(d, q) <=> d = Head(q) \/ In(d, t)
      /\ In(d, t) => Ahead(Head(q), d, q)
  <2>1. ASSUME In(d, t)
        PROVE  In(d, q) /\ Ahead(Head(q), d, q)
    <3>1. PICK p \in DOMAIN t : t[p] = d
      BY <2>1 DEF In
    <3>2. p + 1 \in DOMAIN q /\ q[p + 1] = d /\ 1 \in DOMAIN q /\ 1 < p + 1
      BY <1>1, <3>1
    <3> QED  BY <1>1, <3>2 DEF In, Ahead
  <2>2. ASSUME In(d, q), d # Head(q)
        PROVE  In(d, t)
    <3>1. PICK i \in DOMAIN q : q[i] = d
      BY <2>2 DEF In
    <3>2. i - 1 \in DOMAIN t /\ t[i - 1] = q[(i - 1) + 1] /\ (i - 1) + 1 = i
      BY <1>1, <2>2, <3>1
    <3> QED  BY <3>1, <3>2 DEF In
  <2>3. In(Head(q), q)
    BY <1>1 DEF In
  <2> QED  BY <2>1, <2>2, <2>3
<1>3. ASSUME Ahead(d, e, t)
      PROVE  Ahead(d, e, q)
  <2>1. PICK i, j \in DOMAIN t : i < j /\ t[i] = d /\ t[j] = e
    BY <1>3 DEF Ahead
  <2>2. /\ i + 1 \in DOMAIN q /\ j + 1 \in DOMAIN q /\ i + 1 < j + 1
        /\ q[i + 1] = d /\ q[j + 1] = e
    BY <1>1, <2>1
  <2> QED  BY <2>2 DEF Ahead
<1> QED  BY <1>2, <1>3 DEF t

\* Nobody is ahead of the owner, unless the owner is in the queue twice.
LEMMA BehindNobody ==
  ASSUME NEW S, NEW q \in Seq(S), NEW c, NEW d, Owns(d, q), Ahead(c, d, q)
  PROVE  Ahead(d, d, q)
<1>1. /\ DOMAIN q = 1 .. Len(q) /\ Len(q) \in Nat /\ q[1] = d
  BY LenProperties, HeadTailProperties DEF Owns
<1>2. PICK i, j \in DOMAIN q : i < j /\ q[j] = d
  BY DEF Ahead
<1>3. 1 \in DOMAIN q /\ 1 < j
  BY <1>1, <1>2
<1> QED  BY <1>1, <1>2, <1>3 DEF Ahead

\* The owner leaves; a task that is not the owner changes nothing.
LEMMA ReleaseQueue ==
  ASSUME NEW S, NEW q \in Seq(S), NEW c, In(c, q) => Owns(c, q), ~Ahead(c, c, q), NEW d, NEW e
  PROVE  /\ In(d, Release(c, q)) <=> In(d, q) /\ d # c
         /\ Ahead(d, e, Release(c, q)) => Ahead(d, e, q)
<1>1. CASE Owns(c, q)
  <2>1. q # <<>> /\ Head(q) = c /\ Release(c, q) = Tail(q)
    BY <1>1 DEF Owns, Release
  <2>2. /\ In(d, q) <=> d = c \/ In(d, Tail(q))
        /\ Ahead(d, e, Tail(q)) => Ahead(d, e, q)
    BY <2>1, TailQueue
  <2>3. ~In(c, Tail(q))
    BY <2>1, TailQueue
  <2> QED  BY <2>1, <2>2, <2>3
<1>2. CASE ~Owns(c, q)
  BY <1>2 DEF Release
<1> QED  BY <1>1, <1>2

LEMMA EmptyQueue == ASSUME NEW c, NEW d PROVE ~In(c, <<>>) /\ ~Ahead(c, d, <<>>)
BY DEF In, Ahead

-----------------------------------------------------------------------------
(* Who holds the locks *)

LEMMA HoldsOrder ==
  ASSUME TypeOK, RowsInv, OrderQueueInv, NEW c \in tasks, Operation(c), pc[c] # "order"
  PROVE  /\ Owns(c, orderQ[OrderOf[c]])
         /\ \A d \in tasks : (d # c /\ OrderOf[d] = OrderOf[c]) =>
              pc[d] = "order" /\ Older(c, d)
<1> DEFINE o == OrderOf[c]
<1>0. o \in Order /\ orderQ[o] \in Seq(Cmd) /\ tasks \subseteq Cmd
  BY DEF Operation, TypeOK
<1>1. In(c, orderQ[o])
  BY <1>0 DEF OrderQueueInv
<1>2. ~Ahead(Head(orderQ[o]), c, orderQ[o])
  <2>1. orderQ[o] # <<>>
    BY <1>0, <1>1, HeadQueue
  <2>2. Head(orderQ[o]) \in Cmd
    BY <1>0, <2>1, HeadTailProperties
  <2> QED  BY <1>0, <2>2 DEF OrderQueueInv
<1>3. Owns(c, orderQ[o])
  BY <1>0, <1>1, <1>2, HeadQueue
<1>4. ASSUME NEW d \in tasks, d # c, OrderOf[d] = o
      PROVE  pc[d] = "order" /\ Older(c, d)
  <2>1. In(d, orderQ[o]) /\ Head(orderQ[o]) = c
    BY <1>0, <1>3, <1>4 DEF OrderQueueInv, Owns
  <2>2. Ahead(c, d, orderQ[o])
    BY <1>0, <1>4, <2>1, HeadQueue DEF Owns
  <2> QED  BY <1>0, <2>2 DEF OrderQueueInv
<1> QED  BY <1>3, <1>4

LEMMA HoldsKey ==
  ASSUME TypeOK, KeyQueueInv, NEW c \in tasks, UsesKey(c), pc[c] # "key"
  PROVE  /\ Owns(c, keyQ[KeyOf[c]])
         /\ \A d \in tasks : (d # c /\ UsesKey(d) /\ KeyOf[d] = KeyOf[c]) =>
              pc[d] = "key" /\ ~Owns(d, keyQ[KeyOf[c]])
<1> DEFINE k == KeyOf[c]
<1>0. k \in Key /\ keyQ[k] \in Seq(Cmd) /\ tasks \subseteq Cmd
  BY PayloadAssumption DEF TypeOK
<1>1. In(c, keyQ[k])
  BY <1>0 DEF KeyQueueInv
<1>2. ~Ahead(Head(keyQ[k]), c, keyQ[k])
  <2>1. keyQ[k] # <<>>
    BY <1>0, <1>1, HeadQueue
  <2>2. Head(keyQ[k]) \in Cmd
    BY <1>0, <2>1, HeadTailProperties
  <2> QED  BY <1>0, <2>2 DEF KeyQueueInv
<1>3. Owns(c, keyQ[k])
  BY <1>0, <1>1, <1>2, HeadQueue
<1>4. ASSUME NEW d \in tasks, d # c, UsesKey(d), KeyOf[d] = k
      PROVE  pc[d] = "key" /\ ~Owns(d, keyQ[k])
  <2>1. In(d, keyQ[k]) /\ Head(keyQ[k]) = c
    BY <1>0, <1>3, <1>4 DEF KeyQueueInv, Owns
  <2>2. Ahead(c, d, keyQ[k]) /\ ~Owns(d, keyQ[k])
    BY <1>0, <1>4, <2>1, HeadQueue DEF Owns
  <2> QED  BY <1>0, <2>2 DEF KeyQueueInv
<1> QED  BY <1>3, <1>4

\* The owner of a lock is a task that asked for it.
LEMMA OwnerAsked ==
  ASSUME TypeOK, OrderQueueInv, KeyQueueInv, NEW c \in Cmd
  PROVE  /\ \A o \in Order : Owns(c, orderQ[o]) => c \in tasks /\ OrderOf[c] = o
         /\ \A k \in Key : Owns(c, keyQ[k]) => c \in tasks /\ KeyOf[c] = k /\ UsesKey(c)
BY HeadQueue DEF OrderQueueInv, KeyQueueInv, TypeOK

-----------------------------------------------------------------------------
(* Kinds of steps *)

\* A task that keeps its locks.
Move(c) ==
  \/ PassBarrier(c) \/ CheckCreate(c) \/ CheckOrder(c) \/ ReadOrder(c) \/ ReadPrior(c)
  \/ Post(c)

End(c) == Refuse(c) \/ Answer(c) \/ LoseAnswer(c) \/ Die(c)

BulkMove(b) ==
  BulkBegin(b) \/ BulkFreeze(b) \/ BulkRefuse(b) \/ BulkFinish(b) \/ BulkDie(b)

\* The steps of Next, sorted by what they do to the locks.
LEMMA Steps ==
  ASSUME TypeOK, [Next]_vars
  PROVE  \/ \E c \in Single : StartCommand(c) /\ left' \in [Cmd -> SUBSET Cmd]
         \/ \E c \in Cmd : TakeOrderLock(c)
         \/ \E c \in Cmd : Register(c)
         \/ \E c \in Cmd : TakeKeyLock(c)
         \/ \E c \in Cmd : Move(c)
         \/ \E c \in Cmd : End(c)
         \/ \E b \in Cmd : BulkMove(b)
         \/ \E c \in Cmd : Review(c)
         \/ Crash
         \/ UNCHANGED <<journal, begun, tasks, pc, orderQ, keyQ, mods, barrier, prior, targets>>
            /\ \A c \in Cmd : broker'[c] = broker[c] \/ broker'[c] # "applied"
                              \/ broker[c] = "inflight"
<1> USE DEF durable, locks, external
<1>1. ASSUME NEW c \in Cmd, Dispatch(c)
      PROVE  c \in Single /\ StartCommand(c) /\ left' \in [Cmd -> SUBSET Cmd]
  BY <1>1 DEF Dispatch, Single, TypeOK
<1>2. ASSUME NEW b \in Cmd, NEW c \in Cmd, BulkChild(b, c)
      PROVE  \/ c \in Single /\ StartCommand(c) /\ left' \in [Cmd -> SUBSET Cmd]
             \/ UNCHANGED <<durable, tasks, pc, locks, prior, external, crashes>>
  <2>1. c \in Children(b) /\ left' \in [Cmd -> SUBSET Cmd]
    BY <1>2 DEF BulkChild, TypeOK
  <2>2. c \in Single
    BY <2>1, PayloadAssumption DEF Single, Children
  <2> QED  BY <1>2, <2>1, <2>2 DEF BulkChild
<1>3. ASSUME NEW x \in Cmd, BrokerStep(x)
      PROVE  /\ UNCHANGED <<journal, begun, tasks, pc, orderQ, keyQ, mods, barrier, prior, targets>>
             /\ \A c \in Cmd : broker'[c] = broker[c] \/ broker'[c] # "applied"
                               \/ broker[c] = "inflight"
  BY <1>3 DEF BrokerStep, TypeOK
<1>4. CASE \E c \in Cmd : Step(c) \/ Die(c)
  BY <1>4 DEF Step, Move, End
<1>5. CASE \E c \in Cmd : BulkBegin(c) \/ BulkStep(c)
  BY <1>2, <1>5 DEF BulkStep, BulkMove
<1>6. CASE \E c \in Cmd : Dispatch(c) \/ Review(c) \/ BrokerStep(c)
  BY <1>1, <1>3, <1>6
<1>7. CASE Crash
  BY <1>7
<1>8. CASE UNCHANGED vars
  BY <1>8 DEF vars
<1> QED  BY <1>4, <1>5, <1>6, <1>7, <1>8 DEF Next

\* What a step of each kind does.
LEMMA MoveDoes ==
  ASSUME TypeOK, SubmissionInv, PlaceInv, NEW c \in Cmd, Move(c)
  PROVE  /\ c \in Single /\ c \in tasks
         /\ UNCHANGED <<journal, begun, tasks, orderQ, keyQ, mods, barrier, targets, left>>
         /\ pc[c] \in {"barrier", "check", "read", "prior", "ready"}
         /\ pc'[c] \in {"check", "read", "prior", "ready", "sent"}
         /\ pc'[c] \in {"read", "prior"} => Operation(c)
         /\ pc' = [pc EXCEPT ![c] = pc'[c]]
         /\ \A d \in Cmd : broker'[d] = broker[d] \/ broker'[d] = "inflight"
         /\ \A d \in Cmd \ {c} : prior'[d] = prior[d]
<1> USE DEF durable, locks, external, Move, PassBarrier, CheckCreate, CheckOrder, ReadOrder,
            ReadPrior, Post
<1>1. /\ pc[c] \in {"barrier", "check", "read", "prior", "ready"}
      /\ UNCHANGED <<journal, begun, tasks, orderQ, keyQ, mods, barrier, targets, left>>
  OBVIOUS
<1>2. c \in Single /\ c \in tasks
  BY <1>1 DEF SubmissionInv, Single, Bulk
<1>3. \E l \in {"check", "read", "prior", "ready", "sent"} : pc' = [pc EXCEPT ![c] = l]
  BY DEF Goto
<1>4. pc'[c] \in {"check", "read", "prior", "ready", "sent"} /\ pc' = [pc EXCEPT ![c] = pc'[c]]
  BY <1>3 DEF TypeOK
<1>5. pc'[c] \in {"read", "prior"} => Operation(c)
  BY PayloadAssumption DEF Goto, TypeOK, PlaceInv, Operation
<1>6. /\ \A d \in Cmd : broker'[d] = broker[d] \/ broker'[d] = "inflight"
      /\ \A d \in Cmd \ {c} : prior'[d] = prior[d]
  BY DEF TypeOK
<1> QED  BY <1>1, <1>2, <1>4, <1>5, <1>6

LEMMA EndDoes ==
  ASSUME TypeOK, SubmissionInv, NEW c \in Cmd, End(c)
  PROVE  /\ c \in Single /\ c \in tasks
         /\ pc[c] \in {"check", "read", "prior", "ready", "sent"}
         /\ tasks' = tasks \ {c}
         /\ orderQ' = [o \in Order |-> Release(c, orderQ[o])]
         /\ keyQ' = [k \in Key |-> Release(c, keyQ[k])]
         /\ mods' = [k \in Key |-> mods[k] \ {c}]
         /\ \A d \in Cmd \ {c} : barrier'[d] = barrier[d] /\ prior'[d] = prior[d]
         /\ pc'[c] = "idle"
         /\ \A d \in Cmd \ {c} : pc'[d] = pc[d] \/ (pc[d] = "run" /\ pc'[d] = "failed")
         /\ \E s \in {"sending", "rejected", "accepted", "unknown"} :
              /\ journal' = [journal EXCEPT ![c] = s]
              /\ s \in {"accepted", "unknown"} => pc[c] = "sent"
              /\ s = "sending" => journal[c] = "sending"
         /\ UNCHANGED <<begun, targets, left, broker>>
<1> USE DEF End, Finish, Leave
<1>1. pc[c] \in {"check", "read", "prior", "ready", "sent"}
  BY DEF Refuse, Answer, LoseAnswer, Die
<1>2. c \in Single /\ c \in tasks /\ journal[c] = "sending"
  BY <1>1 DEF SubmissionInv, Single, Bulk
<1>3. PICK s \in {"sending", "rejected", "accepted", "unknown"} :
        Leave(c, s) /\ (s \in {"accepted", "unknown"} => pc[c] = "sent")
  BY <1>2 DEF Refuse, Answer, LoseAnswer, Die
<1>4. /\ pc'[c] = "idle"
      /\ \A d \in Cmd \ {c} : pc'[d] = pc[d] \/ (pc[d] = "run" /\ pc'[d] = "failed")
  BY DEF Refuse, Answer, LoseAnswer, Die, Goto, TypeOK
<1>5. \A d \in Cmd \ {c} : barrier'[d] = barrier[d] /\ prior'[d] = prior[d]
  BY <1>3 DEF TypeOK
<1>6. /\ tasks' = tasks \ {c}
      /\ orderQ' = [o \in Order |-> Release(c, orderQ[o])]
      /\ keyQ' = [k \in Key |-> Release(c, keyQ[k])]
      /\ mods' = [k \in Key |-> mods[k] \ {c}]
      /\ journal' = [journal EXCEPT ![c] = s]
      /\ UNCHANGED <<begun, targets, left, broker>>
  BY <1>3 DEF external
<1>7. \E z \in {"sending", "rejected", "accepted", "unknown"} :
         /\ journal' = [journal EXCEPT ![c] = z]
         /\ z \in {"accepted", "unknown"} => pc[c] = "sent"
         /\ z = "sending" => journal[c] = "sending"
  BY <1>2, <1>3, <1>6
<1> HIDE DEF End, Finish, Leave
<1> QED  BY <1>1, <1>2, <1>4, <1>5, <1>6, <1>7

LEMMA StartDoes ==
  ASSUME TypeOK, SubmissionInv, NEW c \in Single, StartCommand(c)
  PROVE  /\ journal[c] = "none" /\ c \notin tasks /\ pc[c] = "idle" /\ KeyOf[c] \in Key
         /\ journal' = [journal EXCEPT ![c] = "sending"]
         /\ begun' = Append(begun, c)
         /\ tasks' = tasks \cup {c}
         /\ UNCHANGED <<targets, mods, barrier, prior, broker>>
         /\ \/ /\ Kind[c] = "create" /\ pc' = [pc EXCEPT ![c] = "key"]
               /\ keyQ' = [keyQ EXCEPT ![KeyOf[c]] = Append(@, c)]
               /\ UNCHANGED orderQ
            \/ /\ Kind[c] # "create" /\ Operation(c) /\ pc' = [pc EXCEPT ![c] = "order"]
               /\ orderQ' = [orderQ EXCEPT ![OrderOf[c]] = Append(@, c)]
               /\ UNCHANGED keyQ
<1>1. journal[c] = "none" /\ c \notin tasks /\ pc[c] = "idle"
  BY DEF StartCommand, IsNew, SubmissionInv, Single
<1>2. KeyOf[c] \in Key /\ (Kind[c] # "create" => Operation(c))
  BY PayloadAssumption DEF Single, Operation
<1> QED  BY <1>1, <1>2 DEF StartCommand, NewRow, external, Goto

\* A bulk cancel takes no lock of an order or of a key, and no step of it
\* touches the row of a single command.
LEMMA BulkMoveDoes ==
  ASSUME TypeOK, SubmissionInv, NEW b \in Cmd, BulkMove(b)
  PROVE  /\ b \in Bulk
         /\ \A c \in Cmd \ {b} : /\ pc'[c] = pc[c]
                                 /\ journal'[c] = journal[c]
                                 /\ c \in tasks' <=> c \in tasks
                                 /\ barrier'[c] = barrier[c] /\ prior'[c] = prior[c]
         /\ pc'[b] \in {"idle", "open", "run"}
         /\ begun' = begun \/ (begun' = Append(begun, b) /\ journal[b] = "none")
         /\ UNCHANGED broker
         /\ \/ UNCHANGED <<orderQ, keyQ, mods>>
            \/ /\ orderQ' = [o \in Order |-> Release(b, orderQ[o])]
               /\ keyQ' = [k \in Key |-> Release(b, keyQ[k])]
               /\ mods' = [k \in Key |-> mods[k] \ {b}]
<1> USE DEF durable, locks, external
<1>1. b \in Bulk
  BY DEF BulkMove, BulkBegin, BulkFreeze, BulkRefuse, BulkFinish, BulkDie, SubmissionInv, Single, Bulk
<1>2. CASE BulkBegin(b)
  BY <1>1, <1>2 DEF BulkBegin, Goto, TypeOK, IsNew
<1>3. CASE BulkFreeze(b)
  BY <1>1, <1>3 DEF BulkFreeze, Goto, TypeOK
<1>4. CASE BulkRefuse(b) \/ BulkFinish(b) \/ BulkDie(b)
  <2>1. PICK s : Finish(b, s)
    BY <1>4 DEF BulkRefuse, BulkFinish, BulkDie
  <2> QED  BY <1>1, <2>1 DEF Finish, Leave, Goto, TypeOK
<1> QED  BY <1>2, <1>3, <1>4 DEF BulkMove

-----------------------------------------------------------------------------
(* The rows *)

LEMMA RowsInit == Init => RowsInv
BY EmptyQueue DEF Init, RowsInv, Older

LEMMA NewRowKeepsRows ==
  ASSUME TypeOK, RowsInv, NEW c \in Cmd, NEW s, s # "none", journal[c] = "none",
         journal' = [journal EXCEPT ![c] = s], begun' = Append(begun, c), tasks' = tasks \cup {c}
  PROVE  RowsInv'
<1>1. ASSUME NEW d, NEW e
      PROVE  /\ In(d, begun') <=> In(d, begun) \/ d = c
             /\ Ahead(d, e, begun') <=> Ahead(d, e, begun) \/ (In(d, begun) /\ e = c)
  <2>1. begun \in Seq(Cmd)
    BY DEF TypeOK
  <2> QED  BY <2>1, AppendQueue
<1>2. ~In(c, begun)
  BY DEF RowsInv
<1>3. ASSUME NEW d, NEW e, Ahead(d, e, begun)
      PROVE  In(d, begun) /\ In(e, begun)
  BY <1>3 DEF In, Ahead
<1>4. journal'[c] = s /\ \A d \in Cmd \ {c} : journal'[d] = journal[d]
  BY DEF TypeOK
<1>5. \A d, e \in Cmd : Ahead(d, e, begun') => d # e /\ ~Ahead(e, d, begun')
  BY <1>1, <1>2, <1>3 DEF RowsInv, Older
<1>6. \A d \in Cmd : journal'[d] # "none" <=> In(d, begun')
  BY <1>1, <1>4 DEF RowsInv
<1>7. \A d \in tasks' : journal'[d] # "none"
  BY <1>4 DEF RowsInv, TypeOK
<1> QED  BY <1>5, <1>6, <1>7 DEF RowsInv, Older

LEMMA OldRowKeepsRows ==
  ASSUME RowsInv, begun' = begun,
         \A c \in Cmd : journal'[c] # "none" <=> journal[c] # "none",
         \A c \in tasks' : c \in Cmd /\ journal'[c] # "none"
  PROVE  RowsInv'
BY DEF RowsInv, Older

LEMMA RowsNext == TypeOK /\ SubmissionInv /\ RowsInv /\ [Next]_vars => RowsInv'
<1> SUFFICES ASSUME TypeOK, SubmissionInv, RowsInv, [Next]_vars
             PROVE  RowsInv'
  OBVIOUS
<1> USE DEF durable, locks, external
<1>0. tasks \subseteq Cmd /\ \A c \in tasks : journal[c] # "none"
  BY DEF TypeOK, RowsInv
<1>1. ASSUME NEW c \in Single, StartCommand(c)
      PROVE  RowsInv'
  <2>1. c \in Cmd
    BY DEF Single
  <2> QED  BY <1>1, <2>1, StartDoes, NewRowKeepsRows
<1>2. ASSUME NEW c \in Cmd, TakeOrderLock(c) \/ Register(c) \/ TakeKeyLock(c) \/ Move(c)
      PROVE  RowsInv'
  <2>1. UNCHANGED <<journal, begun, tasks>>
    BY <1>2 DEF TakeOrderLock, Register, TakeKeyLock, Move, PassBarrier, CheckCreate,
       CheckOrder, ReadOrder, ReadPrior, Post
  <2> QED  BY <1>0, <2>1, OldRowKeepsRows
<1>3. ASSUME NEW c \in Cmd, End(c)
      PROVE  RowsInv'
  <2>1. PICK s \in {"sending", "rejected", "accepted", "unknown"} :
          journal' = [journal EXCEPT ![c] = s]
    BY <1>3, EndDoes
  <2>2. c \in tasks /\ tasks' = tasks \ {c} /\ begun' = begun
    BY <1>3, EndDoes
  <2>3. \A d \in Cmd : journal'[d] # "none" <=> journal[d] # "none"
    BY <1>0, <2>1, <2>2 DEF TypeOK
  <2> QED  BY <1>0, <2>2, <2>3, OldRowKeepsRows
<1>4. ASSUME NEW b \in Cmd, BulkBegin(b)
      PROVE  RowsInv'
  <2>1. CASE journal[b] = "none"
    <3>1. journal' = [journal EXCEPT ![b] = "sending"] /\ begun' = Append(begun, b)
          /\ tasks' = tasks \cup {b}
      BY <1>4, <2>1 DEF BulkBegin
    <3> QED  BY <2>1, <3>1, NewRowKeepsRows
  <2>2. CASE journal[b] # "none"
    <3>1. UNCHANGED <<journal, begun>> /\ tasks' = tasks \cup {b}
      BY <1>4, <2>2 DEF BulkBegin, IsNew
    <3> QED  BY <1>0, <2>2, <3>1, OldRowKeepsRows
  <2> QED  BY <2>1, <2>2
<1>5. ASSUME NEW b \in Cmd, BulkFreeze(b)
      PROVE  RowsInv'
  <2>1. /\ journal[b] # "none" /\ begun' = begun /\ tasks' = tasks
        /\ journal' = [journal EXCEPT ![b] = "batch"] \/ journal' = journal
    BY <1>5 DEF BulkFreeze
  <2>2. \A d \in Cmd : journal'[d] # "none" <=> journal[d] # "none"
    BY <2>1 DEF TypeOK
  <2> QED  BY <1>0, <2>1, <2>2, OldRowKeepsRows
<1>6. ASSUME NEW b \in Cmd, BulkRefuse(b) \/ BulkFinish(b) \/ BulkDie(b)
      PROVE  RowsInv'
  <2>1. b \in tasks /\ journal[b] # "none"
    BY <1>0, <1>6 DEF BulkRefuse, BulkFinish, BulkDie, SubmissionInv
  <2>2. PICK s : Finish(b, s) /\ s # "none"
    BY <1>6, <2>1 DEF BulkRefuse, BulkFinish, BulkDie
  <2>3. begun' = begun /\ tasks' = tasks \ {b} /\ journal' = [journal EXCEPT ![b] = s]
    BY <2>2 DEF Finish, Leave
  <2>4. \A d \in Cmd : journal'[d] # "none" <=> journal[d] # "none"
    BY <2>1, <2>2, <2>3 DEF TypeOK
  <2> QED  BY <1>0, <2>3, <2>4, OldRowKeepsRows
<1>7. ASSUME NEW c \in Cmd, Review(c)
      PROVE  RowsInv'
  <2>1. /\ journal[c] # "none" /\ begun' = begun /\ tasks' = tasks
        /\ journal' = [journal EXCEPT ![c] = "reviewed"]
    BY <1>7 DEF Review, Reviewable, UnresolvedState
  <2>2. \A d \in Cmd : journal'[d] # "none" <=> journal[d] # "none"
    BY <2>1 DEF TypeOK
  <2> QED  BY <1>0, <2>1, <2>2, OldRowKeepsRows
<1>8. CASE Crash
  <2>1. UNCHANGED <<journal, begun>> /\ tasks' = {}
    BY <1>8 DEF Crash
  <2> QED  BY <2>1, OldRowKeepsRows
<1>9. CASE UNCHANGED <<journal, begun, tasks>>
  BY <1>0, <1>9, OldRowKeepsRows
<1> QED
  BY <1>1, <1>2, <1>3, <1>4, <1>5, <1>6, <1>7, <1>8, <1>9, Steps DEF BulkMove

-----------------------------------------------------------------------------
(* The order locks *)

OlderKept == \A c, d \in Cmd : Older(c, d) => Older(c, d)'

LEMMA BegunGrows ==
  ASSUME TypeOK, NEW x \in Cmd, begun' = begun \/ begun' = Append(begun, x)
  PROVE  OlderKept
<1>1. begun \in Seq(Cmd)
  BY DEF TypeOK
<1>2. ASSUME NEW c \in Cmd, NEW d \in Cmd, Older(c, d)
      PROVE  Older(c, d)'
  <2>1. CASE begun' = begun
    BY <1>2, <2>1 DEF Older
  <2>2. CASE begun' = Append(begun, x)
    BY <1>1, <1>2, <2>2, AppendQueue DEF Older
  <2> QED  BY <2>1, <2>2
<1> QED  BY <1>2 DEF OlderKept

\* The queues stay; only an owner stops waiting.
LEMMA OrderSame ==
  ASSUME TypeOK, OrderQueueInv, RowsInv, OlderKept, orderQ' = orderQ,
         \A c \in Cmd : Operation(c) =>
           /\ c \in tasks' <=> c \in tasks
           /\ pc[c] = "order" => pc'[c] = "order" \/ Owns(c, orderQ[OrderOf[c]])
  PROVE  OrderQueueInv'
<1>1. ASSUME NEW o \in Order, NEW c \in Cmd
      PROVE  In(c, orderQ'[o]) <=> c \in tasks' /\ OrderOf[c] = o
  BY DEF OrderQueueInv, Operation
<1>2. ASSUME NEW o \in Order, NEW c \in Cmd, NEW d \in Cmd, Ahead(c, d, orderQ'[o])
      PROVE  Older(c, d)' /\ pc'[d] = "order"
  <2>1. Ahead(c, d, orderQ[o]) /\ orderQ[o] \in Seq(Cmd)
    BY <1>2 DEF TypeOK
  <2>2. Older(c, d) /\ pc[d] = "order"
    BY <2>1 DEF OrderQueueInv
  <2>3. Older(c, d)'
    BY <2>2 DEF OlderKept
  <2>4. In(c, orderQ[o]) /\ In(d, orderQ[o])
    BY <2>1 DEF In, Ahead
  <2>5. OrderOf[d] = o /\ Operation(d)
    BY <2>4 DEF OrderQueueInv, Operation
  <2>6. ~Owns(d, orderQ[o])
    <3>1. SUFFICES ASSUME Owns(d, orderQ[o])
                   PROVE  FALSE
      OBVIOUS
    <3>2. Ahead(d, d, orderQ[o])
      BY <2>1, <3>1, BehindNobody
    <3> QED  BY <3>2 DEF OrderQueueInv, RowsInv
  <2> QED  BY <2>2, <2>3, <2>5, <2>6
<1> QED  BY <1>1, <1>2 DEF OrderQueueInv

\* A new command goes to the end of the queue of its order.
LEMMA OrderAppend ==
  ASSUME TypeOK, OrderQueueInv, RowsInv, NEW c \in Cmd, Operation(c), c \notin tasks,
         journal[c] = "none", begun' = Append(begun, c),
         tasks' = tasks \cup {c}, pc' = [pc EXCEPT ![c] = "order"],
         orderQ' = [orderQ EXCEPT ![OrderOf[c]] = Append(@, c)]
  PROVE  OrderQueueInv'
<1>0. begun \in Seq(Cmd) /\ \A o \in Order : orderQ[o] \in Seq(Cmd)
  BY DEF TypeOK
<1>1. \A o \in Order : orderQ'[o] = IF o = OrderOf[c] THEN Append(orderQ[o], c) ELSE orderQ[o]
  BY DEF TypeOK
<1>2. ASSUME NEW o \in Order, NEW d, NEW e
      PROVE  /\ In(d, orderQ'[o]) <=> In(d, orderQ[o]) \/ (d = c /\ o = OrderOf[c])
             /\ Ahead(d, e, orderQ'[o]) <=>
                  Ahead(d, e, orderQ[o]) \/ (In(d, orderQ[o]) /\ e = c /\ o = OrderOf[c])
  <2>1. CASE o = OrderOf[c]
    <3>1. orderQ'[o] = Append(orderQ[o], c) /\ orderQ[o] \in Seq(Cmd)
      BY <1>0, <1>1, <2>1
    <3>2. /\ In(d, Append(orderQ[o], c)) <=> In(d, orderQ[o]) \/ d = c
          /\ Ahead(d, e, Append(orderQ[o], c)) <=>
               Ahead(d, e, orderQ[o]) \/ (In(d, orderQ[o]) /\ e = c)
      BY <3>1, AppendQueue
    <3> QED  BY <2>1, <3>1, <3>2
  <2>2. CASE o # OrderOf[c]
    BY <1>1, <2>2
  <2> QED  BY <2>1, <2>2
<1>3. \A o \in Order : \A d \in Cmd : In(d, orderQ'[o]) <=> d \in tasks' /\ OrderOf[d] = o
  BY <1>2 DEF OrderQueueInv, Operation
<1>4. ASSUME NEW d, NEW e
      PROVE  Older(d, e)' <=> Older(d, e) \/ (In(d, begun) /\ e = c)
  BY <1>0, AppendQueue DEF Older
<1>5. ASSUME NEW o \in Order, NEW d \in Cmd, NEW e \in Cmd, Ahead(d, e, orderQ'[o])
      PROVE  Older(d, e)' /\ pc'[e] = "order"
  <2>1. CASE Ahead(d, e, orderQ[o])
    BY <1>4, <2>1 DEF OrderQueueInv, TypeOK
  <2>2. CASE In(d, orderQ[o]) /\ e = c
    <3>1. d \in tasks
      BY <2>2 DEF OrderQueueInv
    <3>2. In(d, begun)
      BY <3>1 DEF RowsInv
    <3> QED  BY <1>4, <2>2, <3>2 DEF TypeOK
  <2> QED  BY <1>2, <1>5, <2>1, <2>2
<1> QED  BY <1>3, <1>5 DEF OrderQueueInv

\* A command that has its order's lock, or asked for none, ends.
LEMMA OrderLeave ==
  ASSUME TypeOK, OrderQueueInv, RowsInv, begun' = begun, NEW c \in Cmd,
         c \in tasks => ~Operation(c) \/ pc[c] # "order",
         tasks' = tasks \ {c}, orderQ' = [o \in Order |-> Release(c, orderQ[o])],
         \A d \in Cmd \ {c} : pc[d] = "order" => pc'[d] = "order"
  PROVE  OrderQueueInv'
<1>1. \A o \in Order : orderQ[o] \in Seq(Cmd) /\ orderQ'[o] = Release(c, orderQ[o])
  BY DEF TypeOK
<1>2. ASSUME NEW o \in Order
      PROVE  /\ In(c, orderQ[o]) => Owns(c, orderQ[o])
             /\ ~Ahead(c, c, orderQ[o])
  <2>1. ASSUME In(c, orderQ[o])
        PROVE  Owns(c, orderQ[o])
    <3>1. c \in tasks /\ OrderOf[c] = o /\ Operation(c)
      BY <2>1 DEF OrderQueueInv, Operation
    <3> QED  BY <3>1, HoldsOrder
  <2>2. ~Ahead(c, c, orderQ[o])
    BY DEF OrderQueueInv, RowsInv
  <2> QED  BY <2>1, <2>2
<1>3. ASSUME NEW o \in Order, NEW d, NEW e
      PROVE  /\ In(d, orderQ'[o]) <=> In(d, orderQ[o]) /\ d # c
             /\ Ahead(d, e, orderQ'[o]) => Ahead(d, e, orderQ[o])
  BY <1>1, <1>2, ReleaseQueue
<1>4. \A o \in Order : \A d \in Cmd : In(d, orderQ'[o]) <=> d \in tasks' /\ OrderOf[d] = o
  BY <1>3 DEF OrderQueueInv
<1>5. ASSUME NEW o \in Order, NEW d \in Cmd, NEW e \in Cmd, Ahead(d, e, orderQ'[o])
      PROVE  Older(d, e)' /\ pc'[e] = "order"
  <2>1. Older(d, e)' /\ pc[e] = "order"
    BY <1>3, <1>5 DEF OrderQueueInv, Older
  <2>2. In(e, orderQ'[o])
    BY <1>5 DEF In, Ahead
  <2> QED  BY <1>3, <2>1, <2>2
<1> QED  BY <1>4, <1>5 DEF OrderQueueInv

-----------------------------------------------------------------------------
(* The key locks *)

Keyed(c) == c \in tasks /\ UsesKey(c)

LEMMA KeySame ==
  ASSUME TypeOK, KeyQueueInv, keyQ' = keyQ,
         \A c \in Cmd : /\ Keyed(c)' <=> Keyed(c)
                        /\ Keyed(c) /\ pc[c] = "key" =>
                             pc'[c] = "key" \/ Owns(c, keyQ[KeyOf[c]])
  PROVE  KeyQueueInv'
<1>1. ASSUME NEW k \in Key, NEW c \in Cmd
      PROVE  In(c, keyQ'[k]) <=> c \in tasks' /\ UsesKey(c)' /\ KeyOf[c] = k
  BY DEF KeyQueueInv, Keyed
<1>2. ASSUME NEW k \in Key, NEW c \in Cmd, NEW d \in Cmd, Ahead(c, d, keyQ'[k])
      PROVE  c # d /\ pc'[d] = "key"
  <2>1. Ahead(c, d, keyQ[k]) /\ keyQ[k] \in Seq(Cmd)
    BY <1>2 DEF TypeOK
  <2>2. c # d /\ pc[d] = "key"
    BY <2>1 DEF KeyQueueInv
  <2>3. In(c, keyQ[k]) /\ In(d, keyQ[k])
    BY <2>1 DEF In, Ahead
  <2>4. KeyOf[d] = k /\ Keyed(d)
    BY <2>3 DEF KeyQueueInv, Keyed
  <2>5. CASE Owns(d, keyQ[k])
    <3>1. Ahead(d, d, keyQ[k])
      BY <2>1, <2>5, BehindNobody
    <3> QED  BY <3>1 DEF KeyQueueInv
  <2> QED  BY <2>2, <2>4, <2>5
<1> QED  BY <1>1, <1>2 DEF KeyQueueInv

LEMMA KeyAppend ==
  ASSUME TypeOK, KeyQueueInv, NEW c \in Cmd, ~Keyed(c), Keyed(c)', pc'[c] = "key",
         keyQ' = [keyQ EXCEPT ![KeyOf[c]] = Append(@, c)],
         \A d \in Cmd \ {c} : /\ Keyed(d)' <=> Keyed(d)
                              /\ pc'[d] = pc[d]
  PROVE  KeyQueueInv'
<1>0. \A k \in Key : keyQ[k] \in Seq(Cmd)
  BY DEF TypeOK
<1>1. \A k \in Key : keyQ'[k] = IF k = KeyOf[c] THEN Append(keyQ[k], c) ELSE keyQ[k]
  BY DEF TypeOK
<1>2. ASSUME NEW k \in Key, NEW d, NEW e
      PROVE  /\ In(d, keyQ'[k]) <=> In(d, keyQ[k]) \/ (d = c /\ k = KeyOf[c])
             /\ Ahead(d, e, keyQ'[k]) <=>
                  Ahead(d, e, keyQ[k]) \/ (In(d, keyQ[k]) /\ e = c /\ k = KeyOf[c])
  <2>1. CASE k = KeyOf[c]
    <3>1. keyQ'[k] = Append(keyQ[k], c) /\ keyQ[k] \in Seq(Cmd)
      BY <1>0, <1>1, <2>1
    <3>2. /\ In(d, Append(keyQ[k], c)) <=> In(d, keyQ[k]) \/ d = c
          /\ Ahead(d, e, Append(keyQ[k], c)) <=>
               Ahead(d, e, keyQ[k]) \/ (In(d, keyQ[k]) /\ e = c)
      BY <3>1, AppendQueue
    <3> QED  BY <2>1, <3>1, <3>2
  <2>2. CASE k # KeyOf[c]
    BY <1>1, <2>2
  <2> QED  BY <2>1, <2>2
<1>3. ASSUME NEW k \in Key, NEW d \in Cmd
      PROVE  In(d, keyQ'[k]) <=> d \in tasks' /\ UsesKey(d)' /\ KeyOf[d] = k
  <2>1. In(d, keyQ'[k]) <=> Keyed(d)' /\ KeyOf[d] = k
    BY <1>2 DEF KeyQueueInv, Keyed
  <2> QED  BY <2>1 DEF Keyed
<1>4. ASSUME NEW k \in Key, NEW d \in Cmd, NEW e \in Cmd, Ahead(d, e, keyQ'[k])
      PROVE  d # e /\ pc'[e] = "key"
  <2>1. CASE Ahead(d, e, keyQ[k])
    BY <2>1 DEF KeyQueueInv
  <2>2. CASE In(d, keyQ[k]) /\ e = c
    BY <2>2 DEF KeyQueueInv, Keyed
  <2> QED  BY <1>2, <1>4, <2>1, <2>2
<1> QED  BY <1>3, <1>4 DEF KeyQueueInv

LEMMA KeyLeave ==
  ASSUME TypeOK, KeyQueueInv, NEW c \in Cmd, ~Keyed(c)',
         Keyed(c) => Owns(c, keyQ[KeyOf[c]]),
         keyQ' = [k \in Key |-> Release(c, keyQ[k])],
         \A d \in Cmd \ {c} : /\ Keyed(d)' <=> Keyed(d)
                              /\ pc[d] = "key" => pc'[d] = "key"
  PROVE  KeyQueueInv'
<1>1. \A k \in Key : keyQ[k] \in Seq(Cmd) /\ keyQ'[k] = Release(c, keyQ[k])
  BY DEF TypeOK
<1>2. ASSUME NEW k \in Key
      PROVE  (In(c, keyQ[k]) => Owns(c, keyQ[k])) /\ ~Ahead(c, c, keyQ[k])
  BY DEF KeyQueueInv, Keyed
<1>3. ASSUME NEW k \in Key, NEW d, NEW e
      PROVE  /\ In(d, keyQ'[k]) <=> In(d, keyQ[k]) /\ d # c
             /\ Ahead(d, e, keyQ'[k]) => Ahead(d, e, keyQ[k])
  BY <1>1, <1>2, ReleaseQueue
<1>4. ASSUME NEW k \in Key, NEW d \in Cmd
      PROVE  In(d, keyQ'[k]) <=> d \in tasks' /\ UsesKey(d)' /\ KeyOf[d] = k
  <2>1. In(d, keyQ'[k]) <=> Keyed(d)' /\ KeyOf[d] = k
    BY <1>3 DEF KeyQueueInv, Keyed
  <2> QED  BY <2>1 DEF Keyed
<1>5. ASSUME NEW k \in Key, NEW d \in Cmd, NEW e \in Cmd, Ahead(d, e, keyQ'[k])
      PROVE  d # e /\ pc'[e] = "key"
  <2>1. d # e /\ pc[e] = "key"
    BY <1>3, <1>5 DEF KeyQueueInv
  <2>2. In(e, keyQ'[k])
    BY <1>5 DEF In, Ahead
  <2> QED  BY <1>3, <2>1, <2>2
<1> QED  BY <1>4, <1>5 DEF KeyQueueInv

-----------------------------------------------------------------------------
(* All the locks *)

\* A step that concerns bulk cancels only, or no task at all.
LEMMA LocksStay ==
  ASSUME TypeOK, RowsInv, LockInv, OlderKept, UNCHANGED <<orderQ, keyQ>>,
         \A k \in Key : mods[k] \cap Single \subseteq mods'[k],
         \A c \in Single : /\ pc'[c] = pc[c] /\ barrier'[c] = barrier[c]
                           /\ c \in tasks' <=> c \in tasks,
         \A b \in Bulk : pc'[b] \in {"idle", "open", "run", "failed"}
  PROVE  LockInv'
<1>1. \A c \in Cmd : c \in Single \/ c \in Bulk
  BY DEF Single, Bulk
<1>2. /\ \A c \in Single : c \in Cmd /\ KeyOf[c] \in Key
      /\ \A b \in Bulk : b \in Cmd /\ ~Operation(b) /\ ~UsesKey(b) /\ Kind[b] = "bulk"
  BY PayloadAssumption DEF Single, Bulk, Operation, UsesKey
<1>3. PlaceInv'
  BY <1>1, <1>2 DEF LockInv, PlaceInv, Operation
<1>4. OrderQueueInv'
  BY <1>1, <1>2, OrderSame DEF LockInv, Operation
<1>5. KeyQueueInv'
  <2>1. \A b \in Bulk : ~UsesKey(b)'
    BY <1>2 DEF UsesKey
  <2>2. \A c \in Cmd : (Keyed(c)' <=> Keyed(c)) /\ (Keyed(c) => pc'[c] = pc[c])
    BY <1>1, <1>2, <2>1 DEF Keyed, UsesKey
  <2> QED  BY <2>2, KeySame DEF LockInv
<1>6. BarrierInv'
  <2>1. \A d \in Cmd : Registered(d)' <=> Registered(d)
    BY <1>1, <1>2 DEF Registered
  <2>2. \A d \in Cmd : Registered(d) => d \in Single
    BY <1>1, <1>2 DEF Registered
  <2>3. \A d \in Cmd : Registered(d)' => d \in mods'[KeyOf[d]]
    BY <1>2, <2>1, <2>2 DEF LockInv, BarrierInv
  <2>4. ASSUME NEW c \in Cmd, NEW d \in Cmd, Kind[c] = "create", Registered(d)', KeyOf[d] = KeyOf[c]
        PROVE  /\ pc'[c] = "barrier" => d \in barrier'[c]
               /\ pc'[c] \notin {"check", "ready", "sent"}
    <3>1. c \in Single
      BY <1>1, <1>2, <2>4
    <3> QED  BY <2>1, <2>4, <3>1 DEF LockInv, BarrierInv
  <2> QED  BY <2>3, <2>4 DEF BarrierInv
<1> QED  BY <1>3, <1>4, <1>5, <1>6 DEF LockInv

LEMMA LockInit == Init => LockInv
<1> SUFFICES ASSUME Init
             PROVE  LockInv
  OBVIOUS
<1>1. \A o \in Order : orderQ[o] = <<>>
  BY DEF Init
<1>2. \A k \in Key : keyQ[k] = <<>>
  BY DEF Init
<1>3. PlaceInv /\ BarrierInv
  BY DEF Init, PlaceInv, BarrierInv, Registered
<1>4. OrderQueueInv
  BY <1>1, EmptyQueue DEF Init, OrderQueueInv
<1>5. KeyQueueInv
  BY <1>2, EmptyQueue DEF Init, KeyQueueInv
<1> QED  BY <1>3, <1>4, <1>5 DEF LockInv

LEMMA StartLocks ==
  ASSUME TypeOK, SubmissionInv, RowsInv, LockInv, NEW c \in Single, StartCommand(c)
  PROVE  LockInv'
<1> USE DEF LockInv
<1>0. /\ c \in Cmd /\ Kind[c] # "bulk" /\ KeyOf[c] \in Key
      /\ Operation(c) <=> Kind[c] \in {"modify", "cancel"}
      /\ Kind[c] \in {"create", "modify", "cancel"}
  BY PayloadAssumption DEF Single, Operation
<1>1. /\ journal[c] = "none" /\ c \notin tasks /\ pc[c] = "idle"
      /\ begun' = Append(begun, c) /\ tasks' = tasks \cup {c}
      /\ UNCHANGED <<mods, barrier>>
  BY StartDoes
<1>2. \A d \in Cmd \ {c} : pc'[d] = pc[d] /\ (d \in tasks' <=> d \in tasks)
  <2>1. pc' = [pc EXCEPT ![c] = "key"] \/ pc' = [pc EXCEPT ![c] = "order"]
    BY StartDoes
  <2> QED  BY <1>1, <2>1 DEF TypeOK
<1>3. CASE Kind[c] = "create"
  <2>1. /\ pc'[c] = "key" /\ orderQ' = orderQ
        /\ keyQ' = [keyQ EXCEPT ![KeyOf[c]] = Append(@, c)]
    BY <1>0, <1>3, StartDoes DEF TypeOK
  <2>2. OlderKept
    BY <1>0, <1>1, BegunGrows
  <2>3. OrderQueueInv'
    BY <1>0, <1>2, <1>3, <2>1, <2>2, OrderSame
  <2>4. KeyQueueInv'
    <3>1. ~Keyed(c) /\ Keyed(c)'
      BY <1>1, <1>3, <2>1 DEF Keyed, UsesKey
    <3>2. \A d \in Cmd \ {c} : Keyed(d)' <=> Keyed(d)
      BY <1>2 DEF Keyed, UsesKey
    <3> QED  BY <1>0, <1>2, <2>1, <3>1, <3>2, KeyAppend
  <2>5. PlaceInv'
    BY <1>0, <1>2, <2>1 DEF PlaceInv, Operation
  <2>6. BarrierInv'
    BY <1>0, <1>1, <1>2, <1>3, <2>1 DEF BarrierInv, Registered
  <2> QED  BY <2>3, <2>4, <2>5, <2>6
<1>4. CASE Kind[c] # "create"
  <2>1. /\ pc' = [pc EXCEPT ![c] = "order"] /\ keyQ' = keyQ /\ Operation(c)
        /\ orderQ' = [orderQ EXCEPT ![OrderOf[c]] = Append(@, c)]
    BY <1>4, StartDoes
  <2>2. pc'[c] = "order"
    BY <1>0, <2>1 DEF TypeOK
  <2>3. OrderQueueInv'
    BY <1>0, <1>1, <2>1, OrderAppend
  <2>4. KeyQueueInv'
    <3>1. \A d \in Cmd : (Keyed(d)' <=> Keyed(d)) /\ (Keyed(d) => pc'[d] = pc[d])
      BY <1>1, <1>2, <1>4, <2>2 DEF Keyed, UsesKey
    <3> QED  BY <2>1, <3>1, KeySame
  <2>5. PlaceInv'
    BY <1>0, <1>2, <2>1, <2>2 DEF PlaceInv, Operation
  <2>6. BarrierInv'
    BY <1>0, <1>1, <1>2, <1>4, <2>2 DEF BarrierInv, Registered
  <2> QED  BY <2>3, <2>4, <2>5, <2>6
<1> QED  BY <1>3, <1>4

LEMMA TakeOrderLocks ==
  ASSUME TypeOK, SubmissionInv, RowsInv, LockInv, NEW c \in Cmd, TakeOrderLock(c)
  PROVE  LockInv'
<1> USE DEF LockInv
<1>0. /\ pc[c] = "order" /\ Owns(c, orderQ[OrderOf[c]]) /\ c \in tasks /\ KeyOf[c] \in Key
      /\ UNCHANGED <<begun, tasks, orderQ, mods, barrier>>
      /\ Operation(c) /\ Kind[c] \in {"modify", "cancel"}
  BY PayloadAssumption DEF TakeOrderLock, SubmissionInv, durable, PlaceInv, Operation
<1>1. \A d \in Cmd \ {c} : pc'[d] = pc[d]
  BY DEF TakeOrderLock, Goto, TypeOK
<1>2. OlderKept
  BY <1>0, BegunGrows
<1>3. OrderQueueInv'
  BY <1>0, <1>1, <1>2, OrderSame
<1>4. CASE Kind[c] = "modify"
  <2>1. pc'[c] = "key" /\ keyQ' = [keyQ EXCEPT ![KeyOf[c]] = Append(@, c)]
    BY <1>4 DEF TakeOrderLock, Goto, TypeOK
  <2>2. ~Keyed(c) /\ Keyed(c)'
    BY <1>0, <1>4, <2>1 DEF Keyed, UsesKey
  <2>3. \A d \in Cmd \ {c} : Keyed(d)' <=> Keyed(d)
    BY <1>0, <1>1 DEF Keyed, UsesKey
  <2>4. KeyQueueInv'
    BY <1>1, <2>1, <2>2, <2>3, KeyAppend
  <2>5. PlaceInv'
    BY <1>0, <1>1, <2>1 DEF PlaceInv, Operation
  <2>6. BarrierInv'
    BY <1>0, <1>1, <1>4, <2>1 DEF BarrierInv, Registered
  <2> QED  BY <1>3, <2>4, <2>5, <2>6
<1>5. CASE Kind[c] = "cancel"
  <2>1. pc'[c] = "check" /\ keyQ' = keyQ
    BY <1>5 DEF TakeOrderLock, Goto, TypeOK
  <2>2. \A d \in Cmd : (Keyed(d)' <=> Keyed(d)) /\ (Keyed(d) => pc'[d] = pc[d])
    BY <1>0, <1>1, <1>5 DEF Keyed, UsesKey
  <2>3. KeyQueueInv'
    BY <2>1, <2>2, KeySame
  <2>4. PlaceInv'
    BY <1>0, <1>1, <2>1 DEF PlaceInv, Operation
  <2>5. BarrierInv'
    BY <1>0, <1>1, <1>5, <2>1 DEF BarrierInv, Registered
  <2> QED  BY <1>3, <2>3, <2>4, <2>5
<1> QED  BY <1>0, <1>4, <1>5

LEMMA RegisterLocks ==
  ASSUME TypeOK, SubmissionInv, RowsInv, LockInv, NEW c \in Cmd, Register(c)
  PROVE  LockInv'
<1> USE DEF LockInv
<1>8. pc[c] = "key" /\ pc' = [pc EXCEPT ![c] = "check"]
  BY DEF Register, Goto
<1>9. c \in tasks /\ KeyOf[c] \in Key /\ pc'[c] = "check"
  <2>1. c \in tasks
    BY <1>8 DEF SubmissionInv
  <2>2. pc'[c] = "check"
    BY <1>8 DEF TypeOK
  <2> QED  BY <2>1, <2>2, PayloadAssumption
<1>0. /\ Kind[c] = "modify" /\ pc[c] = "key" /\ Owns(c, keyQ[KeyOf[c]]) /\ c \in tasks
      /\ KeyOf[c] \in Key /\ pc'[c] = "check"
      /\ UNCHANGED <<begun, tasks, orderQ, barrier>>
      /\ mods' = [mods EXCEPT ![KeyOf[c]] = @ \cup {c}]
      /\ keyQ' = [keyQ EXCEPT ![KeyOf[c]] = Tail(@)]
  BY <1>9 DEF Register, durable
<1>1. \A d \in Cmd \ {c} : pc'[d] = pc[d]
  BY DEF Register, Goto, TypeOK
<1>2. OlderKept
  BY <1>0, BegunGrows
<1>3. OrderQueueInv'
  BY <1>0, <1>1, <1>2, OrderSame
<1>4. keyQ' = [k \in Key |-> Release(c, keyQ[k])]
  <2>1. \A k \in Key : Owns(c, keyQ[k]) <=> k = KeyOf[c]
    BY <1>0, OwnerAsked
  <2>2. \A k \in Key : keyQ'[k] = Release(c, keyQ[k])
    BY <1>0, <2>1 DEF TypeOK, Release
  <2> QED  BY <1>0, <2>2 DEF TypeOK
<1>5. KeyQueueInv'
  <2>1. ~Keyed(c)' /\ \A d \in Cmd \ {c} : Keyed(d)' <=> Keyed(d)
    BY <1>0, <1>1 DEF Keyed, UsesKey
  <2> QED  BY <1>0, <1>1, <1>4, <2>1, KeyLeave
<1>6. PlaceInv'
  BY <1>0, <1>1 DEF PlaceInv, Operation
<1>7. BarrierInv'
  <2>1. /\ \A d \in Cmd : Registered(d)' <=> Registered(d) \/ d = c
        /\ \A k \in Key : mods[k] \subseteq mods'[k]
        /\ c \in mods'[KeyOf[c]]
    BY <1>0, <1>1 DEF Registered, TypeOK
  <2>2. \A d \in Cmd : Registered(d)' => d \in mods'[KeyOf[d]]
    BY <2>1, PayloadAssumption DEF BarrierInv
  <2>3. ASSUME NEW e \in Cmd, NEW d \in Cmd, Kind[e] = "create", Registered(d)', KeyOf[d] = KeyOf[e]
        PROVE  /\ pc'[e] = "barrier" => d \in barrier'[e]
               /\ pc'[e] \notin {"check", "ready", "sent"}
    <3>1. CASE d = c
      <4>1. pc[e] # "idle" => e \in tasks /\ UsesKey(e)
        BY <2>3 DEF SubmissionInv, UsesKey
      <4>2. Keyed(c)
        BY <1>0 DEF Keyed, UsesKey
      <4>3. pc[e] \in {"idle", "key"} /\ e # c
        BY <1>0, <2>3, <3>1, <4>1, <4>2, HoldsKey DEF Keyed
      <4> QED  BY <1>1, <4>3
    <3>2. CASE d # c
      BY <1>0, <1>1, <2>1, <2>3, <3>2 DEF BarrierInv
    <3> QED  BY <3>1, <3>2
  <2> QED  BY <2>2, <2>3 DEF BarrierInv
<1> QED  BY <1>3, <1>5, <1>6, <1>7

LEMMA TakeKeyLocks ==
  ASSUME TypeOK, SubmissionInv, RowsInv, LockInv, NEW c \in Cmd, TakeKeyLock(c)
  PROVE  LockInv'
<1> USE DEF LockInv
<1>0. /\ Kind[c] = "create" /\ pc[c] = "key" /\ Owns(c, keyQ[KeyOf[c]]) /\ c \in tasks
      /\ ~Operation(c)
  BY PayloadAssumption DEF TakeKeyLock, SubmissionInv, Operation
<1>1. UNCHANGED <<begun, tasks, orderQ, keyQ, mods>>
  BY DEF TakeKeyLock, durable
<1>2. pc'[c] = "barrier" /\ \A d \in Cmd \ {c} : pc'[d] = pc[d]
  BY DEF TakeKeyLock, Goto, TypeOK
<1>3. barrier'[c] = mods[KeyOf[c]] /\ \A d \in Cmd \ {c} : barrier'[d] = barrier[d]
  BY DEF TakeKeyLock, TypeOK
<1>4. OlderKept
  BY <1>1, BegunGrows
<1>5. OrderQueueInv'
  BY <1>0, <1>1, <1>2, <1>4, OrderSame
<1>6. KeyQueueInv'
  <2>1. \A d \in Cmd : Keyed(d)' <=> Keyed(d)
    BY <1>0, <1>1, <1>2 DEF Keyed, UsesKey
  <2> QED  BY <1>0, <1>1, <1>2, <2>1, KeySame
<1>7. PlaceInv'
  BY <1>0, <1>2 DEF PlaceInv, Operation
<1>8. BarrierInv'
  <2>1. \A d \in Cmd : Registered(d)' <=> Registered(d)
    BY <1>0, <1>1, <1>2 DEF Registered
  <2>2. \A d \in Cmd : Registered(d)' => d \in mods'[KeyOf[d]]
    BY <1>1, <2>1 DEF BarrierInv
  <2>3. ASSUME NEW e \in Cmd, NEW d \in Cmd, Kind[e] = "create", Registered(d)', KeyOf[d] = KeyOf[e]
        PROVE  /\ pc'[e] = "barrier" => d \in barrier'[e]
               /\ pc'[e] \notin {"check", "ready", "sent"}
    BY <1>1, <1>2, <1>3, <2>1, <2>3 DEF BarrierInv
  <2> QED  BY <2>2, <2>3 DEF BarrierInv
<1> QED  BY <1>5, <1>6, <1>7, <1>8

LEMMA MoveLocks ==
  ASSUME TypeOK, SubmissionInv, RowsInv, LockInv, NEW c \in Cmd, Move(c)
  PROVE  LockInv'
<1> USE DEF LockInv
<1>0. /\ c \in tasks
      /\ UNCHANGED <<begun, tasks, orderQ, keyQ, mods, barrier>>
      /\ pc[c] \in {"barrier", "check", "read", "prior", "ready"}
      /\ pc'[c] \in {"check", "read", "prior", "ready", "sent"}
      /\ pc'[c] \in {"read", "prior"} => Operation(c)
      /\ pc' = [pc EXCEPT ![c] = pc'[c]]
  BY MoveDoes
<1>1. \A d \in Cmd \ {c} : pc'[d] = pc[d]
  BY <1>0 DEF TypeOK
<1>2. OlderKept
  BY <1>0, BegunGrows
<1>3. OrderQueueInv'
  BY <1>0, <1>1, <1>2, OrderSame
<1>4. KeyQueueInv'
  <2>1. \A d \in Cmd : Keyed(d)' <=> Keyed(d)
    BY <1>0, <1>1 DEF Keyed, UsesKey
  <2> QED  BY <1>0, <1>1, <2>1, KeySame
<1>5. PlaceInv'
  BY <1>0, <1>1 DEF PlaceInv, Operation
<1>6. BarrierInv'
  <2>1. \A d \in Cmd : Registered(d)' <=> Registered(d)
    BY <1>0, <1>1 DEF Registered
  <2>2. \A d \in Cmd : Registered(d)' => d \in mods'[KeyOf[d]]
    BY <1>0, <2>1 DEF BarrierInv
  <2>3. ASSUME NEW e \in Cmd, NEW d \in Cmd, Kind[e] = "create", Registered(d), KeyOf[d] = KeyOf[e]
        PROVE  /\ pc'[e] = "barrier" => d \in barrier'[e]
               /\ pc'[e] \notin {"check", "ready", "sent"}
    <3>1. CASE e # c
      BY <1>0, <1>1, <2>3, <3>1 DEF BarrierInv
    <3>2. CASE e = c
      <4>1. pc[e] \notin {"read", "prior"}
        BY <2>3, PayloadAssumption DEF PlaceInv, Operation
      <4>2. pc[e] = "barrier" /\ d \in barrier[e]
        BY <1>0, <2>3, <3>2, <4>1 DEF BarrierInv
      <4>3. barrier[e] \cap tasks = {}
        BY <3>2, <4>2 DEF Move, PassBarrier, CheckCreate, CheckOrder, ReadOrder, ReadPrior, Post
      <4> QED  BY <2>3, <4>2, <4>3 DEF Registered
    <3> QED  BY <3>1, <3>2
  <2> QED  BY <2>1, <2>2, <2>3 DEF BarrierInv
<1> QED  BY <1>3, <1>4, <1>5, <1>6

LEMMA EndLocks ==
  ASSUME TypeOK, SubmissionInv, RowsInv, LockInv, NEW c \in Cmd, End(c)
  PROVE  LockInv'
<1> USE DEF LockInv
<1>0. /\ c \in tasks
      /\ pc[c] \in {"check", "read", "prior", "ready", "sent"}
      /\ tasks' = tasks \ {c}
      /\ orderQ' = [o \in Order |-> Release(c, orderQ[o])]
      /\ keyQ' = [k \in Key |-> Release(c, keyQ[k])]
      /\ mods' = [k \in Key |-> mods[k] \ {c}]
      /\ pc'[c] = "idle" /\ begun' = begun
  BY EndDoes
<1>1. \A d \in Cmd \ {c} : /\ pc'[d] = pc[d] \/ (pc[d] = "run" /\ pc'[d] = "failed")
                           /\ barrier'[d] = barrier[d]
  BY EndDoes
<1>2. OrderQueueInv'
  BY <1>0, <1>1, OrderLeave
<1>3. KeyQueueInv'
  <2>1. ~Keyed(c)' /\ \A d \in Cmd \ {c} : Keyed(d)' <=> Keyed(d)
    BY <1>0, <1>1 DEF Keyed, UsesKey
  <2>2. Keyed(c) => Owns(c, keyQ[KeyOf[c]])
    BY <1>0, HoldsKey DEF Keyed
  <2> QED  BY <1>0, <1>1, <2>1, <2>2, KeyLeave
<1>4. PlaceInv'
  BY <1>0, <1>1 DEF PlaceInv, Operation
<1>5. BarrierInv'
  <2>1. \A d \in Cmd : Registered(d)' => Registered(d) /\ d # c
    <3>1. ASSUME NEW d \in Cmd, Registered(d)'
          PROVE  Registered(d) /\ d # c
      <4>1. d \in tasks /\ d # c /\ Kind[d] = "modify"
        BY <1>0, <3>1 DEF Registered
      <4>2. pc'[d] = pc[d] \/ pc[d] = "run"
        BY <1>1, <4>1
      <4> QED  BY <3>1, <4>1, <4>2 DEF Registered
    <3> QED  BY <3>1
  <2>2. \A d \in Cmd : Registered(d)' => d \in mods'[KeyOf[d]]
    BY <1>0, <2>1, PayloadAssumption DEF BarrierInv
  <2>3. ASSUME NEW e \in Cmd, NEW d \in Cmd, Kind[e] = "create", Registered(d)', KeyOf[d] = KeyOf[e]
        PROVE  /\ pc'[e] = "barrier" => d \in barrier'[e]
               /\ pc'[e] \notin {"check", "ready", "sent"}
    BY <1>0, <1>1, <2>1, <2>3 DEF BarrierInv
  <2> QED  BY <2>2, <2>3 DEF BarrierInv
<1> QED  BY <1>2, <1>3, <1>4, <1>5

LEMMA BulkLocks ==
  ASSUME TypeOK, SubmissionInv, RowsInv, LockInv, NEW b \in Cmd, BulkMove(b)
  PROVE  LockInv'
<1>0. /\ b \in Bulk
      /\ \A c \in Cmd \ {b} : /\ pc'[c] = pc[c]
                              /\ c \in tasks' <=> c \in tasks
                              /\ barrier'[c] = barrier[c]
      /\ pc'[b] \in {"idle", "open", "run"}
      /\ begun' = begun \/ begun' = Append(begun, b)
  BY BulkMoveDoes
<1>1. b \notin Single /\ ~UsesKey(b) /\ ~Operation(b) /\ \A k \in Key : keyQ[k] \in Seq(Cmd)
  BY <1>0, PayloadAssumption DEF Single, Bulk, UsesKey, Operation, TypeOK
<1>2. /\ \A o \in Order : ~Owns(b, orderQ[o])
      /\ \A k \in Key : ~Owns(b, keyQ[k])
  BY <1>1, OwnerAsked DEF LockInv, Operation
<1>3. UNCHANGED <<orderQ, keyQ>>
  BY <1>2, BulkMoveDoes DEF Release, TypeOK
<1>4. \A k \in Key : mods[k] \cap Single \subseteq mods'[k]
  BY <1>1, BulkMoveDoes
<1>5. /\ \A c \in Single : /\ pc'[c] = pc[c] /\ barrier'[c] = barrier[c]
                           /\ c \in tasks' <=> c \in tasks
      /\ \A a \in Bulk : pc'[a] \in {"idle", "open", "run", "failed"}
  BY <1>0, <1>1 DEF Single, Bulk, SubmissionInv
<1> QED  BY <1>0, <1>3, <1>4, <1>5, BegunGrows, LocksStay

LEMMA LockNext == TypeOK /\ SubmissionInv /\ RowsInv /\ LockInv /\ [Next]_vars => LockInv'
<1> SUFFICES ASSUME TypeOK, SubmissionInv, RowsInv, LockInv, [Next]_vars
             PROVE  LockInv'
  OBVIOUS
<1>1. CASE UNCHANGED <<begun, tasks, pc, orderQ, keyQ, mods, barrier>>
  <2>1. OlderKept
    BY <1>1 DEF OlderKept, Older
  <2>2. \A b \in Bulk : pc'[b] \in {"idle", "open", "run", "failed"}
    BY <1>1 DEF SubmissionInv
  <2> QED  BY <1>1, <2>1, <2>2, LocksStay
<1>2. ASSUME NEW c \in Cmd, Review(c)
      PROVE  LockInv'
  BY <1>1, <1>2 DEF Review, locks
<1>3. CASE Crash
  <2>1. /\ tasks' = {} /\ \A c \in Cmd : pc'[c] = "idle"
        /\ \A o \in Order : orderQ'[o] = <<>>
        /\ \A k \in Key : keyQ'[k] = <<>>
    BY <1>3 DEF Crash
  <2>2. PlaceInv' /\ BarrierInv'
    BY <2>1 DEF PlaceInv, BarrierInv, Registered
  <2>3. OrderQueueInv'
    BY <2>1, EmptyQueue DEF OrderQueueInv
  <2>4. KeyQueueInv'
    BY <2>1, EmptyQueue DEF KeyQueueInv
  <2> QED  BY <2>2, <2>3, <2>4 DEF LockInv
<1> QED
  BY <1>1, <1>2, <1>3, Steps, StartLocks, TakeOrderLocks, RegisterLocks, TakeKeyLocks,
     MoveLocks, EndLocks, BulkLocks

-----------------------------------------------------------------------------
(* What a task has checked stays true *)

\* No row of a single command newly becomes lost, or newly stands at the broker.
NoNewDoubt == \A d \in Single : (Lost(d)' => Lost(d)) /\ (Standing(d)' => Standing(d))

\* A task in doubt is the only one of its order past the lock of that order.
LEMMA AloneOnOrder ==
  ASSUME TypeOK, SubmissionInv, RowsInv, LockInv, NEW c \in Cmd, NEW d \in Cmd, SameOrder(c, d),
         pc[c] \in {"check", "read", "prior", "ready", "sent"}
  PROVE  pc[d] \in {"idle", "order"} /\ (pc[d] = "order" => Older(c, d))
<1>1. c \in tasks /\ Operation(c) /\ OrderOf[d] = OrderOf[c] /\ d # c
  BY DEF SubmissionInv, SameOrder
<1>2. d \in tasks => pc[d] = "order" /\ Older(c, d)
  BY <1>1, HoldsOrder DEF LockInv
<1> QED  BY <1>2 DEF SubmissionInv

\* While a create is past its barrier no create or modify of its key can end.
LEMMA AloneOnKey ==
  ASSUME TypeOK, SubmissionInv, RowsInv, LockInv, NEW c \in Cmd, NEW d \in Cmd, c # d,
         Kind[c] = "create", pc[c] \in {"check", "ready", "sent"},
         KeyOf[d] = KeyOf[c], Kind[d] \in {"create", "modify"}
  PROVE  pc[d] \in {"idle", "order", "key"}
<1>1. c \in tasks /\ UsesKey(c) /\ pc[c] # "key"
  BY DEF SubmissionInv, UsesKey
<1>2. CASE Kind[d] = "create"
  <2>1. d \in tasks => pc[d] = "key"
    BY <1>1, <1>2, HoldsKey DEF LockInv, UsesKey
  <2> QED  BY <2>1 DEF SubmissionInv
<1>3. CASE Kind[d] = "modify"
  <2>1. ~Registered(d)
    BY DEF LockInv, BarrierInv
  <2> QED  BY <1>3, <2>1 DEF Registered, SubmissionInv
<1> QED  BY <1>2, <1>3

LEMMA DoubtInit == Init => DoubtInv
BY EmptyQueue DEF Init, DoubtInv, Older

\* A step that makes no row lost or standing, and lets nobody past a check.
LEMMA DoubtStays ==
  ASSUME DoubtInv, NoNewDoubt,
         \A c \in Cmd : pc'[c] \in {"read", "prior", "ready", "sent"} =>
                          pc'[c] = pc[c] /\ prior'[c] = prior[c],
         \A c, d \in Cmd : Older(c, d)' /\ SameOrder(c, d) /\ journal'[d] = "accepted" =>
                          Older(c, d) /\ journal[d] = "accepted"
  PROVE  DoubtInv'
<1> USE DEF DoubtInv, NoNewDoubt
<1>0. \A c, d \in Cmd : /\ SameOrder(c, d)' <=> SameOrder(c, d)
                        /\ SameOrder(c, d) => c \in Single /\ d \in Single
                        /\ Kind[d] \in {"create", "modify"} => d \in Single
  BY PayloadAssumption DEF SameOrder, Operation, Single
<1>1. (\A c, d \in Cmd :
        (Kind[c] = "create" /\ pc[c] \in {"ready", "sent"} /\ KeyOf[d] = KeyOf[c]
           /\ Kind[d] \in {"create", "modify"}) => ~Lost(d))'
  BY <1>0
<1>2. (\A c, d \in Cmd :
        (SameOrder(c, d) /\ pc[c] \in {"read", "prior", "ready", "sent"}) => ~Lost(d))'
  BY <1>0
<1>3. (\A c, d \in Cmd :
        (SameOrder(c, d) /\ pc[c] = "prior" /\ prior[c] # d) => ~Standing(d))'
  BY <1>0
<1>4. (\A c, d \in Cmd :
        (SameOrder(c, d) /\ pc[c] \in {"ready", "sent"}) => ~Standing(d))'
  BY <1>0
<1>5. (\A c, d \in Cmd :
        (SameOrder(c, d) /\ Older(c, d) /\ journal[d] = "accepted") => ~Standing(c))'
  BY <1>0
<1> QED  BY <1>1, <1>2, <1>3, <1>4, <1>5

LEMMA FifoInit == Init => FifoInv
BY DEF Init, FifoInv

LEMMA FifoNext ==
  TypeOK /\ SubmissionInv /\ RowsInv /\ LockInv /\ FifoInv /\ [Next]_vars => FifoInv'
<1> SUFFICES ASSUME TypeOK, SubmissionInv, RowsInv, LockInv, FifoInv, [Next]_vars
             PROVE  FifoInv'
  OBVIOUS
<1> USE DEF durable
<1>0. begun \in Seq(Cmd)
  BY DEF TypeOK
<1>1. ASSUME NEW x \in Cmd, begun' = Append(begun, x), ~In(x, begun),
             \A c \in Cmd : Operation(c) => (c \in tasks' <=> c \in tasks \/ c = x)
      PROVE  FifoInv'
  <2>1. ASSUME NEW c \in Cmd, NEW d \in Cmd
        PROVE  Older(c, d)' => Older(c, d) \/ (c # x /\ d = x)
    BY <1>0, <1>1, AppendQueue DEF Older
  <2>2. ASSUME NEW c \in Cmd, NEW d \in Cmd, Older(c, d)
        PROVE  c # x
    BY <1>1, <2>2 DEF Older, In, Ahead
  <2>3. ASSUME NEW c \in Cmd, NEW d \in Cmd, c \in tasks', Operation(c), OrderOf[d] = OrderOf[c], Older(c, d)'
        PROVE  d \in tasks'
    <3>1. Operation(d)
      BY <2>3 DEF Operation
    <3>2. CASE d = x
      BY <1>1, <3>1, <3>2
    <3>3. CASE Older(c, d)
      BY <1>1, <2>2, <2>3, <3>1, <3>3 DEF FifoInv
    <3> QED  BY <2>1, <2>3, <3>2, <3>3
  <2> QED  BY <2>3 DEF FifoInv, Operation
<1>2. ASSUME begun' = begun, \A c \in Cmd : Operation(c) => (c \in tasks' <=> c \in tasks)
      PROVE  FifoInv'
  BY <1>2 DEF FifoInv, Older, Operation
<1>3. ASSUME NEW c \in Single, StartCommand(c)
      PROVE  FifoInv'
  <2>1. c \in Cmd /\ begun' = Append(begun, c) /\ tasks' = tasks \cup {c} /\ ~In(c, begun)
    BY <1>3, StartDoes DEF Single, RowsInv
  <2> QED  BY <1>1, <2>1
<1>4. ASSUME NEW c \in Cmd, TakeOrderLock(c) \/ Register(c) \/ TakeKeyLock(c) \/ Move(c)
      PROVE  FifoInv'
  <2>1. UNCHANGED <<begun, tasks>>
    BY <1>4 DEF TakeOrderLock, Register, TakeKeyLock, Move, PassBarrier, CheckCreate,
       CheckOrder, ReadOrder, ReadPrior, Post
  <2> QED  BY <1>2, <2>1
<1>5. ASSUME NEW x \in Cmd, End(x)
      PROVE  FifoInv'
  <2>0. begun' = begun /\ tasks' = tasks \ {x} /\ x \in tasks /\ pc[x] # "order"
    BY <1>5, EndDoes
  <2>1. ASSUME NEW c \in Cmd, NEW d \in Cmd, c \in tasks', Operation(c), OrderOf[d] = OrderOf[c], Older(c, d)
        PROVE  d \in tasks'
    <3>1. d \in tasks /\ c \in tasks /\ c # d /\ ~Older(d, c) /\ Operation(d)
      BY <2>0, <2>1 DEF FifoInv, RowsInv, Operation
    <3>2. d # x
      BY <2>0, <2>1, <3>1, HoldsOrder DEF LockInv
    <3> QED  BY <2>0, <3>1, <3>2
  <2> QED  BY <2>0, <2>1 DEF FifoInv, Older, Operation
<1>6. ASSUME NEW b \in Cmd, BulkMove(b)
      PROVE  FifoInv'
  <2>1. ~Operation(b)
    BY <1>6, BulkMoveDoes, PayloadAssumption DEF Bulk, Operation
  <2>2. \A c \in Cmd : Operation(c) => (c \in tasks' <=> c \in tasks)
    BY <1>6, <2>1, BulkMoveDoes
  <2>3. CASE begun' = begun
    BY <1>2, <2>2, <2>3
  <2>4. CASE begun' = Append(begun, b) /\ journal[b] = "none"
    BY <1>1, <2>1, <2>2, <2>4 DEF RowsInv
  <2> QED  BY <1>6, <2>3, <2>4, BulkMoveDoes
<1>7. CASE Crash
  BY <1>7 DEF Crash, FifoInv
<1>8. ASSUME NEW c \in Cmd, Review(c)
      PROVE  FifoInv'
  BY <1>2, <1>8 DEF Review
<1> QED  BY <1>2, <1>3, <1>4, <1>5, <1>6, <1>7, <1>8, Steps

LEMMA MoveDoubt ==
  ASSUME TypeOK, SubmissionInv, RowsInv, LockInv, DoubtInv, NEW c \in Cmd, Move(c)
  PROVE  DoubtInv'
<1>0. /\ c \in tasks
      /\ UNCHANGED <<journal, begun, tasks>>
      /\ pc'[c] \in {"check", "read", "prior", "ready", "sent"}
      /\ pc' = [pc EXCEPT ![c] = pc'[c]]
      /\ \A d \in Cmd : broker'[d] = broker[d] \/ broker'[d] = "inflight"
      /\ \A d \in Cmd \ {c} : prior'[d] = prior[d]
  BY MoveDoes DEF LockInv
<1>1. \A d \in Cmd \ {c} : pc'[d] = pc[d]
  BY <1>0 DEF TypeOK
<1>2. \A d \in Cmd : (Lost(d)' => Lost(d)) /\ (Standing(d)' => Standing(d))
  BY <1>0 DEF Lost, Standing
<1>3. \A d, e \in Cmd : (SameOrder(d, e)' <=> SameOrder(d, e)) /\ (Older(d, e)' <=> Older(d, e))
  BY <1>0 DEF SameOrder, Operation, Older
<1>4. ~Lost(c)
  BY <1>0 DEF Lost
<1>5. ASSUME NEW d \in Cmd, Kind[c] = "create", pc'[c] \in {"ready", "sent"}, KeyOf[d] = KeyOf[c],
             Kind[d] \in {"create", "modify"}
      PROVE  ~Lost(d)
  <2>1. pc[c] \notin {"read", "prior"} /\ ~(Kind[c] \in {"modify", "cancel"})
    BY <1>5, PayloadAssumption DEF LockInv, PlaceInv, Operation
  <2>2. CheckCreate(c) \/ Post(c)
    BY <1>5, <2>1 DEF Move, PassBarrier, CheckOrder, ReadOrder, ReadPrior, Goto, TypeOK
  <2>3. CASE CheckCreate(c)
    BY <1>4, <1>5, <2>3 DEF CheckCreate, Uncertain, Unresolved, Lost
  <2>4. CASE Post(c)
    BY <1>5, <2>4 DEF Post, DoubtInv
  <2> QED  BY <2>2, <2>3, <2>4
<1>6. ASSUME NEW d \in Cmd, SameOrder(c, d), pc'[c] \in {"read", "prior", "ready", "sent"}
      PROVE  ~Lost(d)
  <2>1. Kind[c] # "create" /\ pc[c] # "barrier"
    BY <1>6, PayloadAssumption DEF SameOrder, Operation, LockInv, PlaceInv
  <2>2. CheckOrder(c) \/ pc[c] \in {"read", "prior", "ready"}
    BY <2>1 DEF Move, PassBarrier, CheckCreate, ReadOrder, ReadPrior, Post
  <2>3. CASE CheckOrder(c)
    BY <1>6, <2>3 DEF CheckOrder, UncertainOperation, Unresolved, Lost, SameOrder
  <2>4. CASE pc[c] \in {"read", "prior", "ready"}
    BY <1>6, <2>4 DEF DoubtInv
  <2> QED  BY <2>2, <2>3, <2>4
<1>7. ASSUME NEW d \in Cmd, NEW i \in DOMAIN begun, ReadOrder(c), SameOrder(c, d), d # begun[i],
             IsLatest(i, AcceptedOperations(journal, begun, c))
      PROVE  ~Standing(d)
  <2> SUFFICES ASSUME Standing(d)
               PROVE  FALSE
    OBVIOUS
  <2>1. In(d, begun) /\ journal[d] = "accepted"
    BY DEF Standing, RowsInv
  <2>2. PICK j \in DOMAIN begun : begun[j] = d
    BY <2>1 DEF In
  <2>3. j \in AcceptedOperations(journal, begun, c)
    BY <1>7, <2>1, <2>2 DEF AcceptedOperations, SameOrder
  <2>4. j <= i /\ i # j /\ i \in Nat /\ j \in Nat
    <3>1. DOMAIN begun \subseteq Nat
      BY LenProperties DEF TypeOK
    <3> QED  BY <1>7, <2>2, <2>3, <3>1 DEF IsLatest
  <2>5. Older(d, begun[i])
    BY <2>2, <2>4 DEF Older, Ahead
  <2>6. /\ begun[i] \in Cmd /\ journal[begun[i]] = "accepted"
        /\ SameOrder(d, begun[i])
    <3>1. begun[i] \in Cmd
      BY ElementOfSeq, LenProperties DEF TypeOK
    <3> QED  BY <1>7, <3>1 DEF IsLatest, AcceptedOperations, SameOrder, Operation
  <2> QED  BY <2>5, <2>6 DEF DoubtInv
<1>8. ASSUME NEW d \in Cmd, SameOrder(c, d), pc'[c] = "prior", prior'[c] # d
      PROVE  ~Standing(d)
  <2>1. ReadOrder(c)
    BY <1>8 DEF Move, PassBarrier, CheckCreate, CheckOrder, ReadPrior, Post, Goto, TypeOK
  <2>2. PICK i \in DOMAIN begun : /\ IsLatest(i, AcceptedOperations(journal, begun, c))
                                  /\ prior'[c] = begun[i]
    BY <1>8, <2>1 DEF ReadOrder, Goto, TypeOK, AcceptedOperations
  <2> QED  BY <1>7, <1>8, <2>1, <2>2
<1>9. ASSUME NEW d \in Cmd, SameOrder(c, d), pc'[c] \in {"ready", "sent"}
      PROVE  ~Standing(d)
  <2>1. Kind[c] # "create"
    BY <1>9, PayloadAssumption DEF SameOrder, Operation
  <2>2. ReadOrder(c) \/ ReadPrior(c) \/ Post(c)
    BY <1>9, <2>1 DEF Move, PassBarrier, CheckCreate, CheckOrder, Goto, TypeOK
  <2>3. CASE ReadOrder(c)
    <3>1. AcceptedOperations(journal, begun, c) = {}
      BY <1>9, <2>3 DEF ReadOrder, Goto, TypeOK
    <3>2. \A i \in DOMAIN begun : begun[i] = d => journal[d] # "accepted"
      BY <1>9, <3>1 DEF AcceptedOperations, SameOrder
    <3> QED  BY <3>2 DEF Standing, RowsInv, In
  <2>4. CASE ReadPrior(c)
    <3>1. pc[c] = "prior" /\ broker[prior[c]] = "undone"
      BY <2>4 DEF ReadPrior
    <3> QED  BY <1>9, <3>1 DEF DoubtInv, Standing
  <2>5. CASE Post(c)
    BY <1>9, <2>5 DEF Post, DoubtInv
  <2> QED  BY <2>2, <2>3, <2>4, <2>5
<1>10. (\A x, y \in Cmd :
         (Kind[x] = "create" /\ pc[x] \in {"ready", "sent"} /\ KeyOf[y] = KeyOf[x]
            /\ Kind[y] \in {"create", "modify"}) => ~Lost(y))'
  BY <1>1, <1>2, <1>5 DEF DoubtInv
<1>11. (\A x, y \in Cmd :
         (SameOrder(x, y) /\ pc[x] \in {"read", "prior", "ready", "sent"}) => ~Lost(y))'
  BY <1>1, <1>2, <1>3, <1>6 DEF DoubtInv
<1>12. (\A x, y \in Cmd :
         (SameOrder(x, y) /\ pc[x] = "prior" /\ prior[x] # y) => ~Standing(y))'
  BY <1>0, <1>1, <1>2, <1>3, <1>8 DEF DoubtInv
<1>13. (\A x, y \in Cmd :
         (SameOrder(x, y) /\ pc[x] \in {"ready", "sent"}) => ~Standing(y))'
  BY <1>1, <1>2, <1>3, <1>9 DEF DoubtInv
<1>14. (\A x, y \in Cmd :
         (SameOrder(x, y) /\ Older(x, y) /\ journal[y] = "accepted") => ~Standing(x))'
  BY <1>0, <1>2, <1>3 DEF DoubtInv
<1> QED  BY <1>10, <1>11, <1>12, <1>13, <1>14 DEF DoubtInv

LEMMA EndDoubt ==
  ASSUME TypeOK, SubmissionInv, RowsInv, LockInv, FifoInv, DoubtInv, NEW c \in Cmd, End(c)
  PROVE  DoubtInv'
<1>0. /\ c \in Single /\ c \in tasks
      /\ pc[c] \in {"check", "read", "prior", "ready", "sent"}
      /\ tasks' = tasks \ {c} /\ pc'[c] = "idle"
      /\ UNCHANGED <<begun, broker>>
  BY EndDoes
<1>1. \A d \in Cmd \ {c} : /\ pc'[d] = pc[d] \/ (pc[d] = "run" /\ pc'[d] = "failed")
                           /\ prior'[d] = prior[d]
  BY EndDoes
<1>2. PICK s : /\ journal' = [journal EXCEPT ![c] = s]
               /\ s = "accepted" => pc[c] = "sent"
  BY EndDoes
<1>3. journal'[c] = s /\ \A d \in Cmd \ {c} : journal'[d] = journal[d]
  BY <1>2 DEF TypeOK
<1>4. \A d \in Cmd \ {c} : (Lost(d)' => Lost(d)) /\ (Standing(d)' => Standing(d))
  BY <1>0, <1>3 DEF Lost, Standing
<1>5. \A d, e \in Cmd : /\ SameOrder(d, e)' <=> SameOrder(d, e)
                        /\ Older(d, e)' <=> Older(d, e)
                        /\ SameOrder(d, e) => SameOrder(e, d)
  BY <1>0 DEF SameOrder, Operation, Older
<1>6. ASSUME NEW e \in Cmd, Kind[e] = "create", pc[e] \in {"ready", "sent"}, e # c,
             KeyOf[c] = KeyOf[e], Kind[c] \in {"create", "modify"}
      PROVE  FALSE
  BY <1>0, <1>6, AloneOnKey
<1>7. ASSUME NEW e \in Cmd, SameOrder(e, c), pc[e] \in {"read", "prior", "ready", "sent"}
      PROVE  FALSE
  BY <1>0, <1>7, AloneOnOrder
<1>8. ASSUME NEW x \in Cmd, NEW y \in Cmd, SameOrder(x, y), Older(x, y), journal'[y] = "accepted"
      PROVE  ~Standing(x)'
  <2>1. CASE y = c
    <3>1. pc[c] = "sent" /\ x # c
      BY <1>2, <1>3, <1>8, <2>1 DEF SameOrder
    <3>2. ~Standing(x)
      BY <1>5, <1>8, <2>1, <3>1 DEF DoubtInv
    <3> QED  BY <1>4, <3>1, <3>2
  <2>2. CASE x = c
    <3>1. y \in tasks
      BY <1>0, <1>8, <2>2 DEF FifoInv, SameOrder
    <3>2. journal[y] = "accepted"
      BY <1>3, <1>8, <2>2 DEF SameOrder
    <3>3. y \in Single
      BY <1>5, <1>8, PayloadAssumption DEF SameOrder, Operation, Single
    <3> QED  BY <3>1, <3>2, <3>3 DEF SubmissionInv
  <2>3. CASE x # c /\ y # c
    BY <1>3, <1>4, <1>8, <2>3 DEF DoubtInv
  <2> QED  BY <2>1, <2>2, <2>3
<1>9. \A x \in Cmd : pc'[x] \in {"read", "prior", "ready", "sent"} => pc'[x] = pc[x] /\ x # c
                                                                     /\ prior'[x] = prior[x]
  BY <1>0, <1>1
<1>10. (\A x, y \in Cmd :
         (Kind[x] = "create" /\ pc[x] \in {"ready", "sent"} /\ KeyOf[y] = KeyOf[x]
            /\ Kind[y] \in {"create", "modify"}) => ~Lost(y))'
  BY <1>4, <1>6, <1>9 DEF DoubtInv
<1>11. (\A x, y \in Cmd :
         (SameOrder(x, y) /\ pc[x] \in {"read", "prior", "ready", "sent"}) => ~Lost(y))'
  BY <1>4, <1>5, <1>7, <1>9 DEF DoubtInv
<1>12. (\A x, y \in Cmd :
         (SameOrder(x, y) /\ pc[x] = "prior" /\ prior[x] # y) => ~Standing(y))'
  BY <1>4, <1>5, <1>7, <1>9 DEF DoubtInv
<1>13. (\A x, y \in Cmd :
         (SameOrder(x, y) /\ pc[x] \in {"ready", "sent"}) => ~Standing(y))'
  BY <1>4, <1>5, <1>7, <1>9 DEF DoubtInv
<1>14. (\A x, y \in Cmd :
         (SameOrder(x, y) /\ Older(x, y) /\ journal[y] = "accepted") => ~Standing(x))'
  BY <1>5, <1>8
<1> QED  BY <1>10, <1>11, <1>12, <1>13, <1>14 DEF DoubtInv

LEMMA DoubtNext ==
  TypeOK /\ SubmissionInv /\ RowsInv /\ LockInv /\ FifoInv /\ DoubtInv /\ [Next]_vars => DoubtInv'
<1> SUFFICES ASSUME TypeOK, SubmissionInv, RowsInv, LockInv, FifoInv, DoubtInv, [Next]_vars
             PROVE  DoubtInv'
  OBVIOUS
<1> USE DEF durable, locks, external
<1>1. ASSUME NEW c \in Single, StartCommand(c)
      PROVE  DoubtInv'
  <2>0. /\ c \in Cmd /\ begun' = Append(begun, c) /\ tasks' = tasks \cup {c}
        /\ UNCHANGED <<prior, broker>>
        /\ journal' = [journal EXCEPT ![c] = "sending"] /\ begun \in Seq(Cmd)
    BY <1>1, StartDoes DEF Single, TypeOK
  <2>1. pc'[c] \in {"key", "order"} /\ \A d \in Cmd \ {c} : pc'[d] = pc[d]
    <3>1. pc' = [pc EXCEPT ![c] = "key"] \/ pc' = [pc EXCEPT ![c] = "order"]
      BY <1>1, StartDoes
    <3> QED  BY <2>0, <3>1 DEF TypeOK
  <2>2. journal'[c] = "sending" /\ \A d \in Cmd \ {c} : journal'[d] = journal[d]
    BY <2>0 DEF TypeOK
  <2>3. NoNewDoubt
    BY <2>0, <2>2 DEF NoNewDoubt, Lost, Standing, Single
  <2>4. \A d, e \in Cmd : Older(d, e)' /\ SameOrder(d, e) /\ journal'[e] = "accepted" =>
                            Older(d, e) /\ journal[e] = "accepted"
    BY <2>0, <2>2, AppendQueue DEF Older
  <2> QED  BY <2>0, <2>1, <2>3, <2>4, DoubtStays
<1>2. ASSUME NEW c \in Cmd, TakeOrderLock(c) \/ Register(c) \/ TakeKeyLock(c)
      PROVE  DoubtInv'
  <2>1. UNCHANGED <<journal, begun, tasks, prior, broker>>
    BY <1>2 DEF TakeOrderLock, Register, TakeKeyLock
  <2>2. pc' = [pc EXCEPT ![c] = "key"] \/ pc' = [pc EXCEPT ![c] = "check"]
        \/ pc' = [pc EXCEPT ![c] = "barrier"]
    BY <1>2 DEF TakeOrderLock, Register, TakeKeyLock, Goto
  <2>3. \A d \in Cmd : pc'[d] \in {"read", "prior", "ready", "sent"} => pc'[d] = pc[d]
    BY <2>2 DEF TypeOK
  <2>4. NoNewDoubt
    BY <2>1 DEF NoNewDoubt, Lost, Standing
  <2> QED  BY <2>1, <2>3, <2>4, DoubtStays DEF Older
<1>3. ASSUME NEW b \in Cmd, BulkMove(b)
      PROVE  DoubtInv'
  <2>0. /\ b \in Bulk /\ b \notin Single /\ Single \subseteq Cmd \ {b}
        /\ \A c \in Cmd \ {b} : /\ pc'[c] = pc[c]
                                /\ journal'[c] = journal[c]
                                /\ c \in tasks' <=> c \in tasks
                                /\ prior'[c] = prior[c]
        /\ pc'[b] \in {"idle", "open", "run"}
        /\ begun' = begun \/ begun' = Append(begun, b)
        /\ UNCHANGED broker
    BY <1>3, BulkMoveDoes DEF Single, Bulk
  <2>1. NoNewDoubt
    BY <2>0 DEF NoNewDoubt, Lost, Standing
  <2>2. \A c \in Cmd : pc'[c] \in {"read", "prior", "ready", "sent"} =>
                          pc'[c] = pc[c] /\ prior'[c] = prior[c]
    BY <2>0
  <2>3. ASSUME NEW c \in Cmd, NEW d \in Cmd, Older(c, d)', SameOrder(c, d), journal'[d] = "accepted"
        PROVE  Older(c, d) /\ journal[d] = "accepted"
    <3>1. d # b
      BY <2>0, <2>3, PayloadAssumption DEF SameOrder, Operation, Bulk
    <3>2. begun \in Seq(Cmd)
      BY DEF TypeOK
    <3>3. CASE begun' = begun
      BY <2>0, <2>3, <3>1, <3>3 DEF Older
    <3>4. CASE begun' = Append(begun, b)
      BY <2>0, <2>3, <3>1, <3>2, <3>4, AppendQueue DEF Older
    <3> QED  BY <2>0, <3>3, <3>4
  <2> QED  BY <2>1, <2>2, <2>3, DoubtStays
<1>4. ASSUME NEW c \in Cmd, Review(c)
      PROVE  DoubtInv'
  <2>1. UNCHANGED <<begun, tasks, pc, prior, broker>> /\ journal' = [journal EXCEPT ![c] = "reviewed"]
    BY <1>4 DEF Review
  <2>2. \A d \in Cmd : journal'[d] = journal[d] \/ journal'[d] = "reviewed"
    BY <2>1 DEF TypeOK
  <2>3. NoNewDoubt
    BY <2>1, <2>2 DEF NoNewDoubt, Lost, Standing, UnresolvedState, Single
  <2> QED  BY <2>1, <2>2, <2>3, DoubtStays DEF Older
<1>5. CASE UNCHANGED <<journal, begun, tasks, pc, orderQ, keyQ, mods, barrier, prior, targets>>
           /\ \A c \in Cmd : broker'[c] = broker[c] \/ broker'[c] # "applied"
                             \/ broker[c] = "inflight"
  <2>1. \A d \in Single : journal[d] = "accepted" => broker[d] # "inflight"
    BY DEF SubmissionInv, OutcomeIsTrue
  <2>2. NoNewDoubt
    BY <1>5, <2>1 DEF NoNewDoubt, Lost, Standing, Single
  <2> QED  BY <1>5, <2>2, DoubtStays DEF Older
<1>6. CASE Crash
  <2>1. UNCHANGED <<journal, begun, broker>> /\ \A c \in Cmd : pc'[c] = "idle"
    BY <1>6 DEF Crash
  <2> QED  BY <2>1 DEF DoubtInv, Older, Standing, SameOrder, Operation
<1> QED
  BY <1>1, <1>2, <1>3, <1>4, <1>5, <1>6, Steps, MoveDoubt, EndDoubt

-----------------------------------------------------------------------------
(* Bulk cancels *)

LEMMA BulkInit == Init => BulkInv
BY DEF Init, BulkInv, FrozenBeforeCancel, BulkAnswersForAll, Bulk, Children

LEMMA ChildrenAreSingle ==
  ASSUME NEW b \in Cmd
  PROVE  Children(b) \subseteq Single
BY PayloadAssumption DEF Children, Single

\* A step that touches no row, place or target of a bulk cancel.
LEMMA BulkStays ==
  ASSUME TypeOK, BulkInv, UNCHANGED targets,
         \A b \in Bulk : /\ journal'[b] = journal[b]
                         /\ left'[b] \subseteq left[b]
                         /\ pc'[b] \in {pc[b], "idle"} \/ (pc[b] = "run" /\ pc'[b] = "failed")
                         /\ pc'[b] = "run" => left'[b] = left[b],
         \A c \in Single : /\ (journal'[c] # "none") <=> (journal[c] # "none")
                           /\ c \in tasks' => c \in tasks
  PROVE  BulkInv'
<1>1. \A b \in Bulk : b \in Cmd /\ targets[b] \subseteq Single /\ Children(b) \subseteq Single
  <2>1. \A b \in Bulk : b \in Cmd
    BY DEF Bulk
  <2>2. \A b \in Cmd : targets[b] \subseteq Children(b)
    BY DEF TypeOK
  <2> QED  BY <2>1, <2>2, ChildrenAreSingle
<1>2. ASSUME NEW b \in Bulk
      PROVE  /\ pc'[b] = "open" => journal'[b] \in {"sending", "batch"}
             /\ pc'[b] \in {"run", "failed"} => journal'[b] = "batch"
             /\ left'[b] \subseteq targets'[b]
             /\ left'[b] # {} => journal'[b] = "batch"
             /\ pc'[b] = "run" => \A c \in targets'[b] \ left'[b] : journal'[c] # "none"
  <2>1. /\ pc'[b] = "open" => journal'[b] \in {"sending", "batch"}
        /\ pc'[b] \in {"run", "failed"} => journal'[b] = "batch"
        /\ left'[b] \subseteq targets'[b]
        /\ left'[b] # {} => journal'[b] = "batch"
    BY DEF BulkInv
  <2>2. pc'[b] = "run" => \A c \in targets'[b] \ left'[b] : journal'[c] # "none"
    BY <1>1 DEF BulkInv
  <2> QED  BY <2>1, <2>2
<1>3. FrozenBeforeCancel'
  BY <1>1 DEF BulkInv, FrozenBeforeCancel
<1>4. BulkAnswersForAll'
  BY <1>1 DEF BulkInv, BulkAnswersForAll
<1> QED  BY <1>2, <1>3, <1>4 DEF BulkInv

LEMMA SingleStepBulk ==
  ASSUME TypeOK, SubmissionInv, RowsInv, PlaceInv, BulkInv, NEW c \in Cmd,
         TakeOrderLock(c) \/ Register(c) \/ TakeKeyLock(c) \/ Move(c) \/ End(c)
  PROVE  BulkInv'
<1> USE DEF durable
<1>0. \A b \in Bulk : b \in Cmd /\ b \notin Single /\ pc[b] \in {"idle", "open", "run", "failed"}
  BY DEF Bulk, Single, SubmissionInv
<1>1. CASE TakeOrderLock(c) \/ Register(c) \/ TakeKeyLock(c) \/ Move(c)
  <2>1. UNCHANGED <<journal, targets, tasks, left>>
    BY <1>1, MoveDoes DEF TakeOrderLock, Register, TakeKeyLock
  <2>2. pc[c] \notin {"idle", "open", "run", "failed"} /\ \A b \in Cmd \ {c} : pc'[b] = pc[b]
    BY <1>1 DEF TakeOrderLock, Register, TakeKeyLock, Move, PassBarrier, CheckCreate, CheckOrder,
       ReadOrder, ReadPrior, Post, Goto, TypeOK
  <2>3. \A b \in Bulk : pc'[b] = pc[b]
    BY <1>0, <2>2
  <2> QED  BY <2>1, <2>3, BulkStays
<1>2. CASE End(c)
  <2>1. /\ c \in Single /\ c \in tasks /\ tasks' = tasks \ {c} /\ UNCHANGED <<targets, left>>
        /\ \A d \in Cmd \ {c} : pc'[d] = pc[d] \/ (pc[d] = "run" /\ pc'[d] = "failed")
    BY <1>2, EndDoes
  <2>2. PICK s \in {"sending", "rejected", "accepted", "unknown"} :
          journal' = [journal EXCEPT ![c] = s]
    BY <1>2, EndDoes
  <2>3. \A b \in Bulk : b # c /\ b \in Cmd
    BY <1>0, <2>1
  <2>4. \A d \in Cmd : journal'[d] = journal[d] \/ (d = c /\ journal'[d] # "none")
    BY <2>2 DEF TypeOK
  <2>5. journal[c] # "none"
    BY <2>1 DEF RowsInv
  <2>6. \A b \in Bulk : journal'[b] = journal[b] /\ left'[b] = left[b]
    BY <2>1, <2>3, <2>4
  <2>7. \A d \in Single : journal'[d] # "none" <=> journal[d] # "none"
    BY <2>4, <2>5 DEF Single
  <2>8. \A b \in Bulk : pc'[b] \in {pc[b], "idle"} \/ (pc[b] = "run" /\ pc'[b] = "failed")
    BY <2>1, <2>3
  <2>9. \A d \in Single : d \in tasks' => d \in tasks
    BY <2>1
  <2> QED  BY <2>1, <2>6, <2>7, <2>8, <2>9, BulkStays
<1> QED  BY <1>1, <1>2

LEMMA BulkCancel ==
  ASSUME TypeOK, SubmissionInv, RowsInv, BulkInv, NEW b \in Cmd, BulkMove(b)
  PROVE  BulkInv'
<1> USE DEF durable
<1>0. /\ b \in Bulk /\ targets[b] \subseteq Children(b) /\ Children(b) \subseteq Single
      /\ b \notin Single
  BY BulkMoveDoes, ChildrenAreSingle DEF TypeOK, Single, Bulk
<1>1. /\ \A c \in Cmd \ {b} : /\ pc'[c] = pc[c] /\ journal'[c] = journal[c]
                              /\ c \in tasks' <=> c \in tasks
  BY BulkMoveDoes
<1>2. \A c \in Single : journal'[c] = journal[c] /\ (c \in tasks' <=> c \in tasks)
  BY <1>0, <1>1 DEF Single
<1>3. \A a \in Bulk : a \in Cmd /\ targets[a] \subseteq Single /\ Children(a) \subseteq Single
  BY ChildrenAreSingle DEF Bulk, TypeOK
<1>4. ASSUME /\ \A a \in Bulk \ {b} : left'[a] = left[a] /\ targets'[a] = targets[a]
             /\ pc'[b] = "open" => journal'[b] \in {"sending", "batch"}
             /\ pc'[b] \in {"run", "failed"} => journal'[b] = "batch"
             /\ left'[b] \subseteq targets'[b] /\ targets'[b] \subseteq Single
             /\ left'[b] # {} => journal'[b] = "batch"
             /\ pc'[b] = "run" => \A c \in targets'[b] \ left'[b] : journal[c] # "none"
             /\ \A c \in Children(b) :
                  journal[c] # "none" => c \in targets'[b] /\ journal'[b] \in {"batch", "accepted"}
             /\ journal'[b] = "accepted" => \A c \in targets'[b] : journal[c] # "none" /\ c \notin tasks
      PROVE  BulkInv'
  <2>1. ASSUME NEW a \in Bulk
        PROVE  /\ pc'[a] = "open" => journal'[a] \in {"sending", "batch"}
               /\ pc'[a] \in {"run", "failed"} => journal'[a] = "batch"
               /\ left'[a] \subseteq targets'[a]
               /\ left'[a] # {} => journal'[a] = "batch"
               /\ pc'[a] = "run" => \A c \in targets'[a] \ left'[a] : journal'[c] # "none"
    <3>1. CASE a = b
      <4>1. pc'[b] = "run" => \A c \in targets'[b] \ left'[b] : journal'[c] # "none"
        BY <1>2, <1>4
      <4> QED  BY <1>4, <3>1, <4>1
    <3>2. CASE a # b
      <4>1. \A c \in targets[a] : journal'[c] = journal[c]
        BY <1>2, <1>3
      <4>2. /\ pc'[a] = pc[a] /\ journal'[a] = journal[a] /\ left'[a] = left[a]
            /\ targets'[a] = targets[a]
        BY <1>1, <1>3, <1>4, <3>2
      <4> QED  BY <4>1, <4>2 DEF BulkInv
    <3> QED  BY <3>1, <3>2
  <2>2. ASSUME NEW a \in Bulk, NEW c \in Children(a), journal'[c] # "none"
        PROVE  c \in targets'[a] /\ journal'[a] \in {"batch", "accepted"}
    <3>1. journal[c] # "none"
      BY <1>2, <1>3, <2>2
    <3>2. CASE a = b
      BY <1>4, <3>1, <3>2
    <3>3. CASE a # b
      BY <1>1, <1>3, <1>4, <3>1, <3>3 DEF BulkInv, FrozenBeforeCancel
    <3> QED  BY <3>2, <3>3
  <2>3. ASSUME NEW a \in Bulk, journal'[a] = "accepted", NEW c \in targets'[a]
        PROVE  journal'[c] # "none" /\ c \notin tasks'
    <3>1. CASE a = b
      BY <1>2, <1>4, <2>3, <3>1
    <3>2. CASE a # b
      <4>1. journal[a] = "accepted" /\ c \in targets[a] /\ c \in Single
        BY <1>1, <1>3, <1>4, <2>3, <3>2
      <4> QED  BY <1>2, <4>1 DEF BulkInv, BulkAnswersForAll
    <3> QED  BY <3>1, <3>2
  <2> QED  BY <2>1, <2>2, <2>3 DEF BulkInv, FrozenBeforeCancel, BulkAnswersForAll
<1>5. CASE BulkBegin(b)
  <2>1. UNCHANGED <<targets, left>> /\ pc'[b] = "open"
        /\ \/ journal[b] = "none" /\ journal'[b] = "sending"
           \/ journal[b] = "batch" /\ journal'[b] = "batch"
    BY <1>5 DEF BulkBegin, Goto, TypeOK, IsNew
  <2>2. left[b] # {} => journal[b] = "batch"
    BY <1>0 DEF BulkInv
  <2>3. \A c \in Children(b) :
          journal[c] # "none" => c \in targets[b] /\ journal[b] \in {"batch", "accepted"}
    BY <1>0 DEF BulkInv, FrozenBeforeCancel
  <2>4. left[b] \subseteq targets[b] /\ targets[b] \subseteq Single
    BY <1>0 DEF BulkInv
  <2> QED  BY <1>4, <2>1, <2>2, <2>3, <2>4
<1>6. CASE BulkFreeze(b)
  <2>1. /\ pc'[b] = "run" /\ journal'[b] = "batch" /\ left'[b] = targets'[b]
        /\ \A a \in Bulk \ {b} : left'[a] = left[a] /\ targets'[a] = targets[a]
    BY <1>3, <1>6 DEF BulkFreeze, Goto, TypeOK
  <2>2. targets'[b] \subseteq Children(b) /\ (journal[b] = "batch" => targets'[b] = targets[b])
    BY <1>0, <1>6 DEF BulkFreeze, TypeOK
  <2>3. journal[b] \in {"sending", "batch"}
    BY <1>6 DEF BulkFreeze
  <2>4. \A c \in Children(b) : journal[c] # "none" => c \in targets'[b]
    BY <1>0, <2>2, <2>3 DEF BulkInv, FrozenBeforeCancel
  <2> QED  BY <1>0, <1>4, <2>1, <2>2, <2>4
<1>7. CASE BulkRefuse(b) \/ BulkFinish(b) \/ BulkDie(b)
  <2>1. UNCHANGED <<targets, left>> /\ pc'[b] = "idle"
    BY <1>7 DEF BulkRefuse, BulkFinish, BulkDie, Finish, Leave, Goto, TypeOK
  <2>2. \/ journal'[b] = journal[b] /\ journal[b] \in {"sending", "batch"}
        \/ journal[b] = "sending" /\ journal'[b] = "rejected"
        \/ BulkFinish(b) /\ journal'[b] = "accepted"
    BY <1>0, <1>7 DEF BulkRefuse, BulkFinish, BulkDie, Finish, Leave, TypeOK, BulkInv
  <2>3. BulkFinish(b) => /\ left[b] = {} /\ journal[b] = "batch"
                         /\ \A c \in targets[b] : journal[c] # "none" /\ c \notin tasks
    BY <1>0 DEF BulkFinish, BulkInv
  <2>4. left[b] # {} => journal[b] = "batch"
    BY <1>0 DEF BulkInv
  <2>5. \A c \in Children(b) :
          journal[c] # "none" => c \in targets[b] /\ journal[b] \in {"batch", "accepted"}
    BY <1>0 DEF BulkInv, FrozenBeforeCancel
  <2>6. left[b] \subseteq targets[b] /\ targets[b] \subseteq Single
    BY <1>0 DEF BulkInv
  <2> QED  BY <1>4, <2>1, <2>2, <2>3, <2>4, <2>5, <2>6
<1> QED  BY <1>5, <1>6, <1>7 DEF BulkMove

LEMMA StartBulk ==
  ASSUME TypeOK, SubmissionInv, BulkInv, NEW c \in Single, StartCommand(c),
         \A b \in Bulk : c \in Children(b) => c \in targets[b] /\ journal[b] = "batch",
         \A b \in Bulk : left'[b] \subseteq left[b] /\ left[b] \subseteq left'[b] \cup {c}
  PROVE  BulkInv'
<1>0. /\ UNCHANGED targets /\ tasks' = tasks \cup {c} /\ journal[c] = "none"
      /\ journal' = [journal EXCEPT ![c] = "sending"]
  BY StartDoes
<1>1. /\ \A d \in Cmd \ {c} : journal'[d] = journal[d] /\ pc'[d] = pc[d]
      /\ journal'[c] = "sending"
  <2>1. pc' = [pc EXCEPT ![c] = "key"] \/ pc' = [pc EXCEPT ![c] = "order"]
    BY StartDoes
  <2> QED  BY <1>0, <2>1 DEF TypeOK, Single
<1>2. \A b \in Bulk : /\ b \in Cmd /\ b # c /\ journal'[b] = journal[b] /\ pc'[b] = pc[b]
                      /\ targets[b] \subseteq Children(b) /\ Children(b) \subseteq Cmd
  BY <1>1 DEF Bulk, Single, TypeOK, Children
<1>3. ASSUME NEW b \in Bulk
      PROVE  /\ pc'[b] = "open" => journal'[b] \in {"sending", "batch"}
             /\ pc'[b] \in {"run", "failed"} => journal'[b] = "batch"
             /\ left'[b] \subseteq targets'[b]
             /\ left'[b] # {} => journal'[b] = "batch"
             /\ pc'[b] = "run" => \A d \in targets'[b] \ left'[b] : journal'[d] # "none"
  <2>1. pc'[b] = "run" => \A d \in targets'[b] \ left'[b] : journal'[d] # "none"
    <3>1. ASSUME pc'[b] = "run", NEW d \in targets'[b] \ left'[b], d # c
          PROVE  journal'[d] # "none"
      <4>1. d \in targets[b] \ left[b] /\ pc[b] = "run" /\ d \in Cmd
        BY <1>0, <1>2, <3>1
      <4> QED  BY <1>1, <3>1, <4>1 DEF BulkInv
    <3> QED  BY <1>1, <3>1
  <2> QED  BY <1>0, <1>2, <2>1 DEF BulkInv
<1>4. FrozenBeforeCancel'
  BY <1>0, <1>1, <1>2 DEF BulkInv, FrozenBeforeCancel
<1>5. BulkAnswersForAll'
  BY <1>0, <1>1, <1>2 DEF BulkInv, BulkAnswersForAll
<1> QED  BY <1>3, <1>4, <1>5 DEF BulkInv

LEMMA BulkNext ==
  TypeOK /\ SubmissionInv /\ RowsInv /\ LockInv /\ BulkInv /\ [Next]_vars => BulkInv'
<1> SUFFICES ASSUME TypeOK, SubmissionInv, RowsInv, LockInv, BulkInv, [Next]_vars
             PROVE  BulkInv'
  OBVIOUS
<1> USE DEF durable, locks, external
<1>0. \A b \in Bulk : b \in Cmd /\ b \notin Single /\ targets[b] \subseteq Children(b)
  BY DEF Bulk, Single, TypeOK
<1>1. ASSUME NEW c \in Cmd, Dispatch(c)
      PROVE  BulkInv'
  <2>1. c \in Single /\ StartCommand(c) /\ UNCHANGED left
    BY <1>1 DEF Dispatch, Single
  <2>2. \A b \in Bulk : c \notin Children(b)
    BY <1>0, <1>1, PayloadAssumption DEF Dispatch, Children
  <2> QED  BY <2>1, <2>2, StartBulk
<1>2. ASSUME NEW b \in Cmd, NEW c \in Cmd, BulkChild(b, c)
      PROVE  BulkInv'
  <2>1. /\ c \in left[b] /\ left' = [left EXCEPT ![b] = @ \ {c}] /\ c \in Children(b)
    BY <1>2 DEF BulkChild, TypeOK
  <2>2. c \in Single /\ b \in Bulk /\ \A a \in Bulk : c \in Children(a) => a = b
    BY <2>1, PayloadAssumption DEF Single, Bulk, Children
  <2>3. c \in targets[b] /\ journal[b] = "batch"
    BY <2>1, <2>2 DEF BulkInv
  <2>4. \A a \in Bulk : left'[a] \subseteq left[a] /\ left[a] \subseteq left'[a] \cup {c}
    BY <1>0, <2>1 DEF TypeOK
  <2>5. CASE StartCommand(c)
    BY <2>2, <2>3, <2>4, <2>5, StartBulk
  <2>6. CASE ~IsNew(journal, c) /\ UNCHANGED <<durable, tasks, pc, locks, prior, external, crashes>>
    <3>1. \A a \in Bulk : a # b => left'[a] = left[a]
      BY <1>0, <2>1 DEF TypeOK
    <3>2. left'[b] = left[b] \ {c}
      BY <2>1 DEF TypeOK
    <3>3. ASSUME NEW a \in Bulk
          PROVE  /\ pc'[a] = "open" => journal'[a] \in {"sending", "batch"}
                 /\ pc'[a] \in {"run", "failed"} => journal'[a] = "batch"
                 /\ left'[a] \subseteq targets'[a]
                 /\ left'[a] # {} => journal'[a] = "batch"
                 /\ pc'[a] = "run" => \A d \in targets'[a] \ left'[a] : journal'[d] # "none"
      <4>1. journal[c] # "none"
        BY <2>6 DEF IsNew
      <4>2. targets'[a] \ left'[a] \subseteq (targets[a] \ left[a]) \cup {c}
        BY <2>6, <3>1, <3>2
      <4> QED  BY <2>4, <2>6, <4>1, <4>2 DEF BulkInv
    <3>4. FrozenBeforeCancel' /\ BulkAnswersForAll'
      BY <2>6 DEF BulkInv, FrozenBeforeCancel, BulkAnswersForAll
    <3> QED  BY <3>3, <3>4 DEF BulkInv
  <2> QED  BY <1>2, <2>5, <2>6 DEF BulkChild
<1>3. ASSUME NEW c \in Cmd, Step(c) \/ Die(c)
      PROVE  BulkInv'
  BY <1>3, SingleStepBulk DEF Step, Move, End, LockInv
<1>4. ASSUME NEW b \in Cmd, BulkBegin(b) \/ BulkStep(b)
      PROVE  BulkInv'
  BY <1>2, <1>4, BulkCancel DEF BulkStep, BulkMove
<1>5. ASSUME NEW c \in Cmd, Review(c)
      PROVE  BulkInv'
  <2>1. /\ UNCHANGED <<targets, tasks, pc, left>> /\ c \notin tasks
        /\ journal[c] \in {"sending", "unknown", "reviewed"}
        /\ journal' = [journal EXCEPT ![c] = "reviewed"]
    BY <1>5 DEF Review, Reviewable, UnresolvedState
  <2>2. journal'[c] = "reviewed" /\ \A d \in Cmd \ {c} : journal'[d] = journal[d]
    BY <2>1 DEF TypeOK
  <2>3. CASE c \in Single
    <3>1. \A b \in Bulk : journal'[b] = journal[b]
      BY <1>0, <2>2, <2>3
    <3>2. \A d \in Single : journal'[d] # "none" <=> journal[d] # "none"
      BY <2>1, <2>2 DEF Single
    <3> QED  BY <2>1, <3>1, <3>2, BulkStays
  <2>4. CASE c \in Bulk
    <3>1. pc[c] = "idle" /\ left[c] = {}
      BY <2>1, <2>4 DEF SubmissionInv, BulkInv, Bulk
    <3>2. \A d \in Children(c) : journal[d] = "none"
      BY <2>1, <2>4 DEF BulkInv, FrozenBeforeCancel
    <3>3. \A d \in Single : journal'[d] = journal[d]
      BY <2>2, <2>4 DEF Single, Bulk
    <3>4. \A b \in Bulk : targets[b] \subseteq Single /\ Children(b) \subseteq Single
      BY <1>0, ChildrenAreSingle
    <3>5. ASSUME NEW b \in Bulk
          PROVE  /\ pc'[b] = "open" => journal'[b] \in {"sending", "batch"}
                 /\ pc'[b] \in {"run", "failed"} => journal'[b] = "batch"
                 /\ left'[b] \subseteq targets'[b]
                 /\ left'[b] # {} => journal'[b] = "batch"
                 /\ pc'[b] = "run" => \A d \in targets'[b] \ left'[b] : journal'[d] # "none"
      <4>1. CASE b = c
        BY <2>1, <3>1, <4>1 DEF BulkInv
      <4>2. CASE b # c
        <5>1. journal'[b] = journal[b] /\ \A d \in targets[b] : journal'[d] = journal[d]
          BY <1>0, <2>2, <3>3, <3>4, <4>2
        <5> QED  BY <2>1, <5>1 DEF BulkInv
      <4> QED  BY <4>1, <4>2
    <3>6. FrozenBeforeCancel'
      BY <1>0, <2>1, <2>2, <3>2, <3>3, <3>4 DEF BulkInv, FrozenBeforeCancel
    <3>7. BulkAnswersForAll'
      BY <1>0, <2>1, <2>2, <3>3, <3>4 DEF BulkInv, BulkAnswersForAll
    <3> QED  BY <3>5, <3>6, <3>7 DEF BulkInv
  <2> QED  BY <2>3, <2>4 DEF Single, Bulk
<1>6. CASE Crash
  <2>1. /\ UNCHANGED <<journal, targets>> /\ tasks' = {}
        /\ \A c \in Cmd : pc'[c] = "idle" /\ left'[c] = {}
    BY <1>6 DEF Crash
  <2> QED  BY <1>0, <2>1, BulkStays
<1>7. CASE UNCHANGED <<journal, targets, tasks, pc, left>>
  BY <1>7, BulkStays
<1>8. ASSUME NEW c \in Cmd, BrokerStep(c)
      PROVE  BulkInv'
  BY <1>7, <1>8 DEF BrokerStep
<1>9. CASE UNCHANGED vars
  BY <1>7, <1>9 DEF vars
<1> QED
  BY <1>1, <1>3, <1>4, <1>5, <1>6, <1>8, <1>9 DEF Next

-----------------------------------------------------------------------------
(* The theorem *)

WritesInv ==
  TypeOK /\ SubmissionInv /\ RowsInv /\ LockInv /\ FifoInv /\ DoubtInv /\ BulkInv

LEMMA CreatesAlone == WritesInv => CreateAlone
<1> SUFFICES ASSUME WritesInv, NEW c \in Cmd, NEW d \in Cmd, Sent(c), Kind[c] = "create", c # d,
                    KeyOf[c] = KeyOf[d], Kind[d] \in {"create", "modify"}, InDoubt(d)
             PROVE  FALSE
  BY DEF CreateAlone
<1> USE DEF WritesInv
<1>1. pc[c] = "sent" /\ d \in Single /\ posts[d] # 0 /\ journal[d] \in UnresolvedState
  BY DEF Sent, InDoubt, Single, TypeOK
<1>2. d \in tasks
  BY <1>1 DEF DoubtInv, Lost
<1>3. pc[d] = "sent"
  BY <1>1, <1>2 DEF SubmissionInv
<1> QED  BY <1>1, <1>3, AloneOnKey

LEMMA OperationsAlone == WritesInv => OneOperationPerOrder
<1> SUFFICES ASSUME WritesInv, NEW c \in Cmd, NEW d \in Cmd, Sent(c), c # d, OrderOf[c] \in Order,
                    OrderOf[d] = OrderOf[c], KeyOf[c] = KeyOf[d]
             PROVE  ~InDoubt(d) /\ ~(journal[d] = "accepted" /\ broker[d] = "applied")
  BY DEF OneOperationPerOrder
<1> USE DEF WritesInv
<1>1. pc[c] = "sent" /\ SameOrder(c, d) /\ d \in Single
  BY PayloadAssumption DEF Sent, SameOrder, Operation, Single
<1>2. ~Standing(d) /\ ~Lost(d)
  BY <1>1 DEF DoubtInv
<1>3. pc[d] \in {"idle", "order"}
  BY <1>1, AloneOnOrder
<1>4. ASSUME InDoubt(d)
      PROVE  FALSE
  <2>1. posts[d] # 0 /\ journal[d] \in UnresolvedState
    BY <1>4 DEF InDoubt, TypeOK
  <2>2. d \in tasks
    BY <1>2, <2>1 DEF Lost
  <2> QED  BY <1>1, <1>3, <2>1, <2>2 DEF SubmissionInv
<1> QED  BY <1>2, <1>4 DEF Standing

LEMMA WritesInvariant == Spec => []WritesInv
<1>1. Init => WritesInv
  BY TypeInit, SubmissionInit, RowsInit, LockInit, FifoInit, DoubtInit, BulkInit DEF WritesInv
<1>2. WritesInv /\ [Next]_vars => WritesInv'
  BY TypeNext, SubmissionNext, RowsNext, LockNext, FifoNext, DoubtNext, BulkNext DEF WritesInv
<1> QED  BY <1>1, <1>2, PTL DEF Spec

\* The writes of every account are sound: a create is at the broker alone among
\* the creates and modifies of its key, an operation on an order is the only one
\* not over, and a bulk cancel cancels what it froze and answers for all of it.
THEOREM WritesAreSound == Spec => []WritesSound
<1>1. WritesInv => WritesSound
  BY CreatesAlone, OperationsAlone DEF WritesSound, WritesInv, BulkInv
<1> QED  BY <1>1, WritesInvariant, PTL
=============================================================================
