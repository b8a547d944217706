--------------------------- MODULE KiwoomCodeGate ---------------------------
(***************************************************************************)
(* The admission gate of one (account, code) in front of Kiwoom writes     *)
(* (hoga/trading/kiwoom_admission.py): writes are exclusive in FIFO order, *)
(* except that proven independent modifications may form a finite cohort.  *)
(*                                                                         *)
(* An identity proof never changes for a given order (its number, date,    *)
(* route and recorded ancestry), so the fence, a map from editable orders  *)
(* to proofs, is the set of orders it proves; an absent fence and an empty *)
(* one answer every question alike and are both {}.  A ticket that may not *)
(* enter sleeps on the event that notify() sets and replaces.              *)
(***************************************************************************)
EXTENDS Naturals, Sequences, FiniteSets

CONSTANTS
  Lease,      \* tickets: one per command
  Ref,        \* order references
  RefOf,      \* the order_ref of a ticket
  Parallel,   \* the tickets of modifications of a real account
  Related,    \* the order numbers in the proof of an order
  MaxGranted  \* MAX_CONCURRENT_KIWOOM_MODIFICATIONS

ASSUME GateAssumption ==
  /\ Parallel \subseteq Lease
  /\ \A l \in Parallel : RefOf[l] \in Ref
  /\ MaxGranted \in Nat \ {0}

VARIABLES
  queue,      \* waiting tickets
  place,      \* where the coroutine of each ticket is
  active,     \* the current epoch's members
  fence,      \* the orders the leader's snapshot proves
  granted,    \* grants in this epoch
  admission,  \* EpochAdmission
  follower,   \* members that joined behind a leader
  proven      \* members with a proof

gateVars == <<queue, place, active, fence, granted, admission, follower, proven>>

GateTypeOK ==
  /\ queue \in Seq(Lease)
  /\ place \in [Lease -> {"out", "queued", "asleep", "active", "observed", "gone"}]
  /\ active \in SUBSET Lease
  /\ fence \in SUBSET Ref
  /\ granted \in 0..MaxGranted
  /\ admission \in {"open", "sealed", "frozen"}
  /\ follower \in SUBSET Lease
  /\ proven \in SUBSET Lease

GateInit ==
  /\ queue = <<>>
  /\ place = [l \in Lease |-> "out"]
  /\ active = {}
  /\ fence = {}
  /\ granted = 0
  /\ admission = "open"
  /\ follower = {}
  /\ proven = {}

Disjoint(l, m) == Related[RefOf[l]] \cap Related[RefOf[m]] = {}

\* Mutant of CanJoin: the order families are not compared.
CanJoinAnyOrder(l) ==
  /\ l \in Parallel /\ admission = "open" /\ RefOf[l] \in fence
  /\ \A m \in active : m \in Parallel \cap proven

\* _can_join.
CanJoin(l) ==
  /\ l \in Parallel /\ admission = "open" /\ RefOf[l] \in fence
  /\ \A m \in active : m \in Parallel \cap proven /\ Disjoint(l, m)

\* Mutant of MayEnter: a follower need not be first in the queue.
MayEnterOutOfTurn(l) == (Head(queue) = l /\ active = {}) \/ (active # {} /\ CanJoin(l))

MayEnter(l) == Head(queue) = l /\ (active = {} \/ CanJoin(l))

\* notify(), while ticket l moves on to p: every sleeper looks again.
Notify(l, p) ==
  place' = [x \in Lease |-> IF x = l THEN p
                            ELSE IF place[x] = "asleep" THEN "queued" ELSE place[x]]

Enter(l) ==
  /\ place[l] = "out"
  /\ queue' = Append(queue, l)
  /\ place' = [place EXCEPT ![l] = "queued"]
  /\ UNCHANGED <<active, fence, granted, admission, follower, proven>>

\* The first member of an epoch: a new, empty fence.
GrantLeader(l) ==
  /\ active = {}
  /\ granted' = 1
  /\ fence' = {}
  /\ UNCHANGED <<follower, proven>>

GrantFollower(l) ==
  /\ active # {}
  /\ granted' = granted + 1
  /\ follower' = follower \cup {l}
  /\ proven' = proven \cup {l}
  /\ UNCHANGED fence

Grant(l) ==
  /\ place[l] = "queued" /\ MayEnter(l)
  /\ queue' = Tail(queue)
  /\ active' = active \cup {l}
  /\ GrantLeader(l) \/ GrantFollower(l)
  /\ admission' = IF granted' = MaxGranted THEN "sealed" ELSE admission
  /\ Notify(l, "active")

Sleep(l) ==
  /\ place[l] = "queued" /\ ~MayEnter(l)
  /\ place' = [place EXCEPT ![l] = "asleep"]
  /\ UNCHANGED <<queue, active, fence, granted, admission, follower, proven>>

\* deque.remove of the ticket at place i.
DropAt(q, i) == [j \in 1..(Len(q) - 1) |-> IF j < i THEN q[j] ELSE q[j + 1]]

\* The deadline passes before the grant.
Expire(l) ==
  /\ place[l] \in {"queued", "asleep"}
  /\ \E i \in DOMAIN queue : queue[i] = l /\ queue' = DropAt(queue, i)
  /\ Notify(l, "gone")
  /\ UNCHANGED <<active, fence, granted, admission, follower, proven>>

\* Mutant of ObserveLeader: the fence opens and nobody is woken.
ObserveLeaderSilently(l, s) ==
  /\ place[l] = "active" /\ l \in Parallel \ follower
  /\ LET sure == RefOf[l] \in s
     IN  /\ proven' = IF sure THEN proven \cup {l} ELSE proven
         /\ fence' = IF sure THEN s ELSE {}
  /\ place' = [place EXCEPT ![l] = "observed"]
  /\ UNCHANGED <<queue, active, granted, admission, follower>>

\* observe() with a snapshot that proves the orders in s, once per member.
ObserveLeader(l, s) ==
  /\ place[l] = "active" /\ l \in Parallel \ follower
  /\ LET sure == RefOf[l] \in s
     IN  /\ proven' = IF sure THEN proven \cup {l} ELSE proven
         /\ fence' = IF sure THEN s ELSE {}
  /\ Notify(l, "observed")
  /\ UNCHANGED <<queue, active, granted, admission, follower>>

\* A follower goes on only if the snapshot still proves its order.
ObserveFollower(l, s) ==
  /\ place[l] = "active" /\ l \in follower
  /\ RefOf[l] \in s
  /\ place' = [place EXCEPT ![l] = "observed"]
  /\ UNCHANGED <<queue, active, fence, granted, admission, follower, proven>>

\* Mutants of Exit: an uncertain outcome does not freeze the epoch; nobody is
\* woken.
ExitUnfrozen(l, frozen) ==
  /\ l \in active
  /\ active' = active \ {l}
  /\ IF active' = {}
       THEN fence' = {} /\ granted' = 0 /\ admission' = "open"
       ELSE UNCHANGED <<admission, fence, granted>>
  /\ follower' = follower \ {l}
  /\ proven' = proven \ {l}
  /\ Notify(l, "gone")
  /\ UNCHANGED queue

ExitSilently(l, frozen) ==
  /\ l \in active
  /\ active' = active \ {l}
  /\ IF active' = {}
       THEN fence' = {} /\ granted' = 0 /\ admission' = "open"
       ELSE /\ admission' = IF frozen THEN "frozen" ELSE admission
            /\ UNCHANGED <<fence, granted>>
  /\ follower' = follower \ {l}
  /\ proven' = proven \ {l}
  /\ place' = [place EXCEPT ![l] = "gone"]
  /\ UNCHANGED queue

\* complete() and the finally clause of a member, with no await between them;
\* frozen says whether its outcome is uncertain.
Exit(l, frozen) ==
  /\ l \in active
  /\ active' = active \ {l}
  /\ IF active' = {}
       THEN fence' = {} /\ granted' = 0 /\ admission' = "open"
       ELSE /\ admission' = IF frozen THEN "frozen" ELSE admission
            /\ UNCHANGED <<fence, granted>>
  /\ follower' = follower \ {l}
  /\ proven' = proven \ {l}
  /\ Notify(l, "gone")
  /\ UNCHANGED queue

GateStep(l) ==
  \/ Grant(l) \/ Sleep(l)
  \/ \E frozen \in BOOLEAN : Exit(l, frozen)

GateNext ==
  \E l \in Lease :
    \/ Enter(l) \/ Expire(l) \/ GateStep(l)
    \/ \E s \in SUBSET Ref : ObserveLeader(l, s) \/ ObserveFollower(l, s)

\* Tickets take their turns, and every member leaves: its calls have a deadline.
GateFairness == \A l \in Lease : WF_gateVars(GateStep(l))

GateSpec == GateInit /\ [][GateNext]_gateVars /\ GateFairness

-----------------------------------------------------------------------------
(* Properties *)

\* Whoever shares an epoch is a modification of a proven order, and no two of
\* them touch the same order family: any other write is alone.
Independent ==
  \A l, m \in active : l # m => l \in Parallel \cap proven /\ Disjoint(l, m)

Waiting(l) == place[l] \in {"queued", "asleep"}

\* The queue holds each waiting ticket once, and nothing else.
QueueInv ==
  /\ \A l \in Lease : Waiting(l) => \E i \in DOMAIN queue : queue[i] = l
  /\ \A i \in DOMAIN queue : Waiting(queue[i])
  /\ \A i, j \in DOMAIN queue : queue[i] = queue[j] => i = j

\* An empty gate has no grant left over; an epoch at its limit is closed.
EpochInv ==
  /\ \A l \in Lease : l \in active <=> place[l] \in {"active", "observed"}
  /\ active = {} => granted = 0 /\ admission = "open"
  /\ granted = MaxGranted => admission # "open"

\* The strengthening that makes the properties of this module inductive.
GateInv == QueueInv /\ EpochInv /\ Independent

\* A sleeping ticket is one that may not enter: no step that lets it in forgets
\* to wake it.
NoLostWakeup == \A l \in Lease : place[l] = "asleep" => ~MayEnter(l)

\* "Later tickets never pass it" (kiwoom_admission.py:89): a ticket enters only
\* when every ticket that queued before it has entered or given up.
NoOvertaking ==
  [][\A i \in DOMAIN queue : queue[i] \in active' \ active =>
       \A j \in 1..(i - 1) : place'[queue[j]] \notin {"queued", "asleep"}]_gateVars

\* An epoch ends: once it is sealed or frozen nobody joins before it has drained.
ClosedEpochDrains == [][admission # "open" => active' \subseteq active]_gateVars

\* A ticket does not wait for ever, even if its deadline never came.
TicketIsServed ==
  \A l \in Lease : Waiting(l) ~> ~Waiting(l)
=============================================================================
