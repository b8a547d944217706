---------------------------- MODULE CaptureQueue ----------------------------
(***************************************************************************)
(* The capture queue (hoga/api/captures.py): a pool of workers that take   *)
(* (code, date) items from a queue, a pause when the cookie of the         *)
(* upstream site expires, the routes that enqueue, retry, cancel and       *)
(* resume, and the manifest from which the next process restores the queue *)
(* (captures_persistence.py, capture_queue_runtime.py).                    *)
(*                                                                         *)
(* Every section under _lock is free of await, so the lock is never held   *)
(* across a suspension and each section is one step.  One process at a     *)
(* time owns the queue (a kernel file lock); its predecessor is the        *)
(* previous life of the same variables.                                    *)
(***************************************************************************)
EXTENDS Integers, Sequences, SequencesExt, FiniteSets

CONSTANTS
  Pair,       \* the (code, date) pairs
  NoPair,
  Id,         \* item ids, in the order in which they are made (bound)
  NoItem,
  Worker,     \* the pool: as many workers as _max_concurrent
  Cap,        \* ATTEMPT_CAP
  Unready,    \* TRUE: the daily scheduler enqueues before the queue is ready
  MaxFaults   \* bound on crashes, stops and failed writes (not in the code)

ASSUME QueueAssumption ==
  /\ NoPair \notin Pair /\ NoItem \notin Id
  /\ Id = 1..Cardinality(Id)
  /\ IsFiniteSet(Worker) /\ Worker # {}
  /\ Cap \in Nat \ {0} /\ MaxFaults \in Nat /\ Unready \in BOOLEAN

\* A skipped item counts as done here: only the counters of the drained event
\* tell the two apart.
Terminal == {"done", "failed", "cancelled"}
Requests == {<<p>> : p \in Pair} \cup (Pair \X Pair)

VARIABLES
  life,      \* CaptureQueueRuntime.state: waiting (to own it), running, stopping
  queue,     \* _queue, of ids
  active,    \* _active, in the order of its insertions
  done,      \* _done
  inflight,  \* _inflight_paths
  paused,    \* _queue_paused
  streak,    \* _fail_streaks
  pair,      \* code and date of each item made so far
  phase,     \* its phase, of the items in one of the lists
  origin,    \* the items with pause_origin
  signalled, \* the items whose cancel token is set
  manifest,  \* .queue.json on disk
  degraded,  \* _persistence_degraded
  wakeup,    \* the flag of the _wakeup event
  place,     \* where each worker is
  job,       \* the item it runs
  told,      \* the last step published capture_queue_drained
  faults,
  accepted,  \* history: items accepted and neither ended nor given up by the user
  dropped    \* history: how the user cancelled an active or parked item

lists == <<queue, active, done>>
marks == <<phase, origin, signalled, dropped>>
disk == <<manifest, degraded>>
pool == <<place, job>>
vars == <<life, lists, inflight, paused, streak, pair, marks, disk, wakeup, pool,
          told, faults, accepted>>

Rows == queue \o active \o done
Live == ToSet(Rows)
PairsOf(s) == {pair[i] : i \in ToSet(s)}
IsParked(i) == i \in origin /\ phase[i] = "cancelled"
Parked == {i \in ToSet(done) : IsParked(i)}

TypeOK ==
  /\ life \in {"waiting", "running", "stopping"}
  /\ queue \in Seq(Id) /\ active \in Seq(Id) /\ done \in Seq(Id)
  /\ inflight \subseteq Pair
  /\ paused \in BOOLEAN /\ degraded \in BOOLEAN /\ wakeup \in BOOLEAN /\ told \in BOOLEAN
  /\ streak \in [Pair -> Nat]
  /\ pair \in [Id -> Pair \cup {NoPair}]
  /\ phase \in [Id -> {"none", "queued", "active"} \cup Terminal]
  /\ origin \subseteq Id /\ signalled \subseteq Id /\ accepted \subseteq Id
  /\ dropped \in [Id -> {"kept", "one", "all"}]
  /\ manifest.paused \in BOOLEAN
  /\ manifest.items \in Seq(Id)
  /\ manifest.parked \subseteq ToSet(manifest.items)
  /\ manifest.streak \in [Pair -> Nat]
  /\ place \in [Worker -> {"none", "poll", "wait", "woken", "run"}]
  /\ job \in [Worker -> Id \cup {NoItem}]
  /\ faults \in 0..MaxFaults
  \* an item is in the list of its phase
  /\ \A i \in Id :
       /\ i \in ToSet(queue) <=> phase[i] = "queued"
       /\ i \in ToSet(active) <=> phase[i] = "active"
       /\ i \in ToSet(done) <=> phase[i] \in Terminal

Init ==
  /\ life = "waiting"
  /\ queue = <<>> /\ active = <<>> /\ done = <<>>
  /\ inflight = {} /\ paused = FALSE
  /\ streak = [p \in Pair |-> 0]
  /\ pair = [i \in Id |-> NoPair]
  /\ phase = [i \in Id |-> "none"]
  /\ origin = {} /\ signalled = {}
  /\ manifest = [paused |-> FALSE, items |-> <<>>, parked |-> {}, streak |-> streak]
  /\ degraded = FALSE /\ wakeup = FALSE
  /\ place = [w \in Worker |-> "none"]
  /\ job = [w \in Worker |-> NoItem]
  /\ told = FALSE /\ faults = 0 /\ accepted = {}
  /\ dropped = [i \in Id |-> "kept"]

-----------------------------------------------------------------------------
(* The manifest, the wakeup and the end of all work *)

\* Mutant of InRestoreOrder: the active items are left out.
InRestoreOrderWithoutActive == queue \o SelectSeq(done, IsParked)

\* _items_in_restore_order
InRestoreOrder == active \o queue \o SelectSeq(done, IsParked)

Snapshot ==
  [paused |-> paused, items |-> InRestoreOrder,
   parked |-> {i \in ToSet(InRestoreOrder) : i \in origin}, streak |-> streak]

\* _persist_queue_locked at the end of a section: only the owner writes; a
\* failed write is noted and the queue goes on.
Persist ==
  IF life = "waiting" THEN UNCHANGED <<disk, faults>>
  ELSE \/ manifest' = Snapshot' /\ degraded' = FALSE /\ UNCHANGED faults
       \/ /\ faults < MaxFaults /\ faults' = faults + 1
          /\ degraded' = TRUE /\ UNCHANGED manifest

\* _wakeup.set(): the workers that wait at this moment will run.
WakeAll(at) ==
  /\ wakeup' = TRUE
  /\ place' = [w \in Worker |-> IF at[w] = "wait" THEN "woken" ELSE at[w]]

Idle == queue = <<>> /\ active = <<>> /\ ~paused

\* Items of S leave the lists.
Forgotten(f, S, value) == [i \in Id |-> IF i \in S THEN value ELSE f[i]]
Forget(S) ==
  /\ origin' = origin \ S /\ signalled' = signalled \ S
  /\ dropped' = Forgotten(dropped, S, "kept")

-----------------------------------------------------------------------------
(* The workers *)

CanTake == ~paused /\ Len(active) < Cardinality(Worker) /\ queue # <<>>

\* Whoever was woken clears the event and looks again, without suspending.
Cleared(w) == wakeup' = (wakeup /\ place[w] # "woken")

\* The Q15 branch for an item whose pair is in flight is not reachable while
\* OneRowPerPair holds; the guard is here so that the model would show it.
Take(w) ==
  /\ place[w] \in {"poll", "woken"} /\ CanTake
  /\ LET i == Head(queue) IN
       /\ pair[i] \notin inflight
       /\ queue' = Tail(queue) /\ active' = Append(active, i)
       /\ inflight' = inflight \cup {pair[i]}
       /\ phase' = [phase EXCEPT ![i] = "active"]
       /\ job' = [job EXCEPT ![w] = i]
       /\ dropped' = [dropped EXCEPT ![i] = "kept"]
  /\ place' = [place EXCEPT ![w] = "run"]
  /\ Cleared(w) /\ told' = FALSE
  /\ UNCHANGED <<life, done, paused, streak, pair, origin, signalled, accepted>>
  /\ Persist

\* Nothing to take.  A flag that is already set ends the first wait at once;
\* the worker clears it, looks again and then waits.
Park(w) ==
  /\ place[w] \in {"poll", "woken"} /\ ~CanTake
  /\ place' = [place EXCEPT ![w] = "wait"] /\ wakeup' = FALSE /\ told' = FALSE
  /\ UNCHANGED <<life, lists, inflight, paused, streak, pair, marks, disk, job,
                 faults, accepted>>

\* How a run ends: the phase it leaves and what it does to the streak.
Outcomes ==
  {[phase |-> "done", streak |-> "reset"],      \* COMPLETE on disk
   [phase |-> "done", streak |-> "count"],      \* not COMPLETE, or skipped
   [phase |-> "done", streak |-> "keep"],       \* skipped for an upstream_gap
   [phase |-> "failed", streak |-> "count"],
   [phase |-> "failed", streak |-> "keep"],     \* the local disk is full
   [phase |-> "cancelled", streak |-> "keep"]}  \* CaptureCancelled

\* _apply_terminal_to_streaks
Counted(p, effect) ==
  CASE effect = "reset" -> [streak EXCEPT ![p] = 0]
    [] effect = "count" -> [streak EXCEPT ![p] = @ + 1]
    [] effect = "keep"  -> streak

\* _finalize_item up to its persist, the same for every end of a run.
Finalize(w, outcome) ==
  LET i == job[w] IN
  /\ active' = Remove(active, i)
  /\ inflight' = inflight \ {pair[i]}
  /\ done' = Append(done, i)
  /\ phase' = [phase EXCEPT ![i] = outcome.phase]
  /\ streak' = Counted(pair[i], outcome.streak)
  /\ job' = [job EXCEPT ![w] = NoItem]
  /\ WakeAll([place EXCEPT ![w] = "poll"])
  /\ accepted' = IF i \in Parked' THEN accepted ELSE accepted \ {i}
  /\ dropped' = IF i \in Parked' THEN dropped ELSE [dropped EXCEPT ![i] = "kept"]
  /\ UNCHANGED <<life, queue, pair>>
  /\ told' = Idle'

Finish(w) ==
  /\ place[w] = "run"
  /\ \E outcome \in Outcomes :
       /\ outcome.phase = "cancelled" => job[w] \in signalled
       /\ UNCHANGED <<paused, origin, signalled>>
       /\ Finalize(w, outcome)
  /\ Persist

\* The upstream rejects the cookie: the first to see it pauses the pool and
\* cancels the others, marked for the resume; its own item has failed.
CookieExpired(w) ==
  /\ place[w] = "run"
  /\ LET others == IF paused THEN {} ELSE ToSet(active) \ {job[w]} IN
       origin' = origin \cup others /\ signalled' = signalled \cup others
  /\ paused' = TRUE
  /\ Finalize(w, [phase |-> "failed", streak |-> "count"])
  /\ Persist

-----------------------------------------------------------------------------
(* The routes *)

Fresh == Cardinality({i \in Id : pair[i] # NoPair}) + 1
Made(n) == Fresh..(Fresh + n - 1)
\* New items for the pairs of a sequence.
Make(new) ==
  /\ Made(Len(new)) \subseteq Id
  /\ pair' = [i \in Id |-> IF i \in Made(Len(new)) THEN new[i - Fresh + 1] ELSE pair[i]]
  /\ queue' = queue \o [k \in 1..Len(new) |-> Fresh + k - 1]

\* Mutant of WakeIf: a waiting worker is not woken.
WakeNobody(b) == wakeup' = (wakeup \/ b) /\ UNCHANGED place

WakeIf(b) == IF b THEN WakeAll(place) ELSE UNCHANGED <<wakeup, place>>

\* Mutant of Wanted: active items are not looked at.
WantedIfNotQueued(p) == streak[p] < Cap /\ p \notin PairsOf(queue)

\* The fail-streak gate, then the dedupe against queue, active and in flight.
Wanted(p) == streak[p] < Cap /\ p \notin PairsOf(queue) \cup PairsOf(active) \cup inflight

\* enqueue_items_core: what is wanted, once; a finished row of the pair goes.
Enqueue(request) ==
  LET first(k) == \A j \in 1..(k - 1) : request[j] # request[k]
      order == SetToSortSeq({k \in DOMAIN request : first(k) /\ Wanted(request[k])}, <)
      new == [k \in DOMAIN order |-> request[order[k]]]
      old == {i \in ToSet(done) : pair[i] \in ToSet(new)}
  IN
  /\ life = "running" \/ (Unready /\ life = "waiting")
  /\ new # <<>>
  /\ Make(new)
  /\ done' = SelectSeq(done, LAMBDA i : i \notin old)
  /\ phase' = [i \in Id |-> IF i \in Made(Len(new)) THEN "queued"
                            ELSE IF i \in old THEN "none" ELSE phase[i]]
  /\ accepted' = (accepted \ old) \cup Made(Len(new))
  /\ Forget(old)
  /\ WakeIf(TRUE) /\ told' = FALSE
  /\ UNCHANGED <<life, active, inflight, paused, streak, job>>
  /\ Persist

\* _retry_items, for each id of the request in turn: a failed row, its pair
\* nowhere else, makes way for a new item.  No look at the streak.
Retry(i) ==
  /\ life = "running" /\ phase[i] = "failed"
  /\ pair[i] \notin PairsOf(queue) \cup PairsOf(active) \cup inflight
  /\ Make(<<pair[i]>>)
  /\ done' = Remove(done, i)
  /\ phase' = [phase EXCEPT ![i] = "none", ![Fresh] = "queued"]
  /\ accepted' = accepted \cup {Fresh}
  /\ Forget({i})
  /\ WakeIf(TRUE) /\ told' = FALSE
  /\ UNCHANGED <<life, active, inflight, paused, streak, job>>
  /\ Persist

Unblock(p) ==
  /\ life = "running" /\ streak[p] > 0
  /\ streak' = [streak EXCEPT ![p] = 0] /\ told' = FALSE
  /\ UNCHANGED <<life, lists, inflight, paused, pair, marks, wakeup, pool, accepted>>
  /\ Persist

\* cancel_item of a queued item.  Nothing is published when it was the last.
CancelQueued(i) ==
  /\ life = "running" /\ phase[i] = "queued"
  /\ queue' = Remove(queue, i) /\ done' = Append(done, i)
  /\ phase' = [phase EXCEPT ![i] = "cancelled"]
  /\ accepted' = accepted \ {i}
  /\ WakeIf(TRUE) /\ told' = FALSE
  /\ UNCHANGED <<life, active, inflight, paused, streak, pair, origin, signalled, dropped, job>>
  /\ Persist

\* cancel_item of an active item: its token, no more.
CancelActive(i) ==
  /\ life = "running" /\ phase[i] = "active" /\ i \notin signalled
  /\ signalled' = signalled \cup {i}
  /\ dropped' = [dropped EXCEPT ![i] = "one"] /\ told' = FALSE
  /\ UNCHANGED <<life, lists, inflight, paused, streak, pair, phase, origin, disk,
                 wakeup, pool, faults, accepted>>

\* What cancel_all has to tell of.
SomethingEnded == queue # <<>> \/ paused

\* cancel_all: the queue becomes cancelled rows, active items are signalled,
\* and of a paused queue the finished rows lose their mark.
CancelAll ==
  LET parked == IF paused THEN Parked ELSE {} IN
  /\ life = "running"
  /\ queue' = <<>> /\ done' = done \o queue
  /\ phase' = [i \in Id |-> IF i \in ToSet(queue) THEN "cancelled" ELSE phase[i]]
  /\ signalled' = signalled \cup ToSet(active)
  /\ origin' = IF paused THEN origin \ (ToSet(done) \cup ToSet(queue)) ELSE origin
  /\ paused' = FALSE
  /\ dropped' = Forgotten(dropped, parked \cup ToSet(active), "all")
  /\ accepted' = accepted \ (ToSet(queue) \cup parked)
  /\ WakeIf(TRUE)
  /\ UNCHANGED <<life, active, inflight, streak, pair, job>>
  /\ told' = (Idle' /\ SomethingEnded)
  /\ Persist

\* Mutant of StillSignalled: an item keeps the cancel token of the pause.
SignalledAsBefore == signalled

\* A resumed item gets a new token.
StillSignalled == signalled \ Parked

\* resume_queue: what the pause cancelled goes to the front.
Resume ==
  /\ life = "running"
  /\ queue' = SelectSeq(done, IsParked) \o queue
  /\ done' = SelectSeq(done, LAMBDA i : ~IsParked(i))
  /\ phase' = [i \in Id |-> IF i \in Parked THEN "queued" ELSE phase[i]]
  /\ origin' = origin \ Parked /\ signalled' = StillSignalled
  /\ paused' = FALSE
  /\ WakeIf(queue' # <<>>)
  /\ UNCHANGED <<life, active, inflight, streak, pair, dropped, job, accepted>>
  /\ told' = (Idle' /\ paused)
  /\ Persist

\* dismiss_done: the rows are gone from memory; the manifest is not written.
DismissDone ==
  /\ life = "running" /\ done # <<>>
  /\ done' = <<>>
  /\ phase' = Forgotten(phase, ToSet(done), "none")
  /\ Forget(ToSet(done))
  /\ accepted' = accepted \ ToSet(done) /\ told' = FALSE
  /\ UNCHANGED <<life, queue, active, inflight, paused, streak, pair, disk, wakeup,
                 pool, faults>>

-----------------------------------------------------------------------------
(* The process *)

\* attempt and activate: the file lock, the manifest, then the workers.
Activate ==
  LET queued(i) == i \notin manifest.parked
      restored(i) == i \in ToSet(manifest.items)
  IN
  /\ life = "waiting" /\ life' = "running"
  /\ active = <<>> /\ \A w \in Worker : place[w] = "none"
  /\ queue' = SelectSeq(manifest.items, queued)
  /\ done' = SelectSeq(manifest.items, LAMBDA i : ~queued(i))
  /\ paused' = manifest.paused /\ streak' = manifest.streak
  /\ phase' = [i \in Id |-> IF ~restored(i) THEN "none"
                            ELSE IF queued(i) THEN "queued" ELSE "cancelled"]
  /\ origin' = manifest.parked
  /\ degraded' = FALSE /\ wakeup' = FALSE /\ told' = FALSE
  /\ place' = [w \in Worker |-> "poll"]
  /\ UNCHANGED <<active, inflight, pair, signalled, dropped, manifest, job, faults, accepted>>

\* retry_queue_persistence, every 30 seconds.
RetryPersistence ==
  /\ life # "waiting" /\ degraded /\ told' = FALSE
  /\ UNCHANGED <<life, lists, inflight, paused, streak, pair, marks, wakeup, pool, accepted>>
  /\ Persist

\* The end of a process: memory is gone.  The history forgives what a disk
\* that refused writes could not keep.
Perish ==
  /\ faults < MaxFaults /\ faults' = faults + 1
  /\ life' = "waiting"
  /\ queue' = <<>> /\ active' = <<>> /\ done' = <<>> /\ inflight' = {}
  /\ paused' = FALSE /\ streak' = [p \in Pair |-> 0]
  /\ phase' = [i \in Id |-> "none"] /\ Forget(Id)
  /\ degraded' = FALSE /\ wakeup' = FALSE /\ told' = FALSE
  /\ place' = [w \in Worker |-> "none"] /\ job' = [w \in Worker |-> NoItem]
  /\ accepted' = IF degraded THEN accepted \cap ToSet(manifest.items) ELSE accepted
  /\ UNCHANGED <<pair, manifest>>

Crash == life # "waiting" /\ Perish

\* begin_capture_shutdown: no more requests; workers go on and save.
BeginShutdown ==
  /\ life = "running" /\ life' = "stopping" /\ told' = FALSE
  /\ UNCHANGED <<lists, inflight, paused, streak, pair, marks, disk, wakeup, pool,
                 faults, accepted>>

\* stop_workers, cancel_all_on_shutdown and release_all: the tasks of the
\* workers are cancelled and their items stay active in the manifest.
StopWorkers == life = "stopping" /\ Perish

Next ==
  \/ \E w \in Worker : Take(w) \/ Park(w) \/ Finish(w) \/ CookieExpired(w)
  \/ \E request \in Requests : Enqueue(request)
  \/ \E i \in Id : Retry(i) \/ CancelQueued(i) \/ CancelActive(i)
  \/ \E p \in Pair : Unblock(p)
  \/ CancelAll \/ Resume \/ DismissDone
  \/ Activate \/ RetryPersistence \/ Crash \/ BeginShutdown \/ StopWorkers

\* Workers are scheduled, and a capture ends: its requests have timeouts.
Fairness ==
  \A w \in Worker : WF_vars(Take(w) \/ Park(w)) /\ WF_vars(Finish(w))

Spec == Init /\ [][Next]_vars /\ Fairness

-----------------------------------------------------------------------------
(* Properties *)

\* An item is in one list once, a pair has one row, what is in flight is what
\* is active, and each active item is run by one worker: no two captures of a
\* (code, date) write the same files (captures.py, Q15 layers 1 and 2).
OneRowPerPair ==
  /\ \A j, k \in DOMAIN Rows : j # k => pair[Rows[j]] # pair[Rows[k]]
  /\ inflight = PairsOf(active)
  /\ \A i \in ToSet(active) : Cardinality({w \in Worker : job[w] = i}) = 1
  /\ \A w \in Worker : job[w] # NoItem => job[w] \in ToSet(active)

\* Unless the disk refuses writes, the manifest of the owner restores the queue
\* as it is: first the active items, then the queued ones, the marked ones in
\* the list for the resume, the pause and the streaks; only a dismissed row may
\* be in it besides.
ManifestIsCurrent ==
  life # "waiting" /\ ~degraded =>
    /\ SelectSeq(manifest.items, LAMBDA i : i \notin manifest.parked)
         = SelectSeq(active \o queue, LAMBDA i : i \notin origin)
    /\ manifest.parked \cap Live = (origin \cap ToSet(active)) \cup Parked
    /\ manifest.paused = paused /\ manifest.streak = streak

\* An item for which an enqueue or a retry was answered, and that has neither
\* ended nor been given up by the user, is in the queue, at a worker or parked
\* for the resume; while no process owns the queue it is in the manifest.
AcceptedIsKept ==
  \A i \in accepted :
    IF life = "waiting" THEN i \in ToSet(manifest.items) \cup ToSet(queue)
    ELSE i \in ToSet(queue) \cup ToSet(active) \cup Parked

\* Nothing that was accepted is lost, and the manifest restores the queue.
RestoreIsFaithful == AcceptedIsKept /\ ManifestIsCurrent

\* A capture that ends as cancelled was cancelled by the user or is parked for
\* the resume: a pause loses nothing (resume_queue, the cancel token).
OnlyTheUserDrops ==
  [][\A i \in Id : phase[i] = "active" /\ phase'[i] = "cancelled"
       => i \in Parked' \/ dropped[i] # "kept"]_vars

\* When the last item ends, by a worker, cancel_all or a resume with nothing to
\* do, capture_queue_drained is published (_drained_event_if_bottomed_locked).
\* cancel_item of the last queued item publishes nothing.
DrainIsTold ==
  [][life = "running" /\ life' = "running" /\ ~Idle /\ Idle'
       => told' \/ \E i \in Id : CancelQueued(i)]_vars

\* An end is the right one, and the end of all work is told.
EndsAreRight == OnlyTheUserDrops /\ DrainIsTold

\* A queued pair is taken up, unless the queue is paused or stopped: no worker
\* sleeps through the wakeup that was meant for it.
QueuedIsTaken ==
  \A p \in Pair : (p \in PairsOf(queue) /\ life = "running")
    ~> (p \notin PairsOf(queue) \/ paused \/ life # "running")

\* Not kept by the code, see the README: what cancel_all covered is not queued
\* again, "so Resume would no longer
\* re-enqueue them" (design of the range capture, Q20).
CancelAllIsFinal == \A i \in ToSet(queue) : dropped[i] # "all"
=============================================================================
