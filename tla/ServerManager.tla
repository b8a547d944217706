--------------------------- MODULE ServerManager ---------------------------
(***************************************************************************)
(* The desktop's server manager (desktop/src/server/controller.ts): starts *)
(* the two services as child processes, waits until they answer, stops     *)
(* what it started, and stops servers that somebody else runs only after   *)
(* the user has confirmed what was shown of them.  main.ts (shutdown) ends *)
(* the manager once its children are stopped.                              *)
(* A process is a process group with its identity (processes.ts,           *)
(* sameProcess): a pid that is used again is another process.  A child is  *)
(* its service and the how manieth of the service it is.  What the window  *)
(* shows of the services between operations (refresh) is left out: it      *)
(* guards no step of the controller.                                       *)
(***************************************************************************)
EXTENDS Naturals, FiniteSets

CONSTANTS
  Service,
  External,       \* servers that others may run
  ServiceOf,      \* the service of each of them
  None,
  MaxSpawns,      \* children spawned for each service
  MaxFaults,      \* processes that end, hang or restart of themselves
  MaxStops        \* stops asked for, with a plan or without

Child == Service \X (1..MaxSpawns)
Process == Child \cup External

ASSUME ServerAssumption ==
  /\ ServiceOf \in [External -> Service]
  /\ None \notin Service \cup Process
  /\ {MaxSpawns, MaxFaults, MaxStops} \subseteq Nat
  /\ External \cap Child = {}

VARIABLES
  proc,      \* "none", "deaf" (alive, not listening), "up", "sick", "dead", "closed"
  owned,     \* the child the controller holds for each service, or None
  expected,  \* services whose end was asked for
  errors,    \* services that ended without being asked, while start() looks at them
  start,     \* how far start() is: its pc, and the services it spawned
  probed,    \* what it saw: the services that were healthy
  aborted,   \* startingAbort
  late,      \* its minute is over
  offered,   \* stopPlans: the stops that were prepared and may be confirmed
  stopping,  \* how far a confirmed stop is: its pc, targets and whether by force
  stop,      \* how far stop() is
  awaited,   \* the children whose end each operation awaits
  survivors, \* forceTargets: what outlived a stop
  exit,      \* "no", "asked", "gone": the end of the manager
  spawns, faults, stops,                \* counters for the bounds
  signalled, killed,     \* history: the processes sent SIGTERM, SIGKILL
  confirmed,             \* history: the external servers whose stop was confirmed
  kept,                  \* history: the children of starts that succeeded
  doubled                \* history: services started while a child of theirs was held

processes == <<proc, spawns>>
children == <<owned, expected>>
starting == <<start, probed, aborted, late, errors>>
stopState == <<offered, stopping, stop, survivors>>
control == <<children, starting, stopState, awaited, exit>>
limits == <<faults, stops>>
signals == <<signalled, killed>>
history == <<confirmed, kept, doubled>>
vars == <<processes, control, limits, signals, history>>

Operation == {"start", "stopping", "stop"}

Idle == [pc |-> "idle", targets |-> {}, force |-> FALSE]

Init ==
  /\ proc = [p \in Process |-> "none"]
  /\ owned = [s \in Service |-> None]
  /\ expected = {} /\ errors = {}
  /\ start = [pc |-> "idle", staged |-> {}] /\ probed = {}
  /\ aborted = FALSE /\ late = FALSE
  /\ offered = {} /\ stopping = Idle /\ stop = "idle"
  /\ awaited = [o \in Operation |-> {}]
  /\ survivors = [s \in Service |-> {}]
  /\ exit = "no"
  /\ spawns = [s \in Service |-> 0] /\ faults = 0 /\ stops = 0
  /\ signalled = {} /\ killed = {} /\ confirmed = {} /\ kept = {} /\ doubled = {}

---------------------------------------------------------------------------
Of(p) == IF p \in External THEN ServiceOf[p] ELSE p[1]
Alive(p) == proc[p] \in {"deaf", "up", "sick"}
Listening(p) == proc[p] \in {"up", "sick"}
Listener(s) == {p \in Process : Of(p) = s /\ Listening(p)}
Busy(s) == Listener(s) # {}
Healthy(s) == \E p \in Process : Of(p) = s /\ proc[p] = "up"
Ended(op) == \A c \in awaited[op] : proc[c] = "closed"

Acting == start.pc # "idle" \/ stopping.pc # "idle" \/ stop = "wait"   \* this.action
InOperation == start.pc # "idle" \/ stopping.pc # "idle"               \* this.operation
Running == exit # "gone"

---------------------------------------------------------------------------
(* The processes.  One process listens on a port; another one that tries   *)
(* ends.  A server that restarts itself is deaf for a while.               *)

Listen(p) ==
  /\ proc[p] = "deaf" /\ ~Busy(Of(p))
  /\ proc' = [proc EXCEPT ![p] = "up"]
  /\ UNCHANGED <<spawns, control, limits, signals, history>>

FailToListen(p) ==
  /\ proc[p] = "deaf" /\ Busy(Of(p))
  /\ proc' = [proc EXCEPT ![p] = "dead"]
  /\ UNCHANGED <<spawns, control, limits, signals, history>>

Misbehave(p) ==
  /\ Alive(p) /\ faults < MaxFaults
  /\ faults' = faults + 1
  /\ \E state \in {"dead"} \cup (IF proc[p] = "up" THEN {"sick"} ELSE {})
                  \cup (IF proc[p] = "up" /\ p \in Child THEN {"deaf"} ELSE {}) :
       proc' = [proc EXCEPT ![p] = state]
  /\ UNCHANGED <<spawns, stops, control, signals, history>>

\* A signal ends a process, unless it is an external one that waits for its own work.
EndBySignal(p) ==
  /\ Alive(p) /\ p \in signalled \cup killed
  /\ proc' = [proc EXCEPT ![p] = "dead"]
  /\ UNCHANGED <<spawns, control, limits, signals, history>>

\* Somebody starts a server elsewhere.
StartElsewhere(x) ==
  /\ proc[x] = "none" /\ ~Busy(ServiceOf[x])
  /\ proc' = [proc EXCEPT ![x] = "up"]
  /\ UNCHANGED <<spawns, control, limits, signals, history>>

---------------------------------------------------------------------------
(* Children.                                                               *)

\* The close event: the entry of the service goes, whichever child it holds.
Close(c) ==
  /\ proc[c] = "dead" /\ Running
  /\ proc' = [proc EXCEPT ![c] = "closed"]
  /\ owned' = [owned EXCEPT ![c[1]] = None]
  /\ expected' = expected \ {c[1]}
  /\ errors' = IF c[1] \in expected \/ start.pc = "idle" THEN errors ELSE errors \cup {c[1]}
  /\ UNCHANGED <<start, probed, aborted, late, awaited, exit, spawns, stopState, limits, signals,
                 history>>

OwnedOf(ids) == {owned[s] : s \in ids} \ {None}

\* Mutant: the end is awaited, but not asked for.
TerminateSilently(op, ids) ==
  /\ expected' = expected \cup {s \in ids : owned[s] # None}
  /\ awaited' = [awaited EXCEPT ![op] = OwnedOf(ids)]
  /\ UNCHANGED signalled

\* terminate(ids): SIGTERM to what is owned, whose end the operation then awaits.
Terminate(op, ids) ==
  /\ expected' = expected \cup {s \in ids : owned[s] # None}
  /\ awaited' = [awaited EXCEPT ![op] = OwnedOf(ids)]
  /\ signalled' = signalled \cup {c \in OwnedOf(ids) : Alive(c)}

---------------------------------------------------------------------------
(* start()                                                                 *)

Start ==
  /\ Running /\ stop = "idle" /\ ~InOperation
  /\ \A s \in Service : spawns[s] < MaxSpawns
  /\ offered' = {}
  /\ start' = [pc |-> "probe", staged |-> {}]
  /\ UNCHANGED <<errors, probed, aborted, late, stopping, stop, awaited, survivors, exit,
                 processes, children, limits, signals, history>>

\* The end of a start; what is local to it is cleared.
EndStart ==
  /\ start' = [pc |-> "idle", staged |-> {}]
  /\ errors' = {} /\ probed' = {} /\ aborted' = FALSE /\ late' = FALSE
  /\ awaited' = [awaited EXCEPT !["start"] = {}]

\* The start fails: what it spawned is terminated.
Fail ==
  /\ start' = [start EXCEPT !.pc = "undo"]
  /\ Terminate("start", start.staged)

\* A busy port without a healthy server, or a missing dependency, fails the start.
Probe ==
  /\ Running /\ start.pc = "probe"
  /\ \/ /\ \A s \in Service : Busy(s) => Healthy(s)
        /\ start' = [start EXCEPT !.pc = "spawn"]
        /\ probed' = {s \in Service : Healthy(s)}
        /\ UNCHANGED <<expected, awaited, signalled>>
     \/ Fail /\ UNCHANGED probed
  /\ UNCHANGED <<owned, errors, aborted, late, exit, killed, processes, stopState, limits, history>>

Spawn ==
  /\ Running /\ start.pc = "spawn"
  /\ LET missing == Service \ probed IN
     IF aborted
     THEN Fail /\ UNCHANGED <<owned, doubled, processes>>
     ELSE /\ spawns' = [s \in Service |-> IF s \in missing THEN spawns[s] + 1 ELSE spawns[s]]
          /\ proc' = [p \in Process |-> IF p \in {<<s, spawns'[s]>> : s \in missing}
                                        THEN "deaf" ELSE proc[p]]
          /\ owned' = [s \in Service |-> IF s \in missing THEN <<s, spawns'[s]>> ELSE owned[s]]
          /\ doubled' = doubled \cup {s \in missing : owned[s] # None}
          /\ start' = [pc |-> "wait", staged |-> missing]
          /\ UNCHANGED <<expected, awaited, signalled>>
  /\ UNCHANGED <<errors, probed, aborted, late, exit, killed, confirmed, kept, stopState, limits>>

\* One turn of the loop: an abort or a lost child ends it ...
Wait ==
  /\ Running /\ start.pc = "wait"
  /\ IF aborted \/ \E s \in start.staged : owned[s] = None \/ s \in errors
     THEN Fail
     ELSE start' = [start EXCEPT !.pc = "sample"] /\ UNCHANGED <<expected, awaited, signalled>>
  /\ UNCHANGED <<owned, errors, probed, aborted, late, exit, killed, processes, stopState, limits,
                 history>>

\* ... so does an answer of every service, or the end of the minute.
Sample ==
  /\ Running /\ start.pc = "sample"
  /\ \/ /\ \A s \in Service : Healthy(s)
        /\ EndStart
        /\ kept' = kept \cup OwnedOf(start.staged)
        /\ UNCHANGED <<expected, signalled>>
     \/ /\ \E s \in Service : ~Healthy(s)
        /\ \/ late /\ Fail
           \/ /\ ~late
              /\ start' = [start EXCEPT !.pc = "wait"]
              /\ UNCHANGED <<expected, awaited, signalled>>
        /\ UNCHANGED <<errors, probed, aborted, late, kept>>
  /\ UNCHANGED <<owned, exit, killed, confirmed, doubled, processes, stopState, limits>>

Expire ==
  /\ Running /\ start.pc \in {"wait", "sample"} /\ ~late
  /\ late' = TRUE
  /\ UNCHANGED <<errors, start, probed, aborted, awaited, exit, processes, children, stopState,
                 limits, signals, history>>

\* Mutant: the start is over while its children are still ending.
UndoneAtOnce ==
  /\ Running /\ start.pc = "undo"
  /\ EndStart
  /\ UNCHANGED <<exit, processes, children, stopState, limits, signals, history>>

Undone ==
  /\ Running /\ start.pc = "undo" /\ Ended("start")
  /\ EndStart
  /\ UNCHANGED <<exit, processes, children, stopState, limits, signals, history>>

---------------------------------------------------------------------------
(* prepareStop() and confirmStop()                                         *)

\* Mutant: a stop by force needs no stop before it.
TargetAtOnce(s, force) ==
  IF ~force /\ owned[s] # None THEN {<<s, owned[s]>>}
  ELSE {<<s, p>> : p \in Listener(s)}

\* What a stop of s would end: the child held for s, or the server found at
\* the port; by force, what outlived an earlier stop.  What cannot be
\* inspected, and a child found at the port that is not held, is blocked or
\* external as it was found.
Target(s, force) ==
  IF force THEN {<<s, x>> : x \in {y \in survivors[s] : Alive(y)}}
  ELSE IF owned[s] # None THEN {<<s, owned[s]>>}
  ELSE {<<s, p>> : p \in Listener(s)}

\* A plan with nothing to stop is refused when it is confirmed; it is not followed.
PrepareStop ==
  /\ Running /\ ~Acting /\ stops < MaxStops
  /\ stops' = stops + 1
  /\ \E ids \in SUBSET Service \ {{}}, force \in BOOLEAN :
       LET targets == UNION {Target(s, force) : s \in ids} IN
       /\ targets # {}
       /\ offered' = offered \cup {[targets |-> targets, force |-> force]}
  /\ UNCHANGED <<stopping, stop, awaited, survivors, exit, faults, processes, children,
                 starting, signals, history>>

ConfirmStop ==
  /\ Running /\ ~Acting /\ stop # "queued"
  /\ \E plan \in offered :
       /\ stopping' = [pc |-> "validate", targets |-> plan.targets, force |-> plan.force]
       /\ confirmed' = confirmed \cup {t[2] : t \in plan.targets}
  /\ offered' = {}
  /\ UNCHANGED <<stop, awaited, survivors, exit, kept, doubled, processes, children, starting,
                 limits, signals>>

\* What a target is now: the child still held, what survives of it, or the server at the port.
Current(t, force) ==
  IF force THEN IF Alive(t[2]) THEN {t} ELSE {}
  ELSE IF t[2] \in Child /\ owned[t[1]] = t[2] THEN {t}
  ELSE {<<t[1], p>> : p \in Listener(t[1])}

\* Mutant: whoever is there now is taken for the one confirmed.
ValidateAnyone ==
  /\ Running /\ stopping.pc = "validate"
  /\ stopping' = [stopping EXCEPT !.pc = "signal",
                    !.targets = UNION {Current(t, stopping.force) : t \in stopping.targets}]
  /\ UNCHANGED <<offered, stop, awaited, survivors, exit, processes, children, starting, limits,
                 signals, history>>

\* Every target is the one confirmed, or no signal is sent.
Validate ==
  /\ Running /\ stopping.pc = "validate"
  /\ stopping' = IF \A t \in stopping.targets : Current(t, stopping.force) = {t}
                 THEN [stopping EXCEPT !.pc = "signal"] ELSE Idle
  /\ UNCHANGED <<offered, stop, awaited, survivors, exit, processes, children, starting, limits,
                 signals, history>>

\* A child that is held is terminated; of another process, what is still the same is signalled.
SignalTargets ==
  /\ Running /\ stopping.pc = "signal"
  /\ LET held == {t \in stopping.targets : ~stopping.force /\ owned[t[1]] = t[2]}
         there == {t[2] : t \in stopping.targets \ held}
         ours == {t[2] : t \in held}
         ids == {t[1] : t \in held} IN
     /\ expected' = expected \cup ids
     /\ awaited' = [awaited EXCEPT !["stopping"] = ours]
     /\ signalled' = signalled \cup {p \in ours : Alive(p)}
                       \cup (IF stopping.force THEN {} ELSE {p \in there : Alive(p)})
     /\ killed' = killed \cup (IF stopping.force THEN {p \in there : Alive(p)} ELSE {})
  /\ stopping' = [stopping EXCEPT !.pc = "wait"]
  /\ UNCHANGED <<owned, offered, stop, survivors, exit, processes, starting, limits, history>>

\* The children have closed; of the others, each is gone or its time is over.
FinishStop ==
  /\ Running /\ stopping.pc = "wait" /\ Ended("stopping")
  /\ LET others == {t \in stopping.targets : t[2] \notin awaited["stopping"]} IN
     survivors' = [s \in Service |->
       IF \E t \in others : t[1] = s THEN {t[2] : t \in {u \in others : u[1] = s /\ Alive(u[2])}}
       ELSE survivors[s]]
  /\ stopping' = Idle /\ awaited' = [awaited EXCEPT !["stopping"] = {}]
  /\ UNCHANGED <<offered, stop, exit, processes, children, starting, limits, signals, history>>

---------------------------------------------------------------------------
(* stop() and the end of the manager (main.ts)                             *)

BeginStop == stop' = "queued" /\ offered' = {} /\ aborted' = (start.pc # "idle")

Stop ==
  /\ Running /\ stop = "idle" /\ stops < MaxStops
  /\ stops' = stops + 1 /\ BeginStop
  /\ UNCHANGED <<errors, start, probed, late, stopping, awaited, survivors, exit, faults,
                 processes, children, signals, history>>

\* performStop() lets the operation under way end first.
PerformStop ==
  /\ Running /\ stop = "queued" /\ ~InOperation
  /\ stop' = "wait" /\ Terminate("stop", Service)
  /\ UNCHANGED <<owned, offered, stopping, survivors, exit, killed, processes, starting, limits,
                 history>>

EndOfChildren ==
  /\ Running /\ stop = "wait" /\ Ended("stop")
  /\ stop' = "refresh" /\ awaited' = [awaited EXCEPT !["stop"] = {}]
  /\ UNCHANGED <<offered, stopping, survivors, exit, processes, children, starting, limits,
                 signals, history>>

EndStop ==
  /\ Running /\ stop = "refresh"
  /\ stop' = "idle"
  /\ exit' = IF exit = "asked" THEN "gone" ELSE exit
  /\ UNCHANGED <<offered, stopping, awaited, survivors, processes, children, starting, limits,
                 signals, history>>

\* Quitting stops the servers, or joins the stop that is under way.
Quit ==
  /\ exit = "no" /\ exit' = "asked"
  /\ IF stop = "idle" THEN BeginStop ELSE UNCHANGED <<stop, offered, aborted>>
  /\ UNCHANGED <<errors, start, probed, late, stopping, awaited, survivors, processes, children,
                 limits, signals, history>>

---------------------------------------------------------------------------
StartStep == Probe \/ Spawn \/ Wait \/ Sample \/ Undone
StopStep == Validate \/ SignalTargets \/ FinishStop \/ PerformStop \/ EndOfChildren \/ EndStop

Next ==
  \/ Start \/ StartStep \/ Expire
  \/ PrepareStop \/ ConfirmStop \/ Stop \/ Quit \/ StopStep
  \/ \E p \in Process : Listen(p) \/ FailToListen(p) \/ Misbehave(p) \/ EndBySignal(p)
  \/ \E c \in Child : Close(c)
  \/ \E x \in External : StartElsewhere(x)

\* The controller's loops go on, a start's minute ends, a child obeys SIGTERM
\* in the end, and its end is told.
Fairness ==
  /\ WF_vars(StartStep) /\ WF_vars(StopStep) /\ WF_vars(Expire)
  /\ \A c \in Child : WF_vars(EndBySignal(c)) /\ WF_vars(Close(c))

Spec == Init /\ [][Next]_vars /\ Fairness

---------------------------------------------------------------------------
(* When the manager has gone, no child of it lives on (README: closing the *)
(* manager stops what it started), whatever was under way when it was      *)
(* asked to quit.  The exception is a service that was started while a     *)
(* child of it was still held, see LeavesNoChild below.                    *)
NothingLeftBehind ==
  exit = "gone" => \A c \in Child : Alive(c) => c[1] \in doubled

(* Not kept by the code, see the README: without the exception.  The quit  *)
(* of the manager is to stop every server started here.                    *)
LeavesNoChild == exit = "gone" => \A c \in Child : ~Alive(c)

(* A start that did not succeed leaves none of its children behind: they   *)
(* are terminated and awaited before it is over.                           *)
StartIsUndone ==
  start.pc = "idle" => \A c \in Child : Alive(c) => c \in kept \/ c[1] \in doubled

(* Children are followed to their end by every start and by the exit.      *)
ChildrenAreFollowed == NothingLeftBehind /\ StartIsUndone

(* A process that is not a child is signalled only if it is the one whose  *)
(* stop was confirmed.  Whatever is killed was in a stop that the user     *)
(* confirmed and had been sent a SIGTERM before; that may be a child which *)
(* the manager no longer holds and has found at its port.                  *)
OnlyConfirmed ==
  /\ signalled \cap External \subseteq confirmed
  /\ killed \subseteq signalled \cap confirmed

(* Every operation ends: a start succeeds, fails or is undone, a confirmed *)
(* stop and a stop come to their end, and a manager that is asked to quit  *)
(* goes.                                                                   *)
OperationsEnd ==
  /\ start.pc # "idle" ~> start.pc = "idle" \/ exit = "gone"
  /\ stopping.pc # "idle" ~> stopping.pc = "idle" \/ exit = "gone"
  /\ exit = "asked" ~> exit = "gone"
=============================================================================
