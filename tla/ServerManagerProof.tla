------------------------ MODULE ServerManagerProof ------------------------
(***************************************************************************)
(* Proofs about ServerManager, for every set of services and of foreign    *)
(* servers, and every number of spawns, faults and stops.                  *)
(*                                                                         *)
(*   TypeOK      the variables keep their types, and a child that was not  *)
(*               spawned has no state;                                     *)
(*   HeldInv     a child that has not closed is the one held for its       *)
(*               service, unless the service was started over a held one;  *)
(*   StartInv    a child nobody kept belongs to the start under way, which *)
(*               awaits it once it has failed;                             *)
(*   StopInv     while stop() waits nothing starts, and it awaits every    *)
(*               child that is left;                                       *)
(*   OwnedInv    a child that is held was spawned;                         *)
(*   TargetInv   what a stop may signal was confirmed, and what it may     *)
(*               kill was signalled before.                                *)
(***************************************************************************)
EXTENDS ServerManager, TLAPS

USE DEF processes, children, starting, stopState, control, limits, signals, history

-----------------------------------------------------------------------------
(* The inductive invariant *)

Targets == SUBSET (Service \X Process)

TypeOK ==
  /\ proc \in [Process -> {"none", "deaf", "up", "sick", "dead", "closed"}]
  /\ owned \in [Service -> Child \cup {None}]
  /\ \A s \in Service : owned[s] # None => owned[s][1] = s
  /\ start \in [pc : {"idle", "probe", "spawn", "wait", "sample", "undo"}, staged : SUBSET Service]
  /\ probed \subseteq Service
  /\ spawns \in [Service -> 0..MaxSpawns]
  /\ start.pc \in {"probe", "spawn"} => \A s \in Service : spawns[s] < MaxSpawns
  /\ \A c \in Child : c[2] > spawns[c[1]] => proc[c] = "none"
  /\ offered \subseteq [targets : Targets, force : BOOLEAN]
  /\ stopping \in [pc : {"idle", "validate", "signal", "wait"}, targets : Targets, force : BOOLEAN]
  /\ stop \in {"idle", "queued", "wait", "refresh"}
  /\ awaited \in [Operation -> SUBSET Process]
  /\ survivors \in [Service -> SUBSET Process]
  /\ exit \in {"no", "asked", "gone"}

\* A child that has been spawned and whose end has not been told.
Unclosed(c) == proc[c] \notin {"none", "closed"}

HeldInv ==
  \A c \in Child : Unclosed(c) /\ c[1] \notin doubled => owned[c[1]] = c

StartInv ==
  \A c \in Child : Unclosed(c) /\ c[1] \notin doubled /\ c \notin kept =>
    /\ start.pc \in {"wait", "sample", "undo"} /\ c[1] \in start.staged
    /\ start.pc = "undo" => c \in awaited["start"]

StopInv ==
  /\ stop \in {"wait", "refresh"} => start.pc = "idle"
  /\ stop = "wait" =>
       \A c \in Child : Unclosed(c) /\ c[1] \notin doubled => c \in awaited["stop"]
  /\ stop = "refresh" \/ exit = "gone" =>
       \A c \in Child : ~(Unclosed(c) /\ c[1] \notin doubled)

OwnedInv == \A s \in Service : owned[s] # None => proc[owned[s]] # "none"

TargetInv ==
  /\ \A t \in stopping.targets :
       /\ t[2] \in confirmed /\ proc[t[2]] # "none"
       /\ stopping.force => t[2] \in signalled
       /\ stopping.pc = "wait" /\ t[2] \notin awaited["stopping"] /\ Alive(t[2])
            => t[2] \in signalled
  /\ \A plan \in offered : \A t \in plan.targets :
       proc[t[2]] # "none" /\ (plan.force => t[2] \in signalled)
  /\ \A s \in Service : survivors[s] \subseteq signalled
  /\ \A s \in Service : \A p \in survivors[s] : proc[p] # "none"

ServerInv ==
  TypeOK /\ HeldInv /\ StartInv /\ StopInv /\ OwnedInv /\ TargetInv /\ OnlyConfirmed

-----------------------------------------------------------------------------
(* Processes and children *)

LEMMA Children ==
  /\ \A c \in Child : c[1] \in Service /\ c[2] \in 1..MaxSpawns /\ c = <<c[1], c[2]>>
  /\ \A s \in Service, k \in 1..MaxSpawns : <<s, k>> \in Child /\ <<s, k>>[1] = s /\ <<s, k>>[2] = k
  /\ Child \subseteq Process /\ External \subseteq Process
  /\ \A c \in Child : c \notin External /\ c # None
  /\ MaxSpawns \in Nat
BY ServerAssumption DEF Child, Process

\* A child the controller holds is a child of the service, and no foreign process.
LEMMA OwnedAreChildren ==
  ASSUME TypeOK, NEW ids \in SUBSET Service
  PROVE  /\ OwnedOf(ids) \subseteq Child
         /\ OwnedOf(ids) \cap External = {}
         /\ \A c \in OwnedOf(ids) : c[1] \in ids /\ owned[c[1]] = c
         /\ \A s \in ids : owned[s] # None => owned[s] \in OwnedOf(ids)
BY Children DEF OwnedOf, TypeOK

\* The steps of the processes: no process begins or closes, and whoever is alive
\* was alive; a foreign server may start.
Lives ==
  \/ /\ \A p \in Process : /\ proc'[p] = "none" <=> proc[p] = "none"
                           /\ proc'[p] = "closed" <=> proc[p] = "closed"
                           /\ Alive(p)' => Alive(p)
     /\ proc' \in [Process -> {"none", "deaf", "up", "sick", "dead", "closed"}]
     /\ UNCHANGED <<spawns, control, signals, history>>
  \/ \E x \in External : StartElsewhere(x)

LEMMA ProcessSteps ==
  ASSUME TypeOK, NEW p \in Process,
         \/ Listen(p) \/ FailToListen(p) \/ Misbehave(p) \/ EndBySignal(p)
         \/ p \in External /\ StartElsewhere(p)
  PROVE  Lives
<1>1. CASE Listen(p)
  BY <1>1 DEF Listen, Lives, Alive, TypeOK
<1>2. CASE FailToListen(p)
  BY <1>2 DEF FailToListen, Lives, Alive, TypeOK
<1>3. CASE Misbehave(p)
  <2>1. PICK state \in {"dead", "sick", "deaf"} : proc' = [proc EXCEPT ![p] = state]
    BY <1>3 DEF Misbehave
  <2> QED  BY <1>3, <2>1 DEF Misbehave, Lives, Alive, TypeOK
<1>4. CASE EndBySignal(p)
  BY <1>4 DEF EndBySignal, Lives, Alive, TypeOK
<1> QED  BY <1>1, <1>2, <1>3, <1>4 DEF Lives

LEMMA TerminateDoes ==
  ASSUME TypeOK, NEW op \in Operation, NEW ids \in SUBSET Service, Terminate(op, ids)
  PROVE  /\ awaited' \in [Operation -> SUBSET Process]
         /\ awaited'[op] = OwnedOf(ids)
         /\ \A o \in Operation : o # op => awaited'[o] = awaited[o]
         /\ signalled \subseteq signalled'
         /\ signalled' \cap External = signalled \cap External
BY Children, OwnedAreChildren DEF Terminate, TypeOK

LEMMA FailDoes ==
  ASSUME TypeOK, Fail
  PROVE  /\ start' = [pc |-> "undo", staged |-> start.staged]
         /\ awaited' \in [Operation -> SUBSET Process]
         /\ awaited'["start"] = OwnedOf(start.staged)
         /\ \A o \in Operation : o # "start" => awaited'[o] = awaited[o]
         /\ signalled \subseteq signalled'
         /\ signalled' \cap External = signalled \cap External
<1>1. start.staged \in SUBSET Service /\ "start" \in Operation
  BY DEF TypeOK, Operation
<1>2. Terminate("start", start.staged) /\ start' = [start EXCEPT !.pc = "undo"]
  BY DEF Fail
<1>3. start' = [pc |-> "undo", staged |-> start.staged]
  BY <1>2 DEF TypeOK
<1> QED  BY <1>1, <1>2, <1>3, TerminateDoes

LEMMA EndStartDoes ==
  ASSUME TypeOK, EndStart
  PROVE  /\ start' = [pc |-> "idle", staged |-> {}]
         /\ probed' = {}
         /\ awaited' \in [Operation -> SUBSET Process]
         /\ \A o \in Operation : o # "start" => awaited'[o] = awaited[o]
BY DEF EndStart, TypeOK, Operation

\* What a spawn does: one new child for each service that is missing.
LEMMA SpawnDoes ==
  ASSUME TypeOK, Spawn, ~aborted
  PROVE  LET missing == Service \ probed IN
         /\ start' = [pc |-> "wait", staged |-> missing]
         /\ \A s \in Service : spawns'[s] = IF s \in missing THEN spawns[s] + 1 ELSE spawns[s]
         /\ \A s \in missing : /\ owned'[s] = <<s, spawns[s] + 1>>
                               /\ owned[s] # None => s \in doubled'
         /\ \A s \in Service \ missing : owned'[s] = owned[s]
         /\ \A c \in Child : IF c[1] \in missing /\ c[2] = spawns[c[1]] + 1
                             THEN proc[c] = "none" /\ proc'[c] = "deaf"
                             ELSE proc'[c] = proc[c]
         /\ \A x \in External : proc'[x] = proc[x]
         /\ doubled \subseteq doubled'
         /\ UNCHANGED <<awaited, signalled, kept, confirmed, killed, exit, stopState, probed>>
<1> DEFINE missing == Service \ probed
<1> USE Children
<1>1. /\ spawns' = [s \in Service |-> IF s \in missing THEN spawns[s] + 1 ELSE spawns[s]]
      /\ proc' = [p \in Process |-> IF p \in {<<s, spawns'[s]>> : s \in missing}
                                    THEN "deaf" ELSE proc[p]]
      /\ owned' = [s \in Service |-> IF s \in missing THEN <<s, spawns'[s]>> ELSE owned[s]]
      /\ doubled' = doubled \cup {s \in missing : owned[s] # None}
      /\ start' = [pc |-> "wait", staged |-> missing]
      /\ UNCHANGED <<awaited, signalled, kept, confirmed, killed, exit, stopState, probed>>
  BY DEF Spawn
<1>2. \A s \in Service : spawns[s] \in 0..MaxSpawns /\ spawns[s] < MaxSpawns
  BY DEF Spawn, TypeOK
<1>3. \A s \in missing : /\ spawns'[s] = spawns[s] + 1
                         /\ <<s, spawns[s] + 1>> \in Child
                         /\ proc[<<s, spawns[s] + 1>>] = "none"
  BY <1>1, <1>2 DEF TypeOK
<1>4. ASSUME NEW c \in Child
      PROVE  c \in {<<s, spawns'[s]>> : s \in missing}
               <=> c[1] \in missing /\ c[2] = spawns[c[1]] + 1
  <2>1. ASSUME NEW s \in missing, c = <<s, spawns'[s]>>
        PROVE  c[1] \in missing /\ c[2] = spawns[c[1]] + 1
    BY <1>3, <2>1
  <2>2. ASSUME c[1] \in missing, c[2] = spawns[c[1]] + 1
        PROVE  \E s \in missing : c = <<s, spawns'[s]>>
    <3>1. c = <<c[1], c[2]>> /\ c[2] = spawns'[c[1]]
      BY <1>3, <2>2
    <3> QED  BY <2>2, <3>1
  <2> QED  BY <2>1, <2>2
<1>5. ASSUME NEW x \in External
      PROVE  x \notin {<<s, spawns'[s]>> : s \in missing}
  BY <1>3
<1>6. \A c \in Child : IF c[1] \in missing /\ c[2] = spawns[c[1]] + 1
                       THEN proc[c] = "none" /\ proc'[c] = "deaf"
                       ELSE proc'[c] = proc[c]
  BY <1>1, <1>3, <1>4
<1>7. \A x \in External : proc'[x] = proc[x]
  BY <1>1, <1>5
<1>8. /\ \A s \in missing : /\ owned'[s] = <<s, spawns[s] + 1>>
                            /\ owned[s] # None => s \in doubled'
      /\ \A s \in Service \ missing : owned'[s] = owned[s]
  BY <1>1, <1>3
<1> QED  BY <1>1, <1>6, <1>7, <1>8

-----------------------------------------------------------------------------
(* Types *)

LEMMA TypeInit == Init => TypeOK
BY Children DEF Init, TypeOK, Idle, Targets, Operation

LEMMA StartTypes ==
  ASSUME TypeOK, Start \/ StartStep \/ Expire
  PROVE  TypeOK'
<1>1. CASE Start
  BY <1>1 DEF Start, TypeOK
<1>2. CASE Probe
  <2>1. CASE Fail
    BY <1>2, <2>1, FailDoes DEF Probe, TypeOK
  <2>2. CASE start' = [start EXCEPT !.pc = "spawn"]
    BY <1>2, <2>2 DEF Probe, TypeOK, Fail
  <2> QED  BY <1>2, <2>1, <2>2 DEF Probe
<1>3. CASE Spawn
  <2>1. CASE aborted
    <3>1. Fail /\ UNCHANGED <<owned, processes, probed, exit, stopState>>
      BY <1>3, <2>1 DEF Spawn
    <3> QED  BY <3>1, FailDoes DEF TypeOK
  <2>2. CASE ~aborted
    <3>1. spawns' \in [Service -> 0..MaxSpawns]
      <4>1. \A s \in Service : spawns[s] \in 0..MaxSpawns /\ spawns[s] < MaxSpawns
        BY <1>3 DEF Spawn, TypeOK
      <4>2. spawns' = [s \in Service |-> IF s \in Service \ probed THEN spawns[s] + 1 ELSE spawns[s]]
        BY <1>3, <2>2 DEF Spawn
      <4> QED  BY <4>1, <4>2, Children
    <3>2. proc' \in [Process -> {"none", "deaf", "up", "sick", "dead", "closed"}]
      BY <1>3, <2>2 DEF Spawn, TypeOK
    <3>3. /\ owned' \in [Service -> Child \cup {None}]
          /\ \A s \in Service : owned'[s] # None => owned'[s][1] = s
      <4>1. DOMAIN owned' = Service /\ owned' = [s \in Service |-> owned'[s]]
        BY <1>3, <2>2 DEF Spawn
      <4>2. \A s \in Service : spawns[s] + 1 \in 1..MaxSpawns
        BY <1>3, Children DEF Spawn, TypeOK
      <4>3. \A s \in Service : /\ owned'[s] \in Child \cup {None}
                               /\ owned'[s] # None => owned'[s][1] = s
        <5>1. \A s \in Service \ probed : owned'[s] = <<s, spawns[s] + 1>>
          BY <1>3, <2>2, SpawnDoes
        <5>2. \A s \in Service : s \in probed => owned'[s] = owned[s]
          BY <1>3, <2>2, SpawnDoes
        <5>3. \A s \in Service : /\ <<s, spawns[s] + 1>> \in Child
                                 /\ <<s, spawns[s] + 1>>[1] = s
          BY <4>2, Children
        <5>4. ASSUME NEW s \in Service, s \in probed
              PROVE  owned'[s] \in Child \cup {None} /\ (owned'[s] # None => owned'[s][1] = s)
          BY <5>2, <5>4 DEF TypeOK
        <5>5. ASSUME NEW s \in Service, s \notin probed
              PROVE  owned'[s] \in Child \cup {None} /\ (owned'[s] # None => owned'[s][1] = s)
          <6>1. owned'[s] = <<s, spawns[s] + 1>>
            BY <5>1, <5>5
          <6> QED  BY <5>3, <6>1
        <5> QED  BY <5>4, <5>5
      <4> QED  BY <4>1, <4>3
    <3>4. \A c \in Child : c[2] > spawns'[c[1]] => proc'[c] = "none"
      BY <1>3, <2>2, SpawnDoes, Children DEF TypeOK
    <3>5. start' = [pc |-> "wait", staged |-> Service \ probed]
          /\ UNCHANGED <<awaited, exit, stopState, probed>>
      BY <1>3, <2>2, SpawnDoes
    <3> QED  BY <3>1, <3>2, <3>3, <3>4, <3>5 DEF TypeOK
  <2> QED  BY <2>1, <2>2
<1>4. CASE Wait
  <2>1. CASE Fail
    BY <1>4, <2>1, FailDoes DEF Wait, TypeOK
  <2>2. CASE ~Fail
    BY <1>4, <2>2 DEF Wait, TypeOK
  <2> QED  BY <2>1, <2>2
<1>5. CASE Sample
  <2>1. CASE Fail
    BY <1>5, <2>1, FailDoes DEF Sample, TypeOK, EndStart
  <2>2. CASE EndStart
    BY <1>5, <2>2, EndStartDoes DEF Sample, TypeOK, Fail
  <2>3. CASE ~Fail /\ ~EndStart
    BY <1>5, <2>3 DEF Sample, TypeOK
  <2> QED  BY <2>1, <2>2, <2>3
<1>6. CASE Undone
  BY <1>6, EndStartDoes DEF Undone, TypeOK
<1>7. CASE Expire
  BY <1>7 DEF Expire, TypeOK
<1> QED  BY <1>1, <1>2, <1>3, <1>4, <1>5, <1>6, <1>7 DEF StartStep

LEMMA TargetTypes ==
  ASSUME TypeOK, NEW s \in Service, NEW force \in BOOLEAN
  PROVE  Target(s, force) \in Targets
BY Children DEF Target, Targets, Listener, TypeOK

LEMMA StopTypes ==
  ASSUME TypeOK, PrepareStop \/ ConfirmStop \/ Stop \/ Quit \/ StopStep
  PROVE  TypeOK'
<1>1. CASE PrepareStop
  <2>1. PICK ids \in SUBSET Service, force \in BOOLEAN :
          offered' = offered \cup
            {[targets |-> UNION {Target(s, force) : s \in ids}, force |-> force]}
    BY <1>1 DEF PrepareStop
  <2>2. UNION {Target(s, force) : s \in ids} \in Targets
    BY TargetTypes DEF Targets
  <2>3. [targets |-> UNION {Target(s, force) : s \in ids}, force |-> force]
          \in [targets : Targets, force : BOOLEAN]
    BY <2>2
  <2>4. offered' \subseteq [targets : Targets, force : BOOLEAN]
    BY <2>1, <2>3 DEF TypeOK
  <2> QED  BY <1>1, <2>4 DEF PrepareStop, TypeOK
<1>2. CASE ConfirmStop
  BY <1>2 DEF ConfirmStop, TypeOK
<1>3. CASE Stop \/ Quit
  BY <1>3 DEF Stop, Quit, BeginStop, TypeOK
<1>4. CASE Validate
  BY <1>4 DEF Validate, Idle, Targets, TypeOK
<1>5. CASE SignalTargets
  <2>1. {t[2] : t \in {u \in stopping.targets : ~stopping.force /\ owned[u[1]] = u[2]}}
          \subseteq Process
    BY DEF TypeOK, Targets
  <2>2. awaited' \in [Operation -> SUBSET Process]
    BY <1>5, <2>1 DEF SignalTargets, TypeOK
  <2> QED  BY <1>5, <2>2 DEF SignalTargets, TypeOK
<1>6. CASE FinishStop
  <2>1. survivors' \in [Service -> SUBSET Process]
    BY <1>6 DEF FinishStop, TypeOK, Targets
  <2>2. awaited' \in [Operation -> SUBSET Process] /\ stopping' = Idle
    BY <1>6 DEF FinishStop, TypeOK
  <2> QED  BY <1>6, <2>1, <2>2 DEF FinishStop, TypeOK, Idle, Targets
<1>7. CASE PerformStop
  <2>1. awaited' \in [Operation -> SUBSET Process]
    BY <1>7, TerminateDoes DEF PerformStop, Operation
  <2> QED  BY <1>7, <2>1 DEF PerformStop, TypeOK
<1>8. CASE EndOfChildren
  BY <1>8 DEF EndOfChildren, TypeOK
<1>9. CASE EndStop
  BY <1>9 DEF EndStop, TypeOK
<1> QED  BY <1>1, <1>2, <1>3, <1>4, <1>5, <1>6, <1>7, <1>8, <1>9 DEF StopStep

LEMMA TypeNext ==
  ASSUME TypeOK, [Next]_vars
  PROVE  TypeOK'
<1> USE Children
<1>1. CASE Lives
  <2>1. CASE \E x \in External : StartElsewhere(x)
    BY <2>1 DEF StartElsewhere, TypeOK
  <2>2. CASE ~\E x \in External : StartElsewhere(x)
    BY <1>1, <2>2 DEF Lives, TypeOK
  <2> QED  BY <2>1, <2>2
<1>2. ASSUME NEW c \in Child, Close(c)
      PROVE  TypeOK'
  <2>1. /\ proc' = [proc EXCEPT ![c] = "closed"] /\ proc[c] = "dead"
        /\ owned' = [owned EXCEPT ![c[1]] = None]
        /\ UNCHANGED <<start, probed, awaited, exit, spawns, stopState>>
    BY <1>2 DEF Close
  <2>2. \A x \in Child : x[2] > spawns[x[1]] => proc'[x] = "none"
    BY <2>1 DEF TypeOK
  <2> QED  BY <2>1, <2>2 DEF TypeOK
<1>3. CASE UNCHANGED vars
  BY <1>3 DEF vars, TypeOK
<1> QED  BY <1>1, <1>2, <1>3, ProcessSteps, StartTypes, StopTypes DEF Next

-----------------------------------------------------------------------------
(* Every step, as far as the children are concerned *)

\* No child begins or closes, nothing is held anew, and the histories stay.
Quiet ==
  /\ \A c \in Child : Unclosed(c)' => Unclosed(c)
  /\ UNCHANGED <<owned, doubled, kept>>

LEMMA QuietSteps ==
  ASSUME TypeOK, [Next]_vars
  PROVE  \/ Quiet
         \/ Spawn /\ ~aborted
         \/ Sample
         \/ \E c \in Child : Close(c)
<1>1. CASE Lives
  BY <1>1, Children DEF Lives, StartElsewhere, Quiet, Unclosed, TypeOK
<1>2. CASE Start \/ Probe \/ (Spawn /\ aborted) \/ Wait \/ Undone \/ Expire
  BY <1>2 DEF Start, Probe, Spawn, Wait, Undone, Expire, Quiet, Unclosed
<1>3. CASE PrepareStop \/ ConfirmStop \/ Stop \/ Quit \/ StopStep
  BY <1>3 DEF PrepareStop, ConfirmStop, Stop, Quit, StopStep, Validate, SignalTargets,
     FinishStop, PerformStop, EndOfChildren, EndStop, Quiet, Unclosed
<1>4. CASE UNCHANGED vars
  BY <1>4 DEF vars, Quiet, Unclosed
<1> QED  BY <1>1, <1>2, <1>3, <1>4, ProcessSteps, Children DEF Next, StartStep

LEMMA CloseDoes ==
  ASSUME TypeOK, HeldInv, NEW c \in Child, Close(c)
  PROVE  /\ \A d \in Child : Unclosed(d)' => Unclosed(d) /\ d # c
         /\ \A d \in Child : Unclosed(d)' /\ d[1] \notin doubled => owned'[d[1]] = d
         /\ UNCHANGED <<doubled, kept, start, stop, exit, awaited>>
<1>1. /\ Unclosed(c) /\ proc' = [proc EXCEPT ![c] = "closed"]
      /\ owned' = [owned EXCEPT ![c[1]] = None]
      /\ UNCHANGED <<doubled, kept, start, stop, exit, awaited>>
  BY DEF Close, Unclosed
<1>2. \A d \in Child : Unclosed(d)' => Unclosed(d) /\ d # c
  BY <1>1, Children DEF Unclosed, TypeOK
<1>3. ASSUME NEW d \in Child, Unclosed(d)', d[1] \notin doubled
      PROVE  owned'[d[1]] = d
  <2>1. d[1] # c[1]
    BY <1>1, <1>2, <1>3 DEF HeldInv
  <2> QED  BY <1>1, <1>2, <1>3, <2>1, Children DEF HeldInv, TypeOK
<1> QED  BY <1>1, <1>2, <1>3

\* After a spawn a child that has not closed is an earlier one of a service that
\* was not missing, or the new one, or its service is doubled.
LEMMA SpawnHolds ==
  ASSUME TypeOK, HeldInv, Spawn, ~aborted,
         NEW c \in Child, Unclosed(c)', c[1] \notin doubled'
  PROVE  /\ owned'[c[1]] = c
         /\ c[1] \in probed => Unclosed(c)
<1> USE Children
<1>1. c[1] \notin doubled /\ c[1] \in Service
  BY SpawnDoes
<1>2. CASE c[1] \in probed
  <2>1. proc'[c] = proc[c] /\ owned'[c[1]] = owned[c[1]]
    BY <1>1, <1>2, SpawnDoes
  <2> QED  BY <1>1, <2>1 DEF HeldInv, Unclosed
<1>3. CASE c[1] \notin probed
  <2>1. owned[c[1]] = None /\ owned'[c[1]] = <<c[1], spawns[c[1]] + 1>>
    BY <1>1, <1>3, SpawnDoes
  <2>2. ~Unclosed(c)
    BY <1>1, <2>1 DEF HeldInv
  <2>3. c[2] = spawns[c[1]] + 1
    BY <1>1, <1>3, <2>2, SpawnDoes DEF Unclosed
  <2> QED  BY <1>3, <2>1, <2>3
<1> QED  BY <1>2, <1>3

-----------------------------------------------------------------------------
(* The held child, the start and the stop *)

LEMMA HeldNext ==
  ASSUME TypeOK, HeldInv, [Next]_vars
  PROVE  HeldInv'
<1>1. CASE Quiet
  BY <1>1 DEF Quiet, HeldInv
<1>2. CASE Spawn /\ ~aborted
  BY <1>2, SpawnHolds DEF HeldInv
<1>3. CASE Sample
  BY <1>3 DEF Sample, HeldInv, Unclosed
<1>4. ASSUME NEW c \in Child, Close(c)
      PROVE  HeldInv'
  BY <1>4, CloseDoes DEF HeldInv
<1> QED  BY <1>1, <1>2, <1>3, <1>4, QuietSteps

LEMMA StartNext ==
  ASSUME TypeOK, HeldInv, StartInv, [Next]_vars
  PROVE  StartInv'
<1> SUFFICES ASSUME NEW c \in Child, Unclosed(c)', c[1] \notin doubled', c \notin kept'
             PROVE  /\ start'.pc \in {"wait", "sample", "undo"} /\ c[1] \in start'.staged
                    /\ start'.pc = "undo" => c \in awaited'["start"]
  BY DEF StartInv
<1> USE Children
<1>a. ASSUME Unclosed(c), c[1] \notin doubled, c \notin kept
      PROVE  /\ start.pc \in {"wait", "sample", "undo"} /\ c[1] \in start.staged
             /\ start.pc = "undo" => c \in awaited["start"]
             /\ owned[c[1]] = c
  BY <1>a DEF StartInv, HeldInv
<1>b. ASSUME Unclosed(c), c[1] \notin doubled, c \notin kept, Fail
      PROVE  start'.pc = "undo" /\ c[1] \in start'.staged /\ c \in awaited'["start"]
  <2>1. c \in OwnedOf(start.staged)
    BY <1>a, <1>b DEF OwnedOf
  <2> QED  BY <1>a, <1>b, <2>1, FailDoes
<1>c. CASE Spawn /\ ~aborted
  <2>1. owned'[c[1]] = c /\ (c[1] \in probed => Unclosed(c))
    BY <1>c, SpawnHolds
  <2>2. c[1] \notin doubled /\ c \notin kept /\ start.pc = "spawn"
        /\ start' = [pc |-> "wait", staged |-> Service \ probed]
    BY <1>c, SpawnDoes DEF Spawn
  <2>3. c[1] \notin probed
    BY <1>a, <2>1, <2>2
  <2> QED  BY <2>2, <2>3
<1>d. CASE ~(Spawn /\ ~aborted)
  <2>0. Unclosed(c) /\ c[1] \notin doubled /\ c \notin kept
    <3>1. Quiet \/ Sample \/ \E d \in Child : Close(d)
      BY <1>d, QuietSteps
    <3>2. Sample => UNCHANGED <<proc, doubled>> /\ kept \subseteq kept'
      BY DEF Sample
    <3> QED  BY <3>1, <3>2, CloseDoes DEF Quiet, Unclosed
  <2>1. ASSUME UNCHANGED <<start, awaited>>
        PROVE  /\ start'.pc \in {"wait", "sample", "undo"} /\ c[1] \in start'.staged
               /\ start'.pc = "undo" => c \in awaited'["start"]
    BY <1>a, <2>0, <2>1
  <2>2. CASE Lives
    BY <2>1, <2>2 DEF Lives, StartElsewhere
  <2>3. CASE Start
    BY <1>a, <2>0, <2>3 DEF Start, InOperation
  <2>4. CASE Fail
    BY <1>b, <2>0, <2>4
  <2>5. CASE Probe \/ Spawn
    BY <1>a, <1>d, <2>0, <2>4, <2>5 DEF Probe, Spawn
  <2>6. CASE Wait
    <3>1. CASE start' = [start EXCEPT !.pc = "sample"]
      BY <1>a, <2>0, <2>6, <3>1 DEF Wait, TypeOK
    <3> QED  BY <2>4, <2>6, <3>1 DEF Wait
  <2>7. CASE Sample
    <3>1. CASE start' = [start EXCEPT !.pc = "wait"]
      BY <1>a, <2>0, <2>7, <3>1 DEF Sample, TypeOK
    <3>2. CASE kept' = kept \cup OwnedOf(start.staged)
      BY <1>a, <2>0, <3>2 DEF OwnedOf
    <3> QED  BY <2>4, <2>7, <3>1, <3>2 DEF Sample
  <2>8. CASE Undone
    BY <1>a, <2>0, <2>8 DEF Undone, Ended, Unclosed
  <2>9. CASE Expire \/ PrepareStop \/ ConfirmStop \/ Stop \/ Quit \/ Validate \/ UNCHANGED vars
    BY <2>1, <2>9 DEF Expire, PrepareStop, ConfirmStop, Stop, Quit, Validate, vars
  <2>10. CASE SignalTargets \/ FinishStop \/ PerformStop \/ EndOfChildren \/ EndStop
    <3>1. UNCHANGED start
      BY <2>10 DEF SignalTargets, FinishStop, PerformStop, EndOfChildren, EndStop
    <3>2. awaited'["start"] = awaited["start"]
      BY <2>10, TerminateDoes DEF SignalTargets, FinishStop, PerformStop, EndOfChildren, EndStop,
         TypeOK, Operation
    <3> QED  BY <1>a, <2>0, <3>1, <3>2
  <2>11. ASSUME NEW d \in Child, Close(d)
         PROVE  UNCHANGED <<start, awaited>>
    BY <2>11 DEF Close
  <2> QED  BY <2>1, <2>2, <2>3, <2>5, <2>6, <2>7, <2>8, <2>9, <2>10, <2>11, ProcessSteps
           DEF Next, StartStep, StopStep
<1> QED  BY <1>c, <1>d

LEMMA StopNext ==
  ASSUME TypeOK, HeldInv, StopInv, [Next]_vars
  PROVE  StopInv'
<1> USE Children
\* Without a spawn, what is left was there before.
<1>a. ASSUME ~(Spawn /\ ~aborted), NEW c \in Child, Unclosed(c)', c[1] \notin doubled'
      PROVE  Unclosed(c) /\ c[1] \notin doubled
  <2>1. Quiet \/ Sample \/ \E d \in Child : Close(d)
    BY <1>a, QuietSteps
  <2>2. Sample => UNCHANGED <<proc, doubled>>
    BY DEF Sample
  <2> QED  BY <1>a, <2>1, <2>2, CloseDoes DEF Quiet, Unclosed
<1>b. ASSUME UNCHANGED <<stop, exit>>, awaited'["stop"] = awaited["stop"],
             start'.pc = "idle" \/ start.pc # "idle", ~(Spawn /\ ~aborted)
      PROVE  StopInv'
  BY <1>a, <1>b DEF StopInv
<1>1. CASE Spawn /\ ~aborted
  <2>1. start.pc = "spawn" /\ exit # "gone" /\ UNCHANGED <<stop, exit>>
    BY <1>1, SpawnDoes DEF Spawn, Running
  <2> QED  BY <2>1 DEF StopInv
<1>2. ASSUME ~(Spawn /\ ~aborted)
      PROVE  StopInv'
  <2> USE <1>2
  <2>1. CASE Lives
    BY <1>b, <2>1 DEF Lives, StartElsewhere, TypeOK
  <2>2. ASSUME NEW c \in Child, Close(c)
        PROVE  StopInv'
    BY <1>b, <2>2 DEF Close, TypeOK
  <2>3. CASE Start
    <3>1. stop = "idle" /\ exit # "gone" /\ UNCHANGED <<stop, exit>>
      BY <2>3 DEF Start, Running
    <3> QED  BY <3>1 DEF StopInv
  <2>4. CASE Probe \/ Spawn \/ Wait \/ Sample
    <3>1. UNCHANGED <<stop, exit>> /\ start.pc # "idle"
      BY <2>4 DEF Probe, Spawn, Wait, Sample
    <3>2. CASE Fail
      BY <1>b, <3>1, <3>2, FailDoes DEF Operation
    <3>3. CASE EndStart
      BY <1>b, <3>1, <3>3, EndStartDoes DEF Operation
    <3>4. CASE UNCHANGED awaited
      BY <1>b, <3>1, <3>4
    <3> QED  BY <2>4, <3>2, <3>3, <3>4 DEF Probe, Spawn, Wait, Sample
  <2>5. CASE Undone
    BY <1>b, <2>5, EndStartDoes DEF Undone, Operation
  <2>6. CASE Expire \/ PrepareStop \/ ConfirmStop \/ Validate \/ UNCHANGED vars
    <3>1. UNCHANGED <<stop, exit, start, awaited>>
      BY <2>6 DEF Expire, PrepareStop, ConfirmStop, Validate, vars
    <3> QED  BY <1>b, <3>1
  <2>7. CASE SignalTargets \/ FinishStop
    <3>1. UNCHANGED <<stop, exit, start>>
      BY <2>7 DEF SignalTargets, FinishStop
    <3>2. awaited'["stop"] = awaited["stop"]
      BY <2>7 DEF SignalTargets, FinishStop, TypeOK, Operation
    <3> QED  BY <1>b, <3>1, <3>2
  <2>8. CASE Stop \/ Quit
    <3>1. UNCHANGED <<start, awaited>> /\ (exit' = "gone" <=> exit = "gone")
          /\ ((stop = "idle" /\ stop' = "queued") \/ UNCHANGED stop)
      BY <2>8 DEF Stop, Quit, BeginStop, Running
    <3> QED  BY <1>a, <3>1 DEF StopInv
  <2>9. CASE PerformStop
    <3>1. start.pc = "idle" /\ UNCHANGED <<start, exit>> /\ exit # "gone" /\ stop' = "wait"
      BY <2>9 DEF PerformStop, InOperation, Running
    <3>2. awaited'["stop"] = OwnedOf(Service)
      BY <2>9, TerminateDoes DEF PerformStop, Operation
    <3>3. ASSUME NEW c \in Child, Unclosed(c)', c[1] \notin doubled'
          PROVE  c \in awaited'["stop"]
      <4>1. owned[c[1]] = c
        BY <1>a, <3>3 DEF HeldInv
      <4> QED  BY <3>2, <4>1 DEF OwnedOf
    <3> QED  BY <3>1, <3>3 DEF StopInv
  <2>10. CASE EndOfChildren
    <3>1. stop = "wait" /\ stop' = "refresh" /\ UNCHANGED <<start, exit>> /\ Ended("stop")
      BY <2>10 DEF EndOfChildren
    <3>2. ASSUME NEW c \in Child, Unclosed(c)', c[1] \notin doubled'
          PROVE  FALSE
      BY <1>a, <3>1, <3>2 DEF StopInv, Ended, Unclosed
    <3> QED  BY <3>1, <3>2 DEF StopInv
  <2>11. CASE EndStop
    <3>1. stop = "refresh" /\ stop' = "idle" /\ UNCHANGED start
      BY <2>11 DEF EndStop
    <3> QED  BY <1>a, <3>1 DEF StopInv
  <2> QED  BY <2>1, <2>2, <2>3, <2>4, <2>5, <2>6, <2>7, <2>8, <2>9, <2>10, <2>11, ProcessSteps
           DEF Next, StartStep, StopStep
<1> QED  BY <1>1, <1>2

-----------------------------------------------------------------------------
(* What a stop may signal and kill *)

\* A process that began does not begin again or come back to life, and a process
\* that was signalled, or whose stop was confirmed, stays so.
LEMMA Grows ==
  ASSUME TypeOK, [Next]_vars
  PROVE  /\ \A p \in Process : proc[p] # "none" => proc'[p] # "none" /\ (Alive(p)' => Alive(p))
         /\ signalled \subseteq signalled' /\ confirmed \subseteq confirmed'
<1>1. CASE Lives
  BY <1>1 DEF Lives, StartElsewhere, Alive, TypeOK
<1>2. CASE Spawn /\ ~aborted
  <2>1. \A c \in Child : proc[c] # "none" => proc'[c] = proc[c]
    BY <1>2, SpawnDoes
  <2>2. \A x \in External : proc'[x] = proc[x]
    BY <1>2, SpawnDoes
  <2>3. UNCHANGED <<signalled, confirmed>>
    BY <1>2, SpawnDoes
  <2> QED  BY <2>1, <2>2, <2>3 DEF Alive, Process
<1>3. CASE (Spawn /\ aborted) \/ Probe \/ Wait \/ Sample
  <2>1. UNCHANGED <<proc, confirmed>>
    BY <1>3 DEF Spawn, Probe, Wait, Sample
  <2>2. UNCHANGED signalled \/ Fail
    BY <1>3 DEF Spawn, Probe, Wait, Sample
  <2> QED  BY <2>1, <2>2, FailDoes DEF Alive
<1>4. CASE PerformStop
  <2>1. UNCHANGED <<proc, confirmed>> /\ Terminate("stop", Service)
    BY <1>4 DEF PerformStop
  <2> QED  BY <2>1 DEF Alive, Terminate
<1>5. CASE Start \/ Undone \/ Expire \/ PrepareStop \/ ConfirmStop \/ Stop \/ Quit
        \/ Validate \/ SignalTargets \/ FinishStop \/ EndOfChildren \/ EndStop \/ UNCHANGED vars
  BY <1>5 DEF Start, Undone, Expire, PrepareStop, ConfirmStop, Stop, Quit, Validate,
     SignalTargets, FinishStop, EndOfChildren, EndStop, vars, Alive
<1>6. ASSUME NEW c \in Child, Close(c)
      PROVE  /\ \A p \in Process : proc[p] # "none" => proc'[p] # "none" /\ (Alive(p)' => Alive(p))
             /\ UNCHANGED <<signalled, confirmed>>
  BY <1>6 DEF Close, Alive, TypeOK
<1> QED  BY <1>1, <1>2, <1>3, <1>4, <1>5, <1>6, ProcessSteps, Children DEF Next, StartStep, StopStep

LEMMA OwnedNext ==
  ASSUME TypeOK, OwnedInv, [Next]_vars
  PROVE  OwnedInv'
<1> USE Children
<1> SUFFICES ASSUME NEW s \in Service, owned'[s] # None
             PROVE  proc'[owned'[s]] # "none"
  BY DEF OwnedInv
<1>1. ASSUME owned'[s] = owned[s]
      PROVE  proc'[owned'[s]] # "none"
  <2>1. owned[s] \in Process /\ proc[owned[s]] # "none"
    BY <1>1 DEF OwnedInv, TypeOK
  <2> QED  BY <1>1, <2>1, Grows
<1>2. CASE Spawn /\ ~aborted
  <2>1. CASE s \in probed
    BY <1>1, <1>2, <2>1, SpawnDoes
  <2>2. CASE s \notin probed
    <3>1. owned'[s] = <<s, spawns[s] + 1>> /\ spawns[s] + 1 \in 1..MaxSpawns
      BY <1>2, <2>2, SpawnDoes DEF Spawn, TypeOK
    <3>2. <<s, spawns[s] + 1>> \in Child
          /\ <<s, spawns[s] + 1>>[1] = s /\ <<s, spawns[s] + 1>>[2] = spawns[s] + 1
      BY <3>1
    <3>3. proc'[<<s, spawns[s] + 1>>] = "deaf"
      BY <1>2, <2>2, <3>2, SpawnDoes
    <3> QED  BY <3>1, <3>3
  <2> QED  BY <2>1, <2>2
<1>3. CASE Sample
  BY <1>1, <1>3 DEF Sample
<1>4. ASSUME NEW c \in Child, Close(c)
      PROVE  owned'[s] = owned[s]
  BY <1>4 DEF Close, TypeOK
<1> QED  BY <1>1, <1>2, <1>3, <1>4, QuietSteps DEF Quiet

\* A step that prepares and confirms nothing and leaves the stop under way alone,
\* or goes on with it before it waits.
LEMMA TargetsKept ==
  ASSUME TypeOK, TargetInv, [Next]_vars,
         offered' \subseteq offered, UNCHANGED survivors,
         \/ UNCHANGED stopping /\ awaited'["stopping"] = awaited["stopping"]
         \/ /\ stopping'.pc # "wait" /\ stopping'.force = stopping.force
            /\ stopping'.targets = stopping.targets
         \/ stopping'.targets = {}
  PROVE  TargetInv'
<1>1. ASSUME NEW t \in stopping'.targets
      PROVE  /\ t[2] \in confirmed' /\ proc'[t[2]] # "none"
             /\ stopping'.force => t[2] \in signalled'
             /\ stopping'.pc = "wait" /\ t[2] \notin awaited'["stopping"] /\ Alive(t[2])'
                  => t[2] \in signalled'
  <2>1. t \in stopping.targets /\ stopping'.force = stopping.force
    BY <1>1
  <2>2. t[2] \in Process
    BY <2>1 DEF TypeOK, Targets
  <2>3. t[2] \in confirmed /\ proc[t[2]] # "none" /\ (stopping.force => t[2] \in signalled)
    BY <2>1 DEF TargetInv
  <2>4. ASSUME stopping'.pc = "wait", t[2] \notin awaited'["stopping"], Alive(t[2])'
        PROVE  t[2] \in signalled
    <3>1. UNCHANGED stopping /\ awaited'["stopping"] = awaited["stopping"]
      BY <1>1, <2>4
    <3>2. Alive(t[2])
      BY <2>2, <2>3, <2>4, Grows
    <3> QED  BY <2>1, <2>4, <3>1, <3>2 DEF TargetInv
  <2> QED  BY <2>1, <2>2, <2>3, <2>4, Grows
<1>2. ASSUME NEW plan \in offered', NEW t \in plan.targets
      PROVE  proc'[t[2]] # "none" /\ (plan.force => t[2] \in signalled')
  <2>1. t[2] \in Process
    BY <1>2 DEF TypeOK, Targets
  <2> QED  BY <1>2, <2>1, Grows DEF TargetInv
<1>3. ASSUME NEW s \in Service
      PROVE  /\ survivors'[s] \subseteq signalled'
             /\ \A p \in survivors'[s] : proc'[p] # "none"
  BY Grows DEF TargetInv, TypeOK
<1> QED  BY <1>1, <1>2, <1>3 DEF TargetInv

\* What a stop that is prepared would end was begun, and by force it was signalled.
LEMMA TargetsBegun ==
  ASSUME TypeOK, OwnedInv, TargetInv, NEW s \in Service, NEW force \in BOOLEAN,
         NEW t \in Target(s, force)
  PROVE  proc[t[2]] # "none" /\ (force => t[2] \in signalled)
<1>1. CASE force
  BY <1>1 DEF Target, TargetInv
<1>2. CASE ~force
  <2>1. CASE owned[s] # None
    BY <1>2, <2>1 DEF Target, OwnedInv
  <2>2. CASE owned[s] = None
    BY <1>2, <2>2 DEF Target, Listener, Listening
  <2> QED  BY <2>1, <2>2
<1> QED  BY <1>1, <1>2

LEMMA TargetNext ==
  ASSUME TypeOK, OwnedInv, TargetInv, [Next]_vars
  PROVE  TargetInv'
<1>1. CASE PrepareStop
  <2>1. PICK ids \in SUBSET Service, force \in BOOLEAN :
          offered' = offered \cup
            {[targets |-> UNION {Target(s, force) : s \in ids}, force |-> force]}
    BY <1>1 DEF PrepareStop
  <2>2. UNCHANGED <<stopping, awaited, survivors, proc, signalled, confirmed>>
    BY <1>1 DEF PrepareStop
  <2>3. ASSUME NEW plan \in offered', NEW t \in plan.targets
        PROVE  proc[t[2]] # "none" /\ (plan.force => t[2] \in signalled)
    <3>1. CASE plan \in offered
      BY <2>3, <3>1 DEF TargetInv
    <3>2. CASE plan \notin offered
      <4>1. plan = [targets |-> UNION {Target(s, force) : s \in ids}, force |-> force]
        BY <2>1, <2>3, <3>2
      <4>2. PICK s \in ids : t \in Target(s, force)
        BY <2>3, <4>1
      <4> QED  BY <4>1, <4>2, TargetsBegun
    <3> QED  BY <3>1, <3>2
  <2> QED  BY <2>2, <2>3 DEF TargetInv, Alive
<1>2. CASE ConfirmStop
  <2>1. PICK plan \in offered :
          /\ stopping' = [pc |-> "validate", targets |-> plan.targets, force |-> plan.force]
          /\ confirmed' = confirmed \cup {t[2] : t \in plan.targets}
    BY <1>2 DEF ConfirmStop
  <2>2. offered' = {} /\ UNCHANGED <<survivors, proc, signalled>>
    BY <1>2 DEF ConfirmStop
  <2>3. \A t \in plan.targets : proc[t[2]] # "none" /\ (plan.force => t[2] \in signalled)
    BY DEF TargetInv
  <2> QED  BY <2>1, <2>2, <2>3 DEF TargetInv
<1>3. CASE SignalTargets
  <2> DEFINE held == {t \in stopping.targets : ~stopping.force /\ owned[t[1]] = t[2]}
             there == {t[2] : t \in stopping.targets \ held}
             ours == {t[2] : t \in held}
  <2>1. /\ awaited' = [awaited EXCEPT !["stopping"] = ours]
        /\ signalled' = signalled \cup {p \in ours : Alive(p)}
                          \cup (IF stopping.force THEN {} ELSE {p \in there : Alive(p)})
        /\ stopping' = [stopping EXCEPT !.pc = "wait"]
        /\ UNCHANGED <<offered, survivors, proc, confirmed>>
    BY <1>3 DEF SignalTargets
  <2>2. /\ awaited'["stopping"] = ours
        /\ stopping'.targets = stopping.targets /\ stopping'.force = stopping.force
    BY <2>1 DEF TypeOK, Operation
  <2>3. ASSUME NEW t \in stopping.targets, t[2] \notin ours, Alive(t[2])
        PROVE  t[2] \in signalled'
    <3>1. CASE stopping.force
      BY <2>1, <3>1 DEF TargetInv
    <3>2. CASE ~stopping.force
      <4>1. t[2] \in there
        BY <2>3
      <4> QED  BY <2>1, <2>3, <3>2, <4>1
    <3> QED  BY <3>1, <3>2
  <2>4. \A p : Alive(p)' = Alive(p)
    BY <2>1 DEF Alive
  <2>5. ASSUME NEW t \in stopping'.targets
        PROVE  /\ t[2] \in confirmed' /\ proc'[t[2]] # "none"
               /\ stopping'.force => t[2] \in signalled'
               /\ stopping'.pc = "wait" /\ t[2] \notin awaited'["stopping"] /\ Alive(t[2])'
                    => t[2] \in signalled'
    BY <2>1, <2>2, <2>3, <2>4 DEF TargetInv
  <2>6. signalled \subseteq signalled'
    BY <2>1
  <2> HIDE DEF held, there, ours
  <2> QED  BY <2>1, <2>5, <2>6 DEF TargetInv
<1>4. CASE FinishStop
  <2> DEFINE others == {t \in stopping.targets : t[2] \notin awaited["stopping"]}
  <2>1. /\ stopping.pc = "wait" /\ stopping' = Idle
        /\ UNCHANGED <<offered, proc, signalled, confirmed>>
        /\ survivors' = [s \in Service |->
             IF \E t \in others : t[1] = s
             THEN {t[2] : t \in {u \in others : u[1] = s /\ Alive(u[2])}} ELSE survivors[s]]
    BY <1>4 DEF FinishStop
  <2>2. ASSUME NEW s \in Service, NEW p \in survivors'[s]
        PROVE  p \in signalled /\ proc[p] # "none"
    <3>1. CASE p \in survivors[s]
      BY <3>1 DEF TargetInv
    <3>2. CASE p \notin survivors[s]
      <4>1. PICK u \in others : Alive(u[2]) /\ p = u[2]
        BY <2>1, <2>2, <3>2
      <4> QED  BY <2>1, <4>1 DEF TargetInv
    <3> QED  BY <3>1, <3>2
  <2> QED  BY <2>1, <2>2 DEF TargetInv, Idle
<1>5. CASE Validate
  <2>1. offered' \subseteq offered /\ UNCHANGED survivors
    BY <1>5 DEF Validate
  <2>2. CASE stopping' = Idle
    BY <2>1, <2>2, TargetsKept DEF Idle
  <2>3. CASE stopping' = [stopping EXCEPT !.pc = "signal"]
    <3>1. /\ stopping'.pc # "wait" /\ stopping'.force = stopping.force
          /\ stopping'.targets = stopping.targets
      BY <2>3 DEF TypeOK
    <3> QED  BY <2>1, <3>1, TargetsKept
  <2> QED  BY <1>5, <2>2, <2>3 DEF Validate
<1>a. ASSUME UNCHANGED <<stopping, survivors>>, offered' \subseteq offered,
             awaited'["stopping"] = awaited["stopping"]
      PROVE  TargetInv'
  BY <1>a, TargetsKept
<1>6. CASE Probe \/ Spawn \/ Wait \/ Sample \/ Undone
  <2>1. UNCHANGED <<stopping, survivors, offered>>
    BY <1>6 DEF Probe, Spawn, Wait, Sample, Undone
  <2>2. awaited' = awaited \/ Fail \/ EndStart
    BY <1>6 DEF Probe, Spawn, Wait, Sample, Undone
  <2>3. awaited'["stopping"] = awaited["stopping"]
    BY <2>2, FailDoes, EndStartDoes DEF Operation
  <2> QED  BY <1>a, <2>1, <2>3
<1>7. CASE PerformStop \/ EndOfChildren
  <2>1. UNCHANGED <<stopping, survivors, offered>>
    BY <1>7 DEF PerformStop, EndOfChildren
  <2>2. awaited'["stopping"] = awaited["stopping"]
    BY <1>7, TerminateDoes DEF PerformStop, EndOfChildren, Operation, TypeOK
  <2> QED  BY <1>a, <2>1, <2>2
<1>8. CASE Start \/ Expire \/ Stop \/ Quit \/ EndStop \/ UNCHANGED vars
  BY <1>a, <1>8 DEF Start, Expire, Stop, Quit, BeginStop, EndStop, vars
<1>9. CASE Lives
  BY <1>a, <1>9 DEF Lives, StartElsewhere
<1>10. ASSUME NEW c \in Child, Close(c)
       PROVE  TargetInv'
  BY <1>a, <1>10 DEF Close
<1> QED  BY <1>1, <1>2, <1>3, <1>4, <1>5, <1>6, <1>7, <1>8, <1>9, <1>10, ProcessSteps, Children
         DEF Next, StartStep, StopStep

LEMMA ConfirmedNext ==
  ASSUME TypeOK, TargetInv, OnlyConfirmed, [Next]_vars
  PROVE  OnlyConfirmed'
<1>a. ASSUME signalled' \cap External = signalled \cap External, signalled \subseteq signalled',
             UNCHANGED killed
      PROVE  OnlyConfirmed'
  BY <1>a, Grows DEF OnlyConfirmed
<1>1. CASE SignalTargets
  <2> DEFINE there == {t[2] : t \in {u \in stopping.targets :
                                        ~(~stopping.force /\ owned[u[1]] = u[2])}}
  <2>1. UNCHANGED confirmed
    BY <1>1 DEF SignalTargets
  <2>2. \A p \in signalled' : p \in signalled \/ p \in confirmed
    BY <1>1 DEF SignalTargets, TargetInv
  <2>3. \A p \in killed' : p \in killed \/ (stopping.force /\ \E t \in stopping.targets : p = t[2])
    BY <1>1 DEF SignalTargets
  <2>4. \A p \in killed' : p \in signalled /\ p \in confirmed
    BY <2>3 DEF TargetInv, OnlyConfirmed
  <2> QED  BY <2>1, <2>2, <2>4, Grows DEF OnlyConfirmed
<1>2. CASE Probe \/ Spawn \/ Wait \/ Sample
  <2>1. UNCHANGED killed /\ (UNCHANGED signalled \/ Fail)
    BY <1>2 DEF Probe, Spawn, Wait, Sample
  <2> QED  BY <1>a, <2>1, FailDoes
<1>3. CASE PerformStop
  BY <1>a, <1>3, TerminateDoes DEF PerformStop, Operation
<1>4. CASE Start \/ Undone \/ Expire \/ PrepareStop \/ ConfirmStop \/ Stop \/ Quit
        \/ Validate \/ FinishStop \/ EndOfChildren \/ EndStop \/ Lives \/ UNCHANGED vars
  <2>1. UNCHANGED <<signalled, killed>>
    BY <1>4 DEF Start, Undone, Expire, PrepareStop, ConfirmStop, Stop, Quit, Validate,
       FinishStop, EndOfChildren, EndStop, Lives, StartElsewhere, vars
  <2> QED  BY <1>a, <2>1
<1>5. ASSUME NEW c \in Child, Close(c)
      PROVE  OnlyConfirmed'
  BY <1>a, <1>5 DEF Close
<1> QED  BY <1>1, <1>2, <1>3, <1>4, <1>5, ProcessSteps, Children DEF Next, StartStep, StopStep

-----------------------------------------------------------------------------
(* Theorems *)

LEMMA InvInit == Init => ServerInv
<1> SUFFICES ASSUME Init
             PROVE  ServerInv
  OBVIOUS
<1>1. TypeOK
  BY TypeInit
<1>2. HeldInv /\ StartInv /\ StopInv
  BY Children DEF Init, HeldInv, StartInv, StopInv, Unclosed
<1>3. OwnedInv /\ TargetInv /\ OnlyConfirmed
  BY DEF Init, OwnedInv, TargetInv, OnlyConfirmed, Idle
<1> QED  BY <1>1, <1>2, <1>3 DEF ServerInv

LEMMA ServerAlways == Spec => []ServerInv
<1>1. ServerInv /\ [Next]_vars => ServerInv'
  BY TypeNext, HeldNext, StartNext, StopNext, OwnedNext, TargetNext, ConfirmedNext DEF ServerInv
<1> QED  BY InvInit, <1>1, PTL DEF Spec

\* The variables of the manager keep their types: what is held for a service is a
\* child of that service, and only children that were spawned have a state.
THEOREM ServerTypeCorrect == Spec => []TypeOK
<1>1. ServerInv => TypeOK
  BY DEF ServerInv
<1> QED  BY <1>1, ServerAlways, PTL

\* Starts and the exit follow their children to the end: a start that does not
\* succeed has ended what it spawned when it is over, and when the manager has gone
\* no child of it lives, unless its service was started over a child still held.
THEOREM ChildrenEnd == Spec => []ChildrenAreFollowed
<1>1. ServerInv => ChildrenAreFollowed
  <2> SUFFICES ASSUME ServerInv
               PROVE  ChildrenAreFollowed
    OBVIOUS
  <2>1. \A c \in Child : Alive(c) => Unclosed(c)
    BY DEF Alive, Unclosed
  <2>2. NothingLeftBehind
    BY <2>1 DEF ServerInv, StopInv, NothingLeftBehind
  <2>3. StartIsUndone
    BY <2>1 DEF ServerInv, StartInv, StartIsUndone
  <2> QED  BY <2>2, <2>3 DEF ChildrenAreFollowed
<1> QED  BY <1>1, ServerAlways, PTL

\* A server that somebody else runs is signalled only after its stop was confirmed,
\* and only what was signalled and confirmed before is ever killed.
THEOREM SignalsAreConfirmed == Spec => []OnlyConfirmed
<1>1. ServerInv => OnlyConfirmed
  BY DEF ServerInv
<1> QED  BY <1>1, ServerAlways, PTL
=============================================================================
