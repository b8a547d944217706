-------------------------- MODULE SingleSubmission --------------------------
(***************************************************************************)
(* What a trading service promises for one order command, whichever broker *)
(* and whatever schedule, crash or lost answer: the command is submitted   *)
(* at most once, a client is told only what the broker really did, and an  *)
(* unknown outcome stays unknown until an operator reviews it, after which *)
(* the command is never submitted.  TossTrading implements it.             *)
(***************************************************************************)
EXTENDS Naturals

CONSTANT Cmd

VARIABLES
  told,       \* what is on record about the command
  submitted,  \* how many requests left the process
  effect      \* what the broker did

vars == <<told, submitted, effect>>

Init ==
  /\ told = [c \in Cmd |-> "nothing"]
  /\ submitted = [c \in Cmd |-> 0]
  /\ effect = [c \in Cmd |-> "none"]

Record(c) ==
  /\ told[c] = "nothing"
  /\ told' = [told EXCEPT ![c] = "pending"]
  /\ UNCHANGED <<submitted, effect>>

Submit(c) ==
  /\ told[c] = "pending" /\ submitted[c] = 0
  /\ submitted' = [submitted EXCEPT ![c] = 1]
  /\ UNCHANGED <<told, effect>>

\* The broker decides once, at any time after the submission.
Decide(c) ==
  /\ submitted[c] = 1 /\ effect[c] = "none"
  /\ \E e \in {"taken", "refused"} : effect' = [effect EXCEPT ![c] = e]
  /\ UNCHANGED <<told, submitted>>

Tell(c) ==
  /\ told[c] = "pending"
  /\ \/ effect[c] = "taken" /\ told' = [told EXCEPT ![c] = "accepted"]
     \/ /\ effect[c] = "refused" \/ submitted[c] = 0
        /\ told' = [told EXCEPT ![c] = "rejected"]
     \/ submitted[c] = 1 /\ told' = [told EXCEPT ![c] = "unknown"]
  /\ UNCHANGED <<submitted, effect>>

\* An operator settles a command whose outcome is not on record.
Settle(c) ==
  /\ told[c] \in {"pending", "unknown"}
  /\ told' = [told EXCEPT ![c] = "reviewed"]
  /\ UNCHANGED <<submitted, effect>>

Next == \E c \in Cmd : Record(c) \/ Submit(c) \/ Decide(c) \/ Tell(c) \/ Settle(c)

Spec == Init /\ [][Next]_vars
=============================================================================
