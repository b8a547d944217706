--------------------------- MODULE MCTossTrading ---------------------------
(***************************************************************************)
(* Instances of TossTrading for TLC: the payload of each command is read   *)
(* off small sets, and the commands that are sent are those of one of the  *)
(* scenarios, which share the run.                                         *)
(***************************************************************************)
EXTENDS TossTrading

CONSTANTS Creates, Modifies, Cancels, Bulks,
          o1, o2,        \* the orders of one account and code
          OnSecond,      \* the modifies and cancels of o2; the others are of o1
          ParentOf,      \* the children of the bulk cancel
          Scenarios,     \* sets of commands
          Quiet          \* the scenarios without a crash

VARIABLE scenario

MCCmd == Creates \cup Modifies \cup Cancels \cup Bulks

MCKind == [c \in MCCmd |-> CASE c \in Creates -> "create"
                             [] c \in Modifies -> "modify"
                             [] c \in Cancels -> "cancel"
                             [] OTHER -> "bulk"]

MCKeyOf == [c \in MCCmd |-> CHOOSE k \in Key : TRUE]

MCOrderOf == [c \in MCCmd |-> IF c \notin Modifies \cup Cancels THEN NoOrder
                              ELSE IF c \in OnSecond THEN o2 ELSE o1]

\* In a configuration with a bulk cancel, the cancels named in ParentOf are its children.
MCParent == [c \in MCCmd |-> IF c \in ParentOf THEN CHOOSE b \in Bulks : TRUE ELSE NoCmd]

MCInit == Init /\ scenario \in Scenarios
MCNext ==
  /\ Next /\ UNCHANGED scenario
  /\ \A c \in Cmd \ scenario : pc'[c] = "idle"
  /\ scenario \in Quiet => crashes' = 0
MCSpec == MCInit /\ [][MCNext]_<<vars, scenario>> /\ Fairness
=============================================================================
