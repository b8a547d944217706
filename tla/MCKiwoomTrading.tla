-------------------------- MODULE MCKiwoomTrading --------------------------
(***************************************************************************)
(* Instances of KiwoomTrading for TLC.  Order b was made by modifying a;   *)
(* c and d are independent.                                                *)
(***************************************************************************)
EXTENDS KiwoomTrading

CONSTANTS Creates, Modifies, Cancels, Bulks,
          a, b, c, d,
          OnB, OnC, OnD,  \* the modifies and cancels of b, c, d; the others are of a
          ParentOf,      \* the children of the bulk cancel
          Scenarios      \* sets of commands: those that are sent are of one of them

VARIABLE scenario

MCCmd == Creates \cup Modifies \cup Cancels \cup Bulks

MCKind == [x \in MCCmd |-> CASE x \in Creates -> "create"
                             [] x \in Modifies -> "modify"
                             [] x \in Cancels -> "cancel"
                             [] OTHER -> "bulk"]

MCKeyOf == [x \in MCCmd |-> CHOOSE k \in Key : TRUE]

MCOrderOf == [x \in MCCmd |-> CASE x \notin Modifies \cup Cancels -> NoOrder
                                [] x \in OnB -> b
                                [] x \in OnC -> c
                                [] x \in OnD -> d
                                [] OTHER -> a]

MCParent == [x \in MCCmd |-> IF x \in ParentOf THEN CHOOSE y \in Bulks : TRUE ELSE NoCmd]

MCParallel == IF Real THEN Modify ELSE {}

MCRelated == [o \in Order |-> IF o = b THEN {a, b} ELSE {o}]

MCInit == Init /\ scenario \in Scenarios
MCNext == Next /\ UNCHANGED scenario /\ \A x \in Cmd \ scenario : pc'[x] = "idle"
MCSpec == MCInit /\ [][MCNext]_<<vars, scenario>> /\ Fairness
=============================================================================
