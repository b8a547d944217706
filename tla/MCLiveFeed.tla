---------------------------- MODULE MCLiveFeed ----------------------------
(* Publications of which the second has an earlier time than the others.   *)
EXTENDS LiveFeed

MCTimeOf == [n \in Entry |-> IF n = 2 THEN 1 ELSE 2]
=============================================================================
