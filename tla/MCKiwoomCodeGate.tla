-------------------------- MODULE MCKiwoomCodeGate --------------------------
(***************************************************************************)
(* An instance of KiwoomCodeGate: modifications of four orders, two of     *)
(* them of one family, and an exclusive write.                             *)
(***************************************************************************)
EXTENDS KiwoomCodeGate

CONSTANTS a1, a2, b1, c1, d1, w1,  \* tickets
          a, b, c, d               \* orders: b was made by modifying a

MCRefOf == [l \in Lease |-> IF l \in {a1, a2} THEN a ELSE IF l = b1 THEN b
                            ELSE IF l = c1 THEN c ELSE d]
MCRelated == [r \in Ref |-> IF r = b THEN {a, b} ELSE {r}]
=============================================================================
