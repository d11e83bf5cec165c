------------------------------ MODULE MCProgress ------------------------------
(* Progress with two repositories of different sizes on a disk too small   *)
(* for both.                                                               *)
EXTENDS Progress

CONSTANTS j1, j2

Sizes == [j \in {j1, j2} |-> IF j = j1 THEN 2 ELSE 1]

ASSUME MCProgressAssumption == j1 # j2
===============================================================================
