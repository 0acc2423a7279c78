------------------------------ MODULE MCShotSync ------------------------------
(* ShotSync on two or three shots, two numbers and two contents of one file. *)
EXTENDS ShotSync, TLC

CONSTANTS c1, c2
Permuted == Permutations({c1, c2})
=============================================================================
