------------------------------ MODULE MC_Sessions ------------------------------
(* Instances of Sessions: one account, a few tokens and two overlapping      *)
(* requests.                                                                 *)
EXTENDS Sessions, TLC

CONSTANTS ana, bruno, j1, j2, j3, r1, r2

Symmetry == Permutations(Jtis) \cup Permutations(Requests)
===============================================================================
