------------------------------ MODULE MC_Messaging ------------------------------
(* Instances of Messaging: one or two authors, up to two messages and two     *)
(* handlers that overlap.                                                    *)
EXTENDS Messaging, TLC

CONSTANTS ana, bruno, it, hr, m1, m2, plain, other, link, r1, r2

Symmetry == Permutations(Msgs) \cup Permutations(Requests)
===============================================================================
