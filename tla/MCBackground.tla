---------------------------- MODULE MCBackground ----------------------------
(* Finite instances of Background for TLC. *)
EXTENDS Background, TLC

CONSTANTS p1, p2, alien, c1, c2, a1

\* The cancellers are interchangeable: only their records differ.
CancellerSymmetry == Permutations(Cancellers)
=============================================================================
