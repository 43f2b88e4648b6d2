------------------------------ MODULE MCLedger ------------------------------
(* Finite instances of Ledger for TLC. *)
EXTENDS Ledger, TLC

CONSTANTS r1, r2, r3, k1, k2

\* Launches and prompts differ only by their names.
LaunchSymmetry == Permutations(Runs) \cup Permutations(Keys)
=============================================================================
