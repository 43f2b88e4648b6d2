----------------------------- MODULE MCStopGate -----------------------------
(* Finite instances of StopGate for TLC. *)
EXTENDS StopGate, TLC

CONSTANTS s1, s2,      \* sessions
          v0, v1, v2,  \* contents
          full, fast   \* harness invocations

\* Where all of them have a harness, contents are only compared with one another.
ContentSymmetry == Permutations(Contents)
=============================================================================
