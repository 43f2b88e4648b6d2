----------------------------- MODULE MCHelpers -----------------------------
(* Two waits, one agent, two definitions of the metric, two daemons for TLC. *)
EXTENDS Helpers

CONSTANTS a1, w1, w2, d1, d2, box, budget, plateau, r1, r2, c1, c2, none, note1, note2

MCItems ==
  ({"agent-killed", "agent-stalled"} \X {a1})
    \cup ({"wake-ready", "wake-expired"} \X {w1, w2})
    \cup {box, budget, plateau}
MCWaits == <<w1, w2>>
=============================================================================
