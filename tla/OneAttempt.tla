----------------------------- MODULE OneAttempt -----------------------------
(***************************************************************************)
(* What a fault pair promises of a classified crash: one attempt, once     *)
(* taken never taken again, of one native and then one reference leg; a    *)
(* pass may stand on the crash only after an attempt that came out green,  *)
(* and an attempt that did not is spent for good.                          *)
(***************************************************************************)
EXTENDS Naturals

VARIABLES
  phase,  \* "open", "taken", "green" or "spent"
  runs,   \* role -> how often its leg was executed
  backs   \* a citation of the crash is accepted

vars == <<phase, runs, backs>>

Init == /\ phase = "open" /\ backs = FALSE
        /\ runs = [r \in {"native", "reference"} |-> 0]

Take == phase = "open" /\ phase' = "taken" /\ UNCHANGED <<runs, backs>>

Run(r) ==
  /\ phase = "taken" /\ runs[r] = 0
  /\ r = "reference" => runs["native"] = 1
  /\ runs' = [runs EXCEPT ![r] = 1] /\ UNCHANGED <<phase, backs>>

Settle ==
  /\ phase = "taken" /\ \A r \in {"native", "reference"} : runs[r] = 1
  /\ phase' = "green" /\ UNCHANGED <<runs, backs>>

Spend == phase = "taken" /\ phase' = "spent" /\ UNCHANGED <<runs, backs>>

\* A reader of a green attempt accepts it or does not.
Judge == phase = "green" /\ backs' \in BOOLEAN /\ UNCHANGED <<phase, runs>>

Next == Take \/ (\E r \in {"native", "reference"} : Run(r)) \/ Settle \/ Spend \/ Judge

Spec == Init /\ [][Next]_vars
=============================================================================
