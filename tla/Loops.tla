------------------------------- MODULE Loops -------------------------------
(***************************************************************************)
(* The two loops of one compiled graph: a discovery node, then a repair    *)
(* node over a list of the launch.  They share INCOMPLETE and DECLINED;    *)
(* what the first leaves unproven, the campaign's end must still say.      *)
(***************************************************************************)
EXTENDS Discovery, Repair

VARIABLE swept  \* history: the discovery ended by itself, and calm long enough

vars == <<callVars, sweepVars, repairVars, swept>>

TypeOK == SweepTypeOK /\ RepairTypeOK /\ incomplete \in BOOLEAN /\ declined \in Nat /\ swept \in BOOLEAN

\* The discovery's locals, before it and after it.
Init ==
  /\ CallsInit /\ SweepInit /\ RepairInit
  /\ haltOnRed \in BOOLEAN /\ swept = FALSE

StartSweep ==
  /\ sweep = "off" /\ repair = "off" /\ ended = "none" /\ sweep' = "round"
  /\ UNCHANGED <<callVars, haltOnRed, round, dry, d0, got, brought, foundVars, ended,
                 sweepHistory, repairVars, swept>>

\* The discovery's node is done: its locals are gone, and of the declined calls
\* only whether there were any is read from here on.
StartRepair ==
  /\ sweep = "over" /\ ended = "ok" /\ repair = "off"
  /\ swept' = (calm >= DryTarget)
  /\ declined' = Capped(declined, 1)
  /\ repair' = "round" /\ pending' = Slices
  /\ sweep' = "off" /\ round' = 0 /\ dry' = 0 /\ d0' = 0
  /\ got' = [f \in Finders |-> "out"] /\ brought' = [f \in Finders |-> {}]
  /\ seen' = {} /\ kept' = {} /\ fresh' = {} /\ vote' = [i \in Items |-> NoVote]
  /\ class' = [c \in Classes |-> [last |-> 0, rounds |-> 0]]
  /\ calm' = 0 /\ judged' = [i \in Items |-> 0] /\ survived' = [c \in Classes |-> {}]
  /\ UNCHANGED <<incomplete, haltOnRed, ended, rround, passed, work, abort, streak, outcome,
                 repairHistory>>

Over == (sweep = "over" /\ ended # "ok") \/ repair = "over"

Next == \/ StartSweep \/ StartRepair
        \/ (Sweep /\ UNCHANGED <<haltOnRed, repairVars, swept>>)
        \/ (RepairLoop /\ UNCHANGED <<sweepVars, swept>>)

\* Agents answer or die, and the harness runs what is due.
Spec == Init /\ [][Next]_vars /\ WF_vars(Next)

(***************************************************************************)
(* Properties.                                                             *)
(***************************************************************************)
\* "a partial run can never be read as a clean one": a campaign that calls
\* itself COMPLETE searched until nothing new came from a whole roster, and
\* every slice's last patch was in the merged tree that passed its last review.
CompleteIsWhole ==
  outcome = "ok" => /\ pending = {} /\ reviewed = Slices
                    /\ incomplete \/ swept

\* What the campaign says at its end is so, and a worker that gave up ends it.
OutcomeIsTrue == CompleteIsWhole /\ CutEndsLoop

\* A sweep asks for a reframe of a class only when it recurs, and a repair never
\* goes on without one when it does.
ReframeIsDue == RecurringIsReal /\ NoThirdNarrowPatch

\* Whatever the agents do, both loops end.
LoopsEnd == <>Over
=============================================================================
