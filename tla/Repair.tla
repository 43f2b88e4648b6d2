------------------------------ MODULE Repair ------------------------------
(***************************************************************************)
(* The repair loop, emit_repair of compile-graph.py: the slices of a list  *)
(* are fixed and checked in parallel, round after round, those that pass   *)
(* are merged and the merged tree is reviewed; a review that fails reopens *)
(* every slice that had passed.  A class of defects that failed            *)
(* NarrowPatches checks in a row may not be patched again narrowly.         *)
(*                                                                         *)
(* One worker per slice and round; what a worker writes outside its own    *)
(* slice is the round's abort_ and the campaign's counters.  What the      *)
(* witnesses of a patch establish (repair-proof.js, repair-origins.js) is  *)
(* one choice: proved, refuted, or unproven.                               *)
(***************************************************************************)
EXTENDS Calls, FiniteSets

CONSTANTS Slices,
          Whole,        \* stands for the merged tree beside the slices
          Defects,      \* classes of findings, the unclassified one included
          MaxRepairs,   \* repeat.maxRounds
          NarrowPatches \* repeat.reframeAfter

ASSUME RepairAssumption ==
  Whole \notin Slices /\ {MaxRepairs, NarrowPatches} \subseteq Nat \ {0} /\ Defects # {}

VARIABLES
  repair,    \* "off", "round", "batch", "merge", "review", "over"
  rround,    \* round_
  pending, passed,
  work,      \* slice -> where its worker of this round is
  abort,     \* abort_
  streak,    \* slice or Whole -> class -> failed checks on end
  outcome,   \* the summary of the loop
  cut,       \* history: the round in which a worker gave up, or 0
  framed,    \* history: slice or Whole -> its patch carries a valid reframe
  narrow,    \* history: slice or Whole -> class -> narrow patches failed on end
  reviewed   \* history: the slices whose last patch the last passed review saw

repairVars == <<repair, rround, pending, passed, work, abort, streak, outcome,
                cut, framed, narrow, reviewed>>

Subjects == Slices \cup {Whole}
Outcomes == {"none", "ok", "TREE-MOVED", "BUDGET-EXHAUSTED", "NODE-DEAD", "HALTED",
             "INCOMPLETE", "REFRAME-REQUIRED"}
None == [c \in Defects |-> 0]

RepairTypeOK ==
  /\ repair \in {"off", "round", "batch", "merge", "review", "over"}
  /\ rround \in 0 .. MaxRepairs
  /\ pending \in SUBSET Slices /\ passed \in SUBSET Slices /\ pending \cap passed = {}
  /\ work \in [Slices -> {"idle", "fix", "check", "cut", "passed", "failed"}]
  /\ {i \in Slices : work[i] # "idle"} \subseteq pending
  /\ abort \in Outcomes /\ outcome \in Outcomes
  /\ streak \in [Subjects -> [Defects -> 0 .. NarrowPatches]]
  /\ cut \in 0 .. MaxRepairs /\ framed \in [Subjects -> BOOLEAN]
  /\ narrow \in [Subjects -> [Defects -> 0 .. NarrowPatches + 1]]
  /\ reviewed \in SUBSET Slices

RepairInit ==
  /\ repair = "off" /\ rround = 0 /\ pending = {} /\ passed = {}
  /\ work = [i \in Slices |-> "idle"] /\ abort = "none"
  /\ streak = [x \in Subjects |-> None] /\ outcome = "none"
  /\ cut = 0 /\ framed = [x \in Subjects |-> FALSE]
  /\ narrow = [x \in Subjects |-> None] /\ reviewed = {}

listVars == <<rround, pending, passed>>
repairHistory == <<cut, framed, narrow, reviewed>>

\* Only whether NarrowPatches is reached counts.
Capped(n, top) == IF n > top THEN top ELSE n
Longer(count, S, top) ==
  [c \in Defects |-> IF c \in S THEN Capped(count[c] + 1, top) ELSE 0]

\* Variant: a class recurs from the check after.
RecursLate(x) == {c \in Defects : streak[x][c] > NarrowPatches}
Recurs(x) == {c \in Defects : streak[x][c] >= NarrowPatches}

Close(how) == repair' = "over" /\ outcome' = how

\* treeCheck: another process moved the tree, or nobody could say.
Strayed == Close("TREE-MOVED")

RepairRound ==
  /\ repair = "round" /\ pending # {} /\ rround < MaxRepairs
  /\ rround' = rround + 1 /\ abort' = "none"
  /\ \/ Strayed /\ UNCHANGED work
     \/ /\ repair' = "batch" /\ UNCHANGED outcome
        /\ work' = [i \in Slices |-> IF i \in pending THEN "fix" ELSE "idle"]
  /\ UNCHANGED <<callVars, pending, passed, streak, repairHistory>>

\* A worker gives up.  The last one to do so names the round's end.
GiveUp(i, why) ==
  /\ work' = [work EXCEPT ![i] = "cut"] /\ abort' = why /\ cut' = rround

\* DECLINED ? 'BUDGET-EXHAUSTED' : 'NODE-DEAD', of the whole campaign.
Blame == IF declined' > 0 THEN "BUDGET-EXHAUSTED" ELSE "NODE-DEAD"

\* A reframe counts as one only when it was asked for.
Reframes(x) == IF Recurs(x) = {} THEN {FALSE} ELSE BOOLEAN

Fixed(i, good) ==
  /\ framed' = [framed EXCEPT ![i] = good] /\ reviewed' = reviewed \ {i}
  /\ IF Recurs(i) # {} /\ ~good
     THEN GiveUp(i, "REFRAME-REQUIRED")
     ELSE work' = [work EXCEPT ![i] = "check"] /\ UNCHANGED <<abort, cut>>

Fix(i) ==
  /\ repair = "batch" /\ work[i] = "fix"
  /\ \/ /\ Unaffordable /\ GiveUp(i, "BUDGET-EXHAUSTED") /\ UNCHANGED <<framed, reviewed>>
     \/ /\ Declines(1) \/ Declines(0)
        /\ GiveUp(i, Blame) /\ UNCHANGED <<framed, reviewed>>
     \/ /\ UNCHANGED callVars /\ \E why \in {"HALTED", "INCOMPLETE"} : GiveUp(i, why)
        /\ UNCHANGED <<framed, reviewed>>
     \/ /\ UNCHANGED callVars /\ \E good \in Reframes(i) : Fixed(i, good)
  /\ UNCHANGED <<repair, listVars, streak, outcome, narrow>>

\* The check passes only with a reframe it validated, if the class recurs.
CheckPasses(i) ==
  /\ \/ /\ Recurs(i) # {} /\ GiveUp(i, "REFRAME-REQUIRED")
        /\ UNCHANGED <<streak, narrow>>
     \/ /\ work' = [work EXCEPT ![i] = "passed"]
        /\ streak' = [streak EXCEPT ![i] = None]
        /\ narrow' = [narrow EXCEPT ![i] = None]
        /\ UNCHANGED <<abort, cut>>

CheckFails(i) ==
  \E S \in SUBSET Defects \ {{}} :
    /\ work' = [work EXCEPT ![i] = "failed"]
    /\ streak' = [streak EXCEPT ![i] = Longer(@, S, NarrowPatches)]
    /\ narrow' = [narrow EXCEPT ![i] = Longer(@, IF framed[i] THEN {} ELSE S, NarrowPatches + 1)]
    /\ UNCHANGED <<abort, cut>>

Check(i) ==
  /\ repair = "batch" /\ work[i] = "check"
  /\ \/ Unaffordable /\ GiveUp(i, "BUDGET-EXHAUSTED") /\ UNCHANGED <<streak, narrow>>
     \/ (Declines(1) \/ Declines(0)) /\ GiveUp(i, Blame) /\ UNCHANGED <<streak, narrow>>
     \/ /\ UNCHANGED callVars /\ \E why \in {"HALTED", "INCOMPLETE"} : GiveUp(i, why)
        /\ UNCHANGED <<streak, narrow>>
     \/ UNCHANGED callVars /\ (CheckPasses(i) \/ CheckFails(i))
  /\ UNCHANGED <<repair, listVars, outcome, framed, reviewed>>

BatchDone == repair = "batch" /\ \A i \in pending : work[i] \in {"cut", "passed", "failed"}

Aborted == abort # "none"

\* Variant: the last round is not merged.
MergeDueEarly == passed' # {} /\ rround < MaxRepairs
MergeDue == passed' # {} /\ (pending' = {} \/ rround < MaxRepairs)

BatchEnd ==
  /\ BatchDone
  /\ passed' = passed \cup {i \in pending : work[i] = "passed"}
  /\ pending' = pending \ {i \in pending : work[i] = "passed"}
  /\ work' = [i \in Slices |-> "idle"]
  /\ \/ Strayed /\ UNCHANGED callVars
     \/ /\ Aborted /\ incomplete' = TRUE /\ Close(abort)
        /\ UNCHANGED declined
     \/ /\ ~Aborted /\ repair' = (IF MergeDue THEN "merge" ELSE "round")
        /\ UNCHANGED <<callVars, outcome>>
  /\ UNCHANGED <<rround, abort, streak, repairHistory>>

\* One of the ends the merge and its review have: declined, dead, or refused.
Stop(hows) ==
  /\ incomplete' = TRUE
  /\ \/ declined' = declined + 1 /\ Close(Blame)
     \/ UNCHANGED declined /\ \E how \in hows \cup {Blame} : Close(how)

Stops == {"BUDGET-EXHAUSTED", "HALTED", "INCOMPLETE"}

Merge ==
  /\ repair = "merge"
  /\ \/ Stop(Stops) /\ UNCHANGED framed
     \/ \E good \in Reframes(Whole) :
          /\ framed' = [framed EXCEPT ![Whole] = good]
          /\ \/ Recurs(Whole) # {} /\ ~good /\ Stop({"REFRAME-REQUIRED"})
             \/ /\ Recurs(Whole) = {} \/ good
                /\ UNCHANGED callVars
                /\ Strayed \/ (repair' = "review" /\ UNCHANGED outcome)
  /\ UNCHANGED <<listVars, work, abort, streak, cut, narrow, reviewed>>

ReviewPasses ==
  /\ streak' = [streak EXCEPT ![Whole] = None]
  /\ narrow' = [narrow EXCEPT ![Whole] = None]
  /\ reviewed' = passed
  /\ UNCHANGED <<pending, passed>>

Reopen == pending \cup passed

\* The slices reopen with the merged tree's classes in place of their own.
ReviewFails ==
  \E S \in SUBSET Defects \ {{}} :
    LET now == Longer(streak[Whole], S, NarrowPatches) IN
    /\ streak' = [x \in Subjects |-> IF x \in passed \cup {Whole} THEN now ELSE streak[x]]
    /\ narrow' = [narrow EXCEPT ![Whole] =
                    Longer(@, IF framed[Whole] THEN {} ELSE S, NarrowPatches + 1)]
    /\ pending' = Reopen /\ passed' = passed \ pending'
    /\ UNCHANGED reviewed

Review ==
  /\ repair = "review"
  /\ \/ /\ Stop(IF Recurs(Whole) = {} THEN Stops ELSE Stops \cup {"REFRAME-REQUIRED"})
        /\ UNCHANGED <<pending, passed, streak, narrow, reviewed>>
     \/ /\ UNCHANGED <<callVars, pending, passed, streak, narrow, reviewed>> /\ Strayed
     \/ /\ UNCHANGED callVars /\ (ReviewPasses \/ ReviewFails)
        /\ repair' = "round" /\ UNCHANGED outcome
  /\ UNCHANGED <<rround, work, abort, cut, framed>>

\* Nothing left to repair, or no round left.
RepairOver ==
  /\ repair = "round" /\ (pending = {} \/ rround >= MaxRepairs)
  /\ IF pending = {} THEN Close("ok") /\ UNCHANGED callVars
     ELSE Close("INCOMPLETE") /\ incomplete' = TRUE /\ UNCHANGED declined
  /\ UNCHANGED <<listVars, work, abort, streak, repairHistory>>

RepairLoop == \/ RepairRound \/ (\E i \in Slices : Fix(i) \/ Check(i)) \/ BatchEnd
              \/ Merge \/ Review \/ RepairOver

(***************************************************************************)
(* Properties.                                                             *)
(***************************************************************************)
\* "third narrow patch refused": neither a slice nor the merged tree is checked
\* once more on a class it failed NarrowPatches times in a row with a patch that
\* names no rewire of the class.
NoThirdNarrowPatch ==
  \A x \in Subjects, c \in Defects : narrow[x][c] <= NarrowPatches

\* Once a worker gave up, on whatever ground and whatever its siblings did, no
\* round begins and nothing is merged.
CutEndsLoop == cut # 0 => cut = rround /\ repair \in {"batch", "over"} /\ outcome # "ok"
=============================================================================
