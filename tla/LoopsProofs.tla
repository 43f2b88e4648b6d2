---------------------------- MODULE LoopsProofs ----------------------------
(***************************************************************************)
(* What holds of the two loops of any compiled graph: any finders, items,  *)
(* classes, panels and slices, and any bounds on rounds and patches.       *)
(*                                                                         *)
(* The loops never run together and share INCOMPLETE and DECLINED only, so *)
(* the invariant of each is kept by the other as long as INCOMPLETE is     *)
(* never taken back.                                                       *)
(***************************************************************************)
EXTENDS Loops, TLAPS

\* A declined call is a hole that the campaign knows of.
CallsInv == incomplete \in BOOLEAN /\ declined \in Nat /\ (declined > 0 => incomplete)

\* Where the sweep is in its rounds, and what was dry of them.
RoundsInv ==
  /\ dry = calm /\ dry <= round
  /\ sweep \in {"call", "judge"} => dry < round /\ dry < DryTarget
  /\ sweep \notin {"off", "over"} => ended = "none"
  /\ sweep = "off" => ended \in {"none", "ok"}
  /\ sweep = "over" => ended # "none"
  /\ sweep = "over" /\ ended = "ok" /\ ~incomplete => dry >= DryTarget

\* What was brought, judged and kept.
JudgedInv ==
  /\ fresh \subseteq seen /\ kept \subseteq seen \ fresh
  /\ sweep # "judge" => fresh = {}
  /\ \A i \in Items : /\ judged[i] <= 1
                      /\ i \notin seen => judged[i] = 0
                      /\ i \in fresh /\ vote[i].round # round => judged[i] = 0
  /\ ~incomplete => \A i \in kept : vote[i].cast = Panel /\ vote[i].kills < Need

\* A class's count is the rounds on end that it survived, up to the last one.
ClassInv ==
  /\ \A c \in Classes : /\ class[c].rounds <= class[c].last /\ class[c].last <= round
                        /\ (class[c].last - class[c].rounds + 1) .. class[c].last \subseteq survived[c]
  /\ RecurringIsReal

SweepInv == SweepTypeOK /\ RoundsInv /\ JudgedInv /\ ClassInv

\* Every slice is pending or has passed; a review of nothing pending saw them all,
\* and outside of a batch nobody works.
ListInv ==
  /\ repair # "batch" => \A i \in Slices : work[i] = "idle"
  /\ repair = "off" => pending = {} /\ passed = {} /\ reviewed = {} /\ cut = 0
  /\ repair # "off" => pending \cup passed = Slices
  /\ repair = "round" /\ pending = {} => reviewed = Slices
  /\ repair # "over" => outcome = "none"
  /\ outcome = "ok" => pending = {} /\ reviewed = Slices

\* A worker that gave up stops its round.
CutInv ==
  /\ abort # "ok"
  /\ cut # 0 => /\ cut = rround /\ abort # "none"
                /\ repair \in {"batch", "over"} /\ outcome # "ok"

\* A patch is checked on a recurring class only with a reframe, so that no class
\* has failed more narrow patches than checks.
PatchInv ==
  /\ \A x \in Subjects, c \in Defects : narrow[x][c] <= streak[x][c]
  /\ \A i \in Slices : /\ work[i] = "check" => framed[i] \/ Recurs(i) = {}
                       /\ i \in passed \/ work[i] = "passed" => narrow[i] = None
  /\ repair = "review" => framed[Whole] \/ Recurs(Whole) = {}

RepairInv == RepairTypeOK /\ ListInv /\ CutInv /\ PatchInv

\* One loop after the other.
TurnInv ==
  /\ sweep # "off" => repair = "off"
  /\ repair # "off" => incomplete \/ swept
  /\ swept \in BOOLEAN

LoopsInv == CallsInv /\ SweepInv /\ RepairInv /\ TurnInv

(***************************************************************************)
(* The discovery                                                           *)
(***************************************************************************)
LEMMA SweepConstants ==
  /\ DryTarget \in Nat \ {0} /\ MaxRounds \in Nat \ {0} /\ Panel \in Nat \ {0}
  /\ ReframeAfter \in Nat \ {0}
  BY DiscoveryAssumption

\* However a call ends, INCOMPLETE is never taken back.
CallsGrow == CallsInv' /\ (incomplete => incomplete')

LEMMA Undeclined == CallsInv /\ UNCHANGED callVars => CallsGrow
  BY DEF CallsInv, callVars, CallsGrow

LEMMA Floored ==
  ASSUME CallsInv, incomplete' = TRUE, declined' \in Nat
  PROVE  CallsGrow
<1>1. incomplete' \in BOOLEAN
  BY Zenon
<1> QED
  BY <1>1 DEF CallsInv, CallsGrow

LEMMA Declined == ASSUME CallsInv, NEW m \in Nat, Declines(m) PROVE CallsGrow
<1>1. declined' \in Nat /\ declined' = declined + m
  BY DEF Declines, CallsInv
<1>2. CASE incomplete
  <2>1. incomplete' = TRUE
    BY <1>2 DEF Declines
  <2> QED
    BY <1>1, <2>1, Floored
<1>3. CASE m > 0
  <2>1. incomplete' = TRUE
    BY <1>3 DEF Declines
  <2> QED
    BY <1>1, <2>1, Floored
<1>4. CASE ~incomplete /\ ~(m > 0)
  <2>1. incomplete' = FALSE
    BY <1>4 DEF Declines
  <2>2. m = 0 /\ declined = 0
    BY <1>4 DEF CallsInv
  <2>3. declined' = 0
    BY <1>1, <2>2
  <2>4. incomplete' \in BOOLEAN
    BY <2>1, Zenon
  <2>5. ~(declined' > 0)
    BY <2>3
  <2> QED
    BY <1>1, <1>4, <2>4, <2>5 DEF CallsInv, CallsGrow
<1> QED
  BY <1>2, <1>3, <1>4

LEMMA RoundKeeps ==
  CallsInv /\ SweepInv /\ SweepRound /\ UNCHANGED haltOnRed => CallsInv' /\ SweepInv'
<1> SUFFICES ASSUME CallsInv, SweepInv, SweepRound, UNCHANGED haltOnRed
             PROVE  CallsInv' /\ SweepInv'
  OBVIOUS
<1> USE SweepConstants
<1>1. /\ sweep = "round" /\ dry < DryTarget /\ round < MaxRounds /\ round' = round + 1
      /\ UNCHANGED <<got, brought, dry, foundVars, sweepHistory, haltOnRed>>
      /\ \/ incomplete' = TRUE /\ declined' = declined /\ sweep' = "over" /\ ended' = "ok" /\ d0' = d0
         \/ sweep' = "call" /\ d0' = declined /\ UNCHANGED <<ended, callVars>>
  BY DEF SweepRound, Again, Unaffordable, End
<1>2. CallsInv'
  <2>1. declined \in Nat
    BY DEF CallsInv
  <2> QED
    BY <1>1, <2>1, Floored, Undeclined DEF CallsGrow
<1>3. SweepTypeOK'
  BY <1>1 DEF SweepInv, SweepTypeOK, CallsInv, foundVars, sweepHistory, Endings
<1>4. RoundsInv'
  BY <1>1 DEF SweepInv, SweepTypeOK, RoundsInv, sweepHistory, callVars
<1>5. JudgedInv'
  BY <1>1 DEF SweepInv, JudgedInv, foundVars, sweepHistory, CallsInv, callVars
<1>6. ClassInv'
  <2>1. \A c \in Classes : class[c].last \in Nat /\ round \in Nat
    BY DEF SweepInv, SweepTypeOK
  <2>2. ended' # "RECURRING-CLASS"
    BY <1>1 DEF SweepInv, RoundsInv
  <2> QED
    BY <1>1, <2>1, <2>2 DEF SweepInv, ClassInv, RecurringIsReal, foundVars, sweepHistory
<1> QED
  BY <1>2, <1>3, <1>4, <1>5, <1>6 DEF SweepInv

LEMMA FinderKeeps ==
  ASSUME CallsInv, SweepInv, NEW f \in Finders, Finder(f), UNCHANGED haltOnRed
  PROVE  CallsInv' /\ SweepInv'
<1>1. /\ sweep = "call" /\ UNCHANGED <<sweep, ended, roundVars, foundVars, sweepHistory, haltOnRed>>
      /\ Declines(1) \/ UNCHANGED callVars
  BY Zenon DEF Finder
<1>5. CallsInv' /\ (incomplete => incomplete')
  BY <1>1, Declined, Undeclined DEF CallsGrow
<1>2. /\ got' \in [Finders -> {"out", "dead", "declined", "back"}]
      /\ brought' \in [Finders -> SUBSET Items]
  BY DEF Finder, SweepInv, SweepTypeOK
<1>3. SweepTypeOK'
  BY <1>1, <1>2 DEF SweepInv, SweepTypeOK, roundVars, foundVars, sweepHistory
<1>4. RoundsInv' /\ JudgedInv' /\ ClassInv'
  BY <1>1, <1>5 DEF SweepInv, RoundsInv, JudgedInv, ClassInv, RecurringIsReal, roundVars, foundVars, sweepHistory
<1> QED
  BY <1>3, <1>4, <1>5 DEF SweepInv

LEMMA StopKeeps ==
  CallsInv /\ SweepInv /\ SweepStop /\ UNCHANGED haltOnRed => CallsInv' /\ SweepInv'
<1> SUFFICES ASSUME CallsInv, SweepInv, SweepStop, UNCHANGED haltOnRed
             PROVE  CallsInv' /\ SweepInv'
  OBVIOUS
<1>1. /\ sweep = "call" /\ sweep' = "over" /\ ended' \in {"ok", "BUDGET-EXHAUSTED", "NODE-DEAD"}
      /\ ended' = "ok" => declined > d0
      /\ UNCHANGED <<callVars, roundVars, foundVars, sweepHistory, haltOnRed>>
  BY DEF SweepStop, End, Returned
<1>2. d0 \in Nat /\ declined \in Nat
  BY DEF SweepInv, SweepTypeOK, CallsInv
<1>3. ended' = "ok" => incomplete
  BY <1>1, <1>2 DEF CallsInv
<1>4. SweepTypeOK'
  BY <1>1 DEF SweepStop, RoundForgotten, SweepInv, SweepTypeOK, roundVars, foundVars, sweepHistory, Endings
<1>5. RoundsInv' /\ JudgedInv' /\ ClassInv'
  BY <1>1, <1>3 DEF SweepInv, RoundsInv, JudgedInv, ClassInv, RecurringIsReal, roundVars, foundVars, sweepHistory, callVars
<1> QED
  BY <1>1, <1>4, <1>5 DEF CallsInv, SweepInv, callVars

LEMMA DryKeeps ==
  CallsInv /\ SweepInv /\ SweepDry /\ UNCHANGED haltOnRed => CallsInv' /\ SweepInv'
<1> SUFFICES ASSUME CallsInv, SweepInv, SweepDry, UNCHANGED haltOnRed
             PROVE  CallsInv' /\ SweepInv'
  OBVIOUS
<1> USE SweepConstants
<1>1. /\ sweep = "call" /\ sweep' = "round"
      /\ UNCHANGED <<callVars, round, d0, foundVars, ended, judged, survived, haltOnRed>>
      /\ \/ dry' = dry /\ calm' = calm
         \/ dry' = dry + 1 /\ calm' = calm + 1
  BY DEF SweepDry, Returned, Dries
<1>2. RoundsInv'
  BY <1>1 DEF SweepInv, SweepTypeOK, RoundsInv, callVars
<1>3. SweepTypeOK'
  BY <1>1 DEF SweepDry, RoundForgotten, SweepInv, SweepTypeOK, RoundsInv, foundVars
<1>4. JudgedInv' /\ ClassInv'
  BY <1>1 DEF SweepInv, JudgedInv, ClassInv, RecurringIsReal, foundVars, callVars
<1> QED
  BY <1>1, <1>2, <1>3, <1>4 DEF CallsInv, SweepInv, callVars

LEMMA FreshKeeps ==
  CallsInv /\ SweepInv /\ SweepFresh /\ UNCHANGED haltOnRed => CallsInv' /\ SweepInv'
<1> SUFFICES ASSUME CallsInv, SweepInv, SweepFresh, UNCHANGED haltOnRed
             PROVE  CallsInv' /\ SweepInv'
  OBVIOUS
<1> USE SweepConstants
<1>1. /\ sweep = "call" /\ sweep' = "judge" /\ dry' = 0 /\ calm' = 0
      /\ UNCHANGED <<callVars, round, d0, kept, vote, class, ended, judged, survived, haltOnRed>>
      /\ fresh' = Found \ seen /\ seen' = seen \cup Found
  BY DEF SweepFresh, Returned, Remembers
<1>2. Found \subseteq Items
  BY DEF Found, Back, SweepInv, SweepTypeOK
<1>3. RoundsInv'
  BY <1>1 DEF SweepInv, SweepTypeOK, RoundsInv, callVars
<1>4. SweepTypeOK'
  BY <1>1, <1>2 DEF SweepFresh, RoundForgotten, SweepInv, SweepTypeOK
<1>5. JudgedInv'
  BY <1>1 DEF SweepInv, SweepTypeOK, JudgedInv, callVars
<1>6. ClassInv'
  BY <1>1 DEF SweepInv, ClassInv, RecurringIsReal
<1> QED
  BY <1>1, <1>3, <1>4, <1>5, <1>6 DEF CallsInv, SweepInv, callVars

LEMMA JudgeKeeps ==
  ASSUME CallsInv, SweepInv, NEW i \in Items, Judge(i), UNCHANGED haltOnRed
  PROVE  CallsInv' /\ SweepInv'
<1> USE SweepConstants
<1>1. PICK cast \in 0 .. Panel, kills \in 0 .. Panel, died \in 0 .. Panel, refused \in 0 .. Panel :
        /\ Declines(refused)
        /\ vote' = [vote EXCEPT ![i] = [kills |-> kills, cast |-> cast, round |-> round]]
  BY DEF Judge
<1>2. /\ sweep = "judge" /\ i \in fresh /\ vote[i].round # round
      /\ judged' = [judged EXCEPT ![i] = @ + 1]
      /\ UNCHANGED <<sweep, ended, got, brought, roundVars, seen, kept, fresh, class, calm, survived, haltOnRed>>
  BY DEF Judge, Unjudged
<1>3. CallsInv' /\ (incomplete => incomplete')
  <2>1. refused \in Nat
    OBVIOUS
  <2> QED
    BY <1>1, <2>1, Declined DEF CallsGrow
<1>4. SweepTypeOK'
  <2>1. [kills |-> kills, cast |-> cast, round |-> round] \in [kills : 0 .. Panel, cast : 0 .. Panel, round : 0 .. MaxRounds]
    BY DEF SweepInv, SweepTypeOK
  <2>2. vote' \in [Items -> [kills : 0 .. Panel, cast : 0 .. Panel, round : 0 .. MaxRounds]]
    BY <1>1, <2>1 DEF SweepInv, SweepTypeOK
  <2>3. judged' \in [Items -> Nat]
    BY <1>2 DEF SweepInv, SweepTypeOK
  <2> QED
    BY <1>2, <2>2, <2>3 DEF SweepInv, SweepTypeOK, roundVars
<1>5. RoundsInv'
  BY <1>2, <1>3 DEF SweepInv, RoundsInv, roundVars
<1>6. \A j \in Items : j # i => vote'[j] = vote[j] /\ judged'[j] = judged[j]
  BY <1>1, <1>2 DEF SweepInv, SweepTypeOK
<1>7. judged[i] = 0 /\ judged'[i] = 1 /\ vote'[i].round = round
  BY <1>1, <1>2 DEF SweepInv, SweepTypeOK, JudgedInv
<1>8. JudgedInv'
  <2>1. i \in seen /\ i \notin kept
    BY <1>2 DEF SweepInv, JudgedInv
  <2>2. \A j \in Items : /\ judged'[j] <= 1
                         /\ j \notin seen => judged'[j] = 0
                         /\ j \in fresh /\ vote'[j].round # round => judged'[j] = 0
    <3> TAKE j \in Items
    <3>1. CASE j = i
      BY <1>7, <2>1, <3>1
    <3>2. CASE j # i
      BY <1>6, <3>2 DEF SweepInv, JudgedInv
    <3> QED
      BY <3>1, <3>2
  <2>3. ~incomplete' => \A j \in kept : vote'[j].cast = Panel /\ vote'[j].kills < Need
    BY <1>3, <1>6, <2>1 DEF SweepInv, SweepTypeOK, JudgedInv
  <2>4. UNCHANGED <<fresh, seen, kept, sweep, round, Need>>
    BY <1>2 DEF roundVars, Need
  <2> QED
    BY <2>2, <2>3, <2>4 DEF SweepInv, JudgedInv
<1>9. ClassInv'
  BY <1>2 DEF SweepInv, ClassInv, RecurringIsReal, roundVars
<1> QED
  BY <1>3, <1>4, <1>5, <1>8, <1>9 DEF SweepInv

LEMMA KeepKeeps ==
  CallsInv /\ SweepInv /\ SweepKeep /\ UNCHANGED haltOnRed => CallsInv' /\ SweepInv'
<1> SUFFICES ASSUME CallsInv, SweepInv, SweepKeep, UNCHANGED haltOnRed
             PROVE  CallsInv' /\ SweepInv'
  OBVIOUS
<1> USE SweepConstants
<1> DEFINE homeless == \E i \in Checked : ClassOf[i] = NoClass
<1>1. /\ sweep = "judge" /\ kept' = kept \cup Kept /\ fresh' = {}
      /\ UNCHANGED <<declined, got, brought, roundVars, seen, vote, calm, judged, haltOnRed>>
  BY DEF SweepKeep
<1>2. homeless => /\ sweep' = "over" /\ ended' = "MISSING-DEFECT-CLASS" /\ incomplete' = TRUE
                  /\ UNCHANGED <<class, survived>>
  BY DEF SweepKeep, End
<1>3. ~homeless =>
        /\ class' = [c \in Classes |-> IF c \in Surviving
                                      THEN [last |-> round, rounds |-> Streak(c)]
                                      ELSE class[c]]
        /\ survived' = [c \in Classes |-> IF c \in Surviving THEN survived[c] \cup {round}
                                         ELSE survived[c]]
        /\ incomplete' = (incomplete \/ Unchecked # {} \/ Recurring # {})
        /\ Recurring = {} => sweep' = "round" /\ UNCHANGED ended
        /\ Recurring # {} => sweep' = "over" /\ ended' \in {"RECURRING-CLASS", "ok"}
  BY DEF SweepKeep, End
<1> HIDE DEF homeless
<1>4. CallsInv'
  <2>1. declined \in Nat /\ declined' = declined /\ (declined > 0 => incomplete)
    BY <1>1 DEF CallsInv
  <2>2. incomplete' \in BOOLEAN
    BY <1>2, <1>3, Zenon
  <2>3. incomplete => incomplete'
    BY <1>2, <1>3, Zenon
  <2> QED
    BY <2>1, <2>2, <2>3 DEF CallsInv
<1>5. /\ incomplete => incomplete'
      /\ Unchecked # {} => incomplete'
      /\ ended' \in {"MISSING-DEFECT-CLASS", "ok", "RECURRING-CLASS"} \/ UNCHANGED ended
      /\ sweep' = "over" => incomplete' /\ ended' # "none"
      /\ sweep' # "over" => sweep' = "round" /\ UNCHANGED ended
      /\ ended' = "RECURRING-CLASS" => (~homeless /\ Recurring # {}) \/ UNCHANGED ended
  <2>1. CASE homeless
    BY <1>2, <2>1, Zenon
  <2>2. CASE ~homeless
    BY <1>3, <2>2, Zenon
  <2> QED
    BY <2>1, <2>2
<1>6. Kept \subseteq fresh /\ fresh \subseteq Items /\ fresh \subseteq seen
  BY DEF Kept, SweepInv, SweepTypeOK, JudgedInv
<1>7. round \in 1 .. MaxRounds
  BY <1>1 DEF SweepInv, SweepTypeOK, RoundsInv
<1>8. \A c \in Classes : class[c].last \in 0 .. MaxRounds /\ class[c].rounds \in 0 .. MaxRounds
  BY DEF SweepInv, SweepTypeOK
<1>9. \A c \in Classes : Streak(c) \in 1 .. round
  BY <1>7, <1>8 DEF Streak, SweepInv, ClassInv
<1>10. SweepTypeOK'
  <2>1. class' \in [Classes -> [last : 0 .. MaxRounds, rounds : 0 .. MaxRounds]]
    <3>1. \A c \in Classes : [last |-> round, rounds |-> Streak(c)] \in [last : 0 .. MaxRounds, rounds : 0 .. MaxRounds]
      BY <1>7, <1>9
    <3> QED
      BY <1>2, <1>3, <3>1 DEF SweepInv, SweepTypeOK
  <2>2. survived' \in [Classes -> SUBSET (1 .. MaxRounds)]
    BY <1>2, <1>3, <1>7 DEF SweepInv, SweepTypeOK
  <2>3. ended' \in Endings /\ sweep' \in {"round", "over"}
    BY <1>5 DEF SweepInv, SweepTypeOK, Endings
  <2> QED
    BY <1>1, <1>6, <2>1, <2>2, <2>3 DEF SweepInv, SweepTypeOK, roundVars
<1>11. RoundsInv'
  BY <1>1, <1>5 DEF SweepInv, RoundsInv, roundVars
<1>12. JudgedInv'
  <2>1. ~incomplete' => \A i \in Kept : vote[i].cast = Panel /\ vote[i].kills < Need
    <3>1. \A i \in Items : vote[i].cast \in 0 .. Panel
      BY DEF SweepInv, SweepTypeOK
    <3> QED
      BY <1>5, <1>6, <3>1 DEF Kept, Unchecked
  <2> QED
    BY <1>1, <1>5, <1>6, <2>1 DEF SweepInv, JudgedInv, roundVars
<1>13. ClassInv'
  <2>1. CASE homeless
    BY <1>1, <1>2, <2>1 DEF SweepInv, ClassInv, RecurringIsReal, roundVars
  <2>2. CASE ~homeless
    <3>1. \A c \in Classes :
            /\ class'[c].rounds <= class'[c].last /\ class'[c].last <= round
            /\ (class'[c].last - class'[c].rounds + 1) .. class'[c].last \subseteq survived'[c]
      <4> TAKE c \in Classes
      <4>1. /\ class[c].rounds <= class[c].last /\ class[c].last <= round
            /\ (class[c].last - class[c].rounds + 1) .. class[c].last \subseteq survived[c]
        BY DEF SweepInv, ClassInv
      <4>2. CASE c \in Surviving
        <5>1. class'[c].last = round /\ class'[c].rounds = Streak(c) /\ survived'[c] = survived[c] \cup {round}
          BY <1>3, <2>2, <4>2
        <5>2. (round - Streak(c) + 1) .. round \subseteq survived[c] \cup {round}
          BY <1>7, <1>8, <4>1 DEF Streak
        <5> QED
          BY <1>7, <1>9, <5>1, <5>2
      <4>3. CASE c \notin Surviving
        BY <1>3, <2>2, <4>1, <4>3
      <4> QED
        BY <4>2, <4>3
    <3>2. ASSUME Recurring # {} PROVE \E c \in Classes : (round - ReframeAfter + 1) .. round \subseteq survived'[c]
      <4>1. PICK c \in Classes : c \in Surviving /\ Streak(c) >= ReframeAfter
        BY <3>2 DEF Recurring, Surviving
      <4>2. class'[c].last = round /\ class'[c].rounds = Streak(c)
        BY <1>3, <2>2, <4>1
      <4>3. (round - Streak(c) + 1) .. round \subseteq survived'[c]
        BY <3>1, <4>2
      <4> QED
        BY <1>7, <1>9, <4>1, <4>3
    <3>3. ended # "RECURRING-CLASS"
      BY <1>1 DEF SweepInv, RoundsInv
    <3> QED
      BY <1>1, <1>5, <3>1, <3>2, <3>3 DEF ClassInv, RecurringIsReal, roundVars
  <2> QED
    BY <2>1, <2>2
<1> QED
  BY <1>4, <1>10, <1>11, <1>12, <1>13 DEF SweepInv

LEMMA OverKeeps ==
  CallsInv /\ SweepInv /\ SweepOver /\ UNCHANGED haltOnRed => CallsInv' /\ SweepInv'
<1> SUFFICES ASSUME CallsInv, SweepInv, SweepOver, UNCHANGED haltOnRed
             PROVE  CallsInv' /\ SweepInv'
  OBVIOUS
<1> USE SweepConstants
<1>1. /\ sweep = "round" /\ sweep' = "over" /\ ended' = "ok"
      /\ incomplete' = (incomplete \/ dry < DryTarget)
      /\ UNCHANGED <<declined, got, brought, roundVars, foundVars, sweepHistory, haltOnRed>>
  BY DEF SweepOver, End
<1>2. incomplete' \in BOOLEAN /\ (incomplete => incomplete') /\ (dry < DryTarget => incomplete')
  BY <1>1, Zenon
<1>3. CallsInv'
  BY <1>1, <1>2 DEF CallsInv
<1>4. SweepTypeOK'
  BY <1>1 DEF SweepInv, SweepTypeOK, roundVars, foundVars, sweepHistory, Endings
<1>5. RoundsInv'
  BY <1>1, <1>2 DEF SweepInv, SweepTypeOK, RoundsInv, roundVars, sweepHistory
<1>6. JudgedInv' /\ ClassInv'
  BY <1>1, <1>2 DEF SweepInv, JudgedInv, ClassInv, RecurringIsReal, roundVars, foundVars, sweepHistory
<1> QED
  BY <1>3, <1>4, <1>5, <1>6 DEF SweepInv

LEMMA SweepKeeps ==
  CallsInv /\ SweepInv /\ Sweep /\ UNCHANGED haltOnRed => CallsInv' /\ SweepInv'
  BY RoundKeeps, FinderKeeps, StopKeeps, DryKeeps, FreshKeeps, JudgeKeeps, KeepKeeps, OverKeeps
  DEF Sweep

(***************************************************************************)
(* The repair                                                              *)
(***************************************************************************)
LEMMA RepairConstants ==
  Whole \notin Slices /\ MaxRepairs \in Nat \ {0} /\ NarrowPatches \in Nat \ {0}
  BY RepairAssumption

\* A count that goes on for the classes of S, and starts anew for the others.
LEMMA LongerCounts ==
  ASSUME NEW top \in Nat \ {0}, NEW old \in [Defects -> 0 .. top], NEW S
  PROVE  /\ Longer(old, S, top) \in [Defects -> 0 .. top]
         /\ \A c \in Defects :
              Longer(old, S, top)[c] = IF c \in S THEN (IF old[c] < top THEN old[c] + 1 ELSE top) ELSE 0
<1>1. \A c \in Defects : Capped(old[c] + 1, top) = (IF old[c] < top THEN old[c] + 1 ELSE top)
  BY DEF Capped
<1>2. \A c \in Defects : Longer(old, S, top)[c] = IF c \in S THEN (IF old[c] < top THEN old[c] + 1 ELSE top) ELSE 0
  BY <1>1 DEF Longer
<1>3. Longer(old, S, top) = [c \in Defects |-> IF c \in S THEN Capped(old[c] + 1, top) ELSE 0]
  BY DEF Longer
<1>4. \A c \in Defects : (IF c \in S THEN Capped(old[c] + 1, top) ELSE 0) \in 0 .. top
  BY <1>1
<1> QED
  BY <1>2, <1>3, <1>4

LEMMA NoneCounts == \A top \in Nat : None \in [Defects -> 0 .. top]
  BY DEF None

LEMMA StrayedIs == Strayed => repair' = "over" /\ outcome' = "TREE-MOVED"
  BY DEF Strayed, Close

LEMMA RepairRoundKeeps ==
  CallsInv /\ RepairInv /\ RepairRound => CallsGrow /\ RepairInv'
<1> SUFFICES ASSUME CallsInv, RepairInv, RepairRound PROVE CallsGrow /\ RepairInv'
  OBVIOUS
<1> USE RepairConstants
<1>1. /\ repair = "round" /\ pending # {} /\ rround < MaxRepairs
      /\ rround' = rround + 1 /\ abort' = "none"
      /\ UNCHANGED <<callVars, pending, passed, streak, cut, framed, narrow, reviewed>>
      /\ \/ repair' = "over" /\ outcome' = "TREE-MOVED" /\ UNCHANGED work
         \/ /\ repair' = "batch" /\ outcome' = outcome
            /\ work' = [i \in Slices |-> IF i \in pending THEN "fix" ELSE "idle"]
  BY StrayedIs DEF RepairRound, repairHistory
<1>2. cut = 0 /\ outcome = "none"
  BY <1>1 DEF RepairInv, CutInv, ListInv
<1>3. RepairTypeOK'
  BY <1>1 DEF RepairInv, RepairTypeOK, Outcomes
<1>4. ListInv' /\ CutInv'
  BY <1>1, <1>2 DEF RepairInv, ListInv, CutInv
<1>5. PatchInv'
  <2>1. \A i \in Slices : work'[i] = work[i] \/ work'[i] \in {"fix", "idle"}
    BY <1>1
  <2>2. Recurs(Whole)' = Recurs(Whole) /\ \A i \in Slices : Recurs(i)' = Recurs(i)
    BY <1>1 DEF Recurs
  <2> QED
    BY <1>1, <2>1, <2>2 DEF RepairInv, PatchInv
<1> QED
  BY <1>1, <1>3, <1>4, <1>5, Undeclined DEF RepairInv

\* What a worker's step leaves alone, and where it may leave its slice.
Working(i) ==
  /\ repair = "batch" /\ work[i] \in {"fix", "check"}
  /\ UNCHANGED <<repair, listVars, outcome>>
  /\ \E at \in {"check", "cut", "passed", "failed"} :
       work' = [work EXCEPT ![i] = at]

LEMMA WorkingKeeps ==
  ASSUME RepairInv, NEW i \in Slices, Working(i),
         reviewed' \in SUBSET Slices, framed' \in [Subjects -> BOOLEAN],
         streak' \in [Subjects -> [Defects -> 0 .. NarrowPatches]],
         narrow' \in [Subjects -> [Defects -> 0 .. NarrowPatches + 1]],
         \/ UNCHANGED <<abort, cut>>
         \/ abort' \in Outcomes \ {"ok", "none"} /\ cut' = rround
  PROVE  RepairTypeOK' /\ ListInv' /\ CutInv'
<1>1. PICK at \in {"check", "cut", "passed", "failed"} : work' = [work EXCEPT ![i] = at]
  BY DEF Working
<1>2. /\ repair = "batch" /\ work[i] \in {"fix", "check"}
      /\ UNCHANGED <<repair, rround, pending, passed, outcome>>
  BY DEF Working, listVars
<1>3. i \in pending
  BY <1>2 DEF RepairInv, RepairTypeOK
<1>4. RepairTypeOK'
  BY <1>1, <1>2, <1>3 DEF RepairInv, RepairTypeOK
<1>5. ListInv'
  BY <1>2 DEF RepairInv, ListInv
<1>6. CutInv'
  BY <1>2 DEF RepairInv, CutInv, ListInv
<1> QED
  BY <1>4, <1>5, <1>6

\* Why a worker can give up.
LEMMA BlameIs == declined' \in Nat => Blame \in {"BUDGET-EXHAUSTED", "NODE-DEAD"}
  BY DEF Blame

LEMMA FixKeeps ==
  ASSUME CallsInv, RepairInv, NEW i \in Slices, Fix(i)
  PROVE  CallsGrow /\ RepairInv'
<1> USE RepairConstants
<1>1. repair = "batch" /\ work[i] = "fix" /\ UNCHANGED <<repair, listVars, streak, outcome, narrow>>
  BY DEF Fix
<1>2. CallsGrow
  <2>1. Unaffordable => CallsGrow
    <3>1. declined \in Nat
      BY DEF CallsInv
    <3> QED
      BY <3>1, Floored DEF Unaffordable
  <2> QED
    BY <2>1, Declined, Undeclined DEF Fix
<1>3. \/ /\ work' = [work EXCEPT ![i] = "cut"] /\ cut' = rround
         /\ abort' \in Outcomes \ {"ok", "none"}
         /\ UNCHANGED <<framed, reviewed>>
      \/ \E good \in Reframes(i) : Fixed(i, good)
  <2>1. declined' \in Nat
    BY <1>2 DEF CallsGrow, CallsInv
  <2>2. Blame \in Outcomes \ {"ok", "none"}
    BY <2>1, BlameIs DEF Outcomes
  <2> QED
    BY <2>2 DEF Fix, GiveUp, Outcomes
<1>4. CASE /\ work' = [work EXCEPT ![i] = "cut"] /\ cut' = rround
           /\ abort' \in Outcomes \ {"ok", "none"}
           /\ UNCHANGED <<framed, reviewed>>
  <2>1. Working(i)
    BY <1>1, <1>4 DEF Working
  <2>2. RepairTypeOK' /\ ListInv' /\ CutInv'
    <3>1. /\ reviewed' \in SUBSET Slices /\ framed' \in [Subjects -> BOOLEAN]
          /\ streak' \in [Subjects -> [Defects -> 0 .. NarrowPatches]]
          /\ narrow' \in [Subjects -> [Defects -> 0 .. NarrowPatches + 1]]
      BY <1>1, <1>4 DEF RepairInv, RepairTypeOK
    <3> QED
      BY <1>4, <2>1, <3>1, WorkingKeeps
  <2>3. PatchInv'
    <3>1. \A j \in Slices : work'[j] = work[j] \/ work'[j] = "cut"
      BY <1>4 DEF RepairInv, RepairTypeOK
    <3> QED
      BY <1>1, <1>4, <3>1 DEF RepairInv, PatchInv, Recurs, listVars
  <2> QED
    BY <1>2, <2>2, <2>3 DEF RepairInv
<1>5. ASSUME NEW good \in Reframes(i), Fixed(i, good) PROVE RepairInv'
  <2>1. good \in BOOLEAN
    BY DEF Reframes
  <2>2. framed' = [framed EXCEPT ![i] = good] /\ reviewed' = reviewed \ {i}
    BY <1>5 DEF Fixed
  <2>3. \/ /\ work' = [work EXCEPT ![i] = "cut"] /\ cut' = rround
           /\ abort' = "REFRAME-REQUIRED"
        \/ /\ work' = [work EXCEPT ![i] = "check"] /\ UNCHANGED <<abort, cut>>
           /\ Recurs(i) = {} \/ good
    BY <1>5 DEF Fixed, GiveUp
  <2>4. Working(i)
    BY <1>1, <2>3 DEF Working
  <2>5. RepairTypeOK' /\ ListInv' /\ CutInv'
    <3>1. /\ reviewed' \in SUBSET Slices /\ framed' \in [Subjects -> BOOLEAN]
          /\ streak' \in [Subjects -> [Defects -> 0 .. NarrowPatches]]
          /\ narrow' \in [Subjects -> [Defects -> 0 .. NarrowPatches + 1]]
      BY <1>1, <2>1, <2>2 DEF RepairInv, RepairTypeOK
    <3>2. \/ UNCHANGED <<abort, cut>>
          \/ abort' \in Outcomes \ {"ok", "none"} /\ cut' = rround
      BY <2>3 DEF Outcomes
    <3> QED
      BY <2>4, <3>1, <3>2, WorkingKeeps
  <2>6. PatchInv'
    <3>1. \A j \in Slices : j # i => work'[j] = work[j] /\ framed'[j] = framed[j]
      BY <2>2, <2>3 DEF RepairInv, RepairTypeOK, Subjects
    <3>2. framed'[i] = good
      BY <2>2 DEF RepairInv, RepairTypeOK, Subjects
    <3>3. work'[i] = "cut" \/ (work'[i] = "check" /\ (Recurs(i) = {} \/ good))
      BY <2>3 DEF RepairInv, RepairTypeOK
    <3>4. i \notin passed
      BY <1>1 DEF RepairInv, RepairTypeOK
    <3>5. Recurs(Whole)' = Recurs(Whole) /\ \A j \in Slices : Recurs(j)' = Recurs(j)
      BY <1>1 DEF Recurs
    <3>6. \A j \in Slices : /\ work'[j] = "check" => framed'[j] \/ Recurs(j)' = {}
                            /\ j \in passed \/ work'[j] = "passed" => narrow[j] = None
      <4> TAKE j \in Slices
      <4>1. CASE j = i
        BY <3>2, <3>3, <3>4, <3>5, <4>1
      <4>2. CASE j # i
        BY <3>1, <3>5, <4>2 DEF RepairInv, PatchInv
      <4> QED
        BY <4>1, <4>2
    <3> QED
      BY <1>1, <3>6 DEF RepairInv, PatchInv, listVars
  <2> QED
    BY <2>5, <2>6 DEF RepairInv
<1> QED
  BY <1>2, <1>3, <1>4, <1>5

LEMMA CheckKeeps ==
  ASSUME CallsInv, RepairInv, NEW i \in Slices, Check(i)
  PROVE  CallsGrow /\ RepairInv'
<1> USE RepairConstants
<1>1. repair = "batch" /\ work[i] = "check" /\ UNCHANGED <<repair, listVars, outcome, framed, reviewed>>
  BY DEF Check
<1>2. CallsGrow
  <2>1. Unaffordable => CallsGrow
    <3>1. declined \in Nat
      BY DEF CallsInv
    <3> QED
      BY <3>1, Floored DEF Unaffordable
  <2> QED
    BY <2>1, Declined, Undeclined DEF Check
<1>3. \/ /\ work' = [work EXCEPT ![i] = "cut"] /\ cut' = rround
         /\ abort' \in Outcomes \ {"ok", "none"}
         /\ UNCHANGED <<streak, narrow>>
      \/ /\ work' = [work EXCEPT ![i] = "passed"]
         /\ streak' = [streak EXCEPT ![i] = None] /\ narrow' = [narrow EXCEPT ![i] = None]
         /\ UNCHANGED <<abort, cut>>
      \/ CheckFails(i)
  <2>1. declined' \in Nat
    BY <1>2 DEF CallsGrow, CallsInv
  <2>2. Blame \in Outcomes \ {"ok", "none"}
    BY <2>1, BlameIs DEF Outcomes
  <2> QED
    BY <2>2 DEF Check, CheckPasses, GiveUp, Outcomes
<1>4. UNCHANGED <<passed, framed>> /\ i \notin passed /\ i \in Subjects /\ i # Whole
  BY <1>1 DEF RepairInv, RepairTypeOK, listVars, Subjects
<1>5. /\ reviewed' \in SUBSET Slices /\ framed' \in [Subjects -> BOOLEAN]
  BY <1>1 DEF RepairInv, RepairTypeOK
<1>6. ASSUME Working(i),
             streak' \in [Subjects -> [Defects -> 0 .. NarrowPatches]],
             narrow' \in [Subjects -> [Defects -> 0 .. NarrowPatches + 1]],
             \/ UNCHANGED <<abort, cut>>
             \/ abort' \in Outcomes \ {"ok", "none"} /\ cut' = rround,
             \A j \in Slices : j # i => work'[j] = work[j],
             work'[i] # "check", work'[i] = "passed" => narrow'[i] = None,
             \A x \in Subjects : x # i => streak'[x] = streak[x] /\ narrow'[x] = narrow[x],
             \A c \in Defects : narrow'[i][c] <= streak'[i][c]
      PROVE  RepairInv'
  <2>1. RepairTypeOK' /\ ListInv' /\ CutInv'
    BY <1>5, <1>6, WorkingKeeps
  <2>2. \A x \in Subjects, c \in Defects : narrow'[x][c] <= streak'[x][c]
    <3> TAKE x \in Subjects, c \in Defects
    <3>1. CASE x = i
      BY <1>6, <3>1
    <3>2. CASE x # i
      BY <1>6, <3>2 DEF RepairInv, PatchInv
    <3> QED
      BY <3>1, <3>2
  <2>3. \A j \in Slices : j # i => Recurs(j)' = Recurs(j) /\ narrow'[j] = narrow[j]
    BY <1>6 DEF Recurs, Subjects
  <2>4. \A j \in Slices : /\ work'[j] = "check" => framed'[j] \/ Recurs(j)' = {}
                          /\ j \in passed' \/ work'[j] = "passed" => narrow'[j] = None
    <3> TAKE j \in Slices
    <3>1. CASE j = i
      BY <1>4, <1>6, <3>1
    <3>2. CASE j # i
      BY <1>4, <1>6, <2>3, <3>2 DEF RepairInv, PatchInv
    <3> QED
      BY <3>1, <3>2
  <2>5. repair' # "review"
    BY <1>1
  <2>6. PatchInv'
    BY <2>2, <2>4, <2>5 DEF PatchInv
  <2> QED
    BY <2>1, <2>6 DEF RepairInv
<1>7. CASE /\ work' = [work EXCEPT ![i] = "cut"] /\ cut' = rround
           /\ abort' \in Outcomes \ {"ok", "none"}
           /\ UNCHANGED <<streak, narrow>>
  <2>1. Working(i)
    BY <1>1, <1>7 DEF Working
  <2> QED
    BY <1>2, <1>4, <1>6, <1>7, <2>1 DEF RepairInv, RepairTypeOK, PatchInv
<1>8. CASE /\ work' = [work EXCEPT ![i] = "passed"]
           /\ streak' = [streak EXCEPT ![i] = None] /\ narrow' = [narrow EXCEPT ![i] = None]
           /\ UNCHANGED <<abort, cut>>
  <2>1. Working(i)
    BY <1>1, <1>8 DEF Working
  <2>2. /\ streak' \in [Subjects -> [Defects -> 0 .. NarrowPatches]]
        /\ narrow' \in [Subjects -> [Defects -> 0 .. NarrowPatches + 1]]
    <3>1. None \in [Defects -> 0 .. NarrowPatches] /\ None \in [Defects -> 0 .. NarrowPatches + 1]
      BY NoneCounts
    <3> QED
      BY <1>8, <3>1 DEF RepairInv, RepairTypeOK
  <2>3. streak'[i] = None /\ narrow'[i] = None /\ work'[i] = "passed"
    BY <1>4, <1>8 DEF RepairInv, RepairTypeOK
  <2>4. \A c \in Defects : narrow'[i][c] <= streak'[i][c]
    BY <2>3 DEF None
  <2>5. /\ \A j \in Slices : j # i => work'[j] = work[j]
        /\ \A x \in Subjects : x # i => streak'[x] = streak[x] /\ narrow'[x] = narrow[x]
    BY <1>8 DEF RepairInv, RepairTypeOK
  <2> QED
    BY <1>2, <1>6, <1>8, <2>1, <2>2, <2>3, <2>4, <2>5
<1>9. CASE CheckFails(i)
  <2>1. PICK S \in SUBSET Defects :
          /\ work' = [work EXCEPT ![i] = "failed"]
          /\ streak' = [streak EXCEPT ![i] = Longer(streak[i], S, NarrowPatches)]
          /\ narrow' = [narrow EXCEPT ![i] = Longer(narrow[i], IF framed[i] THEN {} ELSE S, NarrowPatches + 1)]
          /\ UNCHANGED <<abort, cut>>
    BY <1>9 DEF CheckFails
  <2> DEFINE more == Longer(streak[i], S, NarrowPatches)
             bad == Longer(narrow[i], IF framed[i] THEN {} ELSE S, NarrowPatches + 1)
  <2>2. Working(i)
    BY <1>1, <2>1 DEF Working
  <2>3. streak[i] \in [Defects -> 0 .. NarrowPatches] /\ narrow[i] \in [Defects -> 0 .. NarrowPatches + 1]
    BY <1>4 DEF RepairInv, RepairTypeOK
  <2>4. /\ more \in [Defects -> 0 .. NarrowPatches]
        /\ \A c \in Defects : more[c] = IF c \in S THEN (IF streak[i][c] < NarrowPatches THEN streak[i][c] + 1 ELSE NarrowPatches) ELSE 0
    BY <2>3, LongerCounts
  <2>5. /\ bad \in [Defects -> 0 .. NarrowPatches + 1]
        /\ \A c \in Defects : bad[c] = IF c \in (IF framed[i] THEN {} ELSE S)
                                       THEN (IF narrow[i][c] < NarrowPatches + 1 THEN narrow[i][c] + 1 ELSE NarrowPatches + 1) ELSE 0
    <3>1. NarrowPatches + 1 \in Nat \ {0}
      OBVIOUS
    <3> QED
      BY <2>3, <3>1, LongerCounts
  <2>6. streak' = [streak EXCEPT ![i] = more] /\ narrow' = [narrow EXCEPT ![i] = bad]
    BY <2>1
  <2> HIDE DEF more, bad
  <2>7. \A c \in Defects : bad[c] <= more[c]
    <3> TAKE c \in Defects
    <3>1. CASE framed[i]
      BY <2>4, <2>5, <3>1
    <3>2. CASE ~framed[i]
      <4>1. Recurs(i) = {}
        BY <1>1, <3>2 DEF RepairInv, PatchInv
      <4>2. streak[i][c] < NarrowPatches
        BY <2>3, <4>1 DEF Recurs
      <4>3. narrow[i][c] <= streak[i][c]
        BY <1>4 DEF RepairInv, PatchInv
      <4>4. c \in (IF framed[i] THEN {} ELSE S) <=> c \in S
        BY <3>2
      <4> QED
        BY <2>3, <2>4, <2>5, <4>2, <4>3, <4>4
    <3> QED
      BY <3>1, <3>2
  <2>8. /\ streak' \in [Subjects -> [Defects -> 0 .. NarrowPatches]]
        /\ narrow' \in [Subjects -> [Defects -> 0 .. NarrowPatches + 1]]
        /\ streak'[i] = more /\ narrow'[i] = bad /\ work'[i] = "failed"
    BY <1>4, <2>1, <2>4, <2>5, <2>6 DEF RepairInv, RepairTypeOK
  <2>9. /\ \A j \in Slices : j # i => work'[j] = work[j]
        /\ \A x \in Subjects : x # i => streak'[x] = streak[x] /\ narrow'[x] = narrow[x]
    BY <2>1, <2>6 DEF RepairInv, RepairTypeOK
  <2> QED
    BY <1>2, <1>6, <2>1, <2>2, <2>7, <2>8, <2>9
<1> QED
  BY <1>3, <1>7, <1>8, <1>9

LEMMA BatchEndKeeps ==
  CallsInv /\ RepairInv /\ BatchEnd => CallsGrow /\ RepairInv'
<1> SUFFICES ASSUME CallsInv, RepairInv, BatchEnd PROVE CallsGrow /\ RepairInv'
  OBVIOUS
<1> USE RepairConstants
<1> DEFINE W == {i \in pending : work[i] = "passed"}
<1>1. /\ repair = "batch"
      /\ passed' = passed \cup W /\ pending' = pending \ W /\ work' = [i \in Slices |-> "idle"]
      /\ UNCHANGED <<rround, abort, streak, cut, framed, narrow, reviewed>>
      /\ \/ repair' = "over" /\ outcome' = "TREE-MOVED" /\ UNCHANGED callVars
         \/ abort # "none" /\ incomplete' = TRUE /\ repair' = "over" /\ outcome' = abort /\ declined' = declined
         \/ /\ abort = "none" /\ UNCHANGED <<callVars, outcome>>
            /\ repair' = (IF MergeDue THEN "merge" ELSE "round")
  BY StrayedIs DEF BatchEnd, BatchDone, repairHistory, Aborted, Close
<1>2. CallsGrow
  <2>1. declined \in Nat
    BY DEF CallsInv
  <2> QED
    BY <1>1, <2>1, Floored, Undeclined
<1>3. W \subseteq pending
  OBVIOUS
<1>4. \A i \in W : narrow[i] = None
  BY DEF RepairInv, RepairTypeOK, PatchInv
<1> HIDE DEF W
<1>5. RepairTypeOK'
  BY <1>1, <1>3 DEF RepairInv, RepairTypeOK, Outcomes
<1>6. ListInv'
  <2>1. outcome = "none" /\ pending \cup passed = Slices /\ reviewed \in SUBSET Slices
    BY <1>1 DEF RepairInv, ListInv, RepairTypeOK
  <2>2. outcome' # "ok"
    BY <1>1, <2>1 DEF RepairInv, CutInv
  <2>3. pending' \cup passed' = Slices
    BY <1>1, <1>3, <2>1
  <2>4. repair' = "round" /\ pending' = {} => reviewed = Slices
    <3>1. repair' = "round" /\ pending' = {} => passed' = {}
      BY <1>1 DEF MergeDue
    <3> QED
      BY <2>1, <2>3, <3>1
  <2>5. repair' \in {"over", "merge", "round"} /\ (repair' # "over" => outcome' = "none")
    BY <1>1, <2>1
  <2> QED
    BY <1>1, <2>2, <2>3, <2>4, <2>5 DEF ListInv
<1>7. CutInv'
  <2>1. outcome = "none"
    BY <1>1 DEF RepairInv, ListInv
  <2> QED
    BY <1>1, <2>1 DEF RepairInv, CutInv
<1>8. PatchInv'
  <2>1. \A i \in Slices : work'[i] = "idle" /\ (i \in passed' => narrow[i] = None)
    BY <1>1, <1>4 DEF RepairInv, PatchInv
  <2>2. repair' # "review"
    BY <1>1
  <2> QED
    BY <1>1, <2>1, <2>2 DEF RepairInv, PatchInv
<1> QED
  BY <1>2, <1>5, <1>6, <1>7, <1>8 DEF RepairInv

\* A merge or a review that is not done ends the campaign, and says why.
LEMMA StopIs ==
  ASSUME CallsInv, NEW hows \in SUBSET (Outcomes \ {"ok", "none"}), Stop(hows)
  PROVE  CallsGrow /\ repair' = "over" /\ outcome' \in Outcomes \ {"ok", "none"}
<1>1. incomplete' = TRUE /\ declined' \in Nat
  BY DEF Stop, CallsInv
<1>2. Blame \in Outcomes \ {"ok", "none"}
  BY <1>1, BlameIs DEF Outcomes
<1>3. repair' = "over" /\ \E how \in hows \cup {Blame} : outcome' = how
  BY DEF Stop, Close
<1> QED
  BY <1>1, <1>2, <1>3, Floored

LEMMA MergeKeeps ==
  CallsInv /\ RepairInv /\ Merge => CallsGrow /\ RepairInv'
<1> SUFFICES ASSUME CallsInv, RepairInv, Merge PROVE CallsGrow /\ RepairInv'
  OBVIOUS
<1> USE RepairConstants
<1>1. /\ repair = "merge" /\ UNCHANGED <<listVars, work, abort, streak, cut, narrow, reviewed>>
  BY DEF Merge
<1>2. Stops \subseteq Outcomes \ {"ok", "none"} /\ {"REFRAME-REQUIRED"} \subseteq Outcomes \ {"ok", "none"}
  BY DEF Stops, Outcomes
<1>3. /\ CallsGrow
      /\ \/ repair' = "over" /\ outcome' \in Outcomes \ {"ok", "none"}
         \/ repair' = "review" /\ outcome' = outcome /\ (framed'[Whole] \/ Recurs(Whole) = {})
      /\ framed' \in [Subjects -> BOOLEAN] /\ \A i \in Slices : framed'[i] = framed[i]
  <2>1. CASE Stop(Stops) /\ UNCHANGED framed
    BY <1>2, <2>1, StopIs DEF RepairInv, RepairTypeOK
  <2>2. ASSUME NEW good \in Reframes(Whole),
               framed' = [framed EXCEPT ![Whole] = good],
               \/ Recurs(Whole) # {} /\ ~good /\ Stop({"REFRAME-REQUIRED"})
               \/ /\ Recurs(Whole) = {} \/ good
                  /\ UNCHANGED callVars
                  /\ Strayed \/ (repair' = "review" /\ UNCHANGED outcome)
        PROVE  /\ CallsGrow
               /\ \/ repair' = "over" /\ outcome' \in Outcomes \ {"ok", "none"}
                  \/ repair' = "review" /\ outcome' = outcome /\ (framed'[Whole] \/ Recurs(Whole) = {})
               /\ framed' \in [Subjects -> BOOLEAN] /\ \A i \in Slices : framed'[i] = framed[i]
    <3>1. good \in BOOLEAN
      BY DEF Reframes
    <3>2. framed' \in [Subjects -> BOOLEAN] /\ framed'[Whole] = good /\ \A i \in Slices : framed'[i] = framed[i]
      BY <2>2, <3>1 DEF RepairInv, RepairTypeOK, Subjects
    <3>3. CallsGrow /\ \/ repair' = "over" /\ outcome' \in Outcomes \ {"ok", "none"}
                       \/ repair' = "review" /\ outcome' = outcome /\ (good \/ Recurs(Whole) = {})
      BY <1>2, <2>2, StopIs, StrayedIs, Undeclined DEF Outcomes
    <3> QED
      BY <3>2, <3>3
  <2> QED
    BY <2>1, <2>2 DEF Merge
<1>4. outcome = "none" /\ cut = 0
  BY <1>1 DEF RepairInv, ListInv, CutInv
<1>5. RepairTypeOK'
  BY <1>1, <1>3, <1>4 DEF RepairInv, RepairTypeOK, listVars, Outcomes
<1>6. ListInv' /\ CutInv'
  BY <1>1, <1>3, <1>4 DEF RepairInv, ListInv, CutInv, listVars
<1>7. PatchInv'
  BY <1>1, <1>3 DEF RepairInv, PatchInv, Recurs, listVars
<1> QED
  BY <1>3, <1>5, <1>6, <1>7 DEF RepairInv

LEMMA ReviewKeeps ==
  CallsInv /\ RepairInv /\ Review => CallsGrow /\ RepairInv'
<1> SUFFICES ASSUME CallsInv, RepairInv, Review PROVE CallsGrow /\ RepairInv'
  OBVIOUS
<1> USE RepairConstants
<1>1. repair = "review" /\ UNCHANGED <<rround, work, abort, cut, framed>>
  BY DEF Review
<1>2. outcome = "none" /\ cut = 0 /\ pending \cup passed = Slices /\ pending \cap passed = {}
  BY <1>1 DEF RepairInv, RepairTypeOK, ListInv, CutInv
<1>3. CASE /\ UNCHANGED <<pending, passed, streak, narrow, reviewed>>
           /\ CallsGrow /\ repair' = "over" /\ outcome' \in Outcomes \ {"ok", "none"}
  <2>1. RepairTypeOK'
    BY <1>1, <1>3 DEF RepairInv, RepairTypeOK, Outcomes
  <2>2. ListInv' /\ CutInv' /\ PatchInv'
    BY <1>1, <1>2, <1>3 DEF RepairInv, ListInv, CutInv, PatchInv, Recurs
  <2> QED
    BY <1>3, <2>1, <2>2 DEF RepairInv
<1>4. CASE UNCHANGED callVars /\ ReviewPasses /\ repair' = "round" /\ UNCHANGED outcome
  <2>1. /\ streak' = [streak EXCEPT ![Whole] = None] /\ narrow' = [narrow EXCEPT ![Whole] = None]
        /\ reviewed' = passed /\ UNCHANGED <<pending, passed>>
    BY <1>4 DEF ReviewPasses
  <2>2. /\ None \in [Defects -> 0 .. NarrowPatches] /\ None \in [Defects -> 0 .. NarrowPatches + 1]
        /\ \A c \in Defects : None[c] <= None[c]
    <3>1. None \in [Defects -> 0 .. NarrowPatches] /\ None \in [Defects -> 0 .. NarrowPatches + 1]
      BY NoneCounts
    <3> QED
      BY <3>1
  <2>3. RepairTypeOK'
    BY <1>1, <1>4, <2>1, <2>2 DEF RepairInv, RepairTypeOK
  <2>4. ListInv' /\ CutInv'
    BY <1>1, <1>2, <1>4, <2>1 DEF RepairInv, ListInv, CutInv
  <2>5. \A x \in Subjects : streak'[x] = (IF x = Whole THEN None ELSE streak[x])
                            /\ narrow'[x] = (IF x = Whole THEN None ELSE narrow[x])
    BY <2>1 DEF RepairInv, RepairTypeOK
  <2>6. \A x \in Subjects, c \in Defects : narrow'[x][c] <= streak'[x][c]
    <3> TAKE x \in Subjects, c \in Defects
    <3>1. CASE x = Whole
      BY <2>2, <2>5, <3>1
    <3>2. CASE x # Whole
      BY <2>5, <3>2 DEF RepairInv, PatchInv
    <3> QED
      BY <3>1, <3>2
  <2>7. \A i \in Slices : Recurs(i)' = Recurs(i) /\ narrow'[i] = narrow[i]
    BY <2>5 DEF Recurs, Subjects
  <2>8. PatchInv'
    BY <1>1, <1>4, <2>1, <2>6, <2>7 DEF RepairInv, PatchInv
  <2> QED
    BY <1>4, <2>3, <2>4, <2>8, Undeclined DEF RepairInv
<1>5. CASE UNCHANGED callVars /\ ReviewFails /\ repair' = "round" /\ UNCHANGED outcome
  <2>1. PICK S \in SUBSET Defects :
          /\ streak' = [x \in Subjects |-> IF x \in passed \cup {Whole}
                                           THEN Longer(streak[Whole], S, NarrowPatches) ELSE streak[x]]
          /\ narrow' = [narrow EXCEPT ![Whole] =
                          Longer(narrow[Whole], IF framed[Whole] THEN {} ELSE S, NarrowPatches + 1)]
          /\ pending' = Reopen /\ passed' = passed \ pending' /\ UNCHANGED reviewed
    BY <1>5 DEF ReviewFails
  <2> DEFINE more == Longer(streak[Whole], S, NarrowPatches)
             bad == Longer(narrow[Whole], IF framed[Whole] THEN {} ELSE S, NarrowPatches + 1)
  <2>2. Whole \in Subjects /\ streak[Whole] \in [Defects -> 0 .. NarrowPatches]
        /\ narrow[Whole] \in [Defects -> 0 .. NarrowPatches + 1]
    BY DEF RepairInv, RepairTypeOK, Subjects
  <2>3. /\ more \in [Defects -> 0 .. NarrowPatches]
        /\ \A c \in Defects : more[c] = IF c \in S THEN (IF streak[Whole][c] < NarrowPatches THEN streak[Whole][c] + 1 ELSE NarrowPatches) ELSE 0
    BY <2>2, LongerCounts
  <2>4. /\ bad \in [Defects -> 0 .. NarrowPatches + 1]
        /\ \A c \in Defects : bad[c] = IF c \in (IF framed[Whole] THEN {} ELSE S)
                                       THEN (IF narrow[Whole][c] < NarrowPatches + 1 THEN narrow[Whole][c] + 1 ELSE NarrowPatches + 1) ELSE 0
    <3>1. NarrowPatches + 1 \in Nat \ {0}
      OBVIOUS
    <3> QED
      BY <2>2, <3>1, LongerCounts
  <2>5. /\ streak' = [x \in Subjects |-> IF x \in passed \cup {Whole} THEN more ELSE streak[x]]
        /\ narrow' = [narrow EXCEPT ![Whole] = bad]
    BY <2>1
  <2> HIDE DEF more, bad
  <2>6. pending' = Slices /\ passed' = {} /\ reviewed' = reviewed
    BY <1>2, <2>1 DEF Reopen
  <2>7. \A x \in Subjects : /\ x \in passed => narrow[x] = None
                            /\ x # Whole => narrow'[x] = narrow[x]
    BY <2>5 DEF RepairInv, RepairTypeOK, PatchInv
  <2>8. \A c \in Defects : bad[c] <= more[c]
    <3> TAKE c \in Defects
    <3>1. CASE framed[Whole]
      BY <2>3, <2>4, <3>1
    <3>2. CASE ~framed[Whole]
      <4>1. Recurs(Whole) = {}
        BY <1>1, <3>2 DEF RepairInv, PatchInv
      <4>2. streak[Whole][c] < NarrowPatches
        BY <2>2, <4>1 DEF Recurs
      <4>3. narrow[Whole][c] <= streak[Whole][c]
        BY <2>2 DEF RepairInv, PatchInv
      <4>4. c \in (IF framed[Whole] THEN {} ELSE S) <=> c \in S
        BY <3>2
      <4> QED
        BY <2>2, <2>3, <2>4, <4>2, <4>3, <4>4
    <3> QED
      BY <3>1, <3>2
  <2>9. \A x \in Subjects, c \in Defects : narrow'[x][c] <= streak'[x][c]
    <3> TAKE x \in Subjects, c \in Defects
    <3>1. CASE x = Whole
      BY <2>5, <2>8, <3>1 DEF RepairInv, RepairTypeOK
    <3>2. CASE x \in passed
      <4>1. narrow'[x] = None /\ streak'[x] = more /\ None[c] = 0
        BY <2>5, <2>7, <3>2 DEF None, RepairInv, RepairTypeOK
      <4> QED
        BY <2>3, <4>1
    <3>3. CASE x # Whole /\ x \notin passed
      BY <2>5, <2>7, <3>3 DEF RepairInv, PatchInv
    <3> QED
      BY <3>1, <3>2, <3>3
  <2>10. RepairTypeOK'
    <3>1. /\ streak' \in [Subjects -> [Defects -> 0 .. NarrowPatches]]
          /\ narrow' \in [Subjects -> [Defects -> 0 .. NarrowPatches + 1]]
      BY <2>3, <2>4, <2>5 DEF RepairInv, RepairTypeOK
    <3> QED
      BY <1>1, <1>5, <2>6, <3>1 DEF RepairInv, RepairTypeOK
  <2>11. \A i \in Slices : work[i] \notin {"check", "passed"}
    BY <1>1 DEF RepairInv, ListInv
  <2>12. PatchInv'
    BY <1>1, <1>5, <2>6, <2>9, <2>11 DEF RepairInv, PatchInv
  <2>13. ListInv' /\ CutInv'
    BY <1>1, <1>2, <1>5, <2>6 DEF RepairInv, RepairTypeOK, ListInv, CutInv
  <2> QED
    BY <1>5, <2>10, <2>12, <2>13, Undeclined DEF RepairInv
<1> QED
  <2>1. Stops \subseteq Outcomes \ {"ok", "none"} /\ Stops \cup {"REFRAME-REQUIRED"} \subseteq Outcomes \ {"ok", "none"}
    BY DEF Stops, Outcomes
  <2>2. \/ /\ Stop(Stops) \/ Stop(Stops \cup {"REFRAME-REQUIRED"}) \/ (UNCHANGED callVars /\ Strayed)
           /\ UNCHANGED <<pending, passed, streak, narrow, reviewed>>
        \/ UNCHANGED callVars /\ (ReviewPasses \/ ReviewFails) /\ repair' = "round" /\ UNCHANGED outcome
    BY DEF Review
  <2> QED
    BY <1>3, <1>4, <1>5, <2>1, <2>2, StopIs, StrayedIs, Undeclined DEF Outcomes

LEMMA RepairOverKeeps ==
  CallsInv /\ RepairInv /\ RepairOver => CallsGrow /\ RepairInv'
<1> SUFFICES ASSUME CallsInv, RepairInv, RepairOver PROVE CallsGrow /\ RepairInv'
  OBVIOUS
<1>1. /\ repair = "round" /\ repair' = "over"
      /\ UNCHANGED <<listVars, work, abort, streak, cut, framed, narrow, reviewed>>
      /\ \/ pending = {} /\ outcome' = "ok" /\ UNCHANGED callVars
         \/ outcome' = "INCOMPLETE" /\ incomplete' = TRUE /\ declined' = declined
  BY DEF RepairOver, Close, repairHistory
<1>2. CallsGrow
  <2>1. declined \in Nat
    BY DEF CallsInv
  <2> QED
    BY <1>1, <2>1, Floored, Undeclined
<1>3. RepairTypeOK'
  BY <1>1 DEF RepairInv, RepairTypeOK, Outcomes, listVars
<1>4. ListInv' /\ CutInv' /\ PatchInv'
  BY <1>1 DEF RepairInv, ListInv, CutInv, PatchInv, Recurs, listVars
<1> QED
  BY <1>2, <1>3, <1>4 DEF RepairInv

LEMMA RepairKeeps == CallsInv /\ RepairInv /\ RepairLoop => CallsGrow /\ RepairInv'
  BY RepairRoundKeeps, FixKeeps, CheckKeeps, BatchEndKeeps, MergeKeeps, ReviewKeeps, RepairOverKeeps
  DEF RepairLoop

(***************************************************************************)
(* The campaign                                                            *)
(***************************************************************************)
LEMMA SweepStepIs == Sweep => sweep \notin {"off", "over"} /\ sweep' # "off"
<1> SUFFICES ASSUME Sweep PROVE sweep \notin {"off", "over"} /\ sweep' # "off"
  OBVIOUS
<1>1. \A how : End(how) => sweep' = "over"
  BY DEF End
<1> QED
  BY <1>1 DEF Sweep, SweepRound, Finder, SweepStop, SweepDry, SweepFresh, Judge, SweepKeep, SweepOver, Returned

LEMMA RepairStepIs == RepairLoop => repair # "off" /\ repair' # "off"
<1> SUFFICES ASSUME RepairLoop PROVE repair # "off" /\ repair' # "off"
  OBVIOUS
<1>1. (Strayed => repair' # "off") /\ \A how : Close(how) => repair' # "off"
  BY DEF Strayed, Close
<1>2. \A hows : Stop(hows) => repair' # "off"
  BY <1>1 DEF Stop
<1>3. RepairRound \/ BatchEnd \/ RepairOver => repair # "off" /\ repair' # "off"
  BY <1>1 DEF RepairRound, BatchEnd, BatchDone, RepairOver
<1>4. Merge \/ Review => repair # "off" /\ repair' # "off"
  BY <1>1, <1>2 DEF Merge, Review
<1>5. \A i \in Slices : Fix(i) \/ Check(i) => repair # "off" /\ repair' # "off"
  BY DEF Fix, Check
<1> QED
  BY <1>3, <1>4, <1>5 DEF RepairLoop

LEMMA LoopsInitial == Init => LoopsInv
<1> SUFFICES ASSUME Init PROVE LoopsInv
  OBVIOUS
<1> USE SweepConstants, RepairConstants
<1>1. CallsInv
  <2>1. incomplete = FALSE /\ declined = 0
    BY DEF Init, CallsInit
  <2> QED
    <3>1. incomplete \in BOOLEAN /\ ~incomplete
      BY <2>1, Zenon
    <3>2. declined \in Nat /\ ~(declined > 0)
      BY <2>1
    <3> QED
      BY <3>1, <3>2, Zenon DEF CallsInv
<1>2. SweepTypeOK
  BY DEF Init, SweepInit, SweepTypeOK, NoVote, Endings
<1>3. RoundsInv /\ ClassInv
  BY DEF Init, SweepInit, RoundsInv, ClassInv, RecurringIsReal
<1>4. JudgedInv
  BY DEF Init, SweepInit, JudgedInv
<1>5. RepairTypeOK
  BY NoneCounts DEF Init, RepairInit, RepairTypeOK, Outcomes
<1>6. ListInv /\ CutInv
  BY DEF Init, RepairInit, ListInv, CutInv
<1>7. PatchInv
  BY DEF Init, RepairInit, PatchInv, None
<1>8. TurnInv
  BY DEF Init, SweepInit, RepairInit, TurnInv
<1> QED
  BY <1>1, <1>2, <1>3, <1>4, <1>5, <1>6, <1>7, <1>8 DEF LoopsInv, SweepInv, RepairInv

LEMMA StartSweepKeeps == LoopsInv /\ StartSweep => LoopsInv'
<1> SUFFICES ASSUME LoopsInv, StartSweep PROVE LoopsInv'
  OBVIOUS
<1>1. /\ sweep = "off" /\ repair = "off" /\ ended = "none" /\ sweep' = "round"
      /\ UNCHANGED <<incomplete, declined, haltOnRed, round, dry, d0, got, brought, seen, kept, fresh,
                     vote, class, ended, calm, judged, survived, swept>>
      /\ UNCHANGED <<repair, rround, pending, passed, work, abort, streak, outcome, cut, framed, narrow,
                     reviewed>>
  BY DEF StartSweep, callVars, foundVars, sweepHistory, repairVars
<1>2. CallsInv'
  BY <1>1 DEF LoopsInv, CallsInv
<1>3. SweepTypeOK' /\ RoundsInv'
  BY <1>1 DEF LoopsInv, SweepInv, SweepTypeOK, RoundsInv
<1>4. JudgedInv' /\ ClassInv'
  BY <1>1 DEF LoopsInv, SweepInv, JudgedInv, ClassInv, RecurringIsReal
<1>5. RepairInv'
  BY <1>1 DEF LoopsInv, RepairInv, RepairTypeOK, ListInv, CutInv, PatchInv, Recurs
<1>6. TurnInv'
  BY <1>1 DEF LoopsInv, TurnInv
<1> QED
  BY <1>2, <1>3, <1>4, <1>5, <1>6 DEF LoopsInv, SweepInv

LEMMA StartRepairKeeps == LoopsInv /\ StartRepair => LoopsInv'
<1> SUFFICES ASSUME LoopsInv, StartRepair PROVE LoopsInv'
  OBVIOUS
<1> USE SweepConstants
<1>1. /\ sweep = "over" /\ ended = "ok" /\ repair = "off" /\ sweep' = "off"
      /\ swept' = (calm >= DryTarget) /\ declined' = Capped(declined, 1)
      /\ repair' = "round" /\ pending' = Slices
      /\ UNCHANGED <<incomplete, haltOnRed, ended, rround, passed, work, abort, streak, outcome, cut,
                     framed, narrow, reviewed>>
  BY DEF StartRepair, repairHistory
<1>2. /\ round' = 0 /\ dry' = 0 /\ d0' = 0 /\ calm' = 0
      /\ got' = [f \in Finders |-> "out"] /\ brought' = [f \in Finders |-> {}]
      /\ seen' = {} /\ kept' = {} /\ fresh' = {} /\ vote' = [i \in Items |-> NoVote]
      /\ class' = [c \in Classes |-> [last |-> 0, rounds |-> 0]]
      /\ judged' = [i \in Items |-> 0] /\ survived' = [c \in Classes |-> {}]
  BY DEF StartRepair
<1>3. CallsInv'
  <2>1. declined' \in Nat /\ (declined' > 0 => declined > 0)
    BY <1>1 DEF LoopsInv, CallsInv, Capped
  <2> QED
    BY <1>1, <2>1 DEF LoopsInv, CallsInv
<1>4. SweepTypeOK'
  BY <1>1, <1>2 DEF LoopsInv, SweepInv, SweepTypeOK, NoVote, Endings
<1>5. RoundsInv' /\ ClassInv'
  BY <1>1, <1>2 DEF RoundsInv, ClassInv, RecurringIsReal
<1>6. JudgedInv'
  BY <1>1, <1>2 DEF JudgedInv
<1>7. passed = {} /\ pending = {} /\ reviewed = {} /\ cut = 0 /\ outcome = "none"
  BY <1>1 DEF LoopsInv, RepairInv, ListInv
<1>8. RepairTypeOK'
  BY <1>1, <1>7 DEF LoopsInv, RepairInv, RepairTypeOK
<1>9. ListInv' /\ CutInv' /\ PatchInv'
  BY <1>1, <1>7 DEF LoopsInv, RepairInv, ListInv, CutInv, PatchInv, Recurs
<1>10. TurnInv'
  <2>1. ~incomplete => calm >= DryTarget
    BY <1>1 DEF LoopsInv, SweepInv, RoundsInv
  <2>2. swept' \in BOOLEAN /\ (calm >= DryTarget => swept')
    <3>1. calm \in Int /\ DryTarget \in Int
      BY DEF LoopsInv, SweepInv, SweepTypeOK
    <3>2. (calm >= DryTarget) \in BOOLEAN
      BY <3>1
    <3> QED
      BY <1>1, <3>2, Zenon
  <2> QED
    BY <1>1, <2>1, <2>2 DEF TurnInv
<1> QED
  BY <1>3, <1>4, <1>5, <1>6, <1>8, <1>9, <1>10 DEF LoopsInv, SweepInv, RepairInv

LEMMA LoopsNext == LoopsInv /\ [Next]_vars => LoopsInv'
<1> SUFFICES ASSUME LoopsInv, [Next]_vars PROVE LoopsInv'
  OBVIOUS
<1>1. CASE StartSweep
  BY <1>1, StartSweepKeeps
<1>2. CASE StartRepair
  BY <1>2, StartRepairKeeps
<1>3. CASE Sweep /\ UNCHANGED <<haltOnRed, repairVars, swept>>
  <2>1. CallsInv' /\ SweepInv'
    BY <1>3, SweepKeeps DEF LoopsInv
  <2>2. RepairInv'
    BY <1>3 DEF LoopsInv, RepairInv, RepairTypeOK, ListInv, CutInv, PatchInv, Recurs, repairVars
  <2>3. repair = "off" /\ repair' = "off" /\ swept' = swept
    BY <1>3, SweepStepIs DEF LoopsInv, TurnInv, repairVars
  <2> QED
    BY <2>1, <2>2, <2>3 DEF LoopsInv, TurnInv
<1>4. CASE RepairLoop /\ UNCHANGED <<sweepVars, swept>>
  <2>1. CallsGrow /\ RepairInv'
    BY <1>4, RepairKeeps DEF LoopsInv
  <2>2. SweepTypeOK' /\ RoundsInv'
    BY <1>4, <2>1 DEF LoopsInv, CallsGrow, SweepInv, SweepTypeOK, RoundsInv, sweepVars
  <2>3. JudgedInv' /\ ClassInv'
    BY <1>4, <2>1 DEF LoopsInv, CallsGrow, SweepInv, JudgedInv, ClassInv, RecurringIsReal, sweepVars
  <2>4. TurnInv'
    BY <1>4, <2>1, RepairStepIs DEF LoopsInv, CallsGrow, TurnInv, sweepVars
  <2> QED
    BY <2>1, <2>2, <2>3, <2>4 DEF LoopsInv, CallsGrow, SweepInv
<1>5. CASE UNCHANGED vars
  <2>1. CallsInv' /\ TurnInv'
    BY <1>5 DEF LoopsInv, CallsInv, TurnInv, vars, callVars, sweepVars, repairVars
  <2>2. SweepInv'
    BY <1>5 DEF LoopsInv, SweepInv, SweepTypeOK, RoundsInv, JudgedInv, ClassInv, RecurringIsReal, vars, callVars, sweepVars
  <2>3. RepairInv'
    BY <1>5 DEF LoopsInv, RepairInv, RepairTypeOK, ListInv, CutInv, PatchInv, Recurs, vars, repairVars
  <2> QED
    BY <2>1, <2>2, <2>3 DEF LoopsInv
<1> QED
  BY <1>1, <1>2, <1>3, <1>4, <1>5 DEF Next

\* The inductive invariant of the two loops, whatever their bounds.
THEOREM LoopsCorrect == Spec => []LoopsInv
  BY LoopsInitial, LoopsNext, PTL DEF Spec

\* Every variable of the loops stays in its type, whatever their bounds.
THEOREM TypeCorrect == Spec => []TypeOK
<1>1. LoopsInv => TypeOK
  BY DEF LoopsInv, CallsInv, SweepInv, RepairInv, TurnInv, TypeOK
<1> QED
  BY <1>1, LoopsCorrect, PTL

\* A sweep of any finders that ends without INCOMPLETE had its dry rounds of a full
\* roster, one after the other and since the last new item.
THEOREM SweepExhausts == Spec => []SweptIsExhausted
<1>1. LoopsInv => SweptIsExhausted
  BY DEF LoopsInv, SweepInv, RoundsInv, SweptIsExhausted
<1> QED
  BY <1>1, LoopsCorrect, PTL

\* No item is judged twice, and what a sweep without INCOMPLETE hands on stood before
\* a full panel, for panels of any size.
THEOREM PanelHonest == Spec => []PanelIsHonest
<1>1. LoopsInv => PanelIsHonest
  BY DEF LoopsInv, SweepInv, JudgedInv, PanelIsHonest, JudgedOnce, KeptIsVoted
<1> QED
  BY <1>1, LoopsCorrect, PTL

\* A class called recurring survived each of the last rounds, and no subject is
\* checked on a class with one narrow patch more than allowed, for any limits.
THEOREM ReframeDue == Spec => []ReframeIsDue
<1>1. LoopsInv => ReframeIsDue
  <2> SUFFICES ASSUME LoopsInv PROVE RecurringIsReal /\ NoThirdNarrowPatch
    BY DEF ReframeIsDue
  <2>1. \A x \in Subjects, c \in Defects : /\ narrow[x][c] \in Int /\ streak[x][c] \in 0 .. NarrowPatches
                                           /\ narrow[x][c] <= streak[x][c]
    BY RepairConstants DEF LoopsInv, RepairInv, RepairTypeOK, PatchInv
  <2>2. NoThirdNarrowPatch
    BY <2>1, RepairConstants DEF NoThirdNarrowPatch
  <2> QED
    BY <2>2 DEF LoopsInv, SweepInv, ClassInv
<1> QED
  BY <1>1, LoopsCorrect, PTL

\* A campaign that ends COMPLETE searched to the end and had all slices' last patches
\* in a merged tree that passed its review; a worker that gave up ends the loop.
THEOREM OutcomeTrue == Spec => []OutcomeIsTrue
<1>1. LoopsInv => OutcomeIsTrue
  <2> SUFFICES ASSUME LoopsInv PROVE CompleteIsWhole /\ CutEndsLoop
    BY DEF OutcomeIsTrue
  <2>1. CutEndsLoop
    BY DEF LoopsInv, RepairInv, CutInv, CutEndsLoop
  <2>2. outcome = "ok" => repair # "off"
    BY DEF LoopsInv, RepairInv, ListInv
  <2>3. CompleteIsWhole
    BY <2>2 DEF LoopsInv, RepairInv, ListInv, TurnInv, CompleteIsWhole
  <2> QED
    BY <2>1, <2>3
<1> QED
  BY <1>1, LoopsCorrect, PTL
=============================================================================
