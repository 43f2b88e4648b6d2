----------------------------- MODULE Discovery -----------------------------
(***************************************************************************)
(* Loop-until-dry discovery, emit_repeat of compile-graph.py: finders look *)
(* in rounds until DryTarget rounds in a row bring nothing new, items are  *)
(* judged once by a panel, and a class of defects that keeps surviving     *)
(* ends the sweep.  A round whose finders died or were declined proves     *)
(* nothing about their ground.                                             *)
(*                                                                         *)
(* A finder's call and an item's panel are one step each: calls in flight, *)
(* their reservations and halts from other lanes are Campaign's.           *)
(***************************************************************************)
EXTENDS Calls, Integers, FiniteSets

CONSTANTS Finders, Items,
          ClassOf,      \* item -> its defect class, NoClass when it has none
          NoClass,
          DryTarget,    \* repeat.untilDryRounds
          MaxRounds,    \* repeat.maxRounds
          Panel,        \* refuters of an item
          ReframeAfter  \* repeat.reframeAfter

Classes == {ClassOf[i] : i \in Items} \ {NoClass}
Need == (Panel + 1) \div 2

ASSUME DiscoveryAssumption ==
  /\ {DryTarget, MaxRounds, Panel, ReframeAfter} \subseteq Nat \ {0}
  /\ DOMAIN ClassOf = Items

VARIABLES
  haltOnRed, \* onRed: halt, of the graph at hand
  sweep,     \* "off", "round", "call", "judge", "over"
  round, dry,
  d0,        \* DECLINED when the round began
  got,       \* finder -> "out", "dead", "declined" or "back"
  brought,   \* finder -> the items it returned
  seen, kept, fresh,
  vote,      \* item -> kills and cast of its last panel, and its round
  class,     \* class -> the last round it survived in, and for how many rounds on end
  ended,     \* how the sweep ended
  calm,      \* history: complete rounds since the last new item
  judged,    \* history: item -> how often a panel was called on it
  survived   \* history: class -> the rounds it survived in

sweepVars == <<haltOnRed, sweep, round, dry, d0, got, brought, seen, kept, fresh, vote, class,
               ended, calm, judged, survived>>

NoVote == [kills |-> 0, cast |-> 0, round |-> 0]
Endings == {"none", "ok", "BUDGET-EXHAUSTED", "NODE-DEAD", "MISSING-DEFECT-CLASS",
            "RECURRING-CLASS"}

SweepTypeOK ==
  /\ haltOnRed \in BOOLEAN
  /\ sweep \in {"off", "round", "call", "judge", "over"}
  /\ round \in 0 .. MaxRounds /\ dry \in 0 .. DryTarget /\ d0 \in Nat
  /\ got \in [Finders -> {"out", "dead", "declined", "back"}]
  /\ brought \in [Finders -> SUBSET Items]
  /\ {seen, kept, fresh} \subseteq SUBSET Items
  /\ vote \in [Items -> [kills : 0 .. Panel, cast : 0 .. Panel, round : 0 .. MaxRounds]]
  /\ class \in [Classes -> [last : 0 .. MaxRounds, rounds : 0 .. MaxRounds]]
  /\ ended \in Endings /\ calm \in 0 .. MaxRounds
  /\ judged \in [Items -> Nat] /\ survived \in [Classes -> SUBSET (1 .. MaxRounds)]

SweepInit ==
  /\ sweep = "off" /\ round = 0 /\ dry = 0 /\ d0 = 0
  /\ got = [f \in Finders |-> "out"] /\ brought = [f \in Finders |-> {}]
  /\ seen = {} /\ kept = {} /\ fresh = {} /\ vote = [i \in Items |-> NoVote]
  /\ class = [c \in Classes |-> [last |-> 0, rounds |-> 0]]
  /\ ended = "none" /\ calm = 0 /\ judged = [i \in Items |-> 0]
  /\ survived = [c \in Classes |-> {}]

foundVars == <<seen, kept, fresh, vote, class>>
roundVars == <<round, dry, d0>>
sweepHistory == <<calm, judged, survived>>

End(how) == sweep' = "over" /\ ended' = how

Again == dry < DryTarget /\ round < MaxRounds

\* What the finders returned is the round's own.
RoundForgotten == got' = [f \in Finders |-> "out"] /\ brought' = [f \in Finders |-> {}]

\* The floor ends the sweep; else every finder is sent out.
SweepRound ==
  /\ sweep = "round" /\ Again
  /\ round' = round + 1
  /\ \/ /\ Unaffordable /\ End("ok")
        /\ UNCHANGED <<got, brought, d0>>
     \/ /\ sweep' = "call" /\ d0' = declined
        /\ UNCHANGED <<got, brought, ended, callVars>>
  /\ UNCHANGED <<dry, foundVars, sweepHistory>>

Finder(f) ==
  /\ sweep = "call" /\ got[f] = "out"
  /\ \/ /\ Declines(1)
        /\ got' = [got EXCEPT ![f] = "declined"] /\ UNCHANGED brought
     \/ /\ UNCHANGED <<callVars, brought>>
        /\ got' = [got EXCEPT ![f] = "dead"]
     \/ /\ UNCHANGED callVars
        /\ got' = [got EXCEPT ![f] = "back"]
        /\ \E S \in SUBSET Items : brought' = [brought EXCEPT ![f] = S]
  /\ UNCHANGED <<sweep, ended, roundVars, foundVars, sweepHistory>>

Back == {f \in Finders : got[f] = "back"}
\* Variant: the round waits for an answer of every finder.
ReturnedAlive == sweep = "call" /\ Back = Finders
Returned == sweep = "call" /\ \A f \in Finders : got[f] # "out"
Found == UNION {brought[f] : f \in Back}
DeadRound == Back # Finders

\* A declined finder ends the sweep, and so does a dead one under halt.
SweepStop ==
  /\ Returned
  /\ \/ /\ declined > d0
        /\ End(IF haltOnRed THEN "BUDGET-EXHAUSTED" ELSE "ok")
     \/ /\ declined = d0 /\ DeadRound /\ haltOnRed
        /\ End("NODE-DEAD")
  /\ RoundForgotten
  /\ UNCHANGED <<callVars, roundVars, foundVars, sweepHistory>>

\* Variant: a round of survivors that bring nothing new is dry.
DriesAnyway == Back # {}
\* A round counts as dry when nothing is new and every finder came back.
Dries == ~DeadRound

\* Nothing new.  A round without any finder left ends here as well.
SweepDry ==
  /\ Returned /\ declined = d0 /\ (DeadRound => ~haltOnRed)
  /\ Found \subseteq seen
  /\ dry' = IF Dries THEN dry + 1 ELSE dry
  /\ calm' = IF DeadRound THEN calm ELSE calm + 1
  /\ sweep' = "round"
  /\ RoundForgotten
  /\ UNCHANGED <<callVars, round, d0, foundVars, ended, judged, survived>>

\* Variant: what the round brought is not remembered.
RemembersNone == seen
Remembers == seen \cup Found

\* New items go to the panel, and the count of dry rounds starts anew.
SweepFresh ==
  /\ Returned /\ declined = d0 /\ (DeadRound => ~haltOnRed)
  /\ fresh' = Found \ seen /\ fresh' # {}
  /\ seen' = Remembers
  /\ dry' = 0 /\ calm' = 0 /\ sweep' = "judge"
  /\ RoundForgotten
  /\ UNCHANGED <<callVars, round, d0, kept, vote, class, ended, judged, survived>>

Unjudged == {i \in fresh : vote[i].round # round}

\* refute: under its own floor nobody is asked; else a vote may be declined,
\* or its agent may die.
Judge(i) ==
  /\ sweep = "judge" /\ i \in Unjudged
  /\ \E cast \in 0 .. Panel, kills \in 0 .. Panel, died \in 0 .. Panel, refused \in 0 .. Panel :
       /\ kills <= cast
       /\ cast + died + refused \in {0, Panel}
       /\ Declines(refused)
       /\ vote' = [vote EXCEPT ![i] = [kills |-> kills, cast |-> cast, round |-> round]]
  /\ judged' = [judged EXCEPT ![i] = @ + 1]
  /\ UNCHANGED <<sweep, ended, got, brought, roundVars, seen, kept, fresh, class, calm, survived>>

\* Variant: whoever of the panel is left has checked the item.
UncheckedByAny == {i \in fresh : vote[i].cast = 0}
Unchecked == {i \in fresh : vote[i].cast < Panel}
Kept == {i \in fresh : vote[i].kills < Need}
Checked == Kept \ Unchecked
Surviving == {c \in Classes : \E i \in Checked : ClassOf[i] = c}

\* The rounds on end that the class has survived, with this one.
Streak(c) == IF class[c].last = round - 1 THEN class[c].rounds + 1 ELSE 1
Recurring == {c \in Surviving : Streak(c) >= ReframeAfter}

\* A surviving item without a class, or a class that recurs, ends the sweep.
SweepKeep ==
  /\ sweep = "judge" /\ Unjudged = {}
  /\ kept' = kept \cup Kept /\ fresh' = {}
  /\ IF \E i \in Checked : ClassOf[i] = NoClass
     THEN /\ End("MISSING-DEFECT-CLASS") /\ incomplete' = TRUE
          /\ UNCHANGED <<class, survived>>
     ELSE /\ class' = [c \in Classes |-> IF c \in Surviving
                                        THEN [last |-> round, rounds |-> Streak(c)]
                                        ELSE class[c]]
          /\ survived' = [c \in Classes |-> IF c \in Surviving THEN survived[c] \cup {round}
                                           ELSE survived[c]]
          /\ incomplete' = (incomplete \/ Unchecked # {} \/ Recurring # {})
          /\ IF Recurring = {} THEN sweep' = "round" /\ UNCHANGED ended
             ELSE End(IF haltOnRed THEN "RECURRING-CLASS" ELSE "ok")
  /\ UNCHANGED <<declined, got, brought, roundVars, seen, vote, calm, judged>>

\* The dry rule or the ceiling on rounds ends the loop.
SweepOver ==
  /\ sweep = "round" /\ ~Again
  /\ incomplete' = (incomplete \/ dry < DryTarget) /\ End("ok")
  /\ UNCHANGED <<declined, got, brought, roundVars, foundVars, sweepHistory>>

Sweep == \/ SweepRound \/ (\E f \in Finders : Finder(f)) \/ SweepStop \/ SweepDry \/ SweepFresh
         \/ (\E i \in Items : Judge(i)) \/ SweepKeep \/ SweepOver

(***************************************************************************)
(* Properties.                                                             *)
(***************************************************************************)
\* "a finder that keeps crashing ends the sweep looking converged, which is
\* silent incompleteness": a sweep that ends without INCOMPLETE had its rounds
\* of a full roster, since the last new item, that brought nothing.
SweptIsExhausted ==
  sweep = "over" /\ ended = "ok" /\ ~incomplete => calm >= DryTarget

\* "the panel never re-judges an item a previous round already saw", whether
\* the item survived or not.
JudgedOnce == \A i \in Items : judged[i] <= 1

\* What a sweep without INCOMPLETE hands on has stood before a full panel.
KeptIsVoted ==
  sweep = "over" /\ ~incomplete =>
    \A i \in kept : vote[i].cast = Panel /\ vote[i].kills < Need

\* A panel sees an item once, and its verdict is a full one.
PanelIsHonest == JudgedOnce /\ KeptIsVoted

\* A class is called recurring only if it survived in each of the last rounds.
RecurringIsReal ==
  ended = "RECURRING-CLASS" =>
    \E c \in Classes : (round - ReframeAfter + 1) .. round \subseteq survived[c]
=============================================================================
