----------------------------- MODULE OuterLoop -----------------------------
(***************************************************************************)
(* loop.sh and loop-metric.py: agent and harness by turns until the        *)
(* harness is green and WORK.md says DONE, a STOP file is found, the       *)
(* iterations are spent, or the declared metric does not improve.  The     *)
(* agents work on the repository, its metric manifest included, and the    *)
(* metric's history outlives a session of the loop.                        *)
(***************************************************************************)
EXTENDS Integers, Sequences, FiniteSetsExt, SequencesExt, Inbox

CONSTANTS MaxIter,      \* MAX_ITER
          Window,       \* PLATEAU_WINDOW
          Minimum,      \* PLATEAU_MIN
          Definitions,  \* what the manifest may declare the metric to be
          Down,         \* those of direction "down"
          NoDefinition, \* a manifest that is refused, or declares another metric
          Values,       \* bound: what the metric may be
          BudgetItem, PlateauItem
ASSUME LoopAssumption ==
  /\ {MaxIter, Window} \subseteq Nat \ {0} /\ Window >= 2 /\ Minimum \in Nat
  /\ Values \subseteq Int /\ Down \subseteq Definitions /\ NoDefinition \notin Definitions
  /\ {BudgetItem, PlateauItem} \subseteq Items /\ BudgetItem # PlateauItem

VARIABLES
  loop,      \* where loop.sh is
  iter,      \* i
  stopFile,  \* .claude/fluxpoint/STOP
  declared,  \* the manifest's metric
  history,   \* loop-metrics.json: the definition and its values
  stopKind,  \* stop_kind
  measured,  \* history: what was measured in this session, in order
  erased     \* history: this session's reset got as far as the old history

loopVars == <<loop, iter, stopFile, declared, history, stopKind, measured, erased>>

NoHistory == [definition |-> NoDefinition, values |-> <<>>]
\* What an earlier session can have left, a full window of it.
Left == [definition : Definitions, values : [1 .. Window -> Values]]
LoopEnded == {"off", "green", "stopped", "gaveup"}

LoopTypeOK ==
  /\ loop \in LoopEnded \cup {"reset", "top", "agent", "harness", "metric", "give", "raising"}
  /\ iter \in 0 .. MaxIter + 1 /\ stopFile \in BOOLEAN
  /\ declared \in Definitions \cup {NoDefinition}
  /\ history.definition \in Definitions \cup {NoDefinition} /\ history.values \in Seq(Values)
  /\ stopKind \in {BudgetItem, PlateauItem}
  /\ measured \in Seq([definition : Definitions, value : Values]) /\ erased \in BOOLEAN

LoopIdle ==
  /\ loop = "off" /\ iter = 0
  /\ stopKind = BudgetItem /\ measured = <<>> /\ erased = TRUE

LoopInit ==
  /\ LoopIdle
  /\ stopFile \in BOOLEAN /\ history \in {NoHistory} \cup Left
  /\ declared \in Definitions \cup {NoDefinition}

LoopAbsent ==
  LoopIdle /\ stopFile = FALSE /\ history = NoHistory /\ declared = NoDefinition

\* A STOP that was there before the start is removed.
StartLoop ==
  /\ loop = "off" /\ loop' = "reset" /\ iter' = 1 /\ stopFile' = FALSE
  /\ UNCHANGED <<declared, history, stopKind, measured, erased, inboxVars>>

Measured(d, v) == [definition |-> d, value |-> v]
Anew(v) == [definition |-> declared, values |-> <<v>>]

\* The manifest is read before the old history is removed, the metric is measured
\* after it.
ErasedFirst == declared # NoDefinition \/ history = NoHistory

Reset ==
  /\ loop = "reset" /\ loop' = "top"
  /\ erased' = ErasedFirst
  /\ \/ \E v \in Values : /\ declared # NoDefinition
                          /\ history' = Anew(v) /\ measured' = <<Measured(declared, v)>>
     \/ history' = (IF ErasedFirst THEN NoHistory ELSE history) /\ UNCHANGED measured
  /\ UNCHANGED <<iter, stopFile, declared, stopKind, inboxVars>>

Top ==
  /\ loop = "top"
  /\ loop' = IF iter > MaxIter THEN "give" ELSE IF stopFile THEN "stopped" ELSE "agent"
  /\ UNCHANGED <<iter, stopFile, declared, history, stopKind, measured, erased, inboxVars>>

\* The agent's turn; it may redefine the metric.
Agent ==
  /\ loop = "agent" /\ loop' = "harness"
  /\ declared' \in Definitions \cup {NoDefinition}
  /\ UNCHANGED <<iter, stopFile, history, stopKind, measured, erased, inboxVars>>

\* Variant: the history goes on when the metric is defined anew.
ExtendedAlways(v) == [definition |-> declared, values |-> Append(history.values, v)]
\* The history goes on while the metric is defined as it was.
Extended(v) ==
  IF history.definition = declared
  THEN [history EXCEPT !.values = Append(@, v)] ELSE Anew(v)

Best(d, values) == IF d \in Down THEN Min(ToSet(values)) ELSE Max(ToSet(values))
Improvement(d, values) ==
  LET old == Best(d, SubSeq(values, 1, Len(values) - Window))
      new == Best(d, values)
  IN  IF d \in Down THEN old - new ELSE new - old
Flat(d, values) == Len(values) > Window /\ Improvement(d, values) < Minimum

Record(v) ==
  /\ declared # NoDefinition
  /\ history' = Extended(v) /\ measured' = Append(measured, Measured(declared, v))

\* Green and DONE ends the loop whatever the metric is.
Harness ==
  /\ loop = "harness"
  /\ \/ /\ loop' = "green"
        /\ (\E v \in Values : Record(v)) \/ UNCHANGED <<history, measured>>
     \/ loop' = "metric" /\ UNCHANGED <<history, measured>>
  /\ UNCHANGED <<iter, stopFile, declared, stopKind, erased, inboxVars>>

NextIteration == loop' = "top" /\ iter' = iter + 1 /\ UNCHANGED stopKind

\* A metric that cannot be measured is no plateau.
Metric ==
  /\ loop = "metric"
  /\ \/ \E v \in Values :
          /\ Record(v)
          /\ IF Flat(declared, history'.values)
             THEN loop' = "give" /\ stopKind' = PlateauItem /\ UNCHANGED iter
             ELSE NextIteration
     \/ NextIteration /\ UNCHANGED <<history, measured>>
  /\ UNCHANGED <<stopFile, declared, erased, inboxVars>>

\* The last thing the runner does is to tell.
GiveUp ==
  /\ loop = "give" /\ loop' = "raising" /\ Raise("runner", stopKind)
  /\ UNCHANGED <<iter, stopFile, declared, history, stopKind, measured, erased>>

Exit ==
  /\ loop = "raising" /\ ~Raising("runner") /\ loop' = "gaveup"
  /\ UNCHANGED <<iter, stopFile, declared, history, stopKind, measured, erased, inboxVars>>

AskToStop ==
  /\ ~stopFile /\ stopFile' = TRUE
  /\ UNCHANGED <<loop, iter, declared, history, stopKind, measured, erased, inboxVars>>

LoopStep == \/ StartLoop \/ Reset \/ Top \/ Agent \/ Harness \/ Metric \/ GiveUp \/ Exit \/ AskToStop

(***************************************************************************)
(* Properties.                                                             *)
(***************************************************************************)
\* The values of this session that the newest one is compared with: those since
\* the metric was last defined anew.
Latest(d) ==
  LET other == {k \in DOMAIN measured : measured[k].definition # d}
      from  == IF other = {} THEN 1 ELSE Max(other) + 1
  IN  [k \in 1 .. Len(measured) - from + 1 |-> measured[from + k - 1].value]

\* "Never reuse an earlier session": the loop gives up on a plateau only if this
\* session measured more than a window of values under one definition, and their
\* best is hardly better than the best before the window.  (When the manifest is
\* refused at the start, the old history is never erased: see the README.)
PlateauIsReal ==
  loop = "give" /\ stopKind = PlateauItem /\ erased => Flat(declared, Latest(declared))

\* An unattended run does not give up silently.
GiveUpIsTold ==
  loop = "gaveup" => Told("runner", stopKind) \/ NotTold("runner", stopKind)
=============================================================================
