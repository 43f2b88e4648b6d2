----------------------------- MODULE CompactGate -----------------------------
(***************************************************************************)
(* The compaction gate (scripts/precompact.sh): a PreCompact hook that     *)
(* refuses a compaction once when the session worked and no durable        *)
(* surface changed since the compaction window began, and SessionStart     *)
(* (inject-state.sh), which seeds the window's snapshot and tells a fresh  *)
(* context what a compaction lost.  One session, whose hooks run one at a  *)
(* time; the durable surfaces (Decisions and Notes of the work file, the   *)
(* memory store, the task board) are one value, as their hashes are        *)
(* compared together.                                                      *)
(***************************************************************************)
EXTENDS Naturals

CONSTANTS Surfaces,  \* what the durable surfaces can hold
          Nothing,   \* the value in which no surface exists ("nostate", "noaux")
          Blocking,  \* FPL_COMPACT_BLOCK is not 0
          InGit,     \* whether the project is in a git work tree
          MayFail,   \* whether a write to the state directory may fail
          MaxPrunes  \* how often .cblock may be pruned, being three days old, in a window

ASSUME CompactAssumption ==
  /\ Nothing \in Surfaces
  /\ {Blocking, InGit, MayFail} \subseteq BOOLEAN
  /\ MaxPrunes \in Nat

VARIABLES
  surface,    \* the durable surfaces now (now_mem, now_aux)
  codeDirty,  \* fpl_code_dirty: the tree differs from the session's baseline
  cwin,       \* the window's snapshot in .cwin, {} without one
  cblock,     \* the .cblock marker is there
  nodecision, \* the .nodecision marker is there
  compacted,  \* the .compacted record
  refusals,   \* history: refused attempts since the last allowed one
  forgotten,  \* history: how often .cblock was pruned since then
  window,     \* history: the surfaces from when the window is measured: its begin, or
              \* the first own SessionStart after .cwin was pruned; until then {}
  spoiled,    \* history: a write to the state directory has failed
  lost,       \* history: the last compaction discarded an unflushed window
  told        \* history: what SessionStart last said of a compaction

compactVars == <<surface, codeDirty, cwin, cblock, nodecision, compacted, refusals,
                 forgotten, window, spoiled, lost, told>>

Flushes == {"unknown", "no", "yes", "declared"}
Worked == {"unknown", "no", "yes"}
NoRecord == [flushed |-> "unknown", codeChanged |-> "no", blocked |-> FALSE]

CompactTypeOK ==
  /\ surface \in Surfaces
  /\ cwin \in SUBSET Surfaces /\ window \in SUBSET Surfaces
  /\ {codeDirty, cblock, nodecision, spoiled, lost} \subseteq BOOLEAN
  /\ compacted \in [flushed : Flushes, codeChanged : Worked, blocked : BOOLEAN]
  /\ refusals \in Nat /\ forgotten \in 0..MaxPrunes
  /\ told \in {"nothing", "lost", "overridden"}

\* After the session's first SessionStart; its snapshot may not have been written.
CompactInit ==
  /\ surface \in Surfaces /\ window = {surface}
  /\ cwin = {surface} \/ (MayFail /\ cwin = {})
  /\ spoiled = (cwin = {})
  /\ codeDirty \in (IF InGit THEN BOOLEAN ELSE {FALSE})
  /\ cblock = FALSE /\ nodecision = FALSE
  /\ compacted = NoRecord
  /\ refusals = 0 /\ forgotten = 0 /\ lost = FALSE /\ told = "nothing"

CompactAbsent == CompactInit /\ surface = Nothing /\ cwin = {surface} /\ codeDirty = FALSE

(***************************************************************************)
(* The session at work                                                     *)
(***************************************************************************)
\* A note, a memory or a task: some surface exists from then on.
Flush ==
  /\ surface' \in Surfaces \ {surface, Nothing}
  /\ UNCHANGED <<codeDirty, cwin, cblock, nodecision, compacted, refusals, forgotten,
                 window, spoiled, lost, told>>

Work ==
  /\ codeDirty' = InGit
  /\ UNCHANGED <<surface, cwin, cblock, nodecision, compacted, refusals, forgotten,
                 window, spoiled, lost, told>>

\* A green Stop gate moves the session's baseline to the commit it is at.
GatePass ==
  /\ codeDirty /\ codeDirty' = FALSE
  /\ UNCHANGED <<surface, cwin, cblock, nodecision, compacted, refusals, forgotten,
                 window, spoiled, lost, told>>

\* decision.py --none
DeclareNone ==
  /\ nodecision' = TRUE
  /\ UNCHANGED <<surface, codeDirty, cwin, cblock, compacted, refusals, forgotten,
                 window, spoiled, lost, told>>

(***************************************************************************)
(* SessionStart                                                            *)
(***************************************************************************)
\* Variant: a refusal that was overridden is not mentioned.
ReportUnrefused ==
  IF compacted.flushed = "no" /\ ~compacted.blocked /\ compacted.codeChanged # "no"
  THEN "lost" ELSE "nothing"

Report ==
  IF compacted.flushed # "no" THEN "nothing"
  ELSE IF compacted.blocked THEN "overridden"
  ELSE IF compacted.codeChanged # "no" THEN "lost" ELSE "nothing"

\* Every SessionStart deletes the markers older than three days, each by its own age and
\* whosever they are: those in old.
ThreeDaysOld == SUBSET (IF forgotten < MaxPrunes THEN {"cblock", "nodecision", "cwin"} ELSE {})
Kept(old) == IF "cwin" \in old THEN {} ELSE cwin

Pruned(old) ==
  /\ cblock' = (cblock /\ "cblock" \notin old)
  /\ nodecision' = (nodecision /\ "nodecision" \notin old)
  /\ forgotten' = IF cblock /\ "cblock" \in old THEN forgotten + 1 ELSE forgotten
  /\ UNCHANGED <<surface, compacted, refusals, lost>>

\* The snapshot is taken where there is none, and measures the window from here.  A
\* baseline that was pruned, now or before, is set at HEAD and forgives what was committed.
SessionStart ==
  /\ codeDirty' \in {codeDirty} \cup (IF MaxPrunes > 0 THEN {FALSE} ELSE {})
  /\ \E old \in ThreeDaysOld :
       /\ Pruned(old)
       /\ window' = IF Kept(old) = {} THEN {surface} ELSE window
       /\ \/ /\ cwin' = IF Kept(old) = {} THEN {surface} ELSE Kept(old)
             /\ UNCHANGED spoiled
          \/ /\ MayFail /\ Kept(old) = {}
             /\ cwin' = {} /\ spoiled' = TRUE
  /\ told' = Report

\* Another session of the checkout starts: it takes no snapshot for this one.
OtherStarts ==
  \E old \in ThreeDaysOld :
    /\ Pruned(old)
    /\ cwin' = Kept(old)
    /\ window' = IF "cwin" \in old THEN {} ELSE window
    /\ UNCHANGED <<codeDirty, spoiled, told>>

(***************************************************************************)
(* PreCompact                                                              *)
(***************************************************************************)

worked == IF ~InGit THEN "unknown" ELSE IF codeDirty THEN "yes" ELSE "no"

flushed ==
  IF nodecision THEN "declared"
  ELSE IF cwin = {} \/ surface = Nothing THEN "unknown"
  ELSE IF cwin = {surface} THEN "no" ELSE "yes"

Unflushed == flushed = "no" /\ worked # "no"

Refuses == Unflushed /\ ~cblock /\ Blocking

Discarded == window = {surface} /\ surface # Nothing /\ ~nodecision
WindowEnds ==
  /\ refusals' = 0 /\ forgotten' = 0 /\ window' = {surface}
  /\ lost' = (Discarded /\ worked # "no")
  /\ UNCHANGED <<surface, codeDirty, told>>

\* Variant: the compaction is refused although the marker could not be written.
RefuseUnrecorded ==
  /\ Refuses /\ (cblock' = TRUE \/ (MayFail /\ UNCHANGED cblock))
  /\ refusals' = refusals + 1
  /\ UNCHANGED <<surface, codeDirty, cwin, nodecision, compacted, forgotten,
                 window, spoiled, lost, told>>

Refuse ==
  /\ Refuses /\ cblock' = TRUE
  /\ refusals' = refusals + 1
  /\ UNCHANGED <<surface, codeDirty, cwin, nodecision, compacted, forgotten,
                 window, spoiled, lost, told>>

\* A block that cannot be recorded is not taken, and nothing else is written.
FailOpen ==
  /\ Refuses /\ MayFail
  /\ spoiled' = TRUE
  /\ UNCHANGED <<cwin, cblock, nodecision, compacted>>
  /\ WindowEnds

\* Variant: the snapshot of the window is left as it was.
AllowUnseeded ==
  /\ ~Refuses
  /\ compacted' = [flushed |-> flushed, codeChanged |-> worked, blocked |-> cblock]
  /\ cblock' = FALSE /\ nodecision' = FALSE /\ UNCHANGED <<cwin, spoiled>>
  /\ WindowEnds

Allow ==
  /\ ~Refuses
  /\ \E failed \in IF MayFail THEN SUBSET {"compacted", "cwin"} ELSE {{}} :
       /\ compacted' = IF "compacted" \in failed THEN compacted
                       ELSE [flushed |-> flushed, codeChanged |-> worked, blocked |-> cblock]
       /\ cwin' = IF "cwin" \in failed THEN cwin ELSE {surface}
       /\ spoiled' = (spoiled \/ failed # {})
  /\ cblock' = FALSE /\ nodecision' = FALSE
  /\ WindowEnds

Attempt == Refuse \/ FailOpen \/ Allow
CompactStep == Flush \/ Work \/ GatePass \/ DeclareNone \/ SessionStart
               \/ OtherStarts \/ Attempt

(***************************************************************************)
(* Properties                                                              *)
(***************************************************************************)
\* "Two consecutive attempts can never both block", whatever is flushed, written or
\* restarted between them and whichever write fails: between two refusals of a window
\* lies a prune, by whichever session, of the three days old marker of the first.
NeverBlocksTwice == refusals <= 1 + forgotten

\* "compaction is refused ONCE ... so the flush happens before the reasoning is
\* gone": while the state directory can be written, compaction goes through with
\* the code dirty and nothing written since the window was measured only after a refusal.
UnflushedIsRefused ==
  [][Allow /\ Discarded /\ worked # "no" /\ ~spoiled => refusals >= 1 \/ ~Blocking]_compactVars

\* "a fresh context should know that": what a compaction discarded is told to every
\* context that starts after it, until the next compaction.
LossIsTold ==
  [][SessionStart /\ lost /\ ~spoiled => told' \in {"lost", "overridden"}]_compactVars
=============================================================================
