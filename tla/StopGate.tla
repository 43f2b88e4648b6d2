------------------------------ MODULE StopGate ------------------------------
(***************************************************************************)
(* The Definition-of-Done gate (scripts/dod-gate.sh): a Stop hook that     *)
(* runs the repository's harness when a session that changed code wants to *)
(* stop, and blocks the stop while the harness or the hygiene scan is red. *)
(* With it: the PostToolUse marker (verify-changed.sh), the session's      *)
(* baseline (lib.sh, session-baseline.py) and SessionStart (inject-state). *)
(*                                                                         *)
(* Sessions share one checkout and one state directory.  The code in the   *)
(* working tree is one of Contents, HEAD is a commit on one line of        *)
(* history; the hash of a tree (gate-tree.py) is the pair of both.  What   *)
(* the session commits stays above its baseline, so session-baseline.py    *)
(* keeps the recorded one; branches and imports are left out here.         *)
(***************************************************************************)
EXTENDS Naturals

CONSTANTS Sessions,    \* the sessions that work in the checkout
          Contents,    \* what the code in a tree can be
          Bare,        \* the contents without scripts/harness.sh
          Contracts,   \* what FPL_HARNESS_ARGS and FPL_DISTILL can ask for
          MaxBlocks,   \* FPL_MAX_BLOCKS
          MaxCommits,  \* bound on the commits made
          MaxPrunes    \* bound on how often a session's markers are found too old

ASSUME ConstantsAssumption ==
  /\ Bare \subseteq Contents
  /\ {MaxBlocks, MaxCommits, MaxPrunes} \subseteq Nat

VARIABLES
  work,        \* the code in the working tree
  head,        \* the code HEAD's commit holds
  commits,     \* the number of commits made: HEAD's identity
  lastHarness, \* last-harness
  evidence,    \* the outcome of the gate's newest row of evidence.jsonl
  contract,    \* per session: the invocation its settings ask for
  pc,          \* per session: at work, a step of the gate, or how it stopped
  dirty,       \* per session: the .dirty marker is there
  blocks,      \* per session: the count in .blocks
  base,        \* per session: the commit its baseline was set at
  based,       \* per session: .base is there; .base.reflog-count outlives it
  passed,      \* per session: the verdict key in .passed, {} without one
  yielded,     \* per session: the verdict key in .yielded, {} without one
  hook,        \* per session: the variables of the gate's process
  verified,    \* history: the keys whose harness ended green on the tree it began on
  lastRun,     \* history, per session: how its run ended, if none began after it
  streak,      \* history, per session: blocked stops since the gate last let it stop
  forgotten,   \* history, per session: how often markers of its were pruned
  inherited,   \* history, per session: the code it found at HEAD
  forgiven     \* history, per session: the code at HEAD when its baseline was moved

treeVars == <<work, head, commits>>
baseVars == <<base, based>>
markVars == <<dirty, blocks, base, based, passed, yielded>>
historyVars == <<verified, streak, forgotten, inherited, forgiven>>
vars == <<treeVars, lastHarness, evidence, contract, pc, markVars, hook,
          lastRun, historyVars>>

Tree == [commit : 0..MaxCommits, code : Contents]
Key == [tree : Tree, contract : Contracts]
Now == [commit |-> commits, code |-> work]
Tip == [commit |-> commits, code |-> head]

Stopped == {"unarmed", "bare", "passed", "stillYielded", "green", "yielded", "killed"}
GateSteps == {"asked", "running", "ran", "judged", "bless"}
Exits == {"none", "green", "red", "timeout"}

\* guard_sha and tree_sha ({} while unknown), hrc, whether findings is not empty,
\* and (history) the tree the harness began on.
Hook == [guard : SUBSET Tree, tree : SUBSET Tree, exit : Exits, red : BOOLEAN,
         began : SUBSET Tree]
NoHook == [guard |-> {}, tree |-> {}, exit |-> "none", red |-> FALSE, began |-> {}]

TypeOK ==
  /\ work \in Contents /\ head \in Contents /\ commits \in 0..MaxCommits
  /\ lastHarness \in {"none", "RUNNING", "PASS", "FAIL", "TIMEOUT"}
  /\ evidence \in {"none", "PASS", "FAIL", "TIMEOUT"}
  /\ contract \in [Sessions -> Contracts]
  /\ pc \in [Sessions -> {"working"} \cup GateSteps \cup Stopped]
  /\ dirty \in [Sessions -> BOOLEAN]
  /\ blocks \in [Sessions -> Nat]
  /\ base \in [Sessions -> Tree] /\ based \in [Sessions -> BOOLEAN]
  /\ passed \in [Sessions -> SUBSET Key]
  /\ yielded \in [Sessions -> SUBSET Key]
  /\ hook \in [Sessions -> Hook]
  /\ verified \in SUBSET Key
  /\ lastRun \in [Sessions -> Exits \cup {"killed", "old"}]
  /\ streak \in [Sessions -> Nat] /\ forgotten \in [Sessions -> 0..MaxPrunes]
  /\ inherited \in [Sessions -> Contents]
  /\ forgiven \in [Sessions -> SUBSET Contents]

\* Every session has just started in a checkout that may be dirty.
Init ==
  /\ work \in Contents /\ head \in Contents /\ commits = 0
  /\ lastHarness = "none" /\ evidence = "none"
  /\ contract \in [Sessions -> Contracts]
  /\ pc = [s \in Sessions |-> "working"]
  /\ dirty = [s \in Sessions |-> FALSE]
  /\ blocks = [s \in Sessions |-> 0]
  /\ base = [s \in Sessions |-> Tip] /\ based = [s \in Sessions |-> TRUE]
  /\ passed = [s \in Sessions |-> {}] /\ yielded = [s \in Sessions |-> {}]
  /\ hook = [s \in Sessions |-> NoHook]
  /\ verified = {} /\ lastRun = [s \in Sessions |-> "old"]
  /\ streak = [s \in Sessions |-> 0] /\ forgotten = [s \in Sessions |-> 0]
  /\ inherited = [s \in Sessions |-> head]
  /\ forgiven = [s \in Sessions |-> {}]

Step(s, from, to) == pc[s] = from /\ pc' = [pc EXCEPT ![s] = to]

(***************************************************************************)
(* The session at work                                                     *)
(***************************************************************************)
\* Only the file-writing tools leave a marker; a shell command does not.
Edit(s) ==
  /\ pc[s] = "working"
  /\ work' \in Contents \ {work}
  /\ \E marked \in BOOLEAN : dirty' = [dirty EXCEPT ![s] = @ \/ marked]
  /\ UNCHANGED <<head, commits, lastHarness, evidence, contract, pc, blocks, baseVars,
                 passed, yielded, hook, lastRun, historyVars>>

Commit(s) ==
  /\ pc[s] = "working" /\ work # head /\ commits < MaxCommits
  /\ head' = work /\ commits' = commits + 1
  /\ UNCHANGED <<work, lastHarness, evidence, contract, pc, markVars, hook,
                 lastRun, historyVars>>

ChangeContract(s) ==
  /\ pc[s] = "working"
  /\ \E c \in Contracts \ {contract[s]} : contract' = [contract EXCEPT ![s] = c]
  /\ UNCHANGED <<treeVars, lastHarness, evidence, pc, markVars, hook, lastRun,
                 historyVars>>

\* The hook starts by measuring its baseline.  Without .base session-baseline.py finds
\* the commit before the first that was made since the anchor, if one was, and writes
\* it back: on one line of history that is where the baseline was.
StopAsked(s) ==
  /\ Step(s, "working", "asked")
  /\ based' = [based EXCEPT ![s] = @ \/ base[s].commit # commits]
  /\ UNCHANGED <<treeVars, lastHarness, evidence, contract, dirty, blocks, base, passed,
                 yielded, hook, lastRun, historyVars>>

Rests(s) == pc[s] \in Stopped \cup {"working"}

\* A stop that was let through, or that nobody judged, ends the row of blocks.
RowEnds(s) == streak' = IF pc[s] \in {"killed", "working"} THEN streak
                        ELSE [streak EXCEPT ![s] = 0]

\* A session that stopped is given another prompt.
Continue(s) ==
  /\ pc[s] \in Stopped /\ Step(s, pc[s], "working") /\ RowEnds(s)
  /\ UNCHANGED <<treeVars, lastHarness, evidence, contract, markVars, hook,
                 lastRun, verified, forgotten, inherited, forgiven>>

\* SessionStart deletes every marker older than three days, each by its own age and
\* whosever it is: those in old.
Markers == {"dirty", "blocks", "base", "passed", "yielded"}
Present(s) == {m \in Markers : \/ m = "dirty" /\ dirty[s]
                               \/ m = "blocks" /\ blocks[s] > 0
                               \/ m = "base" /\ based[s]
                               \/ m = "passed" /\ passed[s] # {}
                               \/ m = "yielded" /\ yielded[s] # {}}
Old == {old \in [Sessions -> SUBSET Markers] :
          \A s \in Sessions : old[s] = {} \/ (old[s] \subseteq Present(s) /\ forgotten[s] < MaxPrunes)}

Cleared(old) ==
  /\ dirty' = [s \in Sessions |-> dirty[s] /\ "dirty" \notin old[s]]
  /\ blocks' = [s \in Sessions |-> IF "blocks" \in old[s] THEN 0 ELSE blocks[s]]
  /\ passed' = [s \in Sessions |-> IF "passed" \in old[s] THEN {} ELSE passed[s]]
  /\ yielded' = [s \in Sessions |-> IF "yielded" \in old[s] THEN {} ELSE yielded[s]]
  /\ forgotten' = [s \in Sessions |-> IF old[s] = {} THEN forgotten[s]
                                      ELSE forgotten[s] + 1]
  /\ UNCHANGED <<treeVars, lastHarness, evidence, contract, hook, lastRun, verified, inherited>>

\* What is left of the baselines.
Left(old, s) == based[s] /\ "base" \notin old[s]

\* The session is resumed, cleared or compacted; without .base its baseline is set anew.
SessionStart(s) ==
  /\ Rests(s) /\ Step(s, pc[s], "working") /\ RowEnds(s)
  /\ \E old \in Old :
       /\ Cleared(old)
       /\ based' = [t \in Sessions |-> t = s \/ Left(old, t)]
       /\ IF Left(old, s) THEN UNCHANGED <<base, forgiven>>
          ELSE /\ base' = [base EXCEPT ![s] = Tip]
               /\ forgiven' = [forgiven EXCEPT ![s] = @ \cup {head}]

\* Somebody opens a session in the checkout and does no work in it.
OtherStarts ==
  /\ \E old \in Old :
       /\ Cleared(old)
       /\ based' = [t \in Sessions |-> Left(old, t)]
  /\ UNCHANGED <<pc, base, streak, forgiven>>

(***************************************************************************)
(* The gate                                                                *)
(***************************************************************************)
\* Variant: work is measured against HEAD instead of the session's baseline.
CodeDirtyAtHead(s) == work # head

\* fpl_code_dirty against fpl_base_ref.
CodeDirty(s) == work # base[s].code
Armed(s) == dirty[s] \/ CodeDirty(s)

\* gate_verdict_key of a hash; there is none for an unknown one.
VerdictKey(s, hash) == {[tree |-> t, contract |-> contract[s]] : t \in hash}

GateUnarmed(s) ==
  /\ ~Armed(s) /\ Step(s, "asked", "unarmed")
  /\ UNCHANGED <<treeVars, lastHarness, evidence, contract, markVars, hook,
                 lastRun, historyVars>>

GateBare(s) ==
  /\ Armed(s) /\ work \in Bare /\ Step(s, "asked", "bare")
  /\ dirty' = [dirty EXCEPT ![s] = FALSE]
  /\ UNCHANGED <<treeVars, lastHarness, evidence, contract, blocks, baseVars, passed,
                 yielded, hook, lastRun, historyVars>>

\* Variant: a cached verdict is reused for its tree whatever the invocation.
HoldsOfTree(file, s, hash) == hash # {} /\ {k.tree : k \in file[s]} = hash

\* A verdict file speaks for the tree and the invocation it names.
Holds(file, s, hash) == hash # {} /\ file[s] = VerdictKey(s, hash)

RunEnds(s, how) == lastRun' = [lastRun EXCEPT ![s] = IF @ = "old" THEN @ ELSE how]

\* The passed and the yielded fast path; gate-tree.py may fail (hash = {}).
GateReuse(s) ==
  /\ Armed(s) /\ work \notin Bare
  /\ \/ /\ Holds(passed, s, {Now})
        /\ Step(s, "asked", "passed") /\ dirty' = [dirty EXCEPT ![s] = FALSE]
     \/ /\ ~Holds(passed, s, {Now}) /\ Holds(yielded, s, {Now})
        /\ Step(s, "asked", "stillYielded") /\ UNCHANGED dirty
  /\ UNCHANGED <<treeVars, lastHarness, evidence, contract, blocks, baseVars, passed,
                 yielded, hook, lastRun, historyVars>>

Launches(s) ==
  /\ Armed(s) /\ work \notin Bare
  /\ Step(s, "asked", "running")
  /\ \E hash \in {{}, {Now}} :
       /\ ~Holds(passed, s, hash) /\ ~Holds(yielded, s, hash)
       /\ hook' = [hook EXCEPT ![s].guard = hash, ![s].began = {Now}]
  /\ lastRun' = [t \in Sessions |-> IF t = s THEN "none" ELSE "old"]
  /\ UNCHANGED <<treeVars, evidence, contract, markVars, historyVars>>

\* Variant: the previous verdict stays on disk while the harness runs.
GateLaunchUnmarked(s) == Launches(s) /\ UNCHANGED lastHarness

\* The run is marked as in flight before it starts.
GateLaunch(s) == Launches(s) /\ lastHarness' = "RUNNING"

\* The harness ends or is timed out, having perhaps generated code; the scans
\* (hygiene, distill) add findings of their own.
GateRun(s) ==
  /\ Step(s, "running", "ran")
  /\ work' \in Contents
  /\ \E e \in Exits \ {"none"}, scan \in BOOLEAN :
       /\ hook' = [hook EXCEPT ![s].exit = e, ![s].red = e # "green" \/ scan]
       /\ lastHarness' = IF e = "timeout" THEN "TIMEOUT" ELSE lastHarness
  /\ UNCHANGED <<head, commits, evidence, contract, markVars, lastRun, historyVars>>

\* Variant: the second hash is not compared with the first.
TreeUnmeasured(s, hash) == {} \in {hash, hook[s].guard}

\* A tree that could not be hashed twice alike is a finding.
TreeMoved(s, hash) == hash = {} \/ hash # hook[s].guard

GateHash(s) ==
  /\ Step(s, "ran", "judged")
  /\ \E hash \in {{}, {Now}} :
       hook' = [hook EXCEPT ![s].tree = hash, ![s].red = @ \/ TreeMoved(s, hash)]
  /\ verified' = verified \cup IF ~hook[s].red /\ hook[s].began = {Now}
                               THEN VerdictKey(s, {Now}) ELSE {}
  /\ UNCHANGED <<treeVars, lastHarness, evidence, contract, markVars, lastRun,
                 streak, forgotten, inherited, forgiven>>

GateGreen(s) ==
  /\ ~hook[s].red /\ Step(s, "judged", "bless")
  /\ lastHarness' = "PASS" /\ RunEnds(s, "green")
  /\ dirty' = [dirty EXCEPT ![s] = FALSE]
  /\ blocks' = [blocks EXCEPT ![s] = 0]
  /\ yielded' = [yielded EXCEPT ![s] = {}]
  /\ streak' = [streak EXCEPT ![s] = 0]
  /\ UNCHANGED <<treeVars, evidence, contract, baseVars, passed, hook, verified,
                 forgotten, inherited, forgiven>>

\* fpl_record_evidence, fpl_set_base and the .passed key.
GateBless(s) ==
  /\ Step(s, "bless", "green") /\ hook' = [hook EXCEPT ![s] = NoHook]
  /\ evidence' = "PASS"
  /\ base' = [base EXCEPT ![s] = Tip] /\ based' = [based EXCEPT ![s] = TRUE]
  /\ passed' = [passed EXCEPT ![s] = VerdictKey(s, hook[s].tree)]
  /\ forgiven' = [forgiven EXCEPT ![s] = @ \cup {head}]
  /\ UNCHANGED <<treeVars, lastHarness, contract, dirty, blocks, yielded,
                 lastRun, verified, streak, forgotten, inherited>>

\* Variant: one block more than the limit.
ExhaustedLate(s) == blocks[s] > MaxBlocks

Exhausted(s) == blocks[s] >= MaxBlocks

JudgedRed(s, to) ==
  /\ hook[s].red /\ Step(s, "judged", to) /\ hook' = [hook EXCEPT ![s] = NoHook]
  /\ lastHarness' = "FAIL" /\ RunEnds(s, hook[s].exit)
  /\ UNCHANGED <<treeVars, contract, dirty, baseVars, passed, verified, forgotten,
                 inherited, forgiven>>

\* Variant: a block counts only if the tree moved since it was hashed first.
GateBlockUncounted(s) ==
  /\ ~Exhausted(s) /\ JudgedRed(s, "working")
  /\ blocks' = [blocks EXCEPT ![s] = IF hook[s].guard = hook[s].tree THEN @ ELSE @ + 1]
  /\ streak' = [streak EXCEPT ![s] = IF @ > MaxBlocks THEN @ ELSE @ + 1]
  /\ UNCHANGED <<evidence, yielded>>

GateBlock(s) ==
  /\ ~Exhausted(s) /\ JudgedRed(s, "working")
  /\ blocks' = [blocks EXCEPT ![s] = @ + 1]
  /\ streak' = [streak EXCEPT ![s] = @ + 1]
  /\ UNCHANGED <<evidence, yielded>>

\* The session stops with the task not done; the counter is not reset.
GateYield(s) ==
  /\ Exhausted(s) /\ JudgedRed(s, "yielded")
  /\ evidence' = IF hook[s].exit = "timeout" THEN "TIMEOUT" ELSE "FAIL"
  /\ yielded' = [yielded EXCEPT ![s] = VerdictKey(s, hook[s].guard)]
  /\ UNCHANGED <<blocks, streak>>

\* The runtime's ceiling, or the user's Esc, ends the hook and the stop goes on.
GateKilled(s) ==
  /\ pc[s] \in GateSteps \ {"asked"} /\ Step(s, pc[s], "killed")
  /\ hook' = [hook EXCEPT ![s] = NoHook]
  /\ lastRun' = IF lastRun[s] = "none" THEN [lastRun EXCEPT ![s] = "killed"] ELSE lastRun
  /\ UNCHANGED <<treeVars, lastHarness, evidence, contract, markVars, historyVars>>

Gate(s) ==
  \/ GateUnarmed(s) \/ GateBare(s) \/ GateReuse(s) \/ GateLaunch(s) \/ GateRun(s)
  \/ GateHash(s) \/ GateGreen(s) \/ GateBless(s) \/ GateBlock(s) \/ GateYield(s)
Session(s) ==
  \/ Edit(s) \/ Commit(s) \/ ChangeContract(s) \/ StopAsked(s)
  \/ Continue(s) \/ SessionStart(s)

Next == OtherStarts \/ \E s \in Sessions : Session(s) \/ Gate(s) \/ GateKilled(s)
Spec == Init /\ [][Next]_vars

\* A hook that was started runs on, and a blocked session asks to stop again
\* sooner or later, whatever it edits in between.
Fairness == \A s \in Sessions : WF_vars(Gate(s)) /\ WF_vars(StopAsked(s))
FairSpec == Spec /\ Fairness

(***************************************************************************)
(* Properties                                                              *)
(***************************************************************************)
\* "Never bless and cache bytes that were absent when the harness started": a
\* cached PASS names a tree on which the harness ended green and which was the
\* tree it had begun on.
GreenIsVerified ==
  \A s \in Sessions : passed[s] \subseteq verified

\* "A contract change must be judged even when source is unchanged": a stop is let
\* through on a cached verdict only if that very tree and invocation were green.
ReusedIsVerified ==
  [][\A s \in Sessions :
       pc[s] = "asked" /\ pc'[s] = "passed" => VerdictKey(s, {Now}) \subseteq verified]_vars

\* "A crashed verdict must never look like a passed one": last-harness does not
\* say PASS when the run that began last was killed.
KilledIsNotPassed ==
  lastHarness = "PASS" => \A s \in Sessions : lastRun[s] # "killed"

\* "Committing is not a way to stop being judged": a session that stops unjudged
\* leaves code that HEAD held when it started or when its baseline was moved,
\* however it edited and committed in between.
CommitIsNoEscape ==
  [][\A s \in Sessions :
       pc[s] = "asked" /\ pc'[s] = "unarmed" => work \in {inherited[s]} \cup forgiven[s]]_vars

\* "The counter bounds the loop": never more than FPL_MAX_BLOCKS blocked stops in
\* a row, whatever is edited, committed, killed or timed out between them, and as many
\* again for each time that some session's start found markers of it three days old.
BlocksBounded == \A s \in Sessions : streak[s] <= MaxBlocks * (forgotten[s] + 1)

\* A session that asks to stop does stop, blocked a bounded number of times.
StopSucceeds == \A s \in Sessions : pc[s] = "asked" ~> pc[s] \in Stopped

(***************************************************************************)
(* What the documents say and the model, like the code, does not keep.     *)
(***************************************************************************)
\* CommitIsNoEscape with a baseline that moves to verified code alone: "a tree that just
\* passed is the right thing to measure the next one against".
JudgedCodes == {k.tree.code : k \in verified}
StopIsJudged ==
  [][\A s \in Sessions :
       pc[s] = "asked" /\ pc'[s] = "unarmed" => work \in {inherited[s]} \cup JudgedCodes]_vars

\* README: FPL_MAX_BLOCKS is the number of consecutive blocked stops before a
\* checkpoint yield, so a gate that yields has blocked that often just before.
YieldIsEarned == \A s \in Sessions : pc[s] = "yielded" => streak[s] = MaxBlocks

\* "This is not a pass and not a failure": a timed-out run is not recorded FAIL.
TimeoutIsNoFailure ==
  lastHarness = "FAIL" => \A s \in Sessions : lastRun[s] # "timeout"
=============================================================================
