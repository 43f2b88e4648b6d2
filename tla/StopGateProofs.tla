--------------------------- MODULE StopGateProofs ---------------------------
(* Theorems about StopGate, for any number of sessions that share a         *)
(* checkout, any contents and invocations, and every limit of blocks.       *)
EXTENDS StopGate, TLAPS

\* The blocks in a row are counted, the count stops at the limit, and a prune forgets no
\* more than the limit.
CountInv ==
  /\ pc \in [Sessions -> {"working"} \cup GateSteps \cup Stopped]
  /\ blocks \in [Sessions -> Nat] /\ streak \in [Sessions -> Nat]
  /\ forgotten \in [Sessions -> Nat]
  /\ \A s \in Sessions : streak[s] <= blocks[s] + MaxBlocks * forgotten[s] /\ blocks[s] <= MaxBlocks

LEMMA LimitType ==
  ASSUME NEW k \in Nat
  PROVE  MaxBlocks * k \in Nat /\ MaxBlocks * (k + 1) = MaxBlocks * k + MaxBlocks
<1>1. MaxBlocks \in Nat
  BY ConstantsAssumption
<1> QED
  BY <1>1

\* What the deletion of old markers does to a session's count.
LEMMA ClearedCount ==
  ASSUME CountInv, NEW old \in Old, Cleared(old), NEW s \in Sessions
  PROVE  /\ blocks'[s] \in Nat /\ forgotten'[s] \in Nat /\ blocks'[s] <= MaxBlocks
         /\ streak[s] <= blocks'[s] + MaxBlocks * forgotten'[s]
<1>1. /\ blocks[s] \in Nat /\ forgotten[s] \in Nat /\ streak[s] \in Nat /\ MaxBlocks \in Nat
      /\ streak[s] <= blocks[s] + MaxBlocks * forgotten[s] /\ blocks[s] <= MaxBlocks
  BY ConstantsAssumption DEF CountInv
<1>2. CASE old[s] = {}
  <2>1. blocks'[s] = blocks[s] /\ forgotten'[s] = forgotten[s]
    BY <1>2 DEF Cleared
  <2> QED
    BY <1>1, <2>1
<1>3. CASE old[s] # {}
  <2>1. blocks'[s] \in {0, blocks[s]} /\ forgotten'[s] = forgotten[s] + 1
    BY <1>3 DEF Cleared
  <2>2. MaxBlocks * forgotten[s] \in Nat /\ MaxBlocks * forgotten'[s] = MaxBlocks * forgotten[s] + MaxBlocks
    BY <1>1, <2>1, LimitType
  <2> QED
    BY <1>1, <2>1, <2>2
<1> QED
  BY <1>2, <1>3

LEMMA ClearedTotal ==
  ASSUME NEW old \in Old, Cleared(old)
  PROVE  blocks' = [s \in Sessions |-> blocks'[s]] /\ forgotten' = [s \in Sessions |-> forgotten'[s]]
  BY DEF Cleared

LEMMA StartCount ==
  ASSUME CountInv, OtherStarts \/ \E s \in Sessions : SessionStart(s)
  PROVE  CountInv'
<1>1. PICK old \in Old : Cleared(old)
  BY DEF OtherStarts, SessionStart
<1>2. blocks' \in [Sessions -> Nat] /\ forgotten' \in [Sessions -> Nat]
  BY <1>1, ClearedCount, ClearedTotal
<1>3. /\ pc' \in [Sessions -> {"working"} \cup GateSteps \cup Stopped]
      /\ streak' \in [Sessions -> Nat] /\ \A s \in Sessions : streak'[s] <= streak[s]
  BY DEF CountInv, OtherStarts, SessionStart, Step, RowEnds
<1>4. ASSUME NEW s \in Sessions PROVE streak'[s] <= blocks'[s] + MaxBlocks * forgotten'[s] /\ blocks'[s] <= MaxBlocks
  <2>1. /\ blocks'[s] \in Nat /\ forgotten'[s] \in Nat /\ blocks'[s] <= MaxBlocks
        /\ streak[s] <= blocks'[s] + MaxBlocks * forgotten'[s]
    BY <1>1, ClearedCount
  <2>2. MaxBlocks * forgotten'[s] \in Nat
    BY <2>1, LimitType
  <2> QED
    BY <1>3, <2>1, <2>2 DEF CountInv
<1> QED
  BY <1>2, <1>3, <1>4 DEF CountInv

\* A step that forgets nothing counts a block or leaves the count, or ends the row.
LEMMA CountStep ==
  ASSUME CountInv, forgotten' = forgotten,
         pc' \in [Sessions -> {"working"} \cup GateSteps \cup Stopped],
         blocks' \in [Sessions -> Nat], streak' \in [Sessions -> Nat],
         \A s \in Sessions : /\ blocks'[s] <= MaxBlocks
                            /\ \/ streak'[s] = streak[s] /\ blocks'[s] = blocks[s]
                               \/ streak'[s] = streak[s] + 1 /\ blocks'[s] = blocks[s] + 1
                               \/ streak'[s] = 0
  PROVE  CountInv'
<1>1. ASSUME NEW s \in Sessions PROVE streak'[s] <= blocks'[s] + MaxBlocks * forgotten'[s]
  <2>1. /\ streak[s] \in Nat /\ blocks[s] \in Nat /\ blocks'[s] \in Nat /\ forgotten[s] \in Nat
        /\ streak[s] <= blocks[s] + MaxBlocks * forgotten[s] /\ forgotten'[s] = forgotten[s]
    BY DEF CountInv
  <2>2. MaxBlocks * forgotten[s] \in Nat
    BY <2>1, LimitType
  <2> QED
    BY <2>1, <2>2
<1> QED
  BY <1>1 DEF CountInv

LEMMA SessionCount ==
  ASSUME NEW s \in Sessions, CountInv, Session(s)
  PROVE  CountInv'
<1>3. CASE SessionStart(s)
  BY <1>3, StartCount
<1> USE ConstantsAssumption, CountStep DEF CountInv, Step, Stopped, GateSteps, markVars, historyVars
<1>1. CASE Edit(s) \/ Commit(s) \/ ChangeContract(s) \/ StopAsked(s)
  BY <1>1 DEF Edit, Commit, ChangeContract, StopAsked
<1>2. CASE Continue(s)
  <2> USE DEF Continue, RowEnds
  <2>1. /\ pc' \in [Sessions -> {"working"} \cup GateSteps \cup Stopped]
        /\ blocks' = blocks /\ streak' \in [Sessions -> Nat] /\ forgotten' = forgotten
    BY <1>2
  <2>2. \A t \in Sessions : streak'[t] \in {0, streak[t]}
    BY <1>2
  <2> QED
    BY <2>1, <2>2
<1> QED
  BY <1>1, <1>2, <1>3 DEF Session

LEMMA GateCount ==
  ASSUME NEW s \in Sessions, CountInv, Gate(s) \/ GateKilled(s)
  PROVE  CountInv'
<1> USE ConstantsAssumption, CountStep DEF CountInv, Step, Stopped, GateSteps, markVars, historyVars
<1>1. CASE GateUnarmed(s) \/ GateBare(s) \/ GateReuse(s) \/ GateKilled(s)
  BY <1>1 DEF GateUnarmed, GateBare, GateReuse, GateKilled
<1>2. CASE GateLaunch(s) \/ GateRun(s) \/ GateHash(s) \/ GateBless(s)
  BY <1>2 DEF GateLaunch, Launches, GateRun, GateHash, GateBless
<1>3. CASE GateGreen(s)
  <2> USE DEF GateGreen
  <2>1. /\ pc' \in [Sessions -> {"working"} \cup GateSteps \cup Stopped]
        /\ blocks' \in [Sessions -> Nat] /\ streak' \in [Sessions -> Nat] /\ forgotten' = forgotten
    BY <1>3
  <2>2. ASSUME NEW t \in Sessions
        PROVE  /\ blocks'[t] <= MaxBlocks
               /\ streak'[t] = 0 \/ (streak'[t] = streak[t] /\ blocks'[t] = blocks[t])
    BY <1>3
  <2> QED
    BY <2>1, <2>2
<1>4. CASE GateBlock(s)
  <2> USE DEF GateBlock, Exhausted, JudgedRed
  <2>1. /\ pc' \in [Sessions -> {"working"} \cup GateSteps \cup Stopped]
        /\ blocks' \in [Sessions -> Nat] /\ streak' \in [Sessions -> Nat] /\ forgotten' = forgotten
    BY <1>4
  <2>2. ASSUME NEW t \in Sessions
        PROVE  /\ blocks'[t] <= MaxBlocks
               /\ \/ streak'[t] = streak[t] /\ blocks'[t] = blocks[t]
                  \/ streak'[t] = streak[t] + 1 /\ blocks'[t] = blocks[t] + 1
    BY <1>4
  <2> QED
    BY <2>1, <2>2
<1>5. CASE GateYield(s)
  BY <1>5 DEF GateYield, JudgedRed
<1> QED
  BY <1>1, <1>2, <1>3, <1>4, <1>5 DEF Gate

\* The gate never blocks a session more than FPL_MAX_BLOCKS times in a row, and as many
\* again each time that markers of the session are pruned, whatever is edited, committed,
\* killed or timed out between the blocks and however many sessions share the checkout.
THEOREM BlockLimit == Spec => []BlocksBounded
<1>1. Init => CountInv
  BY ConstantsAssumption DEF Init, CountInv
<1>2. CountInv /\ [Next]_vars => CountInv'
  <2> SUFFICES ASSUME CountInv, [Next]_vars PROVE CountInv'
    OBVIOUS
  <2>1. CASE UNCHANGED vars
    BY <2>1 DEF CountInv, vars, markVars, historyVars
  <2>2. CASE Next
    BY <2>2, StartCount, SessionCount, GateCount DEF Next
  <2> QED
    BY <2>1, <2>2
<1>3. CountInv => BlocksBounded
  <2> DEFINE Held(s) == streak[s] <= MaxBlocks * (forgotten[s] + 1)
  <2>1. ASSUME CountInv, NEW s \in Sessions PROVE Held(s)
    <3>1. /\ streak[s] \in Nat /\ blocks[s] \in Nat /\ forgotten[s] \in Nat
          /\ streak[s] <= blocks[s] + MaxBlocks * forgotten[s] /\ blocks[s] <= MaxBlocks
      BY <2>1 DEF CountInv
    <3>2. MaxBlocks * forgotten[s] \in Nat /\ MaxBlocks * (forgotten[s] + 1) = MaxBlocks * forgotten[s] + MaxBlocks
      BY <3>1, LimitType
    <3> QED
      BY <3>1, <3>2, ConstantsAssumption
  <2>2. BlocksBounded <=> \A s \in Sessions : Held(s)
    BY Zenon DEF BlocksBounded
  <2> HIDE DEF Held
  <2> QED
    BY <2>1, <2>2, Zenon
<1> QED
  BY <1>1, <1>2, <1>3, PTL DEF Spec

(***************************************************************************)
(* Types                                                                   *)
(***************************************************************************)
LEMMA KeyType ==
  ASSUME TypeOK, NEW s \in Sessions, NEW hash \in SUBSET Tree
  PROVE  VerdictKey(s, hash) \in SUBSET Key
  BY DEF TypeOK, VerdictKey, Key

LEMMA NowType == ASSUME TypeOK PROVE Now \in Tree /\ Tip \in Tree
  BY DEF TypeOK, Now, Tip, Tree

\* A step of the gate's process replaces fields of its record by values of their type.
LEMMA HookUpdate ==
  ASSUME NEW k \in Hook, NEW a \in SUBSET Tree, NEW b \in SUBSET Tree,
         NEW e \in Exits, NEW r \in BOOLEAN
  PROVE  /\ [k EXCEPT !.guard = a, !.began = b] \in Hook
         /\ [k EXCEPT !.exit = e, !.red = r] \in Hook
         /\ [k EXCEPT !.tree = a, !.red = r] \in Hook
  BY DEF Hook

LEMMA TypeInit == Init => TypeOK
<1> SUFFICES ASSUME Init PROVE TypeOK
  OBVIOUS
<1>1. Tip \in Tree
  BY ConstantsAssumption DEF Init, Tip, Tree
<1> QED
  BY <1>1, ConstantsAssumption DEF Init, TypeOK, Hook, NoHook, Exits

\* A start of any session deletes markers and sets no baseline but its own.
LEMMA StartType ==
  ASSUME TypeOK, OtherStarts \/ \E s \in Sessions : SessionStart(s)
  PROVE  TypeOK'
<1>1. PICK old \in Old : Cleared(old)
  BY DEF OtherStarts, SessionStart
<1>2. /\ dirty' \in [Sessions -> BOOLEAN] /\ blocks' \in [Sessions -> Nat]
      /\ passed' \in [Sessions -> SUBSET Key] /\ yielded' \in [Sessions -> SUBSET Key]
  BY <1>1 DEF Cleared, TypeOK
<1>3. forgotten' \in [Sessions -> 0..MaxPrunes]
  <2>1. \A s \in Sessions : old[s] = {} \/ forgotten[s] < MaxPrunes
    BY Zenon DEF Old
  <2> QED
    BY <1>1, <2>1, ConstantsAssumption DEF Cleared, TypeOK
<1>4. Tip \in Tree /\ head \in Contents
  BY NowType DEF TypeOK
<1>5. /\ pc' \in [Sessions -> {"working"} \cup GateSteps \cup Stopped]
      /\ base' \in [Sessions -> Tree] /\ based' \in [Sessions -> BOOLEAN]
      /\ streak' \in [Sessions -> Nat] /\ forgiven' \in [Sessions -> SUBSET Contents]
  <2>1. CASE OtherStarts
    BY <2>1 DEF OtherStarts, Left, TypeOK
  <2>2. CASE \E s \in Sessions : SessionStart(s)
    <3>1. based' \in [Sessions -> BOOLEAN] /\ base' \in [Sessions -> Tree] /\ forgiven' \in [Sessions -> SUBSET Contents]
      BY <1>4, <2>2 DEF SessionStart, Left, TypeOK
    <3>2. pc' \in [Sessions -> {"working"} \cup GateSteps \cup Stopped] /\ streak' \in [Sessions -> Nat]
      BY <2>2 DEF SessionStart, Step, RowEnds, TypeOK
    <3> QED
      BY <3>1, <3>2
  <2> QED
    BY <2>1, <2>2
<1> QED
  BY <1>1, <1>2, <1>3, <1>5 DEF Cleared, TypeOK, treeVars

LEMMA SessionType ==
  ASSUME TypeOK, NEW s \in Sessions, Session(s)
  PROVE  TypeOK'
<1>6. CASE SessionStart(s)
  BY <1>6, StartType
<1> USE ConstantsAssumption DEF TypeOK, Step, Stopped, GateSteps, treeVars, markVars, baseVars, historyVars
<1>1. CASE Edit(s)
  BY <1>1 DEF Edit
<1>2. CASE Commit(s)
  BY <1>2 DEF Commit
<1>3. CASE ChangeContract(s)
  BY <1>3 DEF ChangeContract
<1>4. CASE StopAsked(s)
  BY <1>4 DEF StopAsked
<1>5. CASE Continue(s)
  BY <1>5 DEF Continue, RowEnds
<1> QED
  BY <1>1, <1>2, <1>3, <1>4, <1>5, <1>6 DEF Session

LEMMA GateType ==
  ASSUME TypeOK, NEW s \in Sessions, Gate(s) \/ GateKilled(s)
  PROVE  TypeOK'
<1> USE ConstantsAssumption DEF TypeOK, Step, Stopped, GateSteps, treeVars, markVars, baseVars, historyVars
<1>1. CASE GateUnarmed(s) \/ GateBare(s) \/ GateReuse(s)
  BY <1>1 DEF GateUnarmed, GateBare, GateReuse
<1>2. CASE GateLaunch(s)
  <2>1. Now \in Tree
    BY NowType
  <2>2. PICK hash \in {{}, {Now}} : hook' = [hook EXCEPT ![s].guard = hash, ![s].began = {Now}]
    BY <1>2 DEF GateLaunch, Launches
  <2>3. hook' \in [Sessions -> Hook]
    <3> DEFINE h == [hook[s] EXCEPT !.guard = hash, !.began = {Now}]
    <3>0. hook[s] \in Hook /\ hash \in SUBSET Tree /\ {Now} \in SUBSET Tree
      BY <2>1
    <3>1. h \in Hook
      BY ONLY <3>0, HookUpdate DEF Exits
    <3>2. hook' = [hook EXCEPT ![s] = h]
      BY <2>2
    <3> QED
      BY <3>1, <3>2
  <2>4. lastRun' \in [Sessions -> Exits \cup {"killed", "old"}]
    BY <1>2 DEF GateLaunch, Launches, Exits
  <2> QED
    BY <1>2, <2>3, <2>4 DEF GateLaunch, Launches
<1>3. CASE GateRun(s)
  <2>1. hook' \in [Sessions -> Hook]
    <3>1. PICK e \in Exits \ {"none"}, scan \in BOOLEAN :
            hook' = [hook EXCEPT ![s].exit = e, ![s].red = e # "green" \/ scan]
      BY ONLY <1>3, Zenon DEF GateRun
    <3> DEFINE h == [hook[s] EXCEPT !.exit = e, !.red = e # "green" \/ scan]
    <3>a. hook[s] \in Hook /\ e \in Exits
      OBVIOUS
    <3>b. (e # "green" \/ scan) \in BOOLEAN
      OBVIOUS
    <3>2. h \in Hook
      BY ONLY <3>a, <3>b, HookUpdate
    <3>3. hook' = [hook EXCEPT ![s] = h]
      BY <3>1
    <3> QED
      BY <3>2, <3>3
  <2> QED
    BY <1>3, <2>1 DEF GateRun
<1>4. CASE GateHash(s)
  <2>1. Now \in Tree
    BY NowType
  <2>2. VerdictKey(s, {Now}) \in SUBSET Key
    BY <2>1, KeyType
  <2>3. verified' \in SUBSET Key
    BY <1>4, <2>2 DEF GateHash
  <2>4. hook' \in [Sessions -> Hook]
    <3>1. PICK hash \in {{}, {Now}} :
            hook' = [hook EXCEPT ![s].tree = hash, ![s].red = @ \/ TreeMoved(s, hash)]
      BY <1>4 DEF GateHash
    <3> DEFINE h == [hook[s] EXCEPT !.tree = hash, !.red = @ \/ TreeMoved(s, hash)]
    <3>a. hook[s] \in Hook /\ hash \in SUBSET Tree
      BY <2>1
    <3>b. (hook[s].red \/ TreeMoved(s, hash)) \in BOOLEAN
      OBVIOUS
    <3>2. h \in Hook
      BY ONLY <3>a, <3>b, HookUpdate DEF Exits
    <3>3. hook' = [hook EXCEPT ![s] = h]
      BY <3>1
    <3> QED
      BY <3>2, <3>3
  <2> QED
    BY <1>4, <2>3, <2>4 DEF GateHash
<1>5. CASE GateGreen(s)
  BY <1>5 DEF GateGreen, RunEnds, Exits
<1>6. CASE GateBless(s)
  <2>1. VerdictKey(s, hook[s].tree) \in SUBSET Key
    BY KeyType DEF Hook
  <2>2. NoHook \in Hook /\ Tip \in Tree
    BY NowType DEF NoHook, Hook, Exits
  <2> QED
    BY <1>6, <2>1, <2>2 DEF GateBless
<1>7. CASE GateBlock(s) \/ GateYield(s)
  <2>1. VerdictKey(s, hook[s].guard) \in SUBSET Key
    BY KeyType DEF Hook
  <2>2. NoHook \in Hook /\ hook[s].exit \in Exits
    BY DEF NoHook, Hook, Exits
  <2>3. lastRun' \in [Sessions -> Exits \cup {"killed", "old"}]
    BY <1>7, <2>2 DEF GateBlock, GateYield, JudgedRed, RunEnds
  <2>4. CASE GateBlock(s)
    BY <2>2, <2>3, <2>4 DEF GateBlock, JudgedRed
  <2>5. CASE GateYield(s)
    BY <2>1, <2>2, <2>3, <2>5 DEF GateYield, JudgedRed
  <2> QED
    BY <1>7, <2>4, <2>5
<1>8. CASE GateKilled(s)
  <2>1. NoHook \in Hook
    BY DEF NoHook, Hook, Exits
  <2> QED
    BY <1>8, <2>1 DEF GateKilled
<1> QED
  BY <1>1, <1>2, <1>3, <1>4, <1>5, <1>6, <1>7, <1>8 DEF Gate

LEMMA TypeStep == TypeOK /\ [Next]_vars => TypeOK'
<1> SUFFICES ASSUME TypeOK, [Next]_vars PROVE TypeOK'
  OBVIOUS
<1>1. CASE UNCHANGED vars
  BY <1>1 DEF TypeOK, vars, treeVars, markVars, baseVars, historyVars
<1>2. CASE Next
  BY <1>2, StartType, SessionType, GateType DEF Next
<1> QED
  BY <1>1, <1>2

\* Every variable of the gate and its history stays in its type.
THEOREM TypeCorrect == Spec => []TypeOK
  BY TypeInit, TypeStep, PTL DEF Spec

(***************************************************************************)
(* Verdicts                                                                *)
(***************************************************************************)
\* Until the harness has ended the first hash is that of the tree it began on or
\* unknown; once the tree is judged, and until the key is cached, a run that is
\* not red has verified the tree hashed last.
VerdictOf(t) ==
  /\ passed[t] \subseteq verified
  /\ pc[t] \in {"running", "ran"} => hook[t].guard \in {{}, hook[t].began}
  /\ pc[t] \in {"judged", "bless"} /\ ~hook[t].red
       => VerdictKey(t, hook[t].tree) \subseteq verified
  /\ pc[t] = "bless" => ~hook[t].red

VerdictInv == TypeOK /\ \A t \in Sessions : VerdictOf(t)

\* A step leaves alone what it says of the other sessions, and of the session
\* itself when it neither moves the gate nor caches a key.
LEMMA VerdictFrame ==
  ASSUME NEW t \in Sessions, VerdictOf(t), verified \subseteq verified',
         pc'[t] = pc[t], passed'[t] \in {{}, passed[t]}, hook'[t] = hook[t],
         contract'[t] = contract[t]
  PROVE  VerdictOf(t)'
  BY DEF VerdictOf, VerdictKey

\* What the session whose step it is keeps when its gate is not at work.
LEMMA VerdictIdle ==
  ASSUME NEW t \in Sessions, VerdictOf(t), verified \subseteq verified',
         pc'[t] \notin GateSteps \ {"asked"}, passed'[t] \in {{}, passed[t]}
  PROVE  VerdictOf(t)'
  BY DEF VerdictOf, GateSteps

\* A start prunes the keys of any session.
LEMMA StartVerdict ==
  ASSUME VerdictInv, NEW t \in Sessions,
         OtherStarts \/ \E s \in Sessions : SessionStart(s)
  PROVE  VerdictOf(t)'
<1>1. PICK old \in Old : Cleared(old)
  BY DEF OtherStarts, SessionStart
<1>2. /\ passed'[t] \in {{}, passed[t]} /\ verified' = verified
      /\ hook' = hook /\ contract' = contract
  BY <1>1 DEF Cleared
<1>3. pc'[t] = pc[t] \/ pc'[t] = "working"
  BY DEF OtherStarts, SessionStart, Step, VerdictInv, TypeOK
<1> QED
  BY <1>2, <1>3, VerdictFrame, VerdictIdle DEF VerdictInv, GateSteps

LEMMA OthersVerdict ==
  ASSUME VerdictInv, NEW s \in Sessions, Session(s) \/ Gate(s) \/ GateKilled(s),
         ~SessionStart(s), NEW t \in Sessions, t # s
  PROVE  VerdictOf(t)'
<1>1. /\ pc'[t] = pc[t] /\ passed'[t] \in {{}, passed[t]} /\ hook'[t] = hook[t]
      /\ contract'[t] = contract[t] /\ verified \subseteq verified'
  <2> USE DEF VerdictInv, TypeOK, Step, markVars, historyVars
  <2>1. CASE Session(s)
    BY <2>1 DEF Session, Edit, Commit, ChangeContract, StopAsked, Continue
  <2>2. CASE GateUnarmed(s) \/ GateBare(s) \/ GateReuse(s) \/ GateKilled(s)
    BY <2>2 DEF GateUnarmed, GateBare, GateReuse, GateKilled
  <2>3. CASE GateLaunch(s) \/ GateRun(s) \/ GateHash(s)
    BY <2>3 DEF GateLaunch, Launches, GateRun, GateHash
  <2>4. CASE GateGreen(s) \/ GateBless(s) \/ GateBlock(s) \/ GateYield(s)
    BY <2>4 DEF GateGreen, GateBless, GateBlock, GateYield, JudgedRed
  <2> QED
    BY <2>1, <2>2, <2>3, <2>4 DEF Gate
<1> QED
  BY <1>1, VerdictFrame DEF VerdictInv

LEMMA SessionVerdict ==
  ASSUME VerdictInv, NEW s \in Sessions, Session(s) \/ GateKilled(s), ~SessionStart(s)
  PROVE  VerdictOf(s)'
<1>1. /\ pc'[s] \notin GateSteps \ {"asked"} /\ passed'[s] \in {{}, passed[s]}
      /\ verified \subseteq verified'
  <2> USE DEF VerdictInv, TypeOK, Step, markVars, historyVars, GateSteps
  <2>1. CASE Edit(s) \/ Commit(s) \/ ChangeContract(s) \/ StopAsked(s)
    BY <2>1 DEF Edit, Commit, ChangeContract, StopAsked
  <2>2. CASE Continue(s) \/ GateKilled(s)
    BY <2>2 DEF Continue, GateKilled
  <2> QED
    BY <2>1, <2>2 DEF Session
<1> QED
  BY <1>1, VerdictIdle DEF VerdictInv

\* The heart of it: the tree hashed after the run is the one hashed before it, so
\* it is the one the harness began on.
LEMMA HashVerdict ==
  ASSUME VerdictInv, NEW s \in Sessions, GateHash(s)
  PROVE  VerdictOf(s)'
<1>1. hook[s] \in Hook /\ hook'[s] \in Hook /\ pc'[s] = "judged" /\ passed' = passed
  <2>1. TypeOK /\ TypeOK'
    BY GateType DEF VerdictInv, Gate
  <2>2. hook[s] \in Hook /\ hook'[s] \in Hook /\ pc \in [Sessions -> {"working"} \cup GateSteps \cup Stopped]
    BY <2>1 DEF TypeOK
  <2> QED
    BY <2>2 DEF GateHash, Step, markVars
<1>2. hook[s].guard \in {{}, hook[s].began}
  BY DEF VerdictInv, VerdictOf, GateHash, Step
<1>3. PICK hash \in {{}, {Now}} :
        hook' = [hook EXCEPT ![s].tree = hash, ![s].red = @ \/ TreeMoved(s, hash)]
  BY DEF GateHash
<1>4. hook'[s].tree = hash /\ (hook'[s].red <=> hook[s].red \/ TreeMoved(s, hash))
  BY <1>1, <1>3 DEF VerdictInv, TypeOK, Hook
<1>5. ASSUME ~hook'[s].red
      PROVE  VerdictKey(s, {Now}) \subseteq verified' /\ hash = {Now}
  <2>1. ~hook[s].red /\ hash = {Now} /\ hook[s].began = {Now}
    BY <1>2, <1>4, <1>5 DEF TreeMoved
  <2> QED
    BY <2>1 DEF GateHash
<1>6. VerdictKey(s, hook[s].tree)' = VerdictKey(s, hook'[s].tree)
  BY DEF VerdictKey, GateHash
<1>7. verified \subseteq verified' /\ passed[s] \subseteq verified
  BY DEF GateHash, VerdictInv, VerdictOf
<1> QED
  BY <1>1, <1>4, <1>5, <1>6, <1>7 DEF VerdictOf

LEMMA GateVerdict ==
  ASSUME VerdictInv, NEW s \in Sessions, Gate(s)
  PROVE  VerdictOf(s)'
<1>1. CASE GateUnarmed(s) \/ GateBare(s) \/ GateReuse(s) \/ GateBlock(s) \/ GateYield(s)
  <2>1. /\ pc'[s] \notin GateSteps \ {"asked"} /\ passed'[s] \in {{}, passed[s]}
        /\ verified \subseteq verified'
    BY <1>1 DEF VerdictInv, TypeOK, Step, markVars, historyVars, GateSteps, GateUnarmed,
                GateBare, GateReuse, GateBlock, GateYield, JudgedRed
  <2> QED
    BY <2>1, VerdictIdle DEF VerdictInv
<1>2. CASE GateLaunch(s)
  <2>1. hook[s] \in Hook /\ pc'[s] = "running" /\ passed' = passed /\ verified' = verified
    BY <1>2 DEF VerdictInv, TypeOK, GateLaunch, Launches, Step, markVars, historyVars
  <2>2. hook'[s].guard \in {{}, hook'[s].began}
    BY <1>2, <2>1 DEF VerdictInv, TypeOK, GateLaunch, Launches, Hook
  <2> QED
    BY <2>1, <2>2 DEF VerdictOf, VerdictInv
<1>3. CASE GateRun(s)
  <2>1. /\ hook[s] \in Hook /\ pc[s] = "running" /\ pc'[s] = "ran"
        /\ passed' = passed /\ verified' = verified
    BY <1>3 DEF VerdictInv, TypeOK, GateRun, Step, markVars, historyVars
  <2>2. hook'[s].guard = hook[s].guard /\ hook'[s].began = hook[s].began
    BY <1>3, <2>1 DEF VerdictInv, TypeOK, GateRun, Hook
  <2> QED
    BY <2>1, <2>2 DEF VerdictOf, VerdictInv
<1>4. CASE GateHash(s)
  BY <1>4, HashVerdict
<1>5. CASE GateGreen(s)
  <2>1. /\ pc[s] = "judged" /\ pc'[s] = "bless" /\ ~hook[s].red /\ hook' = hook
        /\ passed' = passed /\ verified' = verified /\ contract' = contract
    BY <1>5 DEF VerdictInv, TypeOK, GateGreen, Step
  <2> QED
    BY <2>1 DEF VerdictOf, VerdictInv, VerdictKey
<1>6. CASE GateBless(s)
  <2>1. /\ pc[s] = "bless" /\ pc'[s] = "green" /\ verified' = verified
        /\ passed'[s] = VerdictKey(s, hook[s].tree)
    BY <1>6 DEF VerdictInv, TypeOK, GateBless, Step
  <2> QED
    BY <2>1 DEF VerdictOf, VerdictInv
<1> QED
  BY <1>1, <1>2, <1>3, <1>4, <1>5, <1>6 DEF Gate

LEMMA VerdictInvariant == Spec => []VerdictInv
<1>1. Init => VerdictInv
  <2> SUFFICES ASSUME Init PROVE VerdictInv
    OBVIOUS
  <2>1. ASSUME NEW t \in Sessions PROVE VerdictOf(t)
    BY DEF Init, VerdictOf
  <2> QED
    BY <2>1, TypeInit DEF VerdictInv
<1>2. VerdictInv /\ [Next]_vars => VerdictInv'
  <2> SUFFICES ASSUME VerdictInv, [Next]_vars PROVE VerdictInv'
    OBVIOUS
  <2>1. TypeOK'
    BY TypeStep DEF VerdictInv
  <2>2. ASSUME NEW t \in Sessions PROVE VerdictOf(t)'
    <3>1. CASE UNCHANGED vars
      BY <3>1, VerdictFrame DEF VerdictInv, vars, markVars, historyVars
    <3>2. CASE Next
      BY <3>2, StartVerdict, OthersVerdict, SessionVerdict, GateVerdict DEF Next
    <3> QED
      BY <3>1, <3>2
  <2> QED
    BY <2>1, <2>2 DEF VerdictInv
<1> QED
  BY <1>1, <1>2, PTL DEF Spec

\* A cached PASS names a tree and an invocation whose harness ended green on the
\* tree it had begun on, however many sessions edit, commit and run beside it.
THEOREM CacheCorrect == Spec => []GreenIsVerified
<1>1. VerdictInv => GreenIsVerified
  BY DEF VerdictInv, VerdictOf, GreenIsVerified
<1> QED
  BY <1>1, VerdictInvariant, PTL

\* A stop let through on a cached verdict is let through on a verified tree.
THEOREM ReuseCorrect == Spec => ReusedIsVerified
<1>1. VerdictInv /\ [Next]_vars
        => [\A s \in Sessions :
              pc[s] = "asked" /\ pc'[s] = "passed" => VerdictKey(s, {Now}) \subseteq verified]_vars
  <2> SUFFICES ASSUME VerdictInv, Next, NEW s \in Sessions,
                      pc[s] = "asked", pc'[s] = "passed"
               PROVE  VerdictKey(s, {Now}) \subseteq verified
    BY Zenon
  <2>1. PICK t \in Sessions : Session(t) \/ Gate(t) \/ GateKilled(t)
    BY DEF Next, OtherStarts
  <2>2. GateReuse(s)
    BY <2>1 DEF VerdictInv, TypeOK, Session, Edit, Commit, ChangeContract, StopAsked,
         Continue, SessionStart, Gate, GateUnarmed, GateBare, GateReuse, GateLaunch, Launches,
         GateRun, GateHash, GateGreen, GateBless, GateBlock, GateYield, JudgedRed,
         GateKilled, Step, Stopped, GateSteps
  <2>3. Holds(passed, s, {Now})
    BY <2>2 DEF VerdictInv, TypeOK, GateReuse, Step
  <2> QED
    BY <2>3 DEF Holds, VerdictInv, VerdictOf
<1> QED
  BY <1>1, VerdictInvariant, PTL DEF Spec, ReusedIsVerified

(***************************************************************************)
(* The baseline                                                            *)
(***************************************************************************)
\* The baseline is what the session found at HEAD or what its gate moved it to.
BaseInv == TypeOK /\ \A s \in Sessions : base[s].code \in {inherited[s]} \cup forgiven[s]

LEMMA BaseStep == BaseInv /\ [Next]_vars => BaseInv'
<1> SUFFICES ASSUME BaseInv, [Next]_vars PROVE BaseInv'
  OBVIOUS
<1>1. TypeOK'
  BY TypeStep DEF BaseInv
<1>2. CASE UNCHANGED vars
  BY <1>1, <1>2 DEF BaseInv, vars, markVars, baseVars, historyVars
<1>4. CASE OtherStarts
  BY <1>1, <1>4 DEF OtherStarts, Cleared, BaseInv
<1>3. CASE \E s \in Sessions : Session(s) \/ Gate(s) \/ GateKilled(s)
  <2>1. PICK s \in Sessions : Session(s) \/ Gate(s) \/ GateKilled(s)
    BY <1>3
  <2>2. CASE SessionStart(s) \/ GateBless(s)
    BY <1>1, <2>2 DEF SessionStart, Cleared, GateBless, Tip, BaseInv, TypeOK
  <2>3. CASE Session(s) /\ ~SessionStart(s)
    BY <1>1, <2>3 DEF BaseInv, Session, Edit, Commit, ChangeContract, StopAsked, Continue,
         markVars, baseVars, historyVars
  <2>4. CASE (Gate(s) \/ GateKilled(s)) /\ ~GateBless(s)
    BY <1>1, <2>4 DEF BaseInv, Gate, GateUnarmed, GateBare, GateReuse, GateLaunch, Launches,
         GateRun, GateHash, GateGreen, GateBlock, GateYield, JudgedRed, GateKilled,
         markVars, baseVars, historyVars
  <2> QED
    BY <2>1, <2>2, <2>3, <2>4
<1> QED
  BY <1>2, <1>3, <1>4 DEF Next

\* A session that stops unjudged leaves code that HEAD held when it started or
\* when its baseline was moved: no sequence of commits makes other code pass.
THEOREM NoEscape == Spec => CommitIsNoEscape
<1>1. Init => BaseInv
  BY TypeInit DEF Init, Tip, BaseInv
<1>2. BaseInv /\ [Next]_vars
        => [\A s \in Sessions : pc[s] = "asked" /\ pc'[s] = "unarmed"
              => work \in {inherited[s]} \cup forgiven[s]]_vars
  <2> SUFFICES ASSUME BaseInv, Next, NEW s \in Sessions,
                      pc[s] = "asked", pc'[s] = "unarmed"
               PROVE  work \in {inherited[s]} \cup forgiven[s]
    BY Zenon
  <2>1. PICK t \in Sessions : Session(t) \/ Gate(t) \/ GateKilled(t)
    BY DEF Next, OtherStarts
  <2>2. GateUnarmed(s)
    BY <2>1 DEF BaseInv, TypeOK, Session, Edit, Commit, ChangeContract, StopAsked,
         Continue, SessionStart, Gate, GateUnarmed, GateBare, GateReuse, GateLaunch, Launches,
         GateRun, GateHash, GateGreen, GateBless, GateBlock, GateYield, JudgedRed,
         GateKilled, Step, Stopped, GateSteps
  <2> QED
    BY <2>2 DEF GateUnarmed, Armed, CodeDirty, BaseInv
<1> QED
  BY <1>1, <1>2, BaseStep, PTL DEF Spec, CommitIsNoEscape

(***************************************************************************)
(* What last-harness says of a run that was killed                         *)
(***************************************************************************)
\* A PASS on disk is older than no run: the one that began last has ended, and was not
\* killed.  A second session's PASS over a run in flight would break it.
PassInv ==
  /\ lastRun \in [Sessions -> Exits \cup {"killed", "old"}]
  /\ lastHarness = "PASS" => \A s \in Sessions : lastRun[s] \notin {"none", "killed"}

\* One session has the checkout for itself.
Alone == \A s, t \in Sessions : s = t

LEMMA PassStep ==
  ASSUME Alone, TypeOK, PassInv, [Next]_vars
  PROVE  PassInv'
<1>0. TypeOK'
  BY TypeStep
<1> USE <1>0 DEF PassInv, TypeOK, Exits
<1>1. CASE UNCHANGED vars
  BY <1>1 DEF vars
<1>2. ASSUME NEW s \in Sessions, Session(s) PROVE PassInv'
  BY <1>2 DEF Session, Edit, Commit, ChangeContract, StopAsked, Continue, SessionStart, Cleared
<1>8. CASE OtherStarts
  BY <1>8 DEF OtherStarts, Cleared
<1>3. ASSUME NEW s \in Sessions, GateUnarmed(s) \/ GateBare(s) \/ GateReuse(s) \/ GateHash(s) \/ GateBless(s)
      PROVE  PassInv'
  BY <1>3 DEF GateUnarmed, GateBare, GateReuse, GateHash, GateBless
<1>4. ASSUME NEW s \in Sessions, GateLaunch(s) \/ GateRun(s) PROVE PassInv'
  BY <1>4 DEF GateLaunch, Launches, GateRun
<1>5. ASSUME NEW s \in Sessions, GateGreen(s) PROVE PassInv'
  BY <1>5 DEF GateGreen, RunEnds, Alone
<1>6. ASSUME NEW s \in Sessions, GateBlock(s) \/ GateYield(s) PROVE PassInv'
  BY <1>6 DEF GateBlock, GateYield, JudgedRed
<1>7. ASSUME NEW s \in Sessions, GateKilled(s) PROVE PassInv'
  BY <1>7 DEF GateKilled
<1> QED
  BY <1>1, <1>2, <1>3, <1>4, <1>5, <1>6, <1>7, <1>8 DEF Next, Gate

\* A verdict that was killed never looks like one that passed, as long as one session has
\* the checkout for itself, whatever it commits, restarts and times out.
THEOREM KilledNotPassed == Alone /\ Spec => []KilledIsNotPassed
<1> SUFFICES ASSUME Alone PROVE Spec => []KilledIsNotPassed
  OBVIOUS
<1>1. Init => TypeOK /\ PassInv
  BY TypeInit DEF Init, PassInv, TypeOK
<1>2. TypeOK /\ PassInv /\ [Next]_vars => (TypeOK /\ PassInv)'
  BY TypeStep, PassStep
<1>3. PassInv => KilledIsNotPassed
  BY Zenon DEF PassInv, KilledIsNotPassed
<1> QED
  BY <1>1, <1>2, <1>3, PTL DEF Spec
=============================================================================
