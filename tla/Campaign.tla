------------------------------ MODULE Campaign ------------------------------
(***************************************************************************)
(* One launch of a compiled graph: the JavaScript that compile-graph.py    *)
(* emits for a graph with lanes (emit, emit_scheduled, emit_node) with the *)
(* helpers of graph-replay.js.  Lanes run side by side between barriers,   *)
(* a sentinel agent reads the shared tree at every checkpoint, every call  *)
(* goes through the token floor and the node ceiling, and the first halt   *)
(* ends the campaign.  A resumed launch hands back the captured results of *)
(* the run it resumes as long as its calls are the same ones, and never    *)
(* past the first fork.                                                    *)
(*                                                                         *)
(* The script is one thread: an action is the code between two awaits, and *)
(* a call is refused, launched and answered in different actions.  Agents  *)
(* answer in any order, die, or throw.  A node's workers are its fan-out;  *)
(* the votes of a panel are calls of the node that produced the items.     *)
(***************************************************************************)
EXTENDS Integers, Sequences, FiniteSets

CONSTANTS Order,         \* the nodes as declared
          LaneOf,        \* node -> its lane, NoLane for a join
          NoLane,
          After,         \* node -> the nodes its `after` names
          Listed,        \* nodes whose `after` is a list, of one name or of several
          Fans,          \* nodes with foreach
          Width,         \* node -> how many items its list has, 1 for a single node
          Gates,         \* nodes marked independent or prove:, with a haltWhen
          Panels,        \* single nodes whose items are voted on
          Parked,        \* nodes whose actor is no agent
          Irreversible,  \* nodes with an effect that cannot be repeated
          Halting,       \* nodes with onRed: halt
          MaxItems,      \* bound: the items a panel node may produce
          MaxNodes,      \* budget.maxNodes
          Tokens,        \* budget.total, in the unit of the floors
          Floor,         \* budget.nodeFloorTokens
          VerifyFloor,   \* budget.verifyFloorTokens
          Spends,        \* bound: what one call may cost
          Trees,         \* states of the shared tree
          NoTree,        \* no reading
          MaxMoves,      \* bound: how often the tree moves during the run
          MaxPrefix      \* bound: the captured calls of the run that is resumed

Nodes == {Order[i] : i \in DOMAIN Order}
Rank(n) == CHOOSE i \in DOMAIN Order : Order[i] = n

ASSUME GraphAssumption ==
  /\ Order \in Seq(Nodes) /\ \A i, j \in DOMAIN Order : Order[i] = Order[j] => i = j
  /\ DOMAIN LaneOf = Nodes /\ DOMAIN After = Nodes /\ DOMAIN Width = Nodes
  /\ Gates \cup Panels \cup Parked \cup Irreversible \cup Halting \subseteq Nodes
  /\ \A n \in Nodes : After[n] \subseteq {m \in Nodes : Rank(m) < Rank(n)}
  /\ \A n \in Nodes \ Listed : \A d, e \in After[n] : d = e
  /\ \A n \in Nodes : Width[n] \in Nat /\ (n \notin Fans => Width[n] = 1)
  /\ Fans \cap (Panels \cup Parked \cup Irreversible) = {}
  /\ \A n \in Irreversible : LaneOf[n] = NoLane
ASSUME BudgetAssumption ==
  /\ {MaxItems, MaxNodes, Tokens, Floor, VerifyFloor, MaxMoves, MaxPrefix} \subseteq Nat
  /\ Spends \subseteq Nat /\ Spends # {}
  /\ NoTree \notin Trees

VARIABLES
  pc,          \* the script between nodes: "start", "out", "fork", "in", "end", and
               \* "over" with an outcome or "aborted" by an error nobody catches
  stage,       \* the stage it is at
  forked,      \* FORKED
  st,          \* node -> "todo", "check", "ready", "work", "verify", "done"
  call,        \* worker -> how its call stands
  d0,          \* node -> DECLINED when its work began
  filed,       \* node -> its provenance row
  halted,      \* HALT's outcome, "none" without one
  incomplete,  \* INCOMPLETE
  blocked,     \* BLOCKED
  unverified,  \* nodes with an item whose panel did not vote in full
  spawned,     \* SPAWNED
  declined,    \* DECLINED
  reserved,    \* RESERVED
  tokens,      \* budget.remaining()
  tree,        \* the shared tree
  base,        \* the launcher's reading, args._base
  baseline,    \* TREE.baseline
  read,        \* the readings of TREE.checks
  source,      \* the tree that the resumed run started on
  prefix,      \* captured calls still in order, 0 once PREFIX_OPEN is false
  released,    \* RELEASES: the parked nodes somebody has done
  moves,       \* how often the tree has moved
  outcome      \* the summary's outcome, "none" before it

scriptVars == <<pc, stage, forked>>
nodeVars == <<st, d0, filed>>
budgetVars == <<spawned, declined, reserved, tokens>>
treeVars == <<tree, base, source, moves>>
checkVars == <<baseline, read>>
resultVars == <<blocked, unverified, released>>
vars == <<pc, stage, forked, st, call, d0, filed, halted, incomplete, blocked,
          unverified, spawned, declined, reserved, tokens, tree, base, baseline,
          read, source, prefix, released, moves, outcome>>

(***************************************************************************)
(* execution_stages: lane bodies in declaration order, cut by joins.       *)
(***************************************************************************)
Flushed(s) == IF s.batch = {} THEN s.stages
              ELSE Append(s.stages, [kind |-> "lanes", nodes |-> s.batch])

\* Variant: a dependency in another lane of the batch is no reason to join.
ForeignNever(n, batch) == FALSE
Foreign(n, batch) == \E d \in After[n] \cap batch : LaneOf[d] # LaneOf[n]

Scan[i \in 0 .. Len(Order)] ==
  IF i = 0 THEN [stages |-> <<>>, batch |-> {}]
  ELSE LET s == Scan[i - 1]
           n == Order[i]
       IN  IF LaneOf[n] = NoLane \/ Foreign(n, s.batch) \/ n \in Irreversible
           THEN [stages |-> Append(Flushed(s), [kind |-> "join", nodes |-> {n}]),
                 batch |-> {}]
           ELSE [s EXCEPT !.batch = @ \cup {n}]
Stages == Flushed(Scan[Len(Order)])

Slots == 1 .. (CHOOSE k \in {Width[n] : n \in Nodes} : \A n \in Nodes : Width[n] <= k)
              + MaxItems
Workers == Nodes \X Slots
Mains(n) == {n} \X (1 .. Width[n])
Votes(n) == {w \in Workers : w[1] = n /\ w[2] > Width[n]}

Flying == {"flight", "captured"}
Answers == {"ok", "red", "dead", "threw"}
Nulls == {"dead", "declined", "refused"}
\* Variant: a call that was never made because of a halt is awaited all the same.
OverButRefused(c) == c \in Answers \cup {"none", "declined"}
\* The await of a call has returned, with a result or with null.
Over(c) == c \in Answers \cup {"none", "declined", "refused"}

Outcomes == {"none", "COMPLETE", "INCOMPLETE", "BUDGET-EXHAUSTED", "NODE-DEAD",
             "NODE-ERROR", "HALTED", "TREE-UNKNOWN", "TREE-MOVED"}
Rows == {"none", "OK", "SKIPPED", "DEAD", "BLOCKED", "RELEASED", "ERROR"}

TypeOK ==
  /\ pc \in {"start", "out", "fork", "in", "end", "over", "aborted"}
  /\ stage \in 1 .. Len(Stages) + 1 /\ forked \in BOOLEAN
  /\ st \in [Nodes -> {"todo", "check", "ready", "work", "verify", "done"}]
  /\ call \in [Workers -> Flying \cup Answers \cup {"none", "asked", "declined", "refused"}]
  /\ d0 \in [Nodes -> Nat] /\ filed \in [Nodes -> Rows]
  /\ halted \in Outcomes /\ incomplete \in BOOLEAN /\ outcome \in Outcomes
  /\ blocked \in SUBSET Nodes /\ unverified \in SUBSET Nodes /\ released \in SUBSET Parked
  /\ spawned \in 0 .. MaxNodes /\ declined \in Nat /\ reserved \in Nat /\ tokens \in 0 .. Tokens
  /\ tree \in Trees /\ base \in Trees /\ source \in Trees
  /\ baseline \in Trees \cup {NoTree} /\ read \in SUBSET Trees
  /\ prefix \in 0 .. MaxPrefix /\ moves \in 0 .. MaxMoves

\* The launcher has just read the tree; a resumed run has captured calls.
Init ==
  /\ pc = "start" /\ stage = 1 /\ forked = FALSE
  /\ st = [n \in Nodes |-> "todo"] /\ call = [w \in Workers |-> "none"]
  /\ d0 = [n \in Nodes |-> 0] /\ filed = [n \in Nodes |-> "none"]
  /\ halted = "none" /\ incomplete = FALSE /\ outcome = "none"
  /\ blocked = {} /\ unverified = {} /\ released \in SUBSET Parked
  /\ spawned = 0 /\ declined = 0 /\ reserved = 0 /\ tokens = Tokens
  /\ tree \in Trees /\ base = tree
  /\ baseline = NoTree /\ read = {} /\ moves = 0
  /\ prefix \in 0 .. MaxPrefix
  /\ source \in Trees /\ (prefix = 0 => source = base)

(***************************************************************************)
(* The environment: something moves the shared tree.                       *)
(***************************************************************************)
Disturb ==
  /\ pc \notin {"over", "aborted"} /\ moves < MaxMoves
  /\ tree' \in Trees \ {tree} /\ moves' = moves + 1
  /\ UNCHANGED <<scriptVars, nodeVars, call, halted, incomplete, budgetVars, base,
                 source, checkVars, resultVars, prefix, outcome>>

(***************************************************************************)
(* treeCheck: the sentinel's reading r, NoTree when it died.  A reading    *)
(* that carries no nonce may be one the resumed run captured.              *)
(***************************************************************************)
Reads(r, live) == \/ /\ ~live /\ prefix > 0
                     /\ r = source /\ prefix' = prefix - 1
                  \/ r \in {tree, NoTree} /\ prefix' = 0

Problem(r) == CASE r = NoTree -> "TREE-UNKNOWN"
                [] r # NoTree /\ baseline \notin {NoTree, r} -> "TREE-MOVED"
                [] OTHER -> "none"

Record(r) ==
  /\ incomplete' = (incomplete \/ r = NoTree)
  /\ read' = read \cup ({r} \ {NoTree})
  /\ baseline' = IF baseline = NoTree THEN r ELSE baseline

Halt(o) == halted' = IF halted = "none" THEN o ELSE halted
Final(o) == IF o = "COMPLETE" /\ incomplete' THEN "INCOMPLETE" ELSE o

LaunchProblem(r) == IF r \notin {NoTree, base} THEN "TREE-MOVED" ELSE Problem(r)

\* The first reading, and the launcher's beside it.
CampaignStart ==
  /\ pc = "start"
  /\ \E r \in Trees \cup {NoTree} :
       /\ Reads(r, FALSE) /\ Record(r)
       /\ outcome' = LaunchProblem(r)
       /\ pc' = IF LaunchProblem(r) = "none" THEN "out" ELSE "over"
  /\ UNCHANGED <<stage, forked, nodeVars, call, halted, budgetVars, treeVars, resultVars>>

\* The last one; what was declined or blocked makes the campaign incomplete.
CampaignEnd ==
  /\ pc = "end"
  /\ \E r \in Trees \cup {NoTree} :
       /\ Reads(r, forked) /\ Record(r)
       /\ outcome' = IF Problem(r) = "none" THEN Final("COMPLETE") ELSE Problem(r)
  /\ pc' = "over"
  /\ UNCHANGED <<stage, forked, nodeVars, call, halted, budgetVars, treeVars, resultVars>>

\* The sentinel's call throws, live as it is.  Only a node's errors are caught.
SentinelThrows ==
  /\ pc \in {"start", "fork", "end"} /\ pc' = "aborted" /\ prefix' = 0
  /\ UNCHANGED <<stage, forked, nodeVars, call, halted, incomplete, budgetVars, treeVars,
                 checkVars, resultVars, outcome>>

(***************************************************************************)
(* emit_scheduled: the stages in turn.                                     *)
(***************************************************************************)
StageNodes == Stages[stage].nodes

EnterStage ==
  /\ pc = "out" /\ stage <= Len(Stages) /\ halted = "none"
  /\ LET lanes == Stages[stage].kind = "lanes"
     IN  pc' = (IF lanes THEN "fork" ELSE "in") /\ forked' = (forked \/ lanes)
  /\ UNCHANGED <<stage, nodeVars, call, halted, incomplete, budgetVars, treeVars,
                 checkVars, resultVars, prefix, outcome>>

ForkCheck ==
  /\ pc = "fork" /\ pc' = "in"
  /\ \E r \in Trees \cup {NoTree} :
       /\ Reads(r, TRUE) /\ Record(r)
       /\ IF Problem(r) = "none" THEN UNCHANGED halted ELSE Halt(Problem(r))
  /\ UNCHANGED <<stage, forked, nodeVars, call, budgetVars, treeVars, resultVars, outcome>>

\* Every lane has run to its end, or has met the halt before its next node.
StagePassed ==
  \A n \in StageNodes : st[n] = "done" \/ (st[n] = "todo" /\ halted # "none")

LeaveStage ==
  /\ pc = "in" /\ StagePassed
  /\ pc' = "out" /\ stage' = stage + 1
  /\ UNCHANGED <<forked, nodeVars, call, halted, incomplete, budgetVars, treeVars,
                 checkVars, resultVars, prefix, outcome>>

LastStage ==
  /\ pc = "out" /\ (stage > Len(Stages) \/ halted # "none")
  /\ IF halted = "none" THEN pc' = "end" /\ UNCHANGED outcome
                        ELSE pc' = "over" /\ outcome' = halted
  /\ UNCHANGED <<stage, forked, nodeVars, call, halted, incomplete, budgetVars, treeVars,
                 checkVars, resultVars, prefix>>

(***************************************************************************)
(* runGraphNode and emit_node: one node.                                   *)
(***************************************************************************)
Ready(n) ==
  /\ pc = "in" /\ n \in StageNodes /\ st[n] = "todo" /\ halted = "none"
  /\ \A m \in StageNodes : Rank(m) < Rank(n) /\ LaneOf[m] = LaneOf[n] => st[m] = "done"

Joined(n) == Stages[stage].kind = "join" /\ (forked \/ n \in Listed)
Checked(n) == n \in Gates \/ Joined(n)

BeginCheck(n) ==
  /\ Ready(n) /\ Checked(n)
  /\ st' = [st EXCEPT ![n] = "check"]
  /\ UNCHANGED <<scriptVars, d0, filed, call, halted, incomplete, budgetVars, treeVars,
                 checkVars, resultVars, prefix, outcome>>

NodeCheck(n) ==
  /\ st[n] = "check"
  /\ \E r \in Trees \cup {NoTree} :
       /\ Reads(r, forked \/ Joined(n)) /\ Record(r)
       /\ IF Problem(r) = "none"
          THEN st' = [st EXCEPT ![n] = "ready"] /\ UNCHANGED halted
          ELSE st' = [st EXCEPT ![n] = "done"] /\ Halt(Problem(r))
  /\ UNCHANGED <<scriptVars, d0, filed, call, budgetVars, treeVars, resultVars, outcome>>

Done(n, row) == /\ st' = [st EXCEPT ![n] = "done"]
                /\ filed' = [filed EXCEPT ![n] = row]

\* The sentinel's call throws: runGraphNode files the error and halts.
CheckThrows(n) ==
  /\ st[n] = "check"
  /\ Done(n, "ERROR") /\ Halt("NODE-ERROR") /\ prefix' = 0
  /\ UNCHANGED <<scriptVars, d0, call, incomplete, budgetVars, treeVars, checkVars,
                 resultVars, outcome>>

\* The node's own code starts: right away, or after its tree check, with no
\* second look at HALT.
Runs(n) == st[n] = "ready" \/ (Ready(n) /\ ~Checked(n))

Affordable == tokens - reserved >= Floor

\* What is left once every call that is out has kept its floor pays for one more, and
\* the ceiling has room for it.
Room == Affordable /\ spawned < MaxNodes

\* replaySpawn: under a halt a call returns null at once.
Asks(ws) == call' = [w \in Workers |-> IF w \notin ws THEN call[w]
                                       ELSE IF halted = "none" THEN "asked" ELSE "refused"]

Block(n) == Done(n, "BLOCKED") /\ blocked' = blocked \cup {n} /\ incomplete' = TRUE

\* Blocked is inherited down the `after` chain.
Inherit(n) ==
  /\ Runs(n) /\ After[n] \cap blocked # {}
  /\ Block(n)
  /\ UNCHANGED <<scriptVars, d0, call, halted, budgetVars, treeVars, checkVars, unverified,
                 released, prefix, outcome>>

Released(n) ==
  /\ Runs(n) /\ After[n] \cap blocked = {} /\ n \in Parked \cap released
  /\ Done(n, "RELEASED")
  /\ UNCHANGED <<scriptVars, d0, call, halted, incomplete, budgetVars, treeVars, checkVars,
                 resultVars, prefix, outcome>>

\* emit_parked: advice first, if it can be paid for; blocked either way.
Advise(n) ==
  /\ Runs(n) /\ After[n] \cap blocked = {} /\ n \in Parked \ released
  /\ IF Affordable
     THEN /\ Asks(Mains(n)) /\ st' = [st EXCEPT ![n] = "work"]
          /\ UNCHANGED <<filed, incomplete, blocked>>
     ELSE Block(n) /\ UNCHANGED call
  /\ UNCHANGED <<scriptVars, d0, halted, budgetVars, treeVars, checkVars,
                 unverified, released, prefix, outcome>>

Work(n) ==
  /\ Runs(n) /\ After[n] \cap blocked = {} /\ n \notin Parked
  /\ IF Affordable
     THEN /\ Asks(Mains(n)) /\ st' = [st EXCEPT ![n] = "work"]
          /\ d0' = [d0 EXCEPT ![n] = declined]
          /\ UNCHANGED <<filed, halted, incomplete>>
     ELSE /\ Done(n, "SKIPPED") /\ incomplete' = TRUE
          /\ IF n \in Halting /\ n \notin Fans THEN Halt("BUDGET-EXHAUSTED") ELSE UNCHANGED halted
          /\ UNCHANGED <<call, d0>>
  /\ UNCHANGED <<scriptVars, budgetVars, treeVars, checkVars, resultVars, prefix, outcome>>

(***************************************************************************)
(* reservedSpawn, spawn and agent: one call.                               *)
(***************************************************************************)
Becomes(w, c) == call' = [call EXCEPT ![w] = c]

Refuse(w) ==
  /\ call[w] = "asked" /\ halted # "none"
  /\ Becomes(w, "refused")
  /\ UNCHANGED <<scriptVars, nodeVars, halted, incomplete, budgetVars, treeVars, checkVars,
                 resultVars, prefix, outcome>>

\* Variant: work is declined and the campaign counts as whole.
DeclineComplete(w) ==
  /\ call[w] = "asked" /\ halted = "none"
  /\ ~Room
  /\ Becomes(w, "declined") /\ declined' = declined + 1
  /\ UNCHANGED <<scriptVars, nodeVars, halted, incomplete, spawned, reserved, tokens, treeVars,
                 checkVars, resultVars, prefix, outcome>>
Decline(w) ==
  /\ call[w] = "asked" /\ halted = "none"
  /\ ~Room
  /\ Becomes(w, "declined") /\ incomplete' = TRUE /\ declined' = declined + 1
  /\ UNCHANGED <<scriptVars, nodeVars, halted, spawned, reserved, tokens, treeVars, checkVars,
                 resultVars, prefix, outcome>>

\* A captured result is handed back while the calls are those of the resumed
\* run; a call that differs closes the prefix.
Launch(w) ==
  /\ call[w] = "asked" /\ halted = "none"
  /\ Room
  /\ spawned' = spawned + 1 /\ reserved' = reserved + Floor
  /\ \/ ~forked /\ prefix > 0 /\ Becomes(w, "captured") /\ prefix' = prefix - 1
     \/ Becomes(w, "flight") /\ prefix' = 0
  /\ UNCHANGED <<scriptVars, nodeVars, halted, incomplete, declined, tokens, treeVars,
                 checkVars, resultVars, outcome>>

Possible(w) == {"ok"} \cup (IF w[1] \in Gates THEN {"red"} ELSE {})
               \cup (IF call[w] = "captured" THEN {}
                     ELSE IF w \in Mains(w[1]) /\ w[1] \notin Fans THEN {"dead", "threw"}
                     ELSE {"dead"})

Answer(w) ==
  /\ call[w] \in Flying
  /\ \E a \in Possible(w) : Becomes(w, a)
  /\ reserved' = reserved - Floor
  /\ IF call[w] = "captured" THEN UNCHANGED tokens
     ELSE \E c \in Spends : tokens' = IF c > tokens THEN 0 ELSE tokens - c
  /\ UNCHANGED <<scriptVars, nodeVars, halted, incomplete, spawned, declined, treeVars,
                 checkVars, resultVars, prefix, outcome>>

(***************************************************************************)
(* The node's code after its calls.                                        *)
(***************************************************************************)
Answered(n) == st[n] = "work" /\ \A w \in Mains(n) : Over(call[w])
Result(n) == call[<<n, 1>>]

\* The advice to a parked node has come, or has not.
SettleParked(n) ==
  /\ Answered(n) /\ n \in Parked
  /\ IF Result(n) = "threw"
     THEN Done(n, "ERROR") /\ Halt("NODE-ERROR") /\ UNCHANGED <<blocked, incomplete>>
     ELSE Block(n) /\ UNCHANGED halted
  /\ UNCHANGED <<scriptVars, d0, call, budgetVars, treeVars, checkVars,
                 unverified, released, prefix, outcome>>

Single(n) == n \notin Fans \cup Parked

SettleError(n) ==
  /\ Answered(n) /\ Single(n) /\ Result(n) = "threw"
  /\ Done(n, "ERROR") /\ Halt("NODE-ERROR")
  /\ UNCHANGED <<scriptVars, d0, call, incomplete, budgetVars, treeVars, checkVars,
                 resultVars, prefix, outcome>>

\* null: a declined call if DECLINED has grown since, a death otherwise.
SettleNull(n) ==
  /\ Answered(n) /\ Single(n) /\ Result(n) \in Nulls
  /\ LET skipped == declined > d0[n]
     IN  /\ Done(n, IF skipped THEN "SKIPPED" ELSE "DEAD")
         /\ IF n \in Halting THEN Halt(IF skipped THEN "BUDGET-EXHAUSTED" ELSE "NODE-DEAD")
                             ELSE UNCHANGED halted
  /\ UNCHANGED <<scriptVars, d0, call, incomplete, budgetVars, treeVars, checkVars,
                 resultVars, prefix, outcome>>

SettleOk(n) ==
  /\ Answered(n) /\ Single(n) /\ Result(n) \in {"ok", "red"} /\ n \notin Panels
  /\ Done(n, "OK")
  /\ IF Result(n) = "red" THEN Halt("HALTED") ELSE UNCHANGED halted
  /\ UNCHANGED <<scriptVars, d0, call, incomplete, budgetVars, treeVars, checkVars,
                 resultVars, prefix, outcome>>

\* verifyItems and refute: a vote on each item, none under the floor.
SettlePanel(n) ==
  /\ Answered(n) /\ Single(n) /\ Result(n) = "ok" /\ n \in Panels
  /\ \E k \in 0 .. MaxItems :
       IF k > 0 /\ tokens < VerifyFloor
       THEN /\ Done(n, "OK") /\ unverified' = unverified \cup {n} /\ UNCHANGED call
       ELSE /\ Asks({n} \X (2 .. k + 1))
            /\ st' = [st EXCEPT ![n] = "verify"] /\ UNCHANGED <<filed, unverified>>
  /\ UNCHANGED <<scriptVars, d0, halted, incomplete, budgetVars, treeVars, checkVars,
                 blocked, released, prefix, outcome>>

CountVotes(n) ==
  /\ st[n] = "verify" /\ \A w \in Votes(n) : Over(call[w])
  /\ Done(n, "OK")
  /\ unverified' = IF \E w \in Votes(n) : call[w] \in Nulls THEN unverified \cup {n}
                   ELSE unverified
  /\ UNCHANGED <<scriptVars, d0, call, halted, incomplete, budgetVars, treeVars, checkVars,
                 blocked, released, prefix, outcome>>

\* A fan-out counts its dead as what neither returned nor was declined since.  Over an
\* empty list nothing ran, which is filed as skipped and leaves the campaign complete.
SettleFanOut(n) ==
  /\ Answered(n) /\ n \in Fans
  /\ LET returned == Cardinality({w \in Mains(n) : call[w] \in {"ok", "red"}})
         skipped == declined - d0[n]
         died == Width[n] - returned - skipped
         red == \E w \in Mains(n) : call[w] = "red"
     IN  /\ Done(n, IF returned > 0 THEN "OK" ELSE IF died # 0 THEN "DEAD" ELSE "SKIPPED")
         /\ CASE n \in Halting /\ died # 0 -> Halt("NODE-DEAD")
              [] n \in Halting /\ died = 0 /\ skipped > 0 -> Halt("BUDGET-EXHAUSTED")
              [] ~(n \in Halting /\ (died # 0 \/ skipped > 0)) /\ red -> Halt("HALTED")
              [] OTHER -> UNCHANGED halted
  /\ UNCHANGED <<scriptVars, d0, call, incomplete, budgetVars, treeVars, checkVars,
                 resultVars, prefix, outcome>>

Settle(n) == \/ SettleParked(n) \/ SettleError(n) \/ SettleNull(n) \/ SettleOk(n)
             \/ SettlePanel(n) \/ CountVotes(n) \/ SettleFanOut(n)
NodeStep(n) == \/ BeginCheck(n) \/ NodeCheck(n) \/ CheckThrows(n) \/ Inherit(n) \/ Released(n) \/ Advise(n)
               \/ Work(n) \/ Settle(n)
CallStep(w) == Refuse(w) \/ Decline(w) \/ Launch(w) \/ Answer(w)
Script == \/ CampaignStart \/ EnterStage \/ ForkCheck \/ LeaveStage \/ LastStage
          \/ CampaignEnd \/ SentinelThrows

Next == \/ Disturb
        \/ Script
        \/ \E n \in Nodes : NodeStep(n)
        \/ \E w \in Workers : CallStep(w)

Spec == Init /\ [][Next]_vars

\* The one thread runs what it can, and every call of an agent returns: the
\* runtime answers it, kills it or reports an error.
Fairness == /\ WF_vars(Script)
            /\ \A n \in Nodes : WF_vars(NodeStep(n))
            /\ \A w \in Workers : WF_vars(CallStep(w))

FairSpec == Spec /\ Fairness

(***************************************************************************)
(* Properties.                                                             *)
(***************************************************************************)
\* A campaign that calls itself COMPLETE ran every node that had something to do: no call
\* of it was declined or refused, nothing waits for a person, and a node it let die is one
\* whose policy is to go on without it.
CompleteIsWhole ==
  outcome = "COMPLETE" =>
    /\ \A n \in Nodes : /\ st[n] = "done"
                        /\ filed[n] \in {"OK", "RELEASED", "DEAD", "SKIPPED"}
                        /\ filed[n] = "SKIPPED" => n \in Fans /\ Width[n] = 0
                        /\ filed[n] = "DEAD" => n \notin Halting
    /\ \A w \in Workers : call[w] \notin {"declined", "refused", "threw"}
    /\ blocked = {}

\* The verdicts of a campaign that was not halted are about one tree: every
\* reading it took, the launcher's and the captured ones included, is the same.
OneTree == outcome \in {"COMPLETE", "INCOMPLETE"} => read = {base}

\* What a campaign says of itself at its end is so.
OutcomeIsTrue == CompleteIsWhole /\ OneTree

\* Whatever the lanes, a node begins after every node it names in `after`.
DependenciesFirst ==
  \A n \in Nodes : st[n] # "todo" => \A d \in After[n] : st[d] = "done"

\* While the call that has the irreversible effect is out, no other is.  Votes on
\* what it brought are other calls.
EffectAlone ==
  \A w \in Workers : w[1] \in Irreversible /\ w \in Mains(w[1]) /\ call[w] = "flight" =>
    \A v \in Workers \ {w} : call[v] \notin Flying \cup {"asked"}

\* "so the ceiling is counted at run time too": however the calls of the lanes answer,
\* die and throw, what is reserved is a floor for each call that is out and for no other,
\* and every call that was ever made is counted, up to the ceiling.
BudgetIsHeld ==
  /\ reserved = Floor * Cardinality({w \in Workers : call[w] \in Flying})
  /\ spawned = Cardinality({w \in Workers : call[w] \in Flying \cup Answers})
  /\ spawned <= MaxNodes

\* What the graph declares is what its lanes keep, together: its order, the solitude of
\* its effects and its budget.
PlanIsKept == DependenciesFirst /\ EffectAlone /\ BudgetIsHeld

\* Every campaign ends with an outcome, but for one whose reading of the tree at its
\* start, at a fork or at its end throws: that ends the script itself.
CampaignEnds == <>(outcome # "none" \/ pc = "aborted")

\* compile-graph.py:3442 of INCOMPLETE: "Set whenever the campaign covered
\* less ground than it set out to -- budget declined work, ... so a partial
\* run can never be read as a clean one."
CompleteIsVerified == outcome = "COMPLETE" => unverified = {}

\* compile-graph.py:3539: "A declined spawn and a dead agent both come back
\* null, and they are different sentences."
DeathIsNoDecline ==
  \A n \in Nodes : Single(n) /\ filed[n] = "SKIPPED" => Result(n) # "dead"
=============================================================================
