--------------------------- MODULE CampaignProofs ---------------------------
(***************************************************************************)
(* What holds of every launch of every graph: any number of nodes, lanes   *)
(* and workers, any budget, and any moves of the tree.                     *)
(*                                                                         *)
(* The stages are what a recursive function makes of the declared order.   *)
(* The library's induction theorems cannot be used by the provers at hand  *)
(* (they take an operator); that a set of naturals has a least member can, *)
(* and what is said of Scan below is said of the least counterexample.     *)
(***************************************************************************)
EXTENDS Campaign, FiniteSetTheorems, WellFoundedInduction, TLAPS

LEMMA Least == ASSUME NEW T, T \subseteq Nat, T # {} PROVE \E m \in T : \A k \in T : m <= k
<1> DEFINE R == {ss \in Nat \X Nat : ss[1] < ss[2]}
<1>1. IsWellFoundedOn(R, Nat)
  BY NatLessThanWellFounded DEF OpToRel
<1>2. \A x, y \in Nat : y < x => <<y, x>> \in R
  OBVIOUS
<1> HIDE DEF R
<1>3. PICK m \in T : \A k \in T : ~(<<k, m>> \in R)
  BY <1>1, WFMin
<1>4. \A k \in T : m <= k
  <2> TAKE k \in T
  <2>1. ~(k < m)
    BY <1>2, <1>3
  <2> QED
    BY <2>1
<1> QED
  BY <1>4

\* Induction up to a bound, for a set of the numbers that are wanted.
LEMMA UpTo ==
  ASSUME NEW N \in Nat, NEW W, 0 \in W, \A m \in 1 .. N : m - 1 \in W => m \in W
  PROVE  0 .. N \subseteq W
<1> DEFINE T == (0 .. N) \ W
<1> SUFFICES ASSUME T # {} PROVE FALSE
  OBVIOUS
<1>1. T \subseteq Nat
  OBVIOUS
<1> HIDE DEF T
<1>2. PICK m \in T : \A k \in T : m <= k
  BY <1>1, Least
<1>3. m \in 1 .. N /\ m - 1 \in 0 .. N /\ m - 1 \notin T
  BY <1>2 DEF T
<1> QED
  BY <1>2, <1>3 DEF T

(***************************************************************************)
(* The stages of a graph                                                   *)
(***************************************************************************)
LEMMA OrderType ==
  /\ Len(Order) \in Nat /\ DOMAIN Order = 1 .. Len(Order)
  /\ \A i \in 1 .. Len(Order) : Order[i] \in Nodes /\ Rank(Order[i]) = i
  /\ \A n \in Nodes : Rank(n) \in 1 .. Len(Order) /\ Order[Rank(n)] = n
<1>1. Len(Order) \in Nat /\ DOMAIN Order = 1 .. Len(Order)
  BY GraphAssumption
<1>2. \A i \in 1 .. Len(Order) : Order[i] \in Nodes
  BY <1>1 DEF Nodes
<1>3. \A i, j \in 1 .. Len(Order) : Order[i] = Order[j] => i = j
  BY <1>1, GraphAssumption
<1>4. \A n \in Nodes : \E i \in 1 .. Len(Order) : Order[i] = n
  BY <1>1 DEF Nodes
<1>5. \A n \in Nodes : Rank(n) \in 1 .. Len(Order) /\ Order[Rank(n)] = n
  BY <1>1, <1>4 DEF Rank
<1> QED
  BY <1>1, <1>2, <1>3, <1>5

\* What Scan makes of the first of i nodes when it has s for those before.
Scanned(s, i) ==
  LET n == Order[i]
  IN  IF LaneOf[n] = NoLane \/ Foreign(n, s.batch) \/ n \in Irreversible
      THEN [stages |-> Append(Flushed(s), [kind |-> "join", nodes |-> {n}]), batch |-> {}]
      ELSE [s EXCEPT !.batch = @ \cup {n}]

Unscanned == [stages |-> <<>>, batch |-> {}]

LEMMA ScanExists ==
  \A n \in 0 .. Len(Order) : \E f : f = [i \in 0 .. n |-> IF i = 0 THEN Unscanned ELSE Scanned(f[i - 1], i)]
<1> DEFINE W == {n \in 0 .. Len(Order) :
                   \E f : f = [i \in 0 .. n |-> IF i = 0 THEN Unscanned ELSE Scanned(f[i - 1], i)]}
<1>1. 0 \in W
  <2> DEFINE g == [i \in 0 .. 0 |-> Unscanned]
  <2>1. g = [i \in 0 .. 0 |-> IF i = 0 THEN Unscanned ELSE Scanned(g[i - 1], i)]
    OBVIOUS
  <2> HIDE DEF g
  <2>2. \E f : f = [i \in 0 .. 0 |-> IF i = 0 THEN Unscanned ELSE Scanned(f[i - 1], i)]
    BY <2>1
  <2> QED
    BY <2>2, OrderType
<1>2. ASSUME NEW m \in 1 .. Len(Order), m - 1 \in W PROVE m \in W
  <2>1. PICK h : h = [i \in 0 .. m - 1 |-> IF i = 0 THEN Unscanned ELSE Scanned(h[i - 1], i)]
    BY <1>2
  <2> DEFINE g == [i \in 0 .. m |-> IF i = m THEN Scanned(h[m - 1], m) ELSE h[i]]
  <2>2. ASSUME NEW i \in 0 .. m PROVE g[i] = IF i = 0 THEN Unscanned ELSE Scanned(g[i - 1], i)
    BY <1>2, <2>1, OrderType
  <2>3. g = [i \in 0 .. m |-> g[i]]
    OBVIOUS
  <2>4. g = [i \in 0 .. m |-> IF i = 0 THEN Unscanned ELSE Scanned(g[i - 1], i)]
    BY <2>2, <2>3
  <2> HIDE DEF g
  <2>5. \E f : f = [i \in 0 .. m |-> IF i = 0 THEN Unscanned ELSE Scanned(f[i - 1], i)]
    BY <2>4
  <2> QED
    BY <2>5, OrderType
<1> HIDE DEF W
<1>3. 0 .. Len(Order) \subseteq W
  BY <1>1, <1>2, OrderType, UpTo
<1> QED
  BY <1>3 DEF W

LEMMA ScanDefined ==
  \A i \in 0 .. Len(Order) : Scan[i] = IF i = 0 THEN Unscanned ELSE Scanned(Scan[i - 1], i)
<1>1. \E f : f = [i \in 0 .. Len(Order) |-> IF i = 0 THEN Unscanned ELSE Scanned(f[i - 1], i)]
  BY ScanExists, OrderType
<1>2. Scan = CHOOSE f : f = [i \in 0 .. Len(Order) |-> IF i = 0 THEN Unscanned ELSE Scanned(f[i - 1], i)]
  BY DEF Scan, Scanned, Unscanned
<1>3. Scan = [i \in 0 .. Len(Order) |-> IF i = 0 THEN Unscanned ELSE Scanned(Scan[i - 1], i)]
  BY <1>1, <1>2
<1> QED
  BY <1>3

Stage == [kind : {"lanes", "join"}, nodes : SUBSET Nodes]
Covered(q) == {n \in Nodes : \E k \in 1 .. Len(q) : n \in q[k].nodes}

\* What a set of nodes that run together needs of the stages before it.
Follows(ns, done) ==
  /\ \A n \in ns : \A d \in After[n] : d \in done \/ (d \in ns /\ LaneOf[d] = LaneOf[n])
  /\ \A n \in ns \cap Irreversible : ns = {n}

Staged(q) ==
  /\ q \in Seq(Stage)
  /\ \A k \in 1 .. Len(q) :
       Follows(q[k].nodes, {d \in Nodes : \E l \in 1 .. k - 1 : d \in q[l].nodes})

LEMMA AfterType ==
  \A n \in Nodes : After[n] \subseteq {m \in Nodes : Rank(m) < Rank(n)}
  BY GraphAssumption

LEMMA StagedAppend ==
  ASSUME NEW q, Staged(q), NEW g \in Stage, Follows(g.nodes, Covered(q))
  PROVE  Staged(Append(q, g)) /\ Covered(Append(q, g)) = Covered(q) \cup g.nodes
<1> DEFINE a == Append(q, g)
<1>1. /\ a \in Seq(Stage) /\ Len(a) = Len(q) + 1 /\ Len(q) \in Nat /\ a[Len(a)] = g
      /\ \A k \in 1 .. Len(q) : a[k] = q[k]
  BY DEF Staged
<1> HIDE DEF a
<1>2. \A k \in 1 .. Len(a) : k \in 1 .. Len(q) \/ k = Len(a)
  BY <1>1
<1>3. Covered(a) = Covered(q) \cup g.nodes
  BY <1>1, <1>2 DEF Covered, Stage
<1>4. ASSUME NEW k \in 1 .. Len(a)
      PROVE  Follows(a[k].nodes, {d \in Nodes : \E l \in 1 .. k - 1 : d \in a[l].nodes})
  <2>1. CASE k \in 1 .. Len(q)
    <3>1. {d \in Nodes : \E l \in 1 .. k - 1 : d \in a[l].nodes}
            = {d \in Nodes : \E l \in 1 .. k - 1 : d \in q[l].nodes}
      BY <1>1, <2>1
    <3> QED
      BY <1>1, <2>1, <3>1 DEF Staged
  <2>2. CASE k = Len(a)
    <3>1. {d \in Nodes : \E l \in 1 .. k - 1 : d \in a[l].nodes} = Covered(q)
      BY <1>1, <2>2 DEF Covered
    <3> QED
      BY <1>1, <2>2, <3>1
  <2> QED
    BY <1>2, <2>1, <2>2
<1>5. Staged(a)
  BY <1>1, <1>4 DEF Staged
<1> QED
  BY <1>3, <1>5 DEF a

\* The stages so far and the batch that is open, and the nodes that are in them.
Scanning(s, ns) ==
  /\ s \in [stages : Seq(Stage), batch : SUBSET Nodes]
  /\ Staged(s.stages) /\ Follows(s.batch, Covered(s.stages)) /\ s.batch \cap Irreversible = {}
  /\ ns \subseteq Covered(s.stages) \cup s.batch

LEMMA FlushedIsStaged ==
  ASSUME NEW s, NEW ns, Scanning(s, ns)
  PROVE  Staged(Flushed(s)) /\ ns \subseteq Covered(Flushed(s))
<1> DEFINE g == [kind |-> "lanes", nodes |-> s.batch]
<1>1. g \in Stage /\ g.nodes = s.batch /\ Staged(s.stages) /\ Follows(s.batch, Covered(s.stages))
  BY DEF Scanning, Stage
<1>2. CASE s.batch = {}
  BY <1>2 DEF Flushed, Scanning
<1>3. CASE s.batch # {}
  <2>1. Flushed(s) = Append(s.stages, g)
    BY <1>3 DEF Flushed
  <2> HIDE DEF g
  <2>2. Staged(Append(s.stages, g)) /\ Covered(Append(s.stages, g)) = Covered(s.stages) \cup g.nodes
    BY <1>1, StagedAppend
  <2> QED
    BY <1>1, <2>1, <2>2 DEF Scanning
<1> QED
  BY <1>2, <1>3

LEMMA ScannedOn ==
  ASSUME NEW i \in 1 .. Len(Order), NEW s, NEW ns, Scanning(s, ns), After[Order[i]] \subseteq ns
  PROVE  Scanning(Scanned(s, i), ns \cup {Order[i]})
<1> DEFINE n == Order[i]
<1>1. n \in Nodes /\ After[n] \subseteq Nodes
  BY OrderType, AfterType
<1>2. Scanned(s, i) = IF LaneOf[n] = NoLane \/ Foreign(n, s.batch) \/ n \in Irreversible
                      THEN [stages |-> Append(Flushed(s), [kind |-> "join", nodes |-> {n}]), batch |-> {}]
                      ELSE [s EXCEPT !.batch = @ \cup {n}]
  BY DEF Scanned
<1>3. CASE LaneOf[n] = NoLane \/ Foreign(n, s.batch) \/ n \in Irreversible
  <2> DEFINE g == [kind |-> "join", nodes |-> {n}]
             q == Flushed(s)
  <2>1. Staged(q) /\ ns \subseteq Covered(q) /\ g \in Stage /\ g.nodes = {n}
    BY <1>1, FlushedIsStaged DEF Stage
  <2>2. Scanned(s, i) = [stages |-> Append(q, g), batch |-> {}]
    BY <1>2, <1>3
  <2>3. Follows({n}, Covered(q))
    BY <2>1 DEF Follows
  <2> HIDE DEF g, q, n
  <2>4. Staged(Append(q, g)) /\ Covered(Append(q, g)) = Covered(q) \cup {n}
    BY <2>1, <2>3, StagedAppend
  <2>5. Append(q, g) \in Seq(Stage) /\ Follows({}, Covered(Append(q, g)))
    BY <2>4 DEF Staged, Follows
  <2> DEFINE u == Scanned(s, i)
             a == Append(q, g)
  <2>6. u \in [stages : Seq(Stage), batch : SUBSET Nodes] /\ u.stages = a /\ u.batch = {}
    BY <2>2, <2>5
  <2>7. ns \cup {n} \subseteq Covered(a)
    BY <2>1, <2>4
  <2> HIDE DEF u, a
  <2>8. Staged(a) /\ Follows({}, Covered(a))
    BY <2>4, <2>5 DEF a
  <2> QED
    BY <2>6, <2>7, <2>8 DEF Scanning, n, u
<1>4. CASE ~(LaneOf[n] = NoLane \/ Foreign(n, s.batch) \/ n \in Irreversible)
  <2>1. s \in [stages : Seq(Stage), batch : SUBSET Nodes]
    BY DEF Scanning
  <2>2. Scanned(s, i) = [s EXCEPT !.batch = @ \cup {n}]
    BY <1>2, <1>4
  <2> HIDE DEF n
  <2> DEFINE u == Scanned(s, i)
  <2>3. u \in [stages : Seq(Stage), batch : SUBSET Nodes] /\ u.stages = s.stages /\ u.batch = s.batch \cup {n}
    BY <1>1, <2>1, <2>2
  <2> HIDE DEF u
  <2>4. Follows(u.batch, Covered(u.stages))
    <3>1. \A d \in After[n] : d \in Covered(s.stages) \/ (d \in s.batch /\ LaneOf[d] = LaneOf[n])
      BY <1>4 DEF Scanning, Foreign, n
    <3>2. u.batch \cap Irreversible = {}
      BY <1>4, <2>3 DEF Scanning
    <3> QED
      BY <2>3, <3>1, <3>2 DEF Scanning, Follows
  <2>5. u.batch \cap Irreversible = {} /\ ns \cup {n} \subseteq Covered(u.stages) \cup u.batch
    BY <1>4, <2>3 DEF Scanning
  <2> QED
    BY <2>3, <2>4, <2>5 DEF Scanning, u, n
<1> QED
  BY <1>3, <1>4

Firsts(i) == {Order[j] : j \in 1 .. i}

LEMMA ScanHolds == \A i \in 0 .. Len(Order) : Scanning(Scan[i], Firsts(i))
<1> DEFINE W == {i \in 0 .. Len(Order) : Scanning(Scan[i], Firsts(i))}
<1>0. \A i \in 0 .. Len(Order) : i \in W <=> Scanning(Scan[i], Firsts(i))
  BY Zenon
<1> HIDE DEF W
<1>1. 0 \in W
  <2>1. Scan[0] = Unscanned
    BY ScanDefined, OrderType
  <2>2. Unscanned \in [stages : Seq(Stage), batch : SUBSET Nodes] /\ Unscanned.stages = <<>> /\ Unscanned.batch = {}
    BY DEF Unscanned
  <2>3. Staged(<<>>) /\ Follows({}, Covered(<<>>))
    BY DEF Staged, Follows
  <2>4. Firsts(0) = {}
    BY DEF Firsts
  <2>5. Scanning(Unscanned, {})
    BY <2>2, <2>3 DEF Scanning
  <2> QED
    <3>1. 0 \in 0 .. Len(Order)
      BY OrderType
    <3> QED
      BY <1>0, <2>1, <2>4, <2>5, <3>1, Zenon
<1>2. ASSUME NEW m \in 1 .. Len(Order), m - 1 \in W PROVE m \in W
  <2> DEFINE ns == Firsts(m - 1)
  <2>1. Scan[m] = Scanned(Scan[m - 1], m)
    BY ScanDefined, OrderType
  <2>2. After[Order[m]] \subseteq ns
    <3> SUFFICES ASSUME NEW d \in After[Order[m]] PROVE d \in ns
      OBVIOUS
    <3>1. d \in Nodes /\ Rank(d) < m
      BY OrderType, AfterType
    <3>2. Rank(d) \in 1 .. m - 1 /\ Order[Rank(d)] = d
      BY <3>1, OrderType
    <3> QED
      BY <3>2 DEF Firsts
  <2>3. Scanning(Scan[m - 1], ns)
    BY <1>0, <1>2, OrderType
  <2>4. ns \cup {Order[m]} = Firsts(m)
    <3>1. \A j \in 1 .. m : j \in 1 .. m - 1 \/ j = m
      OBVIOUS
    <3> QED
      BY <3>1 DEF Firsts
  <2> HIDE DEF ns
  <2>5. Scanning(Scan[m], ns \cup {Order[m]})
    BY <2>1, <2>2, <2>3, ScannedOn
  <2> QED
    <3>1. m \in 0 .. Len(Order)
      BY OrderType
    <3> QED
      BY <1>0, <2>4, <2>5, <3>1, Zenon
<1>3. 0 .. Len(Order) \subseteq W
  BY <1>1, <1>2, OrderType, UpTo
<1> QED
  BY <1>0, <1>3

\* Every node has a stage; what it names in `after` is in an earlier one, or before it in
\* its own lane; an irreversible node has a stage of its own.
LEMMA StagesKeepOrder ==
  /\ Stages \in Seq(Stage) /\ Len(Stages) \in Nat
  /\ \A n \in Nodes : \E k \in 1 .. Len(Stages) : n \in Stages[k].nodes
  /\ \A k \in 1 .. Len(Stages) : \A n \in Stages[k].nodes : \A d \in After[n] :
       \/ \E l \in 1 .. k - 1 : d \in Stages[l].nodes
       \/ d \in Stages[k].nodes /\ LaneOf[d] = LaneOf[n]
  /\ \A k \in 1 .. Len(Stages) : Stages[k].nodes \subseteq Nodes
  /\ \A k \in 1 .. Len(Stages) : \A n \in Stages[k].nodes \cap Irreversible : Stages[k].nodes = {n}
<1>1. Staged(Stages) /\ Firsts(Len(Order)) \subseteq Covered(Stages)
  <2>1. Scanning(Scan[Len(Order)], Firsts(Len(Order)))
    BY ScanHolds, OrderType
  <2> QED
    BY <2>1, FlushedIsStaged DEF Stages
<1>2. \A n \in Nodes : n \in Covered(Stages)
  BY <1>1, OrderType DEF Firsts
<1>3. Stages \in Seq(Stage) /\ Len(Stages) \in Nat /\ \A k \in 1 .. Len(Stages) : Stages[k].nodes \subseteq Nodes
  <2>1. Stages \in Seq(Stage)
    BY <1>1 DEF Staged
  <2>2. Len(Stages) \in Nat /\ \A k \in 1 .. Len(Stages) : Stages[k] \in Stage
    BY <2>1
  <2>3. \A g \in Stage : g.nodes \subseteq Nodes
    BY DEF Stage
  <2> QED
    BY <2>1, <2>2, <2>3
<1>4. \A n \in Nodes : \E k \in 1 .. Len(Stages) : n \in Stages[k].nodes
  BY <1>2 DEF Covered
<1>5. \A k \in 1 .. Len(Stages) : \A n \in Stages[k].nodes : \A d \in After[n] :
        \/ \E l \in 1 .. k - 1 : d \in Stages[l].nodes
        \/ d \in Stages[k].nodes /\ LaneOf[d] = LaneOf[n]
  BY <1>1 DEF Staged, Follows
<1>6. \A k \in 1 .. Len(Stages) : \A n \in Stages[k].nodes \cap Irreversible : Stages[k].nodes = {n}
  BY <1>1 DEF Staged, Follows
<1> QED
  BY <1>3, <1>4, <1>5, <1>6

(***************************************************************************)
(* The order of a launch                                                   *)
(***************************************************************************)
CallStates == Flying \cup Answers \cup {"none", "asked", "declined", "refused"}

LaunchTyped ==
  /\ pc \in {"start", "out", "fork", "in", "end", "over", "aborted"} /\ stage \in Nat \ {0}
  /\ st \in [Nodes -> {"todo", "check", "ready", "work", "verify", "done"}]
  /\ call \in [Workers -> CallStates]
  /\ d0 \in [Nodes -> Nat] /\ declined \in Nat /\ filed \in [Nodes -> Rows]
  /\ halted \in Outcomes \ {"COMPLETE", "INCOMPLETE"} /\ incomplete \in BOOLEAN
  /\ tree \in Trees /\ base \in Trees /\ source \in Trees

\* Nodes work only in the stage that is open, and unless the campaign is halted all
\* stages before it are done.
StageInv ==
  /\ pc \in {"fork", "in"} => stage \in 1 .. Len(Stages)
  /\ pc = "end" => stage > Len(Stages) /\ halted = "none"
  /\ \A n \in Nodes : st[n] \notin {"todo", "done"} => pc = "in" /\ n \in Stages[stage].nodes
  /\ halted = "none" => \A l \in 1 .. Len(Stages) : l < stage => \A n \in Stages[l].nodes : st[n] = "done"

Out == Flying \cup {"asked"}

\* A call is out for a node that waits for it.
CallInv ==
  \A w \in Workers : call[w] \in Out =>
    \/ st[w[1]] = "work" /\ w \in Mains(w[1])
    \/ st[w[1]] = "verify" /\ w \in Votes(w[1])

OrderInv == LaunchTyped /\ StageInv /\ DependenciesFirst /\ CallInv

(***************************************************************************)
(* The outcome of a launch                                                 *)
(***************************************************************************)
\* The rows that take nothing from a campaign.
Accounted(n, row) == \/ row \in {"OK", "RELEASED"}
                     \/ row = "DEAD" /\ n \notin Halting
                     \/ row = "SKIPPED" /\ n \in Fans /\ Width[n] = 0

\* What a campaign leaves undone has halted it or made it incomplete.
LossInv ==
  /\ declined > 0 \/ blocked # {} => incomplete
  /\ \A w \in Workers : /\ call[w] = "refused" => halted # "none"
                        /\ call[w] = "declined" => incomplete
                        /\ call[w] = "threw" => /\ w \in Mains(w[1]) /\ w[1] \notin Fans
                                                /\ st[w[1]] = "work" \/ halted # "none"
  /\ \A n \in Nodes : st[n] = "done" /\ halted = "none" /\ ~incomplete =>
       Accounted(n, filed[n])

\* Until it is halted a campaign has read one tree, that of its launch.
TreeInv ==
  /\ pc = "start" => baseline = NoTree /\ read = {}
  /\ pc \notin {"start", "over", "aborted"} /\ halted = "none" => baseline = base /\ read = {base}

EndInv ==
  /\ pc # "over" => outcome = "none"
  /\ outcome \in {"COMPLETE", "INCOMPLETE"} =>
       pc = "over" /\ halted = "none" /\ read = {base} /\ \A n \in Nodes : st[n] = "done"
  /\ outcome = "COMPLETE" => ~incomplete

OutcomeInv == LossInv /\ TreeInv /\ EndInv

\* What the steps of a node have in common.
Moves(n) ==
  /\ UNCHANGED <<scriptVars, treeVars, outcome>>
  /\ st[n] # "done" /\ (st[n] = "todo" => Ready(n))
  /\ \E x \in {"check", "ready", "work", "verify", "done"} : st' = [st EXCEPT ![n] = x]
  /\ halted # "none" => halted' = halted
  /\ incomplete => incomplete'

LEMMA NodeMoves == ASSUME LaunchTyped, NEW n \in Nodes, NodeStep(n) PROVE Moves(n)
<1>1. CASE BeginCheck(n)
  BY <1>1 DEF BeginCheck, Ready, Moves, Runs, Ready, scriptVars, nodeVars, treeVars
<1>2. CASE NodeCheck(n)
  BY <1>2 DEF NodeCheck, Record, Halt, Problem, Moves, Runs, Ready, scriptVars, nodeVars, treeVars
<1>14. CASE CheckThrows(n)
  BY <1>14 DEF CheckThrows, Done, Halt, Moves, Runs, Ready, scriptVars, nodeVars, treeVars
<1>3. CASE Inherit(n)
  BY <1>3 DEF Inherit, Block, Done, Moves, Runs, Ready, scriptVars, nodeVars, treeVars
<1>4. CASE Released(n)
  BY <1>4 DEF Released, Runs, Ready, Done, Moves, Runs, Ready, scriptVars, nodeVars, treeVars
<1>5. CASE Advise(n)
  BY <1>5 DEF Advise, Runs, Ready, Asks, Block, Done, Moves, Runs, Ready, scriptVars, nodeVars, treeVars
<1>6. CASE Work(n)
  BY <1>6 DEF Work, Runs, Ready, Asks, Done, Halt, Moves, Runs, Ready, scriptVars, nodeVars, treeVars
<1>7. CASE SettleParked(n)
  BY <1>7 DEF SettleParked, Answered, Done, Halt, Block, Moves, Runs, Ready, scriptVars, nodeVars, treeVars
<1>8. CASE SettleError(n)
  BY <1>8 DEF SettleError, Answered, Done, Halt, Moves, Runs, Ready, scriptVars, nodeVars, treeVars
<1>9. CASE SettleNull(n)
  BY <1>9 DEF SettleNull, Answered, Done, Halt, Moves, Runs, Ready, scriptVars, nodeVars, treeVars
<1>10. CASE SettleOk(n)
  BY <1>10 DEF SettleOk, Answered, Done, Halt, Moves, Runs, Ready, scriptVars, nodeVars, treeVars
<1>11. CASE SettlePanel(n)
  BY <1>11 DEF SettlePanel, Answered, Done, Asks, Moves, Runs, Ready, scriptVars, nodeVars, treeVars
<1>12. CASE CountVotes(n)
  BY <1>12 DEF CountVotes, Done, Moves, Runs, Ready, scriptVars, nodeVars, treeVars
<1>13. CASE SettleFanOut(n)
  BY <1>13 DEF SettleFanOut, Answered, Done, Halt, Moves, Runs, Ready, scriptVars, nodeVars, treeVars
<1> QED
  BY <1>1, <1>2, <1>3, <1>4, <1>5, <1>6, <1>7, <1>8, <1>9, <1>10, <1>11, <1>12, <1>13, <1>14 DEF NodeStep, Settle

\* A worker of the node, or one that votes on what it brought.
LEMMA MainOrVote ==
  ASSUME NEW w \in Workers
  PROVE  w[1] \in Nodes /\ ~(w \in Mains(w[1]) /\ w \in Votes(w[1]))
  BY GraphAssumption DEF Workers, Mains, Votes

LEMMA AsksTyped ==
  ASSUME call \in [Workers -> CallStates], NEW ws, Asks(ws)
  PROVE  /\ call' \in [Workers -> CallStates]
         /\ \A w \in Workers \ ws : call'[w] = call[w]
         /\ \A w \in Workers \cap ws : call'[w] = IF halted = "none" THEN "asked" ELSE "refused"
  BY DEF Asks, CallStates

LEMMA NodeTyped == ASSUME LaunchTyped, NEW n \in Nodes, NodeStep(n) PROVE LaunchTyped'
<1>1. CASE BeginCheck(n)
  BY <1>1 DEF BeginCheck, Ready, LaunchTyped, CallStates, Outcomes, Rows, scriptVars, nodeVars, treeVars, budgetVars
<1>2. CASE NodeCheck(n)
  BY <1>2 DEF NodeCheck, Record, Halt, Problem, LaunchTyped, CallStates, Outcomes, Rows, scriptVars, nodeVars, treeVars, budgetVars
<1>14. CASE CheckThrows(n)
  BY <1>14 DEF CheckThrows, Done, Halt, LaunchTyped, CallStates, Outcomes, Rows, scriptVars, nodeVars, treeVars, budgetVars
<1>3. CASE Inherit(n)
  BY <1>3 DEF Inherit, Runs, Ready, Block, Done, LaunchTyped, CallStates, Outcomes, Rows, scriptVars, nodeVars, treeVars, budgetVars
<1>4. CASE Released(n)
  BY <1>4 DEF Released, Runs, Ready, Done, LaunchTyped, CallStates, Outcomes, Rows, scriptVars, nodeVars, treeVars, budgetVars
<1>5. CASE Advise(n)
  <2>1. call' \in [Workers -> CallStates]
    <3>1. CASE Affordable
      BY <1>5, <3>1, AsksTyped DEF Advise, LaunchTyped
    <3>2. CASE ~Affordable
      BY <1>5, <3>2 DEF Advise, LaunchTyped
    <3> QED
      BY <3>1, <3>2
  <2>2. st' \in [Nodes -> {"todo", "check", "ready", "work", "verify", "done"}] /\ filed' \in [Nodes -> Rows]
    BY <1>5 DEF Advise, Block, Done, LaunchTyped, Rows
  <2>3. d0' \in [Nodes -> Nat] /\ halted' \in Outcomes \ {"COMPLETE", "INCOMPLETE"} /\ incomplete' \in BOOLEAN
    BY <1>5 DEF Advise, Block, Done, LaunchTyped, Outcomes
  <2> QED
    BY <1>5, <2>1, <2>2, <2>3 DEF Advise, LaunchTyped, scriptVars, treeVars, budgetVars
<1>6. CASE Work(n)
  <2>1. call' \in [Workers -> CallStates]
    <3>1. CASE Affordable
      BY <1>6, <3>1, AsksTyped DEF Work, LaunchTyped
    <3>2. CASE ~Affordable
      BY <1>6, <3>2 DEF Work, LaunchTyped
    <3> QED
      BY <3>1, <3>2
  <2>2. st' \in [Nodes -> {"todo", "check", "ready", "work", "verify", "done"}] /\ filed' \in [Nodes -> Rows]
    BY <1>6 DEF Work, Done, Halt, LaunchTyped, Rows
  <2>3. d0' \in [Nodes -> Nat] /\ halted' \in Outcomes \ {"COMPLETE", "INCOMPLETE"} /\ incomplete' \in BOOLEAN
    BY <1>6 DEF Work, Done, Halt, LaunchTyped, Outcomes
  <2> QED
    BY <1>6, <2>1, <2>2, <2>3 DEF Work, LaunchTyped, scriptVars, treeVars, budgetVars
<1>7. CASE SettleParked(n)
  BY <1>7 DEF SettleParked, Answered, Done, Halt, Block, LaunchTyped, CallStates, Outcomes, Rows, scriptVars, nodeVars, treeVars, budgetVars
<1>8. CASE SettleError(n)
  BY <1>8 DEF SettleError, Answered, Done, Halt, LaunchTyped, CallStates, Outcomes, Rows, scriptVars, nodeVars, treeVars, budgetVars
<1>9. CASE SettleNull(n)
  BY <1>9 DEF SettleNull, Answered, Done, Halt, LaunchTyped, CallStates, Outcomes, Rows, scriptVars, nodeVars, treeVars, budgetVars
<1>10. CASE SettleOk(n)
  BY <1>10 DEF SettleOk, Answered, Done, Halt, LaunchTyped, CallStates, Outcomes, Rows, scriptVars, nodeVars, treeVars, budgetVars
<1>11. CASE SettlePanel(n)
  BY <1>11 DEF SettlePanel, Answered, Done, Asks, LaunchTyped, CallStates, Outcomes, Rows, scriptVars, nodeVars, treeVars, budgetVars
<1>12. CASE CountVotes(n)
  BY <1>12 DEF CountVotes, Done, LaunchTyped, CallStates, Outcomes, Rows, scriptVars, nodeVars, treeVars, budgetVars
<1>13. CASE SettleFanOut(n)
  BY <1>13 DEF SettleFanOut, Answered, Done, Halt, LaunchTyped, CallStates, Outcomes, Rows, scriptVars, nodeVars, treeVars, budgetVars
<1> QED
  BY <1>1, <1>2, <1>3, <1>4, <1>5, <1>6, <1>7, <1>8, <1>9, <1>10, <1>11, <1>12, <1>13, <1>14 DEF NodeStep, Settle

\* The calls of a node are over when its code goes on.
LEMMA NodeQuiet ==
  ASSUME LaunchTyped, CallInv, NEW n \in Nodes, NodeStep(n), NEW w \in Workers, w[1] = n
  PROVE  call[w] \notin Out
<1>1. Over(call[w]) => call[w] \notin Out
  BY DEF Over, Out, Flying, Answers
<1>2. CASE Answered(n)
  BY <1>1, <1>2 DEF CallInv, Answered
<1>3. CASE CountVotes(n)
  BY <1>1, <1>3 DEF CallInv, CountVotes, Votes
<1>4. CASE st[n] \in {"todo", "check", "ready"}
  BY <1>4 DEF CallInv
<1>5. Answered(n) \/ CountVotes(n) \/ st[n] \in {"todo", "check", "ready"}
  BY DEF NodeStep, Settle, BeginCheck, NodeCheck, CheckThrows, Inherit, Released, Advise, Work, Runs, Ready,
         SettleParked, SettleError, SettleNull, SettleOk, SettlePanel, SettleFanOut
<1> QED
  BY <1>2, <1>3, <1>4, <1>5

\* It makes calls only to wait for them.
LEMMA NodeAsks ==
  ASSUME LaunchTyped, NEW n \in Nodes, NodeStep(n), NEW w \in Workers
  PROVE  \/ call'[w] = call[w]
         \/ /\ w[1] = n /\ call'[w] = IF halted = "none" THEN "asked" ELSE "refused"
            /\ \/ st'[n] = "work" /\ w \in Mains(n)
               \/ st'[n] = "verify" /\ w \in Votes(n)
<1>1. CASE UNCHANGED call
  BY <1>1
<1>2. CASE Advise(n) \/ Work(n)
  <2>1. Affordable \/ UNCHANGED call
    BY <1>2 DEF Advise, Work
  <2>2. CASE Affordable
    <3>1. Asks(Mains(n)) /\ st' = [st EXCEPT ![n] = "work"]
      BY <1>2, <2>2 DEF Advise, Work
    <3>2. st'[n] = "work"
      BY <3>1 DEF LaunchTyped
    <3>3. \A v \in Mains(n) : v[1] = n
      BY DEF Mains
    <3> QED
      BY <3>1, <3>2, <3>3, AsksTyped DEF LaunchTyped
  <2> QED
    BY <2>1, <2>2
<1>3. CASE SettlePanel(n) /\ ~UNCHANGED call
  <2>1. PICK k \in 0 .. MaxItems : Asks({n} \X (2 .. k + 1)) /\ st' = [st EXCEPT ![n] = "verify"]
    BY <1>3 DEF SettlePanel
  <2>2. st'[n] = "verify"
    BY <2>1 DEF LaunchTyped
  <2>3. w \in {n} \X (2 .. k + 1) => w[1] = n /\ w \in Votes(n)
    BY <1>3, GraphAssumption, BudgetAssumption DEF SettlePanel, Single, Votes
  <2> QED
    BY <2>1, <2>2, <2>3, AsksTyped DEF LaunchTyped
<1> QED
  BY <1>1, <1>2, <1>3 DEF NodeStep, Settle, BeginCheck, NodeCheck, CheckThrows, Inherit, Released,
         SettleParked, SettleError, SettleNull, SettleOk, CountVotes, SettleFanOut

LEMMA NodeOrder == ASSUME OrderInv, NEW n \in Nodes, NodeStep(n) PROVE OrderInv'
<1>1. LaunchTyped /\ LaunchTyped' /\ Moves(n)
  BY NodeMoves, NodeTyped DEF OrderInv
<1>2. /\ \A m \in Nodes \ {n} : st'[m] = st[m]
      /\ st'[n] # "todo" /\ st[n] # "done" /\ pc' = pc /\ stage' = stage
      /\ halted # "none" => halted' # "none"
      /\ st[n] = "todo" => Ready(n)
  BY <1>1 DEF Moves, LaunchTyped, scriptVars
<1>3. pc = "in" /\ n \in Stages[stage].nodes
  BY <1>2 DEF OrderInv, StageInv, Ready, StageNodes
<1>4. \A l \in 1 .. Len(Stages) : Stages[l].nodes \subseteq Nodes
  BY StagesKeepOrder
<1>5. StageInv'
  <2>1. \A m \in Nodes : st'[m] \notin {"todo", "done"} => pc' = "in" /\ m \in Stages[stage'].nodes
    BY <1>2, <1>3 DEF OrderInv, StageInv
  <2>2. halted' = "none" => \A l \in 1 .. Len(Stages) : l < stage' => \A m \in Stages[l].nodes : st'[m] = "done"
    BY <1>2, <1>4 DEF OrderInv, StageInv
  <2> QED
    BY <1>2, <1>3, <2>1, <2>2 DEF OrderInv, StageInv
<1>6. DependenciesFirst'
  <2> SUFFICES ASSUME NEW m \in Nodes, st'[m] # "todo", NEW d \in After[m] PROVE st'[d] = "done"
    BY DEF DependenciesFirst
  <2>1. d \in Nodes /\ Rank(d) < Rank(m)
    BY AfterType
  <2>2. CASE st[m] # "todo"
    BY <1>2, <2>1, <2>2 DEF OrderInv, DependenciesFirst
  <2>3. CASE st[m] = "todo"
    <3>1. m = n /\ Ready(n)
      BY <1>2, <2>3
    <3>2. halted = "none" /\ stage \in 1 .. Len(Stages)
      BY <1>3, <3>1 DEF OrderInv, StageInv, Ready
    <3>3. CASE \E l \in 1 .. stage - 1 : d \in Stages[l].nodes
      <4>1. PICK l \in 1 .. stage - 1 : d \in Stages[l].nodes
        BY <3>3
      <4>2. l \in 1 .. Len(Stages) /\ l < stage
        BY <3>2, StagesKeepOrder
      <4>3. st[d] = "done"
        BY <3>2, <4>1, <4>2 DEF OrderInv, StageInv
      <4> QED
        BY <1>2, <2>1, <4>3
    <3>4. CASE d \in Stages[stage].nodes /\ LaneOf[d] = LaneOf[n]
      BY <1>2, <2>1, <3>1, <3>4 DEF Ready, StageNodes
    <3> QED
      BY <1>3, <3>1, <3>2, <3>3, <3>4, StagesKeepOrder
  <2> QED
    BY <2>2, <2>3
<1>7. CallInv'
  <2> SUFFICES ASSUME NEW w \in Workers, call'[w] \in Out
               PROVE  \/ st'[w[1]] = "work" /\ w \in Mains(w[1])
                      \/ st'[w[1]] = "verify" /\ w \in Votes(w[1])
    BY DEF CallInv
  <2>1. w[1] \in Nodes
    BY DEF Workers
  <2>2. CASE w[1] # n
    <3>1. call'[w] = call[w]
      BY <1>1, <2>2, NodeAsks
    <3> QED
      BY <1>2, <2>1, <2>2, <3>1 DEF OrderInv, CallInv
  <2>3. CASE w[1] = n
    <3>1. call[w] \notin Out
      BY <1>1, <2>3, NodeQuiet DEF OrderInv
    <3> QED
      BY <1>1, <2>3, <3>1, NodeAsks
  <2> QED
    BY <2>2, <2>3
<1> QED
  BY <1>1, <1>5, <1>6, <1>7 DEF OrderInv

LEMMA CallMoves ==
  ASSUME LaunchTyped, NEW w \in Workers, CallStep(w)
  PROVE  /\ LaunchTyped' /\ UNCHANGED <<scriptVars, nodeVars, halted, treeVars, checkVars, outcome>>
         /\ incomplete => incomplete'
         /\ call[w] \in Out /\ \A v \in Workers \ {w} : call'[v] = call[v]
<1>1. CASE Refuse(w)
  BY <1>1 DEF Refuse, Becomes, Out, LaunchTyped, CallStates, scriptVars, nodeVars, treeVars, checkVars, budgetVars
<1>2. CASE Decline(w)
  BY <1>2 DEF Decline, Becomes, Out, LaunchTyped, CallStates, scriptVars, nodeVars, treeVars, checkVars, budgetVars
<1>3. CASE Launch(w)
  BY <1>3 DEF Launch, Becomes, Out, Flying, LaunchTyped, CallStates, scriptVars, nodeVars, treeVars, checkVars, budgetVars
<1>4. CASE Answer(w)
  <2>1. Possible(w) \subseteq CallStates
    BY DEF Possible, CallStates, Answers
  <2> QED
    BY <1>4, <2>1 DEF Answer, Becomes, Out, LaunchTyped, scriptVars, nodeVars, treeVars, checkVars, budgetVars
<1> QED
  BY <1>1, <1>2, <1>3, <1>4 DEF CallStep

LEMMA CallOrder == ASSUME OrderInv, NEW w \in Workers, CallStep(w) PROVE OrderInv'
<1>1. /\ LaunchTyped /\ LaunchTyped' /\ UNCHANGED <<scriptVars, nodeVars, halted>>
      /\ call[w] \in Out /\ \A v \in Workers \ {w} : call'[v] = call[v]
  BY CallMoves DEF OrderInv
<1>2. StageInv' /\ DependenciesFirst'
  BY <1>1 DEF OrderInv, StageInv, DependenciesFirst, scriptVars, nodeVars
<1>3. CallInv'
  BY <1>1 DEF OrderInv, CallInv, nodeVars
<1> QED
  BY <1>1, <1>2, <1>3 DEF OrderInv

LEMMA ScriptTyped == ASSUME LaunchTyped, Script PROVE LaunchTyped' /\ UNCHANGED <<nodeVars, call>>
<1>1. CASE CampaignStart
  BY <1>1 DEF CampaignStart, Record, LaunchTyped, nodeVars, budgetVars, treeVars
<1>2. CASE EnterStage
  BY <1>2 DEF EnterStage, LaunchTyped, nodeVars, budgetVars, treeVars
<1>3. CASE ForkCheck
  BY <1>3 DEF ForkCheck, Record, Halt, Problem, LaunchTyped, Outcomes, nodeVars, budgetVars, treeVars
<1>4. CASE LeaveStage
  BY <1>4 DEF LeaveStage, LaunchTyped, nodeVars, budgetVars, treeVars
<1>5. CASE LastStage
  BY <1>5 DEF LastStage, LaunchTyped, nodeVars, budgetVars, treeVars
<1>6. CASE CampaignEnd
  BY <1>6 DEF CampaignEnd, Record, LaunchTyped, nodeVars, budgetVars, treeVars
<1>7. CASE SentinelThrows
  BY <1>7 DEF SentinelThrows, LaunchTyped, nodeVars, budgetVars, treeVars
<1> QED
  BY <1>1, <1>2, <1>3, <1>4, <1>5, <1>6, <1>7 DEF Script

LEMMA ScriptOrder == ASSUME OrderInv, Script PROVE OrderInv'
<1>1. LaunchTyped' /\ UNCHANGED <<nodeVars, call>> /\ LaunchTyped /\ StageInv
  BY ScriptTyped DEF OrderInv
<1>2. DependenciesFirst' /\ CallInv'
  BY <1>1 DEF OrderInv, DependenciesFirst, CallInv, nodeVars
<1>3. StageInv'
  <2>1. CASE CampaignStart
    BY <1>1, <2>1 DEF CampaignStart, StageInv, nodeVars
  <2>2. CASE EnterStage
    BY <1>1, <2>2, StagesKeepOrder DEF EnterStage, StageInv, LaunchTyped, nodeVars
  <2>3. CASE ForkCheck
    <3>1. halted' = "none" => halted = "none"
      BY <1>1, <2>3 DEF ForkCheck, Halt, Problem, LaunchTyped
    <3> QED
      BY <1>1, <2>3, <3>1 DEF ForkCheck, StageInv, nodeVars
  <2>4. CASE LeaveStage
    <3>1. \A n \in Nodes : st[n] \in {"todo", "done"}
      BY <2>4 DEF LeaveStage, StagePassed, StageNodes, StageInv, OrderInv
    <3>2. halted = "none" => \A n \in Stages[stage].nodes : st[n] = "done"
      BY <2>4 DEF LeaveStage, StagePassed, StageNodes
    <3>3. \A l \in 1 .. Len(Stages) : l < stage + 1 => l < stage \/ l = stage
      BY <1>1 DEF LaunchTyped
    <3> QED
      BY <1>1, <2>4, <3>1, <3>2, <3>3 DEF LeaveStage, StageInv, nodeVars
  <2>5. CASE LastStage
    BY <1>1, <2>5 DEF LastStage, StageInv, nodeVars
  <2>6. CASE CampaignEnd
    BY <1>1, <2>6 DEF CampaignEnd, StageInv, nodeVars
  <2>7. CASE SentinelThrows
    BY <1>1, <2>7 DEF SentinelThrows, StageInv, nodeVars
  <2> QED
    BY <2>1, <2>2, <2>3, <2>4, <2>5, <2>6, <2>7 DEF Script
<1> QED
  BY <1>1, <1>2, <1>3 DEF OrderInv

LEMMA OrderInitial == Init => OrderInv
<1> SUFFICES ASSUME Init PROVE OrderInv
  OBVIOUS
<1>1. LaunchTyped
  <2>1. /\ st \in [Nodes -> {"todo", "check", "ready", "work", "verify", "done"}]
        /\ call \in [Workers -> CallStates]
    BY DEF Init, CallStates
  <2>2. d0 \in [Nodes -> Nat] /\ filed \in [Nodes -> Rows]
    BY DEF Init, Rows
  <2>3. stage \in Nat \ {0} /\ declined \in Nat /\ pc = "start"
    BY DEF Init
  <2>4. halted \in Outcomes \ {"COMPLETE", "INCOMPLETE"} /\ incomplete \in BOOLEAN
    BY DEF Init, Outcomes
  <2>5. tree \in Trees /\ base \in Trees /\ source \in Trees
    BY DEF Init
  <2> QED
    BY <2>1, <2>2, <2>3, <2>4, <2>5 DEF LaunchTyped
<1>2. StageInv /\ DependenciesFirst /\ CallInv
  BY DEF Init, StageInv, DependenciesFirst, CallInv, Out, Flying, Workers
<1> QED
  BY <1>1, <1>2 DEF OrderInv

LEMMA OrderNext == OrderInv /\ [Next]_vars => OrderInv'
<1> SUFFICES ASSUME OrderInv, [Next]_vars PROVE OrderInv'
  OBVIOUS
<1>1. CASE UNCHANGED vars
  BY <1>1 DEF vars, OrderInv, LaunchTyped, StageInv, DependenciesFirst, CallInv
<1>2. CASE Disturb
  BY <1>2 DEF Disturb, OrderInv, LaunchTyped, StageInv, DependenciesFirst, CallInv, scriptVars, nodeVars, budgetVars
<1> QED
  BY <1>1, <1>2, ScriptOrder, NodeOrder, CallOrder DEF Next

\* A node begins after all that it names in `after`, and no call is out beside an
\* irreversible one.
LEMMA OrderIsKept == OrderInv => DependenciesFirst /\ EffectAlone
<1>1. OrderInv => EffectAlone
  <2> SUFFICES ASSUME OrderInv, NEW w \in Workers, w[1] \in Irreversible, w \in Mains(w[1]), call[w] = "flight",
                      NEW v \in Workers \ {w}, call[v] \in Out
               PROVE  FALSE
    BY DEF EffectAlone, Out
  <2> DEFINE n == w[1]
  <2>1. n \in Nodes /\ v[1] \in Nodes /\ w \notin Votes(n) /\ n \notin Fans /\ Width[n] = 1
    BY GraphAssumption DEF Workers, Mains, Votes
  <2>2. st[n] = "work" /\ st[v[1]] \in {"work", "verify"}
    BY <2>1 DEF OrderInv, CallInv, Out, Flying
  <2>3. n \in Stages[stage].nodes /\ v[1] \in Stages[stage].nodes /\ stage \in 1 .. Len(Stages)
    BY <2>1, <2>2 DEF OrderInv, StageInv
  <2>4. v[1] = n
    BY <2>3, StagesKeepOrder
  <2>5. v \in Mains(n)
    BY <2>2, <2>4 DEF OrderInv, CallInv
  <2>6. v = <<n, 1>> /\ w = <<n, 1>>
    BY <2>1, <2>5 DEF Mains
  <2> QED
    BY <2>6
<1> QED
  BY <1>1 DEF OrderInv

LEMMA ProblemIsOutcome ==
  ASSUME NEW r PROVE Problem(r) \in {"none", "TREE-UNKNOWN", "TREE-MOVED"}
  BY DEF Problem

\* A reading that is no problem is of the tree of the launch.
LEMMA ReadsBase ==
  ASSUME LaunchTyped, baseline = base, read = {base}, NEW r, Record(r), Problem(r) = "none"
  PROVE  baseline' = base /\ read' = {base}
<1>1. base # NoTree
  BY BudgetAssumption DEF LaunchTyped
<1>2. r = base
  BY <1>1 DEF Problem
<1> QED
  BY <1>1, <1>2 DEF Record

\* What a node that is done without a row that counts leaves behind it.
LEMMA RowFiled ==
  ASSUME OrderInv, LossInv, NEW n \in Nodes, NodeStep(n), st'[n] = "done", halted' = "none", ~incomplete'
  PROVE  Accounted(n, filed'[n])
<1>0. LaunchTyped /\ filed \in [Nodes -> Rows]
  BY DEF OrderInv, LaunchTyped
<1>1. CASE NodeCheck(n)
  BY <1>0, <1>1 DEF NodeCheck, Halt, Problem, LaunchTyped
<1>9. CASE CheckThrows(n)
  BY <1>0, <1>9 DEF CheckThrows, Halt, LaunchTyped
<1>2. CASE Inherit(n) \/ Advise(n) \/ BeginCheck(n)
  BY <1>0, <1>2 DEF Inherit, Advise, BeginCheck, Block, LaunchTyped
<1>3. CASE Released(n)
  BY <1>0, <1>3 DEF Released, Done, Accounted
<1>4. CASE Work(n)
  BY <1>0, <1>4 DEF Work, LaunchTyped
<1>5. CASE SettleParked(n) \/ SettleError(n)
  BY <1>0, <1>5 DEF SettleParked, SettleError, Block, Halt, LaunchTyped
<1>6. CASE SettleNull(n)
  <2>1. ~incomplete /\ declined = 0 /\ d0[n] \in Nat
    BY <1>0, <1>6 DEF SettleNull, LossInv, LaunchTyped
  <2>2. filed'[n] = "DEAD"
    BY <1>0, <1>6, <2>1 DEF SettleNull, Done
  <2>3. n \notin Halting
    BY <1>0, <1>6 DEF SettleNull, Halt, LaunchTyped
  <2> QED
    BY <2>2, <2>3 DEF Accounted
<1>7. CASE SettleOk(n) \/ SettlePanel(n) \/ CountVotes(n)
  <2>1. filed' = [filed EXCEPT ![n] = "OK"]
    BY <1>0, <1>7 DEF SettleOk, SettlePanel, CountVotes, Done, LaunchTyped
  <2> QED
    BY <1>0, <2>1 DEF Accounted
<1>8. CASE SettleFanOut(n)
  <2> DEFINE returned == Cardinality({w \in Mains(n) : call[w] \in {"ok", "red"}})
             skipped == declined - d0[n]
             died == Width[n] - returned - skipped
  <2>1. ~incomplete /\ declined = 0 /\ d0[n] \in Nat /\ Width[n] \in Nat
    BY <1>0, <1>8, GraphAssumption DEF SettleFanOut, LossInv, LaunchTyped
  <2>2. Done(n, IF returned > 0 THEN "OK" ELSE IF died # 0 THEN "DEAD" ELSE "SKIPPED")
    BY <1>8 DEF SettleFanOut
  <2>3. n \in Halting => died = 0
    BY <1>0, <1>8 DEF SettleFanOut, Halt, LaunchTyped
  <2>4. returned \in Nat
    <3>1. IsFiniteSet(Mains(n))
      <4>1. IsFiniteSet({n}) /\ 1 \in Int /\ Width[n] \in Int
        BY <2>1, FS_Singleton
      <4>2. IsFiniteSet(1 .. Width[n])
        BY <4>1, FS_Interval
      <4>3. IsFiniteSet({n} \X (1 .. Width[n]))
        BY <4>1, <4>2, FS_Product
      <4> QED
        BY <4>3 DEF Mains
    <3>2. {w \in Mains(n) : call[w] \in {"ok", "red"}} \in SUBSET Mains(n)
      OBVIOUS
    <3> QED
      BY <3>1, <3>2, FS_Subset, FS_CardinalityType
  <2> HIDE DEF returned
  <2>5. died # 0 \/ returned > 0 \/ (Width[n] = 0 /\ n \in Fans)
    BY <1>8, <2>1, <2>4 DEF SettleFanOut
  <2> HIDE DEF died
  <2> QED
    BY <1>0, <2>2, <2>3, <2>5 DEF Done, Accounted
<1> QED
  BY <1>1, <1>2, <1>3, <1>4, <1>5, <1>6, <1>7, <1>8, <1>9 DEF NodeStep, Settle

LEMMA NodeLoss == ASSUME OrderInv, LossInv, NEW n \in Nodes, NodeStep(n) PROVE LossInv'
<1>1. LaunchTyped /\ LaunchTyped' /\ Moves(n)
  BY NodeMoves, NodeTyped DEF OrderInv
<1>2. /\ halted # "none" => halted' # "none"
      /\ incomplete => incomplete'
      /\ \A m \in Nodes \ {n} : st'[m] = st[m]
  BY <1>1 DEF Moves, LaunchTyped
<1>3. declined' > 0 \/ blocked' # {} => incomplete'
  <2>1. declined' = declined
    BY DEF NodeStep, Settle, BeginCheck, NodeCheck, CheckThrows, Inherit, Released, Advise, Work, SettleParked, SettleError,
           SettleNull, SettleOk, SettlePanel, CountVotes, SettleFanOut, budgetVars
  <2>2. blocked' = blocked \/ incomplete'
    BY DEF NodeStep, Settle, BeginCheck, NodeCheck, CheckThrows, Inherit, Released, Advise, Work, SettleParked, SettleError,
           SettleNull, SettleOk, SettlePanel, CountVotes, SettleFanOut, resultVars, Block
  <2> QED
    BY <1>2, <2>1, <2>2 DEF LossInv
<1>4. ASSUME NEW w \in Workers
      PROVE  /\ call'[w] = "refused" => halted' # "none"
             /\ call'[w] = "declined" => incomplete'
             /\ call'[w] = "threw" => /\ w \in Mains(w[1]) /\ w[1] \notin Fans
                                      /\ st'[w[1]] = "work" \/ halted' # "none"
  <2>1. w[1] \in Nodes
    BY DEF Workers
  <2>2. CASE call'[w] # call[w]
    BY <1>1, <1>2, <2>2, NodeAsks
  <2>3. CASE call'[w] = call[w] /\ (call[w] # "threw" \/ w[1] # n \/ halted # "none")
    BY <1>2, <2>1, <2>3 DEF LossInv
  <2>4. CASE call'[w] = call[w] /\ call[w] = "threw" /\ w[1] = n /\ halted = "none"
    <3>1. st[n] = "work" /\ w \in Mains(n) /\ n \notin Fans
      BY <2>4 DEF LossInv
    <3>2. Result(n) = "threw"
      BY <2>4, <3>1, GraphAssumption DEF Result, Mains
    <3>3. SettleParked(n) \/ SettleError(n)
      BY <3>1, <3>2 DEF NodeStep, Settle, BeginCheck, NodeCheck, CheckThrows, Inherit, Released, Advise, Work, Runs, Ready,
             SettleNull, SettleOk, SettlePanel, CountVotes, SettleFanOut, Nulls
    <3>4. halted' # "none"
      BY <2>4, <3>2, <3>3 DEF SettleParked, SettleError, Halt
    <3> QED
      BY <2>4, <3>1, <3>4
  <2> QED
    BY <2>2, <2>3, <2>4
<1>5. ASSUME NEW m \in Nodes, st'[m] = "done", halted' = "none", ~incomplete'
      PROVE  Accounted(m, filed'[m])
  <2>1. CASE m = n
    BY <1>5, <2>1, RowFiled
  <2>2. CASE m # n
    <3>1. filed'[m] = filed[m]
      BY <1>1, <2>2 DEF NodeStep, Settle, BeginCheck, NodeCheck, CheckThrows, Inherit, Released, Advise, Work, SettleParked,
             SettleError, SettleNull, SettleOk, SettlePanel, CountVotes, SettleFanOut, Block, Done, nodeVars,
             LaunchTyped
    <3> QED
      BY <1>2, <1>5, <2>2, <3>1 DEF LossInv
  <2> QED
    BY <2>1, <2>2
<1> QED
  BY <1>3, <1>4, <1>5, Zenon DEF LossInv

LEMMA NodeTree == ASSUME OrderInv, TreeInv, EndInv, NEW n \in Nodes, NodeStep(n) PROVE TreeInv' /\ EndInv'
<1>1. LaunchTyped /\ Moves(n)
  BY NodeMoves DEF OrderInv
<1>2. UNCHANGED <<pc, base, outcome>> /\ pc = "in"
  BY <1>1 DEF Moves, LaunchTyped, OrderInv, StageInv, Ready, scriptVars, treeVars
<1>3. CASE NodeCheck(n)
  <2>1. PICK r \in Trees \cup {NoTree} :
          /\ Record(r)
          /\ IF Problem(r) = "none" THEN UNCHANGED halted ELSE Halt(Problem(r))
    BY <1>3 DEF NodeCheck
  <2>2. halted' = "none" => halted = "none" /\ Problem(r) = "none"
    BY <2>1 DEF Halt
  <2> QED
    BY <1>1, <1>2, <2>1, <2>2, ReadsBase DEF TreeInv, EndInv
<1>4. CASE ~NodeCheck(n)
  <2>1. UNCHANGED checkVars
    BY <1>4 DEF NodeStep, Settle, BeginCheck, CheckThrows, Inherit, Released, Advise, Work, SettleParked,
           SettleError, SettleNull, SettleOk, SettlePanel, CountVotes, SettleFanOut
  <2>2. halted' = "none" => halted = "none"
    BY <1>1 DEF Moves
  <2> QED
    BY <1>2, <2>1, <2>2 DEF TreeInv, EndInv, checkVars
<1> QED
  BY <1>3, <1>4

LEMMA CallOutcome == ASSUME OrderInv, OutcomeInv, NEW w \in Workers, CallStep(w) PROVE OutcomeInv'
<1>1. /\ LaunchTyped /\ LaunchTyped'
      /\ UNCHANGED <<scriptVars, nodeVars, halted, treeVars, checkVars, outcome>>
      /\ incomplete => incomplete'
      /\ call[w] \in Out /\ \A v \in Workers \ {w} : call'[v] = call[v]
  BY CallMoves DEF OrderInv
<1>2. w[1] \in Nodes /\ pc = "in"
  BY <1>1 DEF OrderInv, CallInv, StageInv, Workers
<1>3. TreeInv' /\ EndInv'
  BY <1>1, <1>2 DEF OutcomeInv, TreeInv, EndInv, scriptVars, nodeVars, treeVars, checkVars
<1>4. /\ (declined' = declined \/ incomplete') /\ blocked' = blocked
      /\ call'[w] = "refused" => halted # "none"
      /\ call'[w] = "declined" => incomplete'
      /\ call'[w] = "threw" => w \in Mains(w[1]) /\ w[1] \notin Fans
  <2>1. CASE Refuse(w)
    BY <1>1, <2>1 DEF Refuse, Becomes, LaunchTyped, budgetVars, resultVars
  <2>2. CASE Decline(w)
    BY <1>1, <2>2 DEF Decline, Becomes, LaunchTyped, resultVars
  <2>3. CASE Launch(w)
    BY <1>1, <2>3 DEF Launch, Becomes, LaunchTyped, resultVars
  <2>4. CASE Answer(w)
    BY <1>1, <2>4 DEF Answer, Becomes, Possible, LaunchTyped, resultVars
  <2> QED
    BY <2>1, <2>2, <2>3, <2>4 DEF CallStep
<1>5. call'[w] = "threw" => st[w[1]] = "work"
  BY <1>1, <1>4, MainOrVote DEF OrderInv, CallInv
<1>6. LossInv'
  <2>1. declined' > 0 \/ blocked' # {} => incomplete'
    BY <1>1, <1>4 DEF OutcomeInv, LossInv
  <2>2. ASSUME NEW v \in Workers
        PROVE  /\ call'[v] = "refused" => halted' # "none"
               /\ call'[v] = "declined" => incomplete'
               /\ call'[v] = "threw" => /\ v \in Mains(v[1]) /\ v[1] \notin Fans
                                        /\ st'[v[1]] = "work" \/ halted' # "none"
    <3>1. CASE v = w
      BY <1>1, <1>4, <1>5, <3>1 DEF nodeVars
    <3>2. CASE v # w
      BY <1>1, <3>2 DEF OutcomeInv, LossInv, nodeVars
    <3> QED
      BY <3>1, <3>2
  <2>3. \A n \in Nodes : st'[n] = "done" /\ halted' = "none" /\ ~incomplete' =>
          Accounted(n, filed'[n])
    BY <1>1 DEF OutcomeInv, LossInv, nodeVars
  <2> QED
    BY <2>1, <2>2, <2>3, Zenon DEF LossInv
<1> QED
  BY <1>3, <1>6 DEF OutcomeInv

LEMMA ScriptOutcome == ASSUME OrderInv, OutcomeInv, Script PROVE OutcomeInv'
<1>1. LaunchTyped /\ LaunchTyped' /\ UNCHANGED <<nodeVars, call>>
  BY ScriptTyped DEF OrderInv
<1>2. /\ UNCHANGED <<base, declined, blocked>>
      /\ halted # "none" => halted' = halted
      /\ incomplete => incomplete'
  <2>1. CASE CampaignStart
    BY <2>1 DEF CampaignStart, Record, treeVars, budgetVars, resultVars
  <2>2. CASE EnterStage \/ LeaveStage \/ LastStage
    BY <2>2 DEF EnterStage, LeaveStage, LastStage, treeVars, budgetVars, resultVars
  <2>3. CASE ForkCheck
    BY <2>3 DEF ForkCheck, Record, Halt, treeVars, budgetVars, resultVars
  <2>4. CASE CampaignEnd
    BY <2>4 DEF CampaignEnd, Record, treeVars, budgetVars, resultVars
  <2>5. CASE SentinelThrows
    BY <2>5 DEF SentinelThrows, treeVars, budgetVars, resultVars
  <2> QED
    BY <2>1, <2>2, <2>3, <2>4, <2>5 DEF Script
<1>3. LossInv'
  BY <1>1, <1>2 DEF OutcomeInv, LossInv, nodeVars
<1>4. TreeInv' /\ EndInv'
  <2>1. CASE CampaignStart
    <3>1. PICK r \in Trees \cup {NoTree} :
            /\ Record(r) /\ outcome' = LaunchProblem(r)
            /\ pc' = IF LaunchProblem(r) = "none" THEN "out" ELSE "over"
      BY <2>1 DEF CampaignStart
    <3>2. outcome' \in {"none", "TREE-MOVED", "TREE-UNKNOWN"}
      BY <3>1, ProblemIsOutcome DEF LaunchProblem
    <3>3. baseline = NoTree /\ read = {}
      BY <2>1 DEF CampaignStart, OutcomeInv, TreeInv
    <3>4. LaunchProblem(r) = "none" => r = base /\ baseline' = base /\ read' = {base}
      BY <1>1, <3>1, <3>3, BudgetAssumption DEF LaunchProblem, Problem, Record, LaunchTyped
    <3> QED
      BY <1>2, <3>1, <3>2, <3>4 DEF TreeInv, EndInv
  <2>2. CASE ForkCheck
    <3>1. PICK r \in Trees \cup {NoTree} :
            /\ Record(r)
            /\ IF Problem(r) = "none" THEN UNCHANGED halted ELSE Halt(Problem(r))
      BY <2>2 DEF ForkCheck
    <3>2. halted' = "none" => halted = "none" /\ Problem(r) = "none"
      BY <3>1 DEF Halt
    <3>3. pc = "fork" /\ pc' = "in" /\ outcome' = outcome
      BY <2>2 DEF ForkCheck
    <3> QED
      BY <1>1, <1>2, <3>1, <3>2, <3>3, ReadsBase DEF OutcomeInv, TreeInv, EndInv
  <2>3. CASE EnterStage \/ LeaveStage \/ LastStage
    <3>1. UNCHANGED <<baseline, read, halted>> /\ pc \in {"in", "out"}
      BY <2>3 DEF EnterStage, LeaveStage, LastStage, checkVars
    <3>2. \/ pc' \in {"fork", "in", "out", "end"} /\ outcome' = outcome
          \/ pc' = "over" /\ outcome' = halted
      BY <2>3 DEF EnterStage, LeaveStage, LastStage
    <3> QED
      BY <1>1, <1>2, <3>1, <3>2 DEF OutcomeInv, TreeInv, EndInv, LaunchTyped
  <2>4. CASE CampaignEnd
    <3>1. PICK r \in Trees \cup {NoTree} :
            /\ Record(r) /\ outcome' = IF Problem(r) = "none" THEN Final("COMPLETE") ELSE Problem(r)
      BY <2>4 DEF CampaignEnd
    <3>2. pc = "end" /\ pc' = "over" /\ halted' = halted
      BY <2>4 DEF CampaignEnd
    <3>3. halted = "none" /\ stage > Len(Stages) /\ baseline = base /\ read = {base}
      BY <3>2 DEF OrderInv, StageInv, OutcomeInv, TreeInv
    <3>4. \A n \in Nodes : st[n] = "done"
      <4>1. \A l \in 1 .. Len(Stages) : l < stage /\ \A n \in Stages[l].nodes : st[n] = "done"
        BY <1>1, <3>3, StagesKeepOrder DEF OrderInv, StageInv, LaunchTyped
      <4> QED
        BY <4>1, StagesKeepOrder
    <3>5. Problem(r) = "none" => read' = {base}
      BY <1>1, <3>1, <3>3, ReadsBase
    <3>6. Problem(r) # "none" => outcome' \notin {"COMPLETE", "INCOMPLETE"}
      BY <3>1, ProblemIsOutcome
    <3>7. outcome' = "COMPLETE" => ~incomplete'
      BY <3>1, <3>6 DEF Final
    <3> QED
      BY <1>1, <1>2, <3>2, <3>3, <3>4, <3>5, <3>6, <3>7 DEF TreeInv, EndInv, nodeVars
  <2>5. CASE SentinelThrows
    BY <1>1, <1>2, <2>5 DEF SentinelThrows, OutcomeInv, TreeInv, EndInv
  <2> QED
    BY <2>1, <2>2, <2>3, <2>4, <2>5 DEF Script
<1> QED
  BY <1>3, <1>4 DEF OutcomeInv

LEMMA OutcomeInitial == Init => OutcomeInv
<1> SUFFICES ASSUME Init PROVE OutcomeInv
  OBVIOUS
<1>1. LossInv
  BY DEF Init, LossInv, Workers
<1>2. TreeInv /\ EndInv
  BY DEF Init, TreeInv, EndInv
<1> QED
  BY <1>1, <1>2 DEF OutcomeInv

LEMMA OutcomeNext == OrderInv /\ OutcomeInv /\ [Next]_vars => OutcomeInv'
<1> SUFFICES ASSUME OrderInv, OutcomeInv, [Next]_vars PROVE OutcomeInv'
  OBVIOUS
<1>1. CASE UNCHANGED vars
  BY <1>1 DEF vars, OutcomeInv, LossInv, TreeInv, EndInv
<1>2. CASE Disturb
  BY <1>2 DEF Disturb, OutcomeInv, LossInv, TreeInv, EndInv, scriptVars, nodeVars, budgetVars, checkVars, resultVars
<1>3. ASSUME NEW n \in Nodes, NodeStep(n) PROVE OutcomeInv'
  BY <1>3, NodeLoss, NodeTree DEF OutcomeInv
<1> QED
  BY <1>1, <1>2, <1>3, ScriptOutcome, CallOutcome DEF Next

\* Whatever dies, is declined, halts or moves the tree, in a campaign of any graph: one
\* that calls itself COMPLETE ran every node and lost no call, and all its readings, if
\* it was not halted, are of the tree it was launched on.
THEOREM OutcomeTrue == Spec => []OutcomeIsTrue
<1>1. OrderInv /\ OutcomeInv => OutcomeIsTrue
  <2> SUFFICES ASSUME OrderInv, OutcomeInv PROVE CompleteIsWhole /\ OneTree
    BY DEF OutcomeIsTrue
  <2>1. OneTree
    BY DEF OutcomeInv, EndInv, OneTree
  <2>2. ASSUME outcome = "COMPLETE" PROVE CompleteIsWhole
    <3>1. ~incomplete /\ halted = "none" /\ \A n \in Nodes : st[n] = "done"
      BY <2>2 DEF OutcomeInv, EndInv
    <3>2. \A n \in Nodes : Accounted(n, filed[n])
      BY <3>1 DEF OutcomeInv, LossInv
    <3>3. \A w \in Workers : call[w] \notin {"declined", "refused", "threw"}
      BY <3>1 DEF OutcomeInv, LossInv, Workers
    <3>4. blocked = {}
      BY <3>1 DEF OutcomeInv, LossInv
    <3> QED
      BY <3>1, <3>2, <3>3, <3>4 DEF CompleteIsWhole, Accounted
  <2> QED
    BY <2>1, <2>2 DEF CompleteIsWhole
<1> QED
  BY <1>1, OrderInitial, OrderNext, OutcomeInitial, OutcomeNext, PTL DEF Spec

(***************************************************************************)
(* The budget of a launch                                                  *)
(***************************************************************************)
CallsOut == {w \in Workers : call[w] \in Flying}
CallsMade == {w \in Workers : call[w] \in Flying \cup Answers}

\* A floor is reserved for each call that is out, and every call made was counted.
BudgetInv ==
  /\ IsFiniteSet(CallsMade)
  /\ reserved = Floor * Cardinality(CallsOut)
  /\ spawned = Cardinality(CallsMade) /\ spawned <= MaxNodes

\* No call of a node is asked for twice: before its work it has asked for none, and
\* before its panel for no vote.
FreshInv ==
  \A w \in Workers : call[w] # "none" =>
    /\ w \in Mains(w[1]) => st[w[1]] \notin {"todo", "check", "ready"}
    /\ w \in Votes(w[1]) => st[w[1]] \in {"verify", "done"}

LEMMA NodeOnward ==
  ASSUME LaunchTyped, NEW n \in Nodes, NodeStep(n)
  PROVE  /\ st[n] = "verify" => st'[n] = "done"
         /\ st[n] = "work" => st'[n] \in {"verify", "done"}
         /\ st[n] # "done" /\ \A m \in Nodes \ {n} : st'[m] = st[m]
<1>1. \E x \in {"check", "ready", "work", "verify", "done"} : st' = [st EXCEPT ![n] = x]
  BY NodeMoves DEF Moves
<1>2. st[n] # "done" /\ \A m \in Nodes \ {n} : st'[m] = st[m]
  BY <1>1, NodeMoves DEF Moves, LaunchTyped
<1>3. CASE Answered(n)
  BY <1>2, <1>3 DEF Answered, LaunchTyped, NodeStep, Settle, BeginCheck, NodeCheck, CheckThrows, Inherit, Released, Advise, Work, Runs,
        Ready, SettleParked, SettleError, SettleNull, SettleOk, SettlePanel, CountVotes, SettleFanOut, Done, Block
<1>4. CASE CountVotes(n)
  BY <1>2, <1>4 DEF CountVotes, Done, LaunchTyped
<1>5. CASE st[n] \in {"todo", "check", "ready"}
  BY <1>2, <1>5
<1>6. Answered(n) \/ CountVotes(n) \/ st[n] \in {"todo", "check", "ready"}
  BY DEF NodeStep, Settle, BeginCheck, NodeCheck, CheckThrows, Inherit, Released, Advise, Work, Runs, Ready,
         SettleParked, SettleError, SettleNull, SettleOk, SettlePanel, SettleFanOut
<1> QED
  BY <1>3, <1>4, <1>5, <1>6

LEMMA NodeCalls ==
  ASSUME LaunchTyped, FreshInv, NEW n \in Nodes, NodeStep(n)
  PROVE  FreshInv' /\ CallsOut' = CallsOut /\ CallsMade' = CallsMade
<1>1. ASSUME NEW w \in Workers, call'[w] # call[w]
      PROVE  /\ w[1] = n /\ call[w] = "none" /\ call'[w] \in {"asked", "refused"}
             /\ \/ st'[n] = "work" /\ w \in Mains(n)
                \/ st'[n] = "verify" /\ w \in Votes(n)
  <2>1. /\ w[1] = n /\ call'[w] \in {"asked", "refused"}
        /\ \/ st'[n] = "work" /\ w \in Mains(n)
           \/ st'[n] = "verify" /\ w \in Votes(n)
    BY <1>1, NodeAsks
  <2>2. call[w] = "none"
    BY <2>1, NodeOnward DEF FreshInv, LaunchTyped
  <2> QED
    BY <2>1, <2>2
<1>2. ASSUME NEW w \in Workers, call'[w] # "none"
      PROVE  /\ w \in Mains(w[1]) => st'[w[1]] \notin {"todo", "check", "ready"}
             /\ w \in Votes(w[1]) => st'[w[1]] \in {"verify", "done"}
  <2>1. CASE call'[w] # call[w]
    BY <1>1, <2>1, MainOrVote
  <2>2. CASE call'[w] = call[w] /\ w[1] = n
    BY <1>2, <2>2, NodeOnward DEF FreshInv, LaunchTyped
  <2>3. CASE call'[w] = call[w] /\ w[1] # n
    BY <1>2, <2>3, NodeOnward, MainOrVote DEF FreshInv
  <2> QED
    BY <2>1, <2>2, <2>3
<1>3. \A w \in Workers : /\ call'[w] \in Flying <=> call[w] \in Flying
                         /\ call'[w] \in Flying \cup Answers <=> call[w] \in Flying \cup Answers
  BY <1>1 DEF Flying, Answers
<1>4. FreshInv'
  BY <1>2 DEF FreshInv, Mains, Votes
<1> QED
  BY <1>3, <1>4 DEF CallsOut, CallsMade

LEMMA NodeBudget == ASSUME NEW n \in Nodes, NodeStep(n) PROVE UNCHANGED budgetVars
  BY DEF NodeStep, Settle, BeginCheck, NodeCheck, CheckThrows, Inherit, Released, Advise, Work, SettleParked, SettleError,
         SettleNull, SettleOk, SettlePanel, CountVotes, SettleFanOut

LEMMA CallFresh == ASSUME OrderInv, FreshInv, NEW w \in Workers, CallStep(w) PROVE FreshInv'
<1>1. /\ UNCHANGED st /\ call[w] \in Out /\ \A v \in Workers \ {w} : call'[v] = call[v]
  BY CallMoves DEF OrderInv, nodeVars
<1>2. /\ w \in Mains(w[1]) => st[w[1]] \notin {"todo", "check", "ready"}
      /\ w \in Votes(w[1]) => st[w[1]] \in {"verify", "done"}
  BY <1>1, MainOrVote DEF OrderInv, CallInv
<1> QED
  BY <1>1, <1>2 DEF FreshInv, Mains, Votes

LEMMA CallBudget == ASSUME OrderInv, BudgetInv, NEW w \in Workers, CallStep(w) PROVE BudgetInv'
<1>0. LaunchTyped /\ LaunchTyped' /\ \A v \in Workers \ {w} : call'[v] = call[v]
  BY CallMoves DEF OrderInv
<1>1. CallsOut \subseteq CallsMade /\ Floor \in Nat /\ MaxNodes \in Nat
  BY BudgetAssumption DEF CallsOut, CallsMade
<1>2. IsFiniteSet(CallsOut) /\ Cardinality(CallsOut) \in Nat /\ Cardinality(CallsMade) \in Nat
  BY <1>1, FS_Subset, FS_CardinalityType DEF BudgetInv
<1>3. CASE Refuse(w) \/ Decline(w)
  <2>1. call[w] = "asked" /\ call'[w] \in {"refused", "declined"} /\ UNCHANGED <<spawned, reserved>>
    BY <1>0, <1>3 DEF Refuse, Decline, Becomes, budgetVars, LaunchTyped
  <2>2. CallsOut' = CallsOut /\ CallsMade' = CallsMade
    BY <1>0, <2>1 DEF CallsOut, CallsMade, Flying, Answers
  <2> QED
    BY <2>1, <2>2 DEF BudgetInv
<1>4. CASE Launch(w)
  <2>1. /\ call[w] = "asked" /\ call'[w] \in Flying /\ spawned < MaxNodes
        /\ spawned' = spawned + 1 /\ reserved' = reserved + Floor
    BY <1>0, <1>4 DEF Launch, Room, Becomes, Flying, LaunchTyped
  <2>2. /\ CallsOut' = CallsOut \cup {w} /\ CallsMade' = CallsMade \cup {w}
        /\ w \notin CallsOut /\ w \notin CallsMade
    BY <1>0, <2>1 DEF CallsOut, CallsMade, Flying, Answers
  <2>3. /\ Cardinality(CallsOut') = Cardinality(CallsOut) + 1
        /\ IsFiniteSet(CallsMade') /\ Cardinality(CallsMade') = Cardinality(CallsMade) + 1
    BY <1>2, <2>2, FS_AddElement DEF BudgetInv
  <2>4. Floor * (Cardinality(CallsOut) + 1) = Floor * Cardinality(CallsOut) + Floor
    BY <1>1, <1>2
  <2> QED
    BY <1>1, <1>2, <2>1, <2>3, <2>4 DEF BudgetInv
<1>5. CASE Answer(w)
  <2>1. call[w] \in Flying /\ call'[w] \in Answers /\ spawned' = spawned /\ reserved' = reserved - Floor
    BY <1>0, <1>5 DEF Answer, Becomes, Possible, Answers, LaunchTyped
  <2>2. CallsOut' = CallsOut \ {w} /\ CallsMade' = CallsMade /\ w \in CallsOut
    BY <1>0, <2>1 DEF CallsOut, CallsMade, Flying, Answers
  <2>3. Cardinality(CallsOut') = Cardinality(CallsOut) - 1
    BY <1>2, <2>2, FS_RemoveElement
  <2>4. Floor * (Cardinality(CallsOut) - 1) = Floor * Cardinality(CallsOut) - Floor
    BY <1>1, <1>2
  <2> QED
    BY <2>1, <2>2, <2>3, <2>4 DEF BudgetInv
<1> QED
  BY <1>3, <1>4, <1>5 DEF CallStep

LEMMA BudgetInitial == Init => BudgetInv /\ FreshInv
<1> SUFFICES ASSUME Init PROVE BudgetInv /\ FreshInv
  OBVIOUS
<1>1. CallsOut = {} /\ CallsMade = {} /\ \A w \in Workers : call[w] = "none"
  BY DEF Init, CallsOut, CallsMade, Flying, Answers
<1>2. reserved = 0 /\ spawned = 0 /\ Floor * 0 = 0 /\ 0 <= MaxNodes
  BY BudgetAssumption DEF Init
<1> QED
  BY <1>1, <1>2, FS_EmptySet DEF BudgetInv, FreshInv

LEMMA BudgetNext == OrderInv /\ BudgetInv /\ FreshInv /\ [Next]_vars => BudgetInv' /\ FreshInv'
<1> SUFFICES ASSUME OrderInv, BudgetInv, FreshInv, [Next]_vars PROVE BudgetInv' /\ FreshInv'
  OBVIOUS
<1>1. ASSUME UNCHANGED <<call, st, spawned, reserved>> PROVE BudgetInv' /\ FreshInv'
  BY <1>1 DEF BudgetInv, FreshInv, CallsOut, CallsMade, Mains, Votes
<1>2. CASE UNCHANGED vars
  BY <1>1, <1>2 DEF vars
<1>3. CASE Disturb
  BY <1>1, <1>3 DEF Disturb, nodeVars, budgetVars
<1>4. CASE Script
  BY <1>1, <1>4 DEF Script, CampaignStart, EnterStage, ForkCheck, LeaveStage, LastStage, CampaignEnd, SentinelThrows, nodeVars, budgetVars
<1>5. ASSUME NEW n \in Nodes, NodeStep(n) PROVE BudgetInv' /\ FreshInv'
  BY <1>5, NodeCalls, NodeBudget DEF BudgetInv, OrderInv, budgetVars
<1>6. ASSUME NEW w \in Workers, CallStep(w) PROVE BudgetInv' /\ FreshInv'
  BY <1>6, CallFresh, CallBudget
<1> QED
  BY <1>2, <1>3, <1>4, <1>5, <1>6 DEF Next

\* For every graph the compiler accepts, every budget, and however the calls of its lanes
\* answer, die and throw: a node begins after all that it names in `after`, no call is out
\* beside an irreversible one, a floor is reserved for each call that is out and for no
\* other, and every call was counted, up to the declared ceiling.
THEOREM PlanKept == Spec => []PlanIsKept
<1>1. OrderInv /\ BudgetInv => PlanIsKept
  <2>1. BudgetInv => BudgetIsHeld
    BY DEF BudgetInv, BudgetIsHeld, CallsOut, CallsMade
  <2> QED
    BY <2>1, OrderIsKept DEF PlanIsKept
<1> QED
  BY <1>1, OrderInitial, OrderNext, BudgetInitial, BudgetNext, PTL DEF Spec

\* What no other invariant says of the types.
RestTyped ==
  /\ stage <= Len(Stages) + 1 /\ forked \in BOOLEAN /\ outcome \in Outcomes
  /\ blocked \subseteq Nodes /\ unverified \subseteq Nodes /\ released \subseteq Parked
  /\ tokens \in 0 .. Tokens /\ baseline \in Trees \cup {NoTree} /\ read \subseteq Trees
  /\ prefix \in 0 .. MaxPrefix /\ moves \in 0 .. MaxMoves

LEMMA ReadingTyped ==
  ASSUME LaunchTyped, RestTyped, NEW r \in Trees \cup {NoTree}, NEW live \in BOOLEAN, Reads(r, live), Record(r)
  PROVE  /\ prefix' \in 0 .. MaxPrefix /\ read' \subseteq Trees
         /\ baseline' \in Trees \cup {NoTree}
<1>1. prefix' \in 0 .. MaxPrefix
  BY BudgetAssumption DEF Reads, RestTyped
<1> QED
  BY <1>1 DEF Record, RestTyped

LEMMA RestNode == ASSUME LaunchTyped, RestTyped, NEW n \in Nodes, NodeStep(n) PROVE RestTyped'
<1>1. UNCHANGED <<scriptVars, budgetVars, treeVars, outcome, released>>
  BY DEF NodeStep, Settle, BeginCheck, NodeCheck, CheckThrows, Inherit, Released, Advise, Work, SettleParked, SettleError,
         SettleNull, SettleOk, SettlePanel, CountVotes, SettleFanOut, resultVars
<1>2. CASE NodeCheck(n)
  <2>1. PICK r \in Trees \cup {NoTree} : Reads(r, forked \/ Joined(n)) /\ Record(r)
    BY <1>2 DEF NodeCheck
  <2>2. forked \/ Joined(n) \in BOOLEAN
    BY DEF RestTyped, Joined
  <2>3. UNCHANGED resultVars
    BY <1>2 DEF NodeCheck
  <2> QED
    BY <1>1, <2>1, <2>2, <2>3, ReadingTyped DEF RestTyped, scriptVars, budgetVars, treeVars, resultVars
<1>3. ASSUME ~NodeCheck(n)
      PROVE  /\ UNCHANGED checkVars /\ prefix' \in {prefix, 0}
             /\ blocked' \subseteq blocked \cup {n} /\ unverified' \subseteq unverified \cup {n}
  BY <1>3 DEF NodeStep, Settle, BeginCheck, CheckThrows, Inherit, Released, Advise, Work, SettleParked, SettleError, Block,
         SettleNull, SettleOk, SettlePanel, CountVotes, SettleFanOut, resultVars
<1> QED
  BY <1>1, <1>2, <1>3, BudgetAssumption DEF RestTyped, scriptVars, budgetVars, treeVars, checkVars

LEMMA RestCall == ASSUME LaunchTyped, RestTyped, NEW w \in Workers, CallStep(w) PROVE RestTyped'
<1>1. UNCHANGED <<scriptVars, treeVars, checkVars, outcome>>
  BY CallMoves
<1>2. UNCHANGED resultVars
  BY DEF CallStep, Refuse, Decline, Launch, Answer
<1>3. tokens' \in 0 .. Tokens
  <2>1. CASE Answer(w)
    BY <2>1, BudgetAssumption DEF Answer, RestTyped
  <2>2. CASE Refuse(w) \/ Decline(w) \/ Launch(w)
    BY <2>2 DEF Refuse, Decline, Launch, budgetVars, RestTyped
  <2> QED
    BY <2>1, <2>2 DEF CallStep
<1>4. prefix' \in 0 .. MaxPrefix
  BY BudgetAssumption DEF CallStep, Refuse, Decline, Launch, Answer, RestTyped
<1> QED
  BY <1>1, <1>2, <1>3, <1>4 DEF RestTyped, scriptVars, treeVars, checkVars, resultVars

LEMMA RestScript == ASSUME OrderInv, RestTyped, Script PROVE RestTyped'
<1>1. UNCHANGED <<budgetVars, treeVars, resultVars>> /\ LaunchTyped /\ Len(Stages) \in Nat
  BY StagesKeepOrder DEF Script, CampaignStart, EnterStage, ForkCheck, LeaveStage, LastStage, CampaignEnd, SentinelThrows, OrderInv
<1>2. /\ forked' \in BOOLEAN /\ stage' <= Len(Stages) + 1
  <2>1. CASE EnterStage
    <3>1. forked' = (forked \/ Stages[stage].kind = "lanes") /\ stage' = stage
      BY <2>1 DEF EnterStage
    <3> QED
      BY <3>1 DEF RestTyped
  <2>2. CASE LeaveStage
    <3>1. forked' = forked /\ stage' = stage + 1 /\ pc = "in"
      BY <2>2 DEF LeaveStage
    <3>2. stage \in 1 .. Len(Stages)
      BY <1>1, <3>1 DEF OrderInv, StageInv
    <3> QED
      BY <1>1, <3>1, <3>2 DEF RestTyped
  <2>3. CASE ~EnterStage /\ ~LeaveStage
    BY <2>3 DEF Script, CampaignStart, ForkCheck, LastStage, CampaignEnd, SentinelThrows, RestTyped
  <2> QED
    BY <2>1, <2>2, <2>3
<1>3. outcome' \in Outcomes
  <2>1. CASE CampaignStart
    BY <2>1, ProblemIsOutcome DEF CampaignStart, LaunchProblem, Outcomes
  <2>2. CASE CampaignEnd
    BY <2>2, ProblemIsOutcome DEF CampaignEnd, Final, Outcomes
  <2>3. CASE ~CampaignStart /\ ~CampaignEnd
    BY <1>1, <2>3 DEF Script, EnterStage, ForkCheck, LeaveStage, LastStage, SentinelThrows, RestTyped, LaunchTyped
  <2> QED
    BY <2>1, <2>2, <2>3
<1>4. /\ prefix' \in 0 .. MaxPrefix /\ read' \subseteq Trees
      /\ baseline' \in Trees \cup {NoTree}
  <2>1. CASE UNCHANGED checkVars /\ prefix' \in {prefix, 0}
    BY <2>1, BudgetAssumption DEF checkVars, RestTyped
  <2>2. CASE ~(UNCHANGED checkVars /\ prefix' \in {prefix, 0})
    <3>1. PICK r \in Trees \cup {NoTree}, live \in BOOLEAN : Reads(r, live) /\ Record(r)
      BY <2>2 DEF Script, CampaignStart, EnterStage, ForkCheck, LeaveStage, LastStage, CampaignEnd, SentinelThrows, RestTyped
    <3> QED
      BY <1>1, <3>1, ReadingTyped
  <2> QED
    BY <2>1, <2>2
<1> QED
  BY <1>1, <1>2, <1>3, <1>4 DEF RestTyped, budgetVars, treeVars, resultVars

LEMMA RestNext == OrderInv /\ RestTyped /\ [Next]_vars => RestTyped'
<1> SUFFICES ASSUME OrderInv, RestTyped, [Next]_vars PROVE RestTyped'
  OBVIOUS
<1>1. CASE UNCHANGED vars
  BY <1>1 DEF vars, RestTyped
<1>2. CASE Disturb
  BY <1>2, BudgetAssumption DEF Disturb, RestTyped, scriptVars, budgetVars, checkVars, resultVars
<1> QED
  BY <1>1, <1>2, RestNode, RestCall, RestScript DEF Next, OrderInv

\* Every variable of the launch stays in its type: no call beyond the ceiling, no reservation
\* below nothing, and no stage behind the last.
THEOREM TypeCorrect == Spec => []TypeOK
<1>1. Init => RestTyped
  <2>1. Len(Stages) \in Nat
    BY StagesKeepOrder
  <2> QED
    <3> SUFFICES ASSUME Init PROVE RestTyped
      OBVIOUS
    <3>1. stage <= Len(Stages) + 1 /\ tokens \in 0 .. Tokens /\ prefix \in 0 .. MaxPrefix /\ moves \in 0 .. MaxMoves
      BY <2>1, BudgetAssumption DEF Init
    <3>2. forked \in BOOLEAN /\ outcome \in Outcomes /\ baseline \in Trees \cup {NoTree} /\ read \subseteq Trees
      BY DEF Init, Outcomes
    <3>3. blocked \subseteq Nodes /\ unverified \subseteq Nodes /\ released \subseteq Parked
      BY DEF Init
    <3> QED
      BY <3>1, <3>2, <3>3 DEF RestTyped
<1>2. OrderInv /\ BudgetInv /\ RestTyped => TypeOK
  <2> SUFFICES ASSUME OrderInv, BudgetInv, RestTyped PROVE TypeOK
    OBVIOUS
  <2>1. Cardinality(CallsMade) \in Nat /\ Cardinality(CallsOut) \in Nat /\ Floor \in Nat
    BY FS_Subset, FS_CardinalityType, BudgetAssumption DEF BudgetInv, CallsOut, CallsMade
  <2>2. reserved \in Nat /\ spawned \in 0 .. MaxNodes
    BY <2>1, BudgetAssumption DEF BudgetInv
  <2>3. stage \in 1 .. Len(Stages) + 1
    BY StagesKeepOrder DEF OrderInv, LaunchTyped, RestTyped
  <2> QED
    BY <2>2, <2>3 DEF TypeOK, OrderInv, LaunchTyped, CallStates, RestTyped
<1> QED
  BY <1>1, <1>2, OrderInitial, OrderNext, BudgetInitial, BudgetNext, RestNext, PTL DEF Spec
=============================================================================
