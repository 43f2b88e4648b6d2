------------------------------ MODULE Schedule ------------------------------
(***************************************************************************)
(* What compile-graph.py makes of a graph: validate, which refuses what    *)
(* may not run, and execution_stages, which puts the nodes of an accepted  *)
(* graph in order: lanes side by side, barriers between them.              *)
(*                                                                         *)
(* A node's id is its place in the declaration.  Prompts, contracts, sizes *)
(* and budgets are left out; a gate is independent and has a haltWhen.     *)
(***************************************************************************)
EXTENDS Naturals, Sequences, FiniteSets, SequencesExt

CONSTANTS Size,           \* bound: nodes of a graph
          MaxEdges,       \* bound: predecessors that its nodes name
          Lanes, NoLane,
          Refs, NoRef     \* branches that are pushed to
ASSUME ScheduleAssumption ==
  {Size, MaxEdges} \subseteq Nat /\ NoLane \notin Lanes /\ NoRef \notin Refs

Ids == 1 .. Size
Roles == {"plain", "build", "gate", "check", "reduce", "effect"}

\* A builder mutates the tree; a gate verifies the node `of`; a check repeats its
\* fixer `of` until its field says so; a reduce node takes its items from `of`.
Fields == [role : Roles, lane : Lanes \cup {NoLane}, after : SUBSET Ids, of : Ids \cup {0},
           ref : Refs \cup {NoRef}, replay : BOOLEAN]

\* The fields that go with a role.
WellFormed(n) ==
  /\ n.of # 0 <=> n.role \in {"gate", "check", "reduce"}
  /\ n.ref # NoRef => n.role = "build"
  /\ n.replay => n.role = "gate" \/ (n.role = "build" /\ n.ref # NoRef)
  /\ n.role = "reduce" => n.after = {}
  /\ n.role = "check" => n.after = {n.of}

\* What may be declared in a place: a node names only nodes declared before it, and
\* no more predecessors than the bound.
Node == [i \in Ids |-> {n \in Fields : /\ WellFormed(n) /\ n.after \cup {n.of} \subseteq 0 .. i - 1
                                       /\ Cardinality(n.after) <= MaxEdges}]

VARIABLES
  graph,     \* the nodes declared so far
  compiled,  \* "no", "refused" or "yes"
  plan       \* stages: each is the bodies of its lanes, or one node that is alone

planVars == <<graph, compiled, plan>>

PlanTypeOK ==
  /\ Len(graph) <= Size /\ \A i \in DOMAIN graph : graph[i] \in Node[i]
  /\ compiled \in {"no", "refused", "yes"}
  /\ \A s \in DOMAIN plan :
       plan[s] \in [Lanes -> Seq(Ids)] \/ plan[s] \in [{NoLane} -> Seq(Ids)]

PlanInit == graph = <<>> /\ compiled = "no" /\ plan = <<>>

(***************************************************************************)
(* Relations between the nodes of a graph.                                 *)
(***************************************************************************)
\* ancestors: along `after` and along the source of a reduction.
Consumed(n) == n.after \cup (IF n.role = "reduce" THEN {n.of} ELSE {})
Ancestors(g) ==
  LET anc[i \in DOMAIN g] == Consumed(g[i]) \cup UNION {anc[d] : d \in Consumed(g[i])}
  IN anc

\* repair_owned: a fixer is emitted inside its checker's loop.
Owned(g) == {g[i].of : i \in {j \in DOMAIN g : g[j].role = "check"}}

\* replay_features: the graph is emitted by lanes and barriers.
Modern(g) ==
  \E i \in DOMAIN g : \/ g[i].role = "effect" \/ g[i].lane # NoLane \/ g[i].ref # NoRef
                      \/ g[i].replay \/ Cardinality(g[i].after) > 1

LaneGraph(g) == \E i \in DOMAIN g : g[i].lane # NoLane

\* What stands before an irreversible effect: its ancestors, or all that is
\* declared before it when it names none.
Protected(g, i) == IF g[i].after = {} THEN 1 .. i - 1 ELSE Ancestors(g)[i]
Guards(g, i) ==
  {j \in 1 .. i - 1 : g[j].role = "gate" /\ (LaneGraph(g) => j \in Ancestors(g)[i])}

(***************************************************************************)
(* validate: what a node may be after the ones declared before it, and     *)
(* what is asked of the whole graph.                                       *)
(***************************************************************************)
\* "keep shared-ref writes in one lane"
OneLaneEach(g, n) ==
  n.ref # NoRef /\ n.lane # NoLane =>
    \A i \in DOMAIN g : g[i].ref = n.ref /\ g[i].lane # NoLane => g[i].lane = n.lane

\* What a gate and an effect need before them.  A later node can only add to what
\* is asked of them (a graph with lanes asks for more than one without).
Founded(g, i) ==
  /\ g[i].role = "gate" /\ Modern(g) => g[i].of \in Ancestors(g)[i]
  /\ g[i].role = "effect" => Guards(g, i) # {} /\ \A j \in Protected(g, i) : ~g[j].replay

Accepts(g, n) ==
  /\ n.role = "build" /\ n.lane # NoLane => n.ref # NoRef
  /\ n.role = "effect" => n.lane = NoLane
  /\ OneLaneEach(g, n)
  /\ n.role = "check" =>
       /\ g[n.of].role = "build" /\ ~g[n.of].replay /\ g[n.of].lane = n.lane
       /\ \A i \in DOMAIN g : g[i].role # "check"
  /\ Founded(Append(g, n), Len(g) + 1)

\* "a mutator may not certify its own work"
Uncertified(g) ==
  {i \in DOMAIN g : g[i].role = "build" /\ ~\E j \in DOMAIN g : g[j].role \in {"gate", "check"} /\ g[j].of = i}

Coherent(g) == Uncertified(g) = {} /\ \A i \in DOMAIN g : Founded(g, i)

(***************************************************************************)
(* execution_stages: nodes that share no edge across lanes are batched; a  *)
(* node without a lane, or with a predecessor in another lane of the       *)
(* batch, closes the batch and is a stage of its own.                      *)
(***************************************************************************)
NoBatch == [l \in Lanes |-> <<>>]
Alone(i) == [l \in {NoLane} |-> <<i>>]

Flushed(s) == IF s.batch = NoBatch THEN s.stages ELSE Append(s.stages, s.batch)
\* Variant: predecessors in another lane of the batch are not looked at.
ForeignNever(g, s, i) == FALSE
Foreign(g, s, i) == \E d \in g[i].after, l \in Lanes \ {g[i].lane} : d \in ToSet(s.batch[l])

Placed(g, s, i) ==
  IF g[i].lane = NoLane \/ Foreign(g, s, i)
  THEN [stages |-> Append(Flushed(s), Alone(i)), batch |-> NoBatch]
  ELSE [s EXCEPT !.batch[g[i].lane] = Append(@, i)]

Stages(g) ==
  LET done[i \in 0 .. Len(g)] ==
        IF i = 0 THEN [stages |-> <<>>, batch |-> NoBatch]
        ELSE IF i \in Owned(g) THEN done[i - 1] ELSE Placed(g, done[i - 1], i)
  IN Flushed(done[Len(g)])

(***************************************************************************)
(* An author writes a graph; the compiler refuses it or emits a plan.  (It *)
(* reports all findings at once; here the first one ends the matter.)      *)
(***************************************************************************)
Refuse == compiled' = "refused" /\ graph' = <<>> /\ UNCHANGED plan

\* Bounds: no more edges, and room for the verifiers that the builders still need.
Edges(g) == UNION {{i} \X g[i].after : i \in DOMAIN g}
Fits(g) == Cardinality(Edges(g)) <= MaxEdges /\ Len(g) + Cardinality(Uncertified(g)) <= Size

\* What the lanes are called does not matter: they are taken in a fixed order.
Taken(g) == {g[i].lane : i \in DOMAIN g} \ {NoLane}
Named(g, n) ==
  LET free == Lanes \ Taken(g) IN n.lane \in free => n.lane = CHOOSE l \in free : TRUE

Declare(n) ==
  /\ compiled = "no" /\ Named(graph, n) /\ Fits(Append(graph, n))
  /\ IF Accepts(graph, n) THEN graph' = Append(graph, n) /\ UNCHANGED <<compiled, plan>> ELSE Refuse

Compile ==
  /\ compiled = "no" /\ graph # <<>>
  /\ IF Coherent(graph) THEN compiled' = "yes" /\ plan' = Stages(graph) /\ UNCHANGED graph ELSE Refuse

PlanStep == \/ Len(graph) < Size /\ \E n \in Node[Len(graph) + 1] : Declare(n)
            \/ Compile

(***************************************************************************)
(* Properties.                                                             *)
(***************************************************************************)
\* Where the plan runs a node: a fixer in its checker's loop.
Host(i) ==
  IF i \in Owned(graph) THEN CHOOSE c \in DOMAIN graph : graph[c].role = "check" ELSE i

Spots == UNION {UNION {{<<s, l, k>> : k \in DOMAIN plan[s][l]} : l \in DOMAIN plan[s]} : s \in DOMAIN plan}
Places(i) == {p \in Spots : plan[p[1]][p[2]][p[3]] = i}

Before(i, j) ==
  \E p \in Places(Host(i)), q \in Places(Host(j)) :
    p[1] < q[1] \/ (p[1] = q[1] /\ p[2] = q[2] /\ p[3] < q[3])

\* Edges that execution_stages does not look at: a node between a fixer and its
\* checker (the fixer runs later); across lanes, a reduction of another lane's
\* items, and what a fixer consumes or others consume of it.
Overlooked(d, i) ==
  \/ Host(d) = Host(i)
  \/ d \in Owned(graph) /\ i < Host(d)
  \/ /\ NoLane \notin {graph[d].lane, graph[i].lane} /\ graph[d].lane # graph[i].lane
     /\ graph[i].role = "reduce" \/ {d, i} \cap Owned(graph) # {}

\* "Declaration-ordered lane bodies separated by global join barriers": every node
\* runs once, and what it consumes is there when it begins, but for the edges the
\* code overlooks; so is what a gate judges; and two builders that push to one ref
\* are never at work together.
OrderIsKept ==
  /\ \A i \in DOMAIN graph \ Owned(graph) : Cardinality(Places(i)) = 1
  /\ \A i \in DOMAIN graph : \A d \in Consumed(graph[i]) : Before(d, i) \/ Overlooked(d, i)
  /\ \A i \in DOMAIN graph : graph[i].role = "gate" =>
       \/ Before(graph[i].of, i) \/ Overlooked(graph[i].of, i)
       \/ \E r \in Ancestors(graph)[i] \cup {i} : \E d \in Consumed(graph[r]) : Overlooked(d, r)
  /\ \A i, j \in DOMAIN graph : graph[i].ref = graph[j].ref /\ graph[i].ref # NoRef =>
       Host(i) = Host(j) \/ Before(i, j) \/ Before(j, i)

\* "the gate must be ordered before the effect": nothing runs beside an irreversible
\* effect, and a gate runs before it.  "Guards must execute in the current launch":
\* no memo answers for one, where lanes make it an ancestor of the effect, or the
\* effect names no ancestor (elsewhere the code lets a remembered one pass).
EffectIsGuarded ==
  \A i \in DOMAIN graph : graph[i].role = "effect" =>
    /\ \A j \in DOMAIN graph \ {i} : Host(j) = Host(i) \/ Before(i, j) \/ Before(j, i)
    /\ \E j \in DOMAIN graph :
         /\ graph[j].role = "gate" /\ Before(j, i)
         /\ LaneGraph(graph) \/ graph[i].after = {} => ~graph[j].replay

PlanIsSound == compiled = "yes" => OrderIsKept /\ EffectIsGuarded
=============================================================================
