-------------------------- MODULE SessionBaseline --------------------------
(***************************************************************************)
(* session-baseline.py: the commit that both gates compare the tree with.  *)
(* It reads the checkout's reflog, back to where it was when the session   *)
(* started or its last gate passed, and git's history.  Commits are        *)
(* numbered; git's commands are what a session, its agents and a person    *)
(* do to the checkout between two hooks.                                   *)
(***************************************************************************)
EXTENDS Naturals, Sequences, SequencesExt

CONSTANTS MaxCommits,  \* bound: the commits there are
          MaxEvents    \* bound: the entries of the reflog
ASSUME BaselineAssumption == {MaxCommits, MaxEvents} \subseteq Nat \ {0}

VARIABLES
  first,   \* commit -> its first parent, 0 if it has none
  anc,     \* commit -> it and its ancestors
  head,    \* HEAD
  reflog,  \* newest first
  base,    \* the session's .base
  count,   \* .base.reflog-count
  judged,  \* the base a gate has been given, 0 for HEAD itself, "none" outside of a gate
  made     \* history: the commits made here, in ways the pattern knows, since the last pass

gitVars == <<first, anc, head, reflog>>
baselineVars == <<gitVars, base, count, judged, made>>

None == MaxCommits + 1
Commits == DOMAIN anc

BaselineTypeOK ==
  /\ \E n \in 1 .. MaxCommits : /\ first \in [1 .. n -> 0 .. n] /\ anc \in [1 .. n -> SUBSET (1 .. n)]
                                /\ head \in 1 .. n /\ base \in 1 .. n /\ made \subseteq 1 .. n
  /\ reflog \in Seq([commit : 1 .. MaxCommits, action : {"created", "checkout", "other"}])
  /\ count \in 0 .. MaxEvents /\ judged \in 0 .. None

\* A clone; SessionStart has recorded HEAD and the length of the reflog.
BaselineInit ==
  /\ first = <<0>> /\ anc = <<{1}>> /\ head = 1
  /\ reflog = <<[commit |-> 1, action |-> "other"]>>
  /\ base = 1 /\ count = 1 /\ judged = None /\ made = {}

(***************************************************************************)
(* git.                                                                    *)
(***************************************************************************)
Logged(c, action) == reflog' = <<[commit |-> c, action |-> action]>> \o reflog
Between == judged = None /\ Len(reflog) < MaxEvents
New == Len(anc) + 1

NewCommit(parent, ancestors) ==
  /\ New <= MaxCommits
  /\ first' = Append(first, parent) /\ anc' = Append(anc, ancestors \cup {New})

\* The pattern knows commits, amended and initial ones, picks and merges; it does
\* not know reverts, applied mails, or what a rebase squashes.
MakeHere(parent, ancestors, action) ==
  /\ Between /\ NewCommit(parent, ancestors)
  /\ head' = New /\ Logged(New, action)
  /\ made' = IF action = "created" THEN made \cup {New} ELSE made
  /\ UNCHANGED <<base, count, judged>>

Commit == MakeHere(head, anc[head], "created")
Amend  == MakeHere(first[head], anc[head] \ {head}, "created")
Orphan == MakeHere(0, {}, "created")
Revert == MakeHere(head, anc[head], "other")
Merge(c) == c \notin anc[head] /\ MakeHere(head, anc[head] \cup anc[c], "created")

Move(c, action) ==
  /\ Between /\ head' = c /\ Logged(c, action)
  /\ UNCHANGED <<first, anc, base, count, judged, made>>

Checkout(c) == Move(c, "checkout")
\* A reset, a pull or merge that only moves HEAD forward.
Jump(c) == Move(c, "other")

\* Somebody else's commit arrives.
Fetch(c) ==
  /\ judged = None /\ NewCommit(c, anc[c])
  /\ UNCHANGED <<head, reflog, base, count, judged, made>>

Git == \/ Commit \/ Amend \/ Orphan \/ Revert
       \/ \E c \in Commits : Merge(c) \/ Checkout(c) \/ Jump(c) \/ Fetch(c)

(***************************************************************************)
(* The hooks.                                                              *)
(***************************************************************************)
Fresh == SubSeq(reflog, 1, Len(reflog) - count)
Created == {e.commit : e \in {f \in ToSet(Fresh) : f.action = "created"}} \cap anc[head]
Imports == SelectSeq(Fresh, LAMBDA e : e.action = "checkout")

\* Variant: the newest of them.
Newest == {c \in Created : \A d \in Created : c \in anc[d] => d = c}
\* What may come first in rev-list --reverse --topo-order.
Oldest == {c \in Created : Created \cap anc[c] = {c}}

ParentOf(c) == IF first[c] # 0 THEN first[c] ELSE base
Candidates ==
  CASE Created # {} -> {ParentOf(c) : c \in Oldest}
    [] Created = {} /\ Imports # <<>> /\ Imports[1].commit \in anc[head] -> {Imports[1].commit}
    [] OTHER -> {base}

\* A base that HEAD does not descend from is no base.
FindBase ==
  /\ judged = None
  /\ \E b \in Candidates :
       IF b \in anc[head] THEN judged' = b /\ base' = b ELSE judged' = 0 /\ UNCHANGED base
  /\ UNCHANGED <<gitVars, count, made>>

\* The gate blocks, or was the compaction gate; or it passes, and fpl_set_base.
NoPass == judged # None /\ judged' = None /\ UNCHANGED <<gitVars, base, count, made>>
Pass ==
  /\ judged # None /\ judged' = None
  /\ base' = head /\ count' = Len(reflog) /\ made' = {}
  /\ UNCHANGED gitVars

BaselineStep == Git \/ FindBase \/ NoPass \/ Pass

(***************************************************************************)
(* Properties.                                                             *)
(***************************************************************************)
\* "Any current ancestor created in this checkout since the last PASS is still
\* this session's work": whatever git commands came in between, a gate is given a
\* base that no commit made here since the last pass, and still in HEAD's history,
\* is part of.  (A history that begins here, and what is made on top of it, is
\* measured from HEAD: see the README.)
MadeIsJudged ==
  judged # None /\ (\A c \in made \cap anc[head] : first[c] # 0) =>
    \A c \in made \cap anc[head] : judged # 0 /\ c \notin anc[judged]
=============================================================================
