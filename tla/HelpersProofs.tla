---------------------------- MODULE HelpersProofs ----------------------------
(* Theorems about the scripts around the gates: for every set of items,      *)
(* agents, waits and daemons, every metric and window, every history of      *)
(* commits and every set of surfaces.                                        *)
EXTENDS Helpers, SequenceTheorems, TLAPS

(***************************************************************************)
(* A step is one of the part that is active, or of the inbox               *)
(***************************************************************************)
LEMMA LoopMoves == [Next]_vars => [LoopStep]_loopVars
  BY DEF Next, vars, InLoop, InWatch, InPark, InInbox, InRecall, InBaseline, InCompact

LEMMA WatchMoves == [Next]_vars => [WatchStep]_watchVars
  BY DEF Next, vars, InLoop, InWatch, InPark, InInbox, InRecall, InBaseline, InCompact

LEMMA BaselineMoves == [Next]_vars => [BaselineStep]_baselineVars
  BY DEF Next, vars, InLoop, InWatch, InPark, InInbox, InRecall, InBaseline, InCompact

LEMMA CompactMoves == [Next]_vars => [CompactStep]_compactVars
  BY DEF Next, vars, InLoop, InWatch, InPark, InInbox, InRecall, InBaseline, InCompact

(***************************************************************************)
(* CompactGate: the refusal is bounded                                     *)
(***************************************************************************)
LEMMA CompactBegins == Init => CompactInit
  BY DEF Init, CompactAbsent

\* The newest refusal of this window has left its marker, unless it was pruned.
RefusalInv ==
  /\ refusals \in Nat /\ forgotten \in Nat
  /\ refusals <= 1 + forgotten /\ (refusals = 1 + forgotten => cblock)

LEMMA PruneKeeps ==
  ASSUME RefusalInv, NEW old \in ThreeDaysOld, Pruned(old)
  PROVE  RefusalInv' /\ (cblock' => cblock) /\ refusals' = refusals
<1>1. /\ cblock' = (cblock /\ "cblock" \notin old) /\ refusals' = refusals
      /\ forgotten' = IF cblock /\ "cblock" \in old THEN forgotten + 1 ELSE forgotten
  BY Zenon DEF Pruned
<1>2. CASE cblock /\ "cblock" \in old
  <2>1. forgotten' = forgotten + 1 /\ refusals' = refusals
    BY <1>1, <1>2
  <2> QED
    BY <1>1, <2>1 DEF RefusalInv
<1>3. CASE ~(cblock /\ "cblock" \in old)
  <2>1. forgotten' = forgotten /\ refusals' = refusals /\ (cblock => cblock')
    BY <1>1, <1>3, Zenon
  <2> QED
    BY <1>1, <2>1 DEF RefusalInv
<1> QED
  BY <1>2, <1>3

LEMMA RefusalStep ==
  ASSUME RefusalInv, [CompactStep]_compactVars
  PROVE  RefusalInv'
<1> USE DEF RefusalInv
<1>1. CASE Flush \/ Work \/ GatePass \/ DeclareNone
  BY <1>1 DEF Flush, Work, GatePass, DeclareNone
<1>2. CASE SessionStart \/ OtherStarts
  BY <1>2, PruneKeeps DEF SessionStart, OtherStarts
<1>3. CASE Refuse
  BY <1>3 DEF Refuse, Refuses
<1>4. CASE FailOpen \/ Allow
  BY <1>4 DEF FailOpen, Allow, WindowEnds
<1>5. CASE UNCHANGED compactVars
  BY <1>5 DEF compactVars
<1> QED
  BY <1>1, <1>2, <1>3, <1>4, <1>5 DEF CompactStep, Attempt

\* Two consecutive attempts never both block unless the first one's marker, three days
\* old, was pruned between them, so that the gate cannot wedge a session, whichever
\* writes fail and sessions start.
THEOREM Bounded == Spec => []NeverBlocksTwice
<1>1. Init => RefusalInv
  BY CompactBegins DEF CompactInit, RefusalInv
<1>2. RefusalInv /\ [Next]_vars => RefusalInv'
  BY RefusalStep, CompactMoves
<1>3. RefusalInv => NeverBlocksTwice
  BY DEF RefusalInv, NeverBlocksTwice
<1> QED
  BY <1>1, <1>2, <1>3, PTL DEF Spec

(***************************************************************************)
(* What the window's snapshot and the marker still say                     *)
(***************************************************************************)
\* The marker is there only in a window that has been refused; as long as every write
\* succeeded, the snapshot is the one from which the window is measured, if any, and the
\* record of the last compaction says what it discarded.
WindowInv ==
  /\ RefusalInv
  /\ cblock => refusals >= 1
  /\ ~spoiled => cwin = window
  /\ lost /\ ~spoiled =>
       compacted.flushed = "no" /\ (compacted.blocked \/ compacted.codeChanged # "no")

\* A window that is discarded under a snapshot of its own is seen to be unflushed.
LEMMA DiscardedIsUnflushed ==
  ASSUME cwin = window, Discarded
  PROVE  flushed = "no"
  BY DEF Discarded, flushed

LEMMA WindowStep ==
  ASSUME WindowInv, [CompactStep]_compactVars
  PROVE  WindowInv'
<1>0. RefusalInv'
  BY RefusalStep DEF WindowInv
<1> USE <1>0 DEF WindowInv, RefusalInv
<1>1. CASE Flush \/ Work \/ GatePass \/ DeclareNone
  <2>1. UNCHANGED <<cwin, cblock, compacted, refusals, forgotten, window, spoiled, lost>>
    BY <1>1 DEF Flush, Work, GatePass, DeclareNone
  <2> QED
    BY <2>1
<1>2. CASE SessionStart
  <2>1. PICK old \in ThreeDaysOld :
          /\ Pruned(old)
          /\ window' = IF Kept(old) = {} THEN {surface} ELSE window
          /\ \/ cwin' = (IF Kept(old) = {} THEN {surface} ELSE Kept(old)) /\ spoiled' = spoiled
             \/ spoiled' = TRUE
    BY <1>2, Zenon DEF SessionStart
  <2>2. (cblock' => cblock) /\ refusals' = refusals /\ compacted' = compacted /\ lost' = lost
    BY <2>1, PruneKeeps, Zenon DEF Pruned, WindowInv
  <2>3. ~spoiled' => ~spoiled /\ cwin' = window'
    <3> SUFFICES ASSUME ~spoiled' PROVE ~spoiled /\ cwin' = window'
      OBVIOUS
    <3>1. cwin' = (IF Kept(old) = {} THEN {surface} ELSE Kept(old)) /\ ~spoiled /\ cwin = window
      BY <2>1
    <3>2. Kept(old) = {} \/ Kept(old) = cwin
      BY DEF Kept
    <3> QED
      BY <2>1, <3>1, <3>2
  <2> QED
    BY <2>2, <2>3
<1>7. CASE OtherStarts
  <2>1. PICK old \in ThreeDaysOld :
          /\ Pruned(old) /\ cwin' = Kept(old) /\ spoiled' = spoiled
          /\ window' = IF "cwin" \in old THEN {} ELSE window
    BY <1>7, Zenon DEF OtherStarts
  <2>2. (cblock' => cblock) /\ refusals' = refusals /\ compacted' = compacted /\ lost' = lost
    BY <2>1, PruneKeeps, Zenon DEF Pruned, WindowInv
  <2>3. ~spoiled' => ~spoiled /\ cwin' = window'
    BY <2>1 DEF Kept
  <2> QED
    BY <2>2, <2>3
<1>3. CASE Refuse
  BY <1>3 DEF Refuse, Refuses
<1>4. CASE FailOpen
  <2>1. spoiled' /\ ~cblock'
    BY <1>4, Zenon DEF FailOpen, Refuses
  <2> QED
    BY <2>1
<1>5. CASE Allow
  <2>1. ~cblock' /\ window' = {surface} /\ refusals' = 0 /\ (lost' => Discarded /\ worked # "no")
    BY <1>5, Zenon DEF Allow, WindowEnds
  <2>2. ~spoiled' =>
          /\ ~spoiled /\ cwin' = {surface}
          /\ compacted' = [flushed |-> flushed, codeChanged |-> worked, blocked |-> cblock]
    BY <1>5 DEF Allow
  <2>3. lost' /\ ~spoiled' => compacted'.flushed = "no" /\ compacted'.codeChanged # "no"
    BY <2>1, <2>2, DiscardedIsUnflushed
  <2> QED
    BY <2>1, <2>2, <2>3
<1>6. CASE UNCHANGED compactVars
  BY <1>6 DEF compactVars
<1> QED
  BY <1>1, <1>2, <1>3, <1>4, <1>5, <1>6, <1>7 DEF CompactStep, Attempt

LEMMA WindowInit == Init => WindowInv
<1> SUFFICES ASSUME CompactInit PROVE WindowInv
  BY CompactBegins
<1>1. ~spoiled => cwin = window
  <2>1. spoiled = (cwin = {}) /\ window = {surface} /\ (cwin = {surface} \/ cwin = {})
    BY Zenon DEF CompactInit
  <2> QED
    BY <2>1, Zenon
<1>2. refusals = 0 /\ forgotten = 0 /\ ~cblock /\ ~lost
  BY Zenon DEF CompactInit
<1> QED
  BY <1>1, <1>2 DEF WindowInv, RefusalInv

\* Until a write to the state directory fails, an unflushed window of dirty code is
\* compacted away only after a refusal, whatever is restarted and pruned between.
THEOREM FlushFirst == Spec => UnflushedIsRefused
<1>1. WindowInv /\ [Next]_vars =>
        (Allow /\ Discarded /\ worked # "no" /\ ~spoiled => refusals >= 1 \/ ~Blocking)
  <2> SUFFICES ASSUME WindowInv, Allow, Discarded, worked # "no", ~spoiled, Blocking
               PROVE  refusals >= 1
    OBVIOUS
  <2>1. Unflushed
    BY DiscardedIsUnflushed DEF WindowInv, Unflushed
  <2> QED
    BY <2>1 DEF Allow, Refuses, WindowInv
<1> QED
  BY <1>1, WindowInit, WindowStep, CompactMoves, PTL DEF Spec, UnflushedIsRefused

\* Until a write fails, every context that starts after a lossy compaction is told of it.
THEOREM LossTold == Spec => LossIsTold
<1>1. WindowInv /\ [Next]_vars => (SessionStart /\ lost /\ ~spoiled => told' \in {"lost", "overridden"})
  <2> SUFFICES ASSUME WindowInv, SessionStart, lost, ~spoiled PROVE told' \in {"lost", "overridden"}
    OBVIOUS
  <2>1. told' = Report
    BY Zenon DEF SessionStart
  <2> QED
    BY <2>1 DEF WindowInv, Report
<1> QED
  BY <1>1, WindowInit, WindowStep, CompactMoves, PTL DEF Spec, LossIsTold

(***************************************************************************)
(* SessionBaseline: what was made here is judged                           *)
(***************************************************************************)
\* The commits are a graph without cycles: each one after all that it descends from.
GraphInv ==
  /\ anc \in Seq(SUBSET Nat) /\ first \in Seq(Nat) /\ Len(first) = Len(anc) /\ head \in Commits
  /\ \A c \in Commits : /\ c \in anc[c] /\ anc[c] \subseteq 1 .. c
                        /\ first[c] = 0 \/ first[c] \in anc[c] \ {c}
                        /\ \A d \in anc[c] : anc[d] \subseteq anc[c]

\* The entries of the reflog since the last pass.
Recent(k) == k \in 1 .. Len(reflog) /\ k <= Len(reflog) - count

\* What was made here since then is what they call created.
ReflogInv ==
  /\ reflog \in Seq([commit : Nat, action : {"created", "checkout", "other"}])
  /\ count \in Nat /\ count <= Len(reflog)
  /\ \A c : c \in made <=> \E k \in Nat : Recent(k) /\ reflog[k] = [commit |-> c, action |-> "created"]

BaselineInv == GraphInv /\ ReflogInv /\ MadeIsJudged

\* A set of ancestors of some commits, whole.
Whole(ancestors) == ancestors \subseteq Commits /\ \A d \in ancestors : anc[d] \subseteq ancestors

LEMMA CommitsAre == ASSUME GraphInv PROVE Len(anc) \in Nat /\ Commits = 1 .. Len(anc) /\ New \notin Commits
  BY DEF GraphInv, Commits, New

LEMMA HistoryIsWhole ==
  ASSUME GraphInv, NEW c \in Commits
  PROVE  Whole(anc[c]) /\ Whole(anc[c] \ {c})
<1>1. c \in 1 .. Len(anc) /\ Len(anc) \in Nat /\ Commits = 1 .. Len(anc)
  BY CommitsAre
<1>2. anc[c] \subseteq 1 .. c /\ \A d \in anc[c] : anc[d] \subseteq anc[c]
  BY DEF GraphInv
<1>3. anc[c] \subseteq Commits
  BY <1>1, <1>2
<1>4. ASSUME NEW d \in anc[c] \ {c} PROVE c \notin anc[d]
  <2>1. d \in 1 .. c /\ d # c /\ d \in Commits
    BY <1>2, <1>3
  <2>2. anc[d] \subseteq 1 .. d
    BY <2>1 DEF GraphInv
  <2> QED
    BY <1>1, <2>1, <2>2
<1> QED
  BY <1>2, <1>3, <1>4 DEF Whole

LEMMA CommitGrows ==
  ASSUME GraphInv, NEW parent, NEW ancestors, Whole(ancestors), parent = 0 \/ parent \in ancestors,
         NewCommit(parent, ancestors), head' \in {head, New}
  PROVE  GraphInv' /\ (head' = head => anc'[head] = anc[head])
<1> DEFINE n == Len(anc)
<1>1. n \in Nat /\ Commits = 1 .. n /\ New = n + 1 /\ Len(first) = n
  BY CommitsAre DEF New, GraphInv
<1>2. ancestors \cup {n + 1} \in SUBSET Nat /\ parent \in Nat
  <2>1. ancestors \subseteq 1 .. n
    BY <1>1 DEF Whole
  <2>2. \A d \in ancestors : d \in Nat
    BY <1>1, <2>1
  <2>3. n + 1 \in Nat
    BY <1>1
  <2> QED
    BY <2>2, <2>3
<1>3. /\ anc' \in Seq(SUBSET Nat) /\ Len(anc') = n + 1 /\ Commits' = 1 .. n + 1
      /\ \A c \in 1 .. n : anc'[c] = anc[c]
      /\ anc'[n + 1] = ancestors \cup {n + 1}
  BY <1>1, <1>2 DEF NewCommit, GraphInv, Commits
<1>4. /\ first' \in Seq(Nat) /\ Len(first') = n + 1
      /\ \A c \in 1 .. n : first'[c] = first[c]
      /\ first'[n + 1] = parent
  BY <1>1, <1>2 DEF NewCommit, GraphInv
<1>5. head \in 1 .. n /\ head' \in 1 .. n + 1
  BY <1>1 DEF GraphInv
<1>6. ASSUME NEW c \in 1 .. n + 1
      PROVE  /\ c \in anc'[c] /\ anc'[c] \subseteq 1 .. c
             /\ first'[c] = 0 \/ first'[c] \in anc'[c] \ {c}
             /\ \A d \in anc'[c] : anc'[d] \subseteq anc'[c]
  <2>1. CASE c \in 1 .. n
    <3>1. /\ c \in anc[c] /\ anc[c] \subseteq 1 .. c
          /\ first[c] = 0 \/ first[c] \in anc[c] \ {c}
          /\ \A d \in anc[c] : anc[d] \subseteq anc[c]
      BY <1>1, <2>1 DEF GraphInv
    <3>2. \A d \in anc[c] : d \in 1 .. n
      BY <1>1, <2>1, <3>1
    <3> QED
      BY <1>3, <1>4, <2>1, <3>1, <3>2
  <2>2. CASE c = n + 1
    <3>1. ancestors \subseteq 1 .. n /\ \A d \in ancestors : anc[d] \subseteq ancestors
      BY <1>1 DEF Whole
    <3>2. \A d \in ancestors : anc'[d] = anc[d]
      BY <1>3, <3>1
    <3>3. ancestors \cup {n + 1} \subseteq 1 .. n + 1 /\ n + 1 \notin ancestors
      BY <1>1, <3>1
    <3> QED
      BY <1>3, <1>4, <2>2, <3>1, <3>2, <3>3
  <2> QED
    BY <1>1, <2>1, <2>2
<1> QED
  BY <1>3, <1>4, <1>5, <1>6 DEF GraphInv

LEMMA ReflogGrows ==
  ASSUME ReflogInv, NEW c \in Nat, NEW action \in {"created", "checkout", "other"}, Logged(c, action),
         count' = count, made' = IF action = "created" THEN made \cup {c} ELSE made
  PROVE  ReflogInv'
<1> DEFINE e == [commit |-> c, action |-> action]
           E == [commit : Nat, action : {"created", "checkout", "other"}]
           n == Len(reflog)
<1>1. reflog \in Seq(E) /\ e \in E /\ n \in Nat /\ count \in Nat /\ count <= n
  BY DEF ReflogInv
<1>2. reflog' = <<e>> \o reflog
  BY DEF Logged
<1>3. /\ reflog' \in Seq(E) /\ Len(reflog') = n + 1 /\ reflog'[1] = e
      /\ \A k \in 1 .. n : reflog'[k + 1] = reflog[k]
  BY <1>1, <1>2
<1>4. Recent(1)'
  BY <1>1, <1>3 DEF Recent
<1>5. \A k \in Nat : Recent(k) => Recent(k + 1)' /\ reflog'[k + 1] = reflog[k]
  BY <1>1, <1>3 DEF Recent
<1>6. \A k \in Nat : Recent(k)' => k = 1 \/ (k - 1 \in Nat /\ Recent(k - 1) /\ reflog'[k] = reflog[k - 1])
  <2> SUFFICES ASSUME NEW k \in Nat, Recent(k)', k # 1
               PROVE  k - 1 \in Nat /\ Recent(k - 1) /\ reflog'[k] = reflog[k - 1]
    OBVIOUS
  <2>1. k \in 1 .. n + 1 /\ k <= n + 1 - count
    BY <1>1, <1>3 DEF Recent
  <2>2. k - 1 \in 1 .. n /\ k - 1 <= n - count /\ (k - 1) + 1 = k
    BY <1>1, <2>1
  <2>3. reflog'[(k - 1) + 1] = reflog[k - 1]
    BY <1>3, <2>2
  <2> QED
    BY <1>1, <2>2, <2>3 DEF Recent
<1>7. ASSUME NEW d
      PROVE  d \in made' <=> \E k \in Nat : Recent(k)' /\ reflog'[k] = [commit |-> d, action |-> "created"]
  <2>1. d \in made <=> \E k \in Nat : Recent(k) /\ reflog[k] = [commit |-> d, action |-> "created"]
    BY DEF ReflogInv
  <2>2. ASSUME d \in made' PROVE \E k \in Nat : Recent(k)' /\ reflog'[k] = [commit |-> d, action |-> "created"]
    <3>1. CASE d \in made
      <4>1. PICK k \in Nat : Recent(k) /\ reflog[k] = [commit |-> d, action |-> "created"]
        BY <2>1, <3>1
      <4>2. k + 1 \in Nat /\ Recent(k + 1)' /\ reflog'[k + 1] = [commit |-> d, action |-> "created"]
        BY <1>5, <4>1
      <4> QED
        BY <4>2
    <3>2. CASE action = "created" /\ d = c
      BY <1>3, <1>4, <3>2
    <3> QED
      BY <2>2, <3>1, <3>2
  <2>3. ASSUME NEW k \in Nat, Recent(k)', reflog'[k] = [commit |-> d, action |-> "created"] PROVE d \in made'
    <3>1. CASE k = 1
      <4>1. [commit |-> d, action |-> "created"] = e
        BY <1>3, <2>3, <3>1
      <4>2. d = c /\ action = "created"
        BY <4>1
      <4> QED
        BY <4>2
    <3>2. CASE k # 1
      BY <1>6, <2>1, <2>3, <3>2
    <3> QED
      BY <3>1, <3>2
  <2> QED
    BY <2>2, <2>3
<1>8. count' \in Nat /\ count' <= Len(reflog')
  BY <1>1, <1>3
<1> QED
  BY <1>3, <1>7, <1>8 DEF ReflogInv

\* A git command, between two gates.
LEMMA GitKeeps == ASSUME BaselineInv, Git PROVE BaselineInv'
<1>1. ASSUME NEW parent, NEW ancestors, NEW action \in {"created", "checkout", "other"}, Whole(ancestors),
             parent = 0 \/ parent \in ancestors, MakeHere(parent, ancestors, action)
      PROVE  BaselineInv'
  <2>1. GraphInv'
    BY <1>1, CommitGrows DEF BaselineInv, MakeHere
  <2>2. New \in Nat
    BY CommitsAre DEF BaselineInv, New
  <2>3. ReflogInv'
    BY <1>1, <2>2, ReflogGrows DEF BaselineInv, MakeHere
  <2>4. judged' = None
    BY <1>1 DEF MakeHere, Between
  <2> QED
    BY <2>1, <2>3, <2>4 DEF BaselineInv, MadeIsJudged, None
<1>2. ASSUME NEW c \in Commits, NEW action \in {"checkout", "other"}, Move(c, action) PROVE BaselineInv'
  <2>1. GraphInv'
    BY <1>2 DEF BaselineInv, GraphInv, Move, Commits
  <2>2. c \in Nat
    BY CommitsAre DEF BaselineInv
  <2>3. ReflogInv'
    BY <1>2, <2>2, ReflogGrows DEF BaselineInv, Move
  <2>4. judged' = None
    BY <1>2 DEF Move, Between
  <2> QED
    BY <2>1, <2>3, <2>4 DEF BaselineInv, MadeIsJudged, None
<1>3. ASSUME NEW c \in Commits, Fetch(c) PROVE BaselineInv'
  <2>1. Whole(anc[c]) /\ c \in anc[c]
    BY HistoryIsWhole DEF BaselineInv, GraphInv
  <2>2. GraphInv'
    BY <1>3, <2>1, CommitGrows DEF BaselineInv, Fetch
  <2>3. ReflogInv'
    BY <1>3 DEF BaselineInv, ReflogInv, Recent, Fetch
  <2>4. judged' = None
    BY <1>3 DEF Fetch
  <2> QED
    BY <2>2, <2>3, <2>4 DEF BaselineInv, MadeIsJudged, None
<1>4. head \in Commits /\ Whole(anc[head]) /\ Whole(anc[head] \ {head}) /\ head \in anc[head]
      /\ (first[head] = 0 \/ first[head] \in anc[head] \ {head})
  BY HistoryIsWhole DEF BaselineInv, GraphInv
<1>5. CASE Commit \/ Amend \/ Revert
  BY <1>1, <1>4, <1>5 DEF Commit, Amend, Revert
<1>6. CASE Orphan
  BY <1>1, <1>6 DEF Orphan, Whole
<1>7. ASSUME NEW c \in Commits, Merge(c) PROVE BaselineInv'
  <2>1. Whole(anc[head] \cup anc[c])
    BY <1>4, HistoryIsWhole DEF BaselineInv, Whole
  <2> QED
    BY <1>1, <1>4, <1>7, <2>1 DEF Merge
<1>8. ASSUME NEW c \in Commits, Checkout(c) \/ Jump(c) PROVE BaselineInv'
  BY <1>2, <1>8 DEF Checkout, Jump
<1> QED
  BY <1>3, <1>5, <1>6, <1>7, <1>8 DEF Git

\* What FindBase finds in the reflog is what was made and is still there.
LEMMA CreatedIsMade == ASSUME ReflogInv PROVE Created = made \cap anc[head]
<1> DEFINE n == Len(reflog) - count
           E == [commit : Nat, action : {"created", "checkout", "other"}]
<1>1. reflog \in Seq(E) /\ count \in Nat /\ count <= Len(reflog) /\ Len(reflog) \in Nat
  BY DEF ReflogInv
<1>2. n \in 0 .. Len(reflog)
  BY <1>1
<1>3. /\ Len(Fresh) = n /\ DOMAIN Fresh = 1 .. n
      /\ \A k \in 1 .. n : Fresh[k] = reflog[k] /\ reflog[k] \in E
  <2> HIDE DEF E
  <2>1. /\ Fresh \in Seq(E) /\ Len(Fresh) = n - 1 + 1
        /\ \A k \in 1 .. n - 1 + 1 : Fresh[k] = reflog[1 + k - 1]
    BY <1>1, <1>2, SubSeqProperties DEF Fresh
  <2>2. \A k \in 1 .. n : 1 + k - 1 = k /\ k \in 1 .. Len(reflog)
    BY <1>1, <1>2
  <2>3. Len(Fresh) = n /\ n - 1 + 1 = n
    BY <1>1, <1>2, <2>1
  <2>4. DOMAIN Fresh = 1 .. n
    BY <2>1, <2>3, LenProperties
  <2>5. ASSUME NEW k \in 1 .. n PROVE Fresh[k] = reflog[k]
    BY <2>1, <2>2, <2>3
  <2>6. ASSUME NEW k \in 1 .. n PROVE reflog[k] \in E
    BY <1>1, <2>2, ElementOfSeq
  <2> QED
    BY <2>3, <2>4, <2>5, <2>6
<1>4. ToSet(Fresh) = {reflog[k] : k \in 1 .. n}
  BY <1>3 DEF ToSet
<1>5. \A k \in Nat : Recent(k) <=> k \in 1 .. n
  BY <1>1, <1>2 DEF Recent
<1>6. ASSUME NEW c PROVE c \in {e.commit : e \in {f \in ToSet(Fresh) : f.action = "created"}} <=> c \in made
  <2>1. c \in made <=> \E k \in 1 .. n : reflog[k] = [commit |-> c, action |-> "created"]
    <3>1. c \in made <=> \E k \in Nat : Recent(k) /\ reflog[k] = [commit |-> c, action |-> "created"]
      BY DEF ReflogInv
    <3>2. \A k \in 1 .. n : k \in Nat
      BY <1>2
    <3> QED
      BY <1>5, <3>1, <3>2, Zenon
  <2>2. c \in {e.commit : e \in {f \in ToSet(Fresh) : f.action = "created"}} <=>
          \E k \in 1 .. n : reflog[k].action = "created" /\ c = reflog[k].commit
    BY <1>4
  <2>3. \A k \in 1 .. n : reflog[k] = [commit |-> c, action |-> "created"] <=>
          (reflog[k].action = "created" /\ c = reflog[k].commit)
    BY <1>3
  <2> QED
    BY <2>1, <2>2, <2>3
<1> QED
  BY <1>6 DEF Created

\* The base is the first parent of a commit that none of the others is behind.
LEMMA FoundIsJudged == ASSUME GraphInv, ReflogInv, FindBase PROVE MadeIsJudged'
<1> DEFINE here == made \cap anc[head]
<1>1. Created = here
  BY CreatedIsMade
<1>2. made' = made /\ anc' = anc /\ head' = head /\ first' = first
  BY DEF FindBase, gitVars
<1>3. PICK b \in Candidates : IF b \in anc[head] THEN judged' = b /\ base' = b ELSE judged' = 0 /\ UNCHANGED base
  BY DEF FindBase
<1>4. SUFFICES ASSUME \A c \in here : first[c] # 0, NEW c \in here
               PROVE  judged' # 0 /\ c \notin anc[judged']
  BY <1>2 DEF MadeIsJudged
<1>5. PICK d \in Oldest : b = first[d]
  <2>1. b \in {ParentOf(d) : d \in Oldest}
    BY <1>1, <1>3, <1>4 DEF Candidates
  <2>2. \A d \in Oldest : ParentOf(d) = first[d]
    BY <1>1, <1>4 DEF ParentOf, Oldest
  <2> QED
    BY <2>1, <2>2
<1>6. d \in here /\ here \cap anc[d] = {d} /\ d \in anc[head] /\ head \in Commits
  BY <1>1 DEF Oldest, GraphInv
<1>7. Commits = 1 .. Len(anc) /\ Len(anc) \in Nat /\ anc[head] \subseteq 1 .. head
  BY CommitsAre, <1>6 DEF GraphInv
<1>8. d \in Commits /\ anc[d] \subseteq anc[head]
  BY <1>6, <1>7 DEF GraphInv
<1>9. b \in anc[d] /\ b # d /\ anc[d] \subseteq 1 .. d /\ anc[b] \subseteq anc[d]
  BY <1>4, <1>5, <1>6, <1>8 DEF GraphInv
<1>10. b \in anc[head] /\ b \in 1 .. d /\ b \in Commits
  BY <1>7, <1>8, <1>9
<1>11. anc[b] \subseteq 1 .. b /\ d \notin 1 .. b
  BY <1>7, <1>8, <1>9, <1>10 DEF GraphInv
<1>12. judged' = b /\ b # 0
  BY <1>3, <1>7, <1>8, <1>10
<1> QED
  BY <1>6, <1>9, <1>11, <1>12

LEMMA BaselineKeeps == BaselineInv /\ [BaselineStep]_baselineVars => BaselineInv'
<1> SUFFICES ASSUME BaselineInv, [BaselineStep]_baselineVars PROVE BaselineInv'
  OBVIOUS
<1>1. CASE FindBase
  BY <1>1, FoundIsJudged DEF BaselineInv, FindBase, gitVars, GraphInv, Commits, ReflogInv, Recent
<1>2. CASE NoPass
  BY <1>2 DEF NoPass, BaselineInv, gitVars, GraphInv, Commits, ReflogInv, Recent, MadeIsJudged, None
<1>3. CASE Pass
  <2>1. GraphInv' /\ MadeIsJudged'
    BY <1>3 DEF Pass, BaselineInv, gitVars, GraphInv, Commits, MadeIsJudged, None
  <2>2. reflog' = reflog /\ count' = Len(reflog) /\ made' = {} /\ Len(reflog) \in Nat
    BY <1>3 DEF Pass, gitVars, BaselineInv, ReflogInv
  <2>3. \A k \in Nat : ~Recent(k)'
    BY <2>2 DEF Recent
  <2>4. ReflogInv'
    BY <2>2, <2>3 DEF BaselineInv, ReflogInv
  <2> QED
    BY <2>1, <2>4 DEF BaselineInv
<1>4. CASE UNCHANGED baselineVars
  BY <1>4 DEF BaselineInv, baselineVars, gitVars, GraphInv, Commits, ReflogInv, Recent, MadeIsJudged, None
<1> QED
  BY <1>1, <1>2, <1>3, <1>4, GitKeeps DEF BaselineStep

LEMMA BaselineBegins == Init => BaselineInv
<1> SUFFICES ASSUME BaselineInit PROVE BaselineInv
  BY DEF Init
<1>1. GraphInv
  BY DEF BaselineInit, GraphInv, Commits
<1>2. ReflogInv
  BY DEF BaselineInit, ReflogInv, Recent
<1>3. MadeIsJudged
  BY DEF BaselineInit, MadeIsJudged
<1> QED
  BY <1>1, <1>2, <1>3 DEF BaselineInv

\* Whatever is committed, amended, merged, checked out, reset and fetched in between: a
\* gate is given a base that nothing made here since the last pass is part of.
THEOREM MadeJudged == Spec => []MadeIsJudged
<1>1. BaselineInv /\ [Next]_vars => BaselineInv'
  BY BaselineMoves, BaselineKeeps
<1>2. BaselineInv => MadeIsJudged
  BY DEF BaselineInv
<1> QED
  BY <1>1, <1>2, BaselineBegins, PTL DEF Spec

(***************************************************************************)
(* OuterLoop: the plateau                                                  *)
(***************************************************************************)
\* The file holds what this session measured last, all under one definition; what was
\* measured before that, was under another.
Mirrors ==
  LET m == Len(measured)
      n == Len(history.values) IN
  /\ n \in 1 .. m
  /\ \A k \in 1 .. n : measured[m - n + k] = Measured(history.definition, history.values[k])
  /\ n < m => measured[m - n].definition # history.definition

LoopTyped ==
  /\ history \in [definition : Definitions \cup {NoDefinition}, values : Seq(Values)]
  /\ measured \in Seq([definition : Definitions, value : Values])
  /\ declared \in Definitions \cup {NoDefinition} /\ stopKind \in {BudgetItem, PlateauItem}

\* Once the old history is erased the file is this session's; a plateau was found in it,
\* and is the last thing that was.
PlateauInv ==
  /\ LoopTyped
  /\ loop \in {"off", "reset"} => measured = <<>>
  /\ loop \notin {"off", "reset"} /\ erased => Mirrors \/ (history = NoHistory /\ measured = <<>>)
  /\ stopKind = PlateauItem => loop \in {"give", "raising", "gaveup"}
  /\ loop = "give" /\ stopKind = PlateauItem => history.definition = declared /\ Flat(declared, history.values)

\* What is mirrored are the latest values.
LEMMA LatestIsMirrored == ASSUME LoopTyped, Mirrors PROVE Latest(history.definition) = history.values
<1>0. PICK m \in Nat, n \in Nat : m = Len(measured) /\ n = Len(history.values)
  BY DEF LoopTyped
<1> DEFINE d == history.definition
           other == {k \in DOMAIN measured : measured[k].definition # d}
           from == IF other = {} THEN 1 ELSE Max(other) + 1
<1>1. n \in 1 .. m /\ DOMAIN measured = 1 .. m /\ history.values \in Seq(Values)
  BY <1>0 DEF LoopTyped, Mirrors
<1>2. ASSUME NEW k \in 1 .. n
      PROVE  measured[m - n + k].definition = d /\ measured[m - n + k].value = history.values[k]
  <2>1. measured[m - n + k] = Measured(d, history.values[k])
    BY <1>0 DEF Mirrors
  <2> QED
    BY <2>1 DEF Measured
<1>3. ASSUME NEW j \in other PROVE j \in 1 .. m - n
  <2>1. CASE j \in m - n + 1 .. m
    <3>1. j - (m - n) \in 1 .. n /\ m - n + (j - (m - n)) = j
      BY <1>1, <2>1
    <3> QED
      BY <1>2, <3>1
  <2> QED
    BY <1>1, <2>1
<1>4. from = m - n + 1
  <2>1. CASE n = m
    <3>1. other = {}
      BY <1>3, <2>1
    <3> QED
      BY <2>1, <3>1
  <2>2. CASE n < m
    <3>1. m - n \in other
      BY <1>0, <1>1, <2>2 DEF Mirrors
    <3>2. ASSUME NEW x \in other, \A y \in other : x >= y PROVE x = m - n
      BY <1>3, <3>1, <3>2
    <3> HIDE DEF other
    <3>3. Max(other) = m - n
      BY <1>3, <3>1, <3>2 DEF Max
    <3> QED
      BY <3>1, <3>3
  <2> QED
    BY <1>1, <2>1, <2>2
<1>5. Latest(d) = [k \in 1 .. m - from + 1 |-> measured[from + k - 1].value]
  BY <1>0 DEF Latest
<1>6. m - from + 1 = n /\ \A k \in 1 .. n : from + k - 1 = m - n + k
  <2> HIDE DEF from
  <2> QED
    BY <1>4
<1>7. Latest(d) = [k \in 1 .. n |-> history.values[k]]
  <2> HIDE DEF from
  <2> QED
    BY <1>2, <1>5, <1>6
<1>8. history.values = [k \in 1 .. n |-> history.values[k]]
  BY <1>0, <1>1, LenProperties
<1> QED
  BY <1>7, <1>8

\* A value that is recorded is appended to both, or begins both anew.
LEMMA RecordMirrors ==
  ASSUME LoopTyped, NEW v \in Values, Record(v), Mirrors \/ (history = NoHistory /\ measured = <<>>)
  PROVE  Mirrors'
<1>0. PICK m \in Nat, n \in Nat : m = Len(measured) /\ n = Len(history.values)
  BY DEF LoopTyped
<1> DEFINE M == [definition : Definitions, value : Values]
<1>1. /\ measured \in Seq(M) /\ history.values \in Seq(Values)
      /\ declared \in Definitions /\ declared # NoDefinition
  BY DEF LoopTyped, Record
<1>2. Measured(declared, v) \in M
  BY <1>1 DEF Measured
<1>3. /\ Len(measured') = m + 1 /\ measured'[m + 1] = Measured(declared, v)
      /\ \A k \in 1 .. m : measured'[k] = measured[k]
  BY <1>0, <1>1, <1>2 DEF Record
<1>4. CASE history.definition = declared
  <2>1. Mirrors
    BY <1>1, <1>4 DEF NoHistory
  <2>2. history' = [history EXCEPT !.values = Append(@, v)]
    BY <1>4 DEF Record, Extended
  <2>3. /\ history'.definition = declared /\ history'.values = Append(history.values, v)
        /\ Len(history'.values) = n + 1 /\ history'.values[n + 1] = v
        /\ \A k \in 1 .. n : history'.values[k] = history.values[k]
    BY <1>0, <1>1, <1>4, <2>2 DEF LoopTyped
  <2>4. n \in 1 .. m /\ n + 1 \in 1 .. m + 1 /\ m + 1 - (n + 1) = m - n /\ (n + 1 < m + 1 <=> n < m)
    BY <1>0, <2>1 DEF Mirrors
  <2>5. ASSUME NEW k \in 1 .. n + 1
        PROVE  measured'[m - n + k] = Measured(declared, history'.values[k])
    <3>1. CASE k = n + 1
      <4>1. m - n + k = m + 1
        BY <3>1
      <4> QED
        BY <1>3, <2>3, <3>1, <4>1
    <3>2. CASE k \in 1 .. n
      <4>1. m - n + k \in 1 .. m
        BY <2>4, <3>2
      <4>2. measured[m - n + k] = Measured(history.definition, history.values[k])
        BY <1>0, <2>1, <3>2 DEF Mirrors
      <4> QED
        BY <1>3, <1>4, <2>3, <3>2, <4>1, <4>2
    <3> QED
      BY <3>1, <3>2
  <2>6. n < m => measured'[m - n].definition # declared
    <3> SUFFICES ASSUME n < m PROVE measured'[m - n].definition # declared
      OBVIOUS
    <3>1. m - n \in 1 .. m
      BY <2>4
    <3> QED
      BY <1>0, <1>3, <1>4, <2>1, <3>1 DEF Mirrors
  <2> HIDE DEF M
  <2> QED
    BY <1>3, <2>3, <2>4, <2>5, <2>6 DEF Mirrors
<1>5. CASE history.definition # declared
  <2>1. history' = [definition |-> declared, values |-> <<v>>]
    BY <1>5 DEF Record, Extended, Anew
  <2>2. /\ history'.definition = declared /\ Len(history'.values) = 1 /\ history'.values[1] = v
    BY <2>1
  <2>3. m > 0 => measured[m].definition # declared
    <3> SUFFICES ASSUME m > 0 PROVE measured[m].definition # declared
      OBVIOUS
    <3>1. Mirrors
      BY <1>0
    <3>2. n \in 1 .. n /\ n \in 1 .. m /\ m - n + n = m
      BY <1>0, <3>1 DEF Mirrors
    <3>3. measured[m - n + n] = Measured(history.definition, history.values[n])
      BY <1>0, <3>1, <3>2 DEF Mirrors
    <3> QED
      BY <1>5, <3>2, <3>3 DEF Measured
  <2>4. m + 1 - 1 + 1 = m + 1 /\ m + 1 - 1 = m /\ 1 \in 1 .. m + 1 /\ (1 < m + 1 <=> m > 0)
    OBVIOUS
  <2>5. \A k \in 1 .. 1 : measured'[m + 1 - 1 + k] = Measured(declared, history'.values[k])
    BY <1>3, <2>2, <2>4
  <2> QED
    BY <1>3, <2>2, <2>3, <2>4, <2>5 DEF Mirrors
<1> QED
  BY <1>4, <1>5

LEMMA RecordTyped ==
  ASSUME LoopTyped, NEW v \in Values, Record(v)
  PROVE  /\ history' \in [definition : Definitions \cup {NoDefinition}, values : Seq(Values)]
         /\ history'.definition = declared
         /\ measured' \in Seq([definition : Definitions, value : Values])
<1>1. declared \in Definitions /\ Measured(declared, v) \in [definition : Definitions, value : Values]
  BY DEF LoopTyped, Record, Measured
<1>2. measured' \in Seq([definition : Definitions, value : Values])
  BY <1>1 DEF LoopTyped, Record
<1>3. /\ history.definition \in Definitions \cup {NoDefinition} /\ history.values \in Seq(Values)
      /\ history = [definition |-> history.definition, values |-> history.values]
  BY DEF LoopTyped
<1>4. Append(history.values, v) \in Seq(Values) /\ <<v>> \in Seq(Values)
  BY <1>3
<1>5. PICK kept \in Seq(Values) : history' = [definition |-> declared, values |-> kept]
  BY <1>3, <1>4 DEF Record, Extended, Anew
<1> QED
  BY <1>1, <1>2, <1>5

LEMMA ResetKeeps == ASSUME PlateauInv, Reset PROVE PlateauInv'
<1> USE LoopAssumption DEF PlateauInv
<1>1. /\ loop = "reset" /\ measured = <<>> /\ loop' = "top" /\ stopKind = BudgetItem /\ stopKind' = stopKind
      /\ declared' = declared /\ erased' = ErasedFirst /\ LoopTyped
  BY DEF Reset, LoopTyped
<1>2. ASSUME NEW v \in Values, declared # NoDefinition, history' = Anew(v), measured' = <<Measured(declared, v)>>
      PROVE  LoopTyped' /\ Mirrors'
  <2>1. /\ declared \in Definitions /\ <<v>> \in Seq(Values)
        /\ Measured(declared, v) \in [definition : Definitions, value : Values]
    BY <1>1, <1>2 DEF LoopTyped, Measured
  <2>2. history' = [definition |-> declared, values |-> <<v>>]
    BY <1>2 DEF Anew
  <2>3. LoopTyped'
    BY <1>1, <1>2, <2>1, <2>2 DEF LoopTyped
  <2>4. /\ Len(measured') = 1 /\ Len(history'.values) = 1 /\ history'.definition = declared
        /\ measured'[1] = Measured(history'.definition, history'.values[1])
    BY <1>2, <2>2
  <2> QED
    BY <2>3, <2>4 DEF Mirrors
<1>3. ASSUME history' = (IF ErasedFirst THEN NoHistory ELSE history), measured' = measured
      PROVE  LoopTyped' /\ (erased' => history' = NoHistory /\ measured' = <<>>)
  <2>1. NoHistory \in [definition : Definitions \cup {NoDefinition}, values : Seq(Values)]
    BY DEF NoHistory
  <2> QED
    BY <1>1, <1>3, <2>1 DEF LoopTyped
<1>4. LoopTyped' /\ (erased' => Mirrors' \/ (history' = NoHistory /\ measured' = <<>>))
  BY <1>2, <1>3 DEF Reset
<1> QED
  BY <1>1, <1>4

LEMMA PlateauKeeps == PlateauInv /\ [LoopStep]_loopVars => PlateauInv'
<1> SUFFICES ASSUME PlateauInv, [LoopStep]_loopVars PROVE PlateauInv'
  OBVIOUS
<1> USE LoopAssumption
<1>0. LoopTyped
  BY DEF PlateauInv
<1>1. ASSUME UNCHANGED <<history, measured, erased>> PROVE Mirrors' <=> Mirrors
  BY <1>1 DEF Mirrors
<1>2. CASE StartLoop
  BY <1>1, <1>2 DEF StartLoop, PlateauInv, LoopTyped
<1>3. CASE Top \/ GiveUp \/ Exit \/ AskToStop
  BY <1>1, <1>3 DEF Top, GiveUp, Exit, AskToStop, PlateauInv, LoopTyped
<1>4. CASE Agent
  BY <1>1, <1>4 DEF Agent, PlateauInv, LoopTyped
<1>5. CASE Harness
  <2>1. loop = "harness" /\ loop' \in {"green", "metric"} /\ UNCHANGED <<declared, stopKind, erased>> /\ stopKind # PlateauItem
    BY <1>5 DEF Harness, PlateauInv
  <2>2. ASSUME NEW v \in Values, Record(v) PROVE PlateauInv'
    <3>1. LoopTyped'
      BY <1>0, <2>1, <2>2, RecordTyped DEF LoopTyped
    <3>2. erased => Mirrors'
      BY <1>0, <2>1, <2>2, RecordMirrors DEF PlateauInv
    <3> QED
      BY <2>1, <3>1, <3>2 DEF PlateauInv
  <2>3. CASE UNCHANGED <<history, measured>>
    BY <1>1, <2>1, <2>3 DEF PlateauInv, LoopTyped
  <2> QED
    BY <1>5, <2>2, <2>3 DEF Harness
<1>6. CASE Metric
  <2>1. loop = "metric" /\ UNCHANGED <<declared, erased>> /\ stopKind = BudgetItem
    BY <1>6 DEF Metric, PlateauInv, LoopTyped
  <2>2. ASSUME NEW v \in Values, Record(v),
               IF Flat(declared, history'.values)
               THEN loop' = "give" /\ stopKind' = PlateauItem ELSE loop' = "top" /\ stopKind' = stopKind
        PROVE  PlateauInv'
    <3>1. /\ history' \in [definition : Definitions \cup {NoDefinition}, values : Seq(Values)]
          /\ history'.definition = declared
          /\ measured' \in Seq([definition : Definitions, value : Values])
      BY <1>0, <2>2, RecordTyped
    <3>2. erased => Mirrors'
      BY <1>0, <2>1, <2>2, RecordMirrors DEF PlateauInv
    <3>3. LoopTyped'
      BY <1>0, <2>1, <2>2, <3>1 DEF LoopTyped
    <3>4. stopKind' = PlateauItem => loop' = "give" /\ Flat(declared, history'.values)
      BY <2>1, <2>2
    <3>5. loop' \in {"give", "top"}
      BY <2>2
    <3>6. Flat(declared, history'.values) <=> Flat(declared', history'.values)
      BY <2>1
    <3> QED
      BY <2>1, <3>1, <3>2, <3>3, <3>4, <3>5, <3>6 DEF PlateauInv
  <2>3. CASE loop' = "top" /\ stopKind' = stopKind /\ UNCHANGED <<history, measured>>
    BY <1>1, <2>1, <2>3 DEF PlateauInv, LoopTyped
  <2> QED
    BY <1>6, <2>2, <2>3 DEF Metric, NextIteration
<1>7. CASE UNCHANGED loopVars
  BY <1>1, <1>7 DEF loopVars, PlateauInv, LoopTyped
<1> QED
  BY <1>2, <1>3, <1>4, <1>5, <1>6, <1>7, ResetKeeps DEF LoopStep

LEMMA PlateauBegins == Init => PlateauInv
<1> SUFFICES ASSUME LoopInit \/ LoopAbsent PROVE PlateauInv
  BY DEF Init
<1>1. loop = "off" /\ measured = <<>> /\ stopKind = BudgetItem
  BY DEF LoopInit, LoopAbsent, LoopIdle
<1>2. NoHistory \in [definition : Definitions \cup {NoDefinition}, values : Seq(Values)]
  BY DEF NoHistory
<1>3. [1 .. Window -> Values] \subseteq Seq(Values)
  BY LoopAssumption
<1>4. history \in {NoHistory} \cup Left /\ declared \in Definitions \cup {NoDefinition}
  BY DEF LoopInit, LoopAbsent
<1>5. LoopTyped
  BY <1>1, <1>2, <1>3, <1>4 DEF LoopTyped, Left
<1> QED
  BY <1>1, <1>5, LoopAssumption DEF PlateauInv

\* Whatever the agents do to the manifest: a loop that gives up on a plateau has measured
\* more than a window of values in this session under the definition it holds, and they
\* did not improve.
THEOREM PlateauReal == Spec => []PlateauIsReal
<1>1. PlateauInv => PlateauIsReal
  <2> SUFFICES ASSUME PlateauInv, loop = "give", stopKind = PlateauItem, erased
               PROVE  Flat(declared, Latest(declared))
    BY DEF PlateauIsReal
  <2>1. history.definition = declared /\ Flat(declared, history.values)
    BY DEF PlateauInv
  <2>2. Len(history.values) > Window
    BY <2>1 DEF Flat
  <2>3. Mirrors
    BY <2>2, LoopAssumption DEF PlateauInv, NoHistory
  <2> QED
    BY <2>1, <2>3, LatestIsMirrored DEF PlateauInv
<1>2. PlateauInv /\ [Next]_vars => PlateauInv'
  BY LoopMoves, PlateauKeeps
<1> QED
  BY <1>1, <1>2, PlateauBegins, PTL DEF Spec

(***************************************************************************)
(* Watchdog: leaving because all is over                                   *)
(***************************************************************************)
WatchTyped ==
  /\ journal \in [Agents -> Rows] /\ states \in [Agents -> Rows]
  /\ written \in Nat /\ now \in Nat /\ clock \in Nat /\ written <= now /\ clock <= now

\* What the poll has read of the journal is so, unless it was written since; and whoever
\* was at work or had failed is still to be looked at, or has been.
PollInv ==
  /\ WatchTyped
  /\ watch = "clock" => \A a \in Agents : journal[a] # states[a] => written >= now
  /\ watch \in {"look", "raising"} =>
       \A a \in Agents : /\ journal[a] # states[a] => written >= clock
                         /\ states[a] = "started" => a \in toLook \/ live
                         /\ states[a] = "failed" => a \in toLook \/ alerts

LEMMA PollKeeps == PollInv /\ [WatchStep]_watchVars => PollInv'
<1> SUFFICES ASSUME PollInv, [WatchStep]_watchVars PROVE PollInv'
  OBVIOUS
<1> USE DEF PollInv
<1>1. ASSUME NEW a \in Agents, NEW row \in Rows \ {"none"}, Write(a, row) PROVE PollInv'
  <2>1. /\ journal' = [journal EXCEPT ![a] = row] /\ written' = now
        /\ UNCHANGED <<now, watch, states, clock, toLook, alerts, live>>
    BY <1>1 DEF Write, pollVars
  <2>2. WatchTyped'
    BY <2>1 DEF WatchTyped
  <2> QED
    BY <2>1, <2>2 DEF WatchTyped
<1>2. CASE Tick
  <2>1. /\ watch # "clock" /\ now' = now + 1
        /\ UNCHANGED <<journal, written, watch, states, clock, toLook, alerts, live>>
    BY <1>2 DEF Tick, pollVars
  <2> QED
    BY <2>1 DEF WatchTyped
<1>3. CASE Box
  <2>1. watch' \in {"box", "read"} /\ UNCHANGED <<journal, written, now, states, clock>>
    BY <1>3 DEF Box
  <2> QED
    BY <2>1 DEF WatchTyped
<1>4. CASE BoxRaised
  <2>1. watch' \in {"read", "2"} /\ UNCHANGED <<journal, written, now, states, clock>>
    BY <1>4 DEF BoxRaised, pollVars
  <2> QED
    BY <2>1 DEF WatchTyped
<1>5. CASE ReadJournal
  <2>1. (watch' = "clock" /\ states' = journal) \/ (watch' = "2" /\ states' = states)
    BY <1>5 DEF ReadJournal, Exits
  <2>2. UNCHANGED <<journal, written, now, clock>>
    BY <1>5 DEF ReadJournal
  <2> QED
    BY <2>1, <2>2 DEF WatchTyped
<1>6. CASE ReadClock
  <2>1. /\ watch = "clock" /\ clock' = now /\ watch' = "look"
        /\ toLook' = {a \in Agents : states[a] \in {"started", "failed"}}
        /\ UNCHANGED <<journal, written, now, states>>
    BY <1>6 DEF ReadClock
  <2> QED
    BY <2>1 DEF WatchTyped
<1>7. ASSUME NEW a \in Agents, Look(a) PROVE PollInv'
  <2>1. /\ watch = "look" /\ toLook' = toLook \ {a} /\ live' = (live \/ states[a] = "started")
        /\ UNCHANGED <<journal, written, now, states, clock>>
    BY <1>7 DEF Look
  <2>2. \/ watch' = "2" /\ alerts' = alerts
        \/ states[a] = "started" /\ watch' = "look" /\ alerts' = alerts
        \/ watch' = "raising" /\ alerts' = TRUE
    BY <1>7 DEF Look, Exits
  <2>3. WatchTyped'
    BY <2>1 DEF WatchTyped
  <2>4. ASSUME watch' \in {"look", "raising"}, NEW b \in Agents
        PROVE  /\ journal'[b] # states'[b] => written' >= clock'
               /\ states'[b] = "started" => b \in toLook' \/ live'
               /\ states'[b] = "failed" => b \in toLook' \/ alerts'
    <3>1. /\ journal[b] # states[b] => written >= clock
          /\ states[b] = "started" => b \in toLook \/ live
          /\ states[b] = "failed" => b \in toLook \/ alerts
      BY <2>1
    <3>2. states[b] = "started" => b \in toLook' \/ live'
      BY <2>1, <3>1, Zenon
    <3>3. alerts => alerts'
      BY <2>2, Zenon
    <3>4. states[a] = "failed" => alerts'
      BY <2>2, <2>4
    <3>5. states[b] = "failed" => b \in toLook' \/ alerts'
      BY <2>1, <3>1, <3>3, <3>4, Zenon
    <3> QED
      BY <2>1, <3>1, <3>2, <3>5
  <2>5. watch' # "clock"
    BY <2>1, <2>2
  <2> QED
    BY <2>3, <2>4, <2>5
<1>8. CASE AgentRaised
  <2>1. watch = "raising" /\ watch' \in {"look", "2"}
    BY <1>8 DEF AgentRaised
  <2>2. UNCHANGED <<journal, written, now, states, clock, toLook, alerts, live>>
    BY <1>8 DEF AgentRaised, pollVars
  <2> QED
    BY <2>1, <2>2 DEF WatchTyped
<1>9. CASE Age
  <2>1. watch' \in {"0", "1", "2", "sleep"}
    BY <1>9 DEF Age
  <2>2. states' = NoRows /\ clock' = 0 /\ UNCHANGED <<journal, written, now>>
    BY <1>9 DEF Age
  <2>3. NoRows \in [Agents -> Rows]
    BY DEF NoRows, Rows
  <2> QED
    BY <2>1, <2>2, <2>3 DEF WatchTyped
<1>10. CASE UNCHANGED watchVars
  BY <1>10 DEF watchVars, WatchTyped
<1> QED
  BY <1>1, <1>2, <1>3, <1>4, <1>5, <1>6, <1>7, <1>8, <1>9, <1>10 DEF WatchStep

LEMMA PollBegins == Init => PollInv
<1>1. NoRows \in [Agents -> Rows]
  BY DEF NoRows, Rows
<1> QED
  BY <1>1 DEF Init, WatchInit, PollInv, WatchTyped

\* It is left with code 0 at the end of a poll that saw all agents end, when nothing had
\* been written since the poll read the journal.
LEMMA LeavesQuietly ==
  ASSUME PollInv, [WatchStep]_watchVars, watch' = "0", watch # "0"
  PROVE  \A a \in Agents : journal'[a] \notin {"started", "failed"}
<1>1. Age
  <2>1. ~(\E a \in Agents, row \in Rows \ {"none"} : Write(a, row)) /\ ~Tick
    BY DEF Write, Tick
  <2>2. ~Box /\ ~BoxRaised /\ ~ReadJournal /\ ~ReadClock /\ ~AgentRaised
    BY DEF Box, BoxRaised, ReadJournal, ReadClock, AgentRaised, Exits
  <2>3. ~\E a \in Agents : Look(a)
    BY DEF Look, Exits
  <2> QED
    BY <2>1, <2>2, <2>3 DEF WatchStep, watchVars
<1>2. watch = "look" /\ toLook = {} /\ journal' = journal
  BY <1>1 DEF Age
<1>3. health = 0 /\ ~alerts /\ ~live /\ Old
  BY <1>1 DEF Age
<1>4. written < clock
  BY <1>3, WatchdogAssumption DEF Old, PollInv, WatchTyped
<1> QED
  BY <1>2, <1>3, <1>4 DEF PollInv, WatchTyped

\* Whatever is written while it polls, the observer leaves with code 0 only when no agent
\* is at work and none has failed.
THEOREM LeavesWhenOver == Spec => QuietIsOver
<1>1. PollInv /\ [Next]_vars =>
        (watch' = "0" /\ watch # "0" => \A a \in Agents : journal'[a] \notin {"started", "failed"})
  BY WatchMoves, LeavesQuietly
<1>2. PollInv /\ [Next]_vars => PollInv'
  BY WatchMoves, PollKeeps
<1> QED
  BY <1>1, <1>2, PollBegins, PTL DEF Spec, QuietIsOver

(***************************************************************************)
(* Inbox: nobody is left believing that a person was told                  *)
(***************************************************************************)
InboxTyped ==
  /\ open \subseteq Items
  /\ adding \in [Writers -> [id : Items \cup {NoItem}, at : {"none", "read", "append", "done", "failed"}]]
  /\ shown \in [Writers -> BOOLEAN]

\* Whoever raises an item that is open, or has raised it, was there when it was open.
RaisedInv ==
  /\ InboxTyped
  /\ \A w \in Writers : adding[w].at # "none" => adding[w].id \in Items
  /\ \A w \in Writers : adding[w].id \in open \/ adding[w].at = "done" => shown[w]

\* The poll, or the observer's end, speaks of something it has raised.
Alerted == \/ watch = "1"
           \/ watch \in {"read", "clock", "look"} /\ health # 0
           \/ watch = "look" /\ alerts

\* What the callers of the inbox know of their row; the others have none.
CallerInv ==
  /\ active # "loop" => loop = "off"
  /\ active # "watch" => watch = "sleep"
  /\ stopKind \in Items /\ place \in Nat \ {0}
  /\ loop \in {"raising", "gaveup"} => adding["runner"].id = stopKind /\ adding["runner"].at # "none"
  /\ loop = "gaveup" => adding["runner"].at \in {"done", "failed"}
  /\ watch \in {"box", "raising"} => adding["runner"].at # "none"
  /\ Alerted => adding["runner"].at = "done"
  /\ watch # "2" => ~missed

TellInv == RaisedInv /\ CallerInv

LEMMA RunnerWrites == "runner" \in Writers /\ "other" \in Writers
  BY DEF Writers

LEMMA RaiseKeeps ==
  ASSUME RaisedInv, NEW w \in Writers, NEW i \in Items, Raise(w, i)
  PROVE  /\ RaisedInv' /\ adding'[w].id = i /\ adding'[w].at = "read"
         /\ \A v \in Writers \ {w} : adding'[v] = adding[v]
<1> DEFINE a == [id |-> i, at |-> "read"]
<1>1. /\ open' = open /\ adding' = [adding EXCEPT ![w] = a] /\ shown' = [shown EXCEPT ![w] = i \in open]
      /\ InboxTyped
  BY DEF Raise, RaisedInv
<1>2. adding'[w] = a /\ shown'[w] = (i \in open) /\ \A v \in Writers \ {w} : adding'[v] = adding[v] /\ shown'[v] = shown[v]
  BY <1>1 DEF InboxTyped
<1>3. InboxTyped'
  BY <1>1 DEF InboxTyped
<1>4. ASSUME NEW v \in Writers
      PROVE  /\ adding'[v].at # "none" => adding'[v].id \in Items
             /\ adding'[v].id \in open' \/ adding'[v].at = "done" => shown'[v]
  <2>1. CASE v = w
    <3>1. adding'[v].id = i /\ adding'[v].at = "read" /\ shown'[v] = (i \in open)
      BY <1>2, <2>1
    <3> QED
      BY <1>1, <3>1
  <2>2. CASE v # w
    BY <1>1, <1>2, <2>2 DEF RaisedInv
  <2> QED
    BY <2>1, <2>2
<1> QED
  BY <1>2, <1>3, <1>4 DEF RaisedInv

\* A step of a call that has been made, and what it leaves.
LEMMA AddKeeps ==
  ASSUME RaisedInv, NEW w \in Writers, Add(w)
  PROVE  /\ RaisedInv' /\ Raising(w) /\ adding'[w].at # "none" /\ adding'[w].id = adding[w].id
         /\ \A v \in Writers \ {w} : adding'[v] = adding[v]
<1>1. InboxTyped /\ adding[w].id \in Items /\ Raising(w)
  BY DEF RaisedInv, Add, ReadRows, AppendRow, AddFails, Raising
<1>2. ASSUME NEW at \in {"append", "done", "failed"}, adding' = [adding EXCEPT ![w].at = at], open' = open, shown' = shown,
             at = "done" => adding[w].id \in open
      PROVE  /\ RaisedInv' /\ adding'[w].at = at /\ adding'[w].id = adding[w].id
             /\ \A v \in Writers \ {w} : adding'[v] = adding[v]
  <2>1. /\ adding'[w].at = at /\ adding'[w].id = adding[w].id
        /\ \A v \in Writers \ {w} : adding'[v] = adding[v]
    BY <1>1, <1>2 DEF InboxTyped
  <2>2. InboxTyped'
    BY <1>1, <1>2 DEF InboxTyped
  <2> QED
    BY <1>1, <1>2, <2>1, <2>2 DEF RaisedInv
<1>3. CASE ReadRows(w)
  <2>1. CASE adding[w].id \in open
    <3>1. adding' = [adding EXCEPT ![w].at = "done"] /\ open' = open /\ shown' = shown
      BY <1>3, <2>1 DEF ReadRows, AlreadyOpen
    <3> QED
      BY <1>1, <1>2, <2>1, <3>1
  <2>2. CASE adding[w].id \notin open
    <3>1. adding' = [adding EXCEPT ![w].at = "append"] /\ open' = open /\ shown' = shown
      BY <1>3, <2>2 DEF ReadRows, AlreadyOpen
    <3> QED
      BY <1>1, <1>2, <3>1
  <2> QED
    BY <2>1, <2>2
<1>4. CASE AddFails(w)
  <2>1. adding' = [adding EXCEPT ![w].at = "failed"] /\ open' = open /\ shown' = shown
    BY <1>4 DEF AddFails
  <2> QED
    BY <1>1, <1>2, <2>1
<1>5. CASE AppendRow(w)
  <2> DEFINE i == adding[w].id
  <2>1. /\ open' = open \cup {i} /\ adding' = [adding EXCEPT ![w].at = "done"]
        /\ shown' = [v \in Writers |-> shown[v] \/ adding[v].id = i]
    BY <1>5 DEF AppendRow
  <2>2. /\ adding'[w].at = "done" /\ adding'[w].id = adding[w].id
        /\ \A v \in Writers \ {w} : adding'[v] = adding[v]
    BY <1>1, <2>1 DEF InboxTyped
  <2>3. InboxTyped'
    BY <1>1, <2>1 DEF InboxTyped
  <2>4. ASSUME NEW v \in Writers
        PROVE  /\ adding'[v].at # "none" => adding'[v].id \in Items
               /\ adding'[v].id \in open' \/ adding'[v].at = "done" => shown'[v]
    <3>1. shown'[v] = (shown[v] \/ adding[v].id = i)
      BY <2>1
    <3>2. adding'[v].id = adding[v].id
      BY <2>2
    <3>3. CASE v = w
      BY <1>1, <2>2, <3>1, <3>3
    <3>4. CASE v # w
      <4>1. adding[v].id \in open \/ adding[v].at = "done" => shown[v]
        BY DEF RaisedInv
      <4>2. adding'[v].at = adding[v].at
        BY <2>2, <3>4
      <4>3. adding[v].at # "none" => adding[v].id \in Items
        BY DEF RaisedInv
      <4>4. adding[v].id \in open' => adding[v].id \in open \/ adding[v].id = i
        BY <2>1
      <4>5. adding'[v].id \in open' \/ adding'[v].at = "done" => shown'[v]
        BY <3>1, <3>2, <4>1, <4>2, <4>4, Zenon
      <4> QED
        BY <3>2, <4>2, <4>3, <4>5
    <3> QED
      BY <3>3, <3>4
  <2>5. RaisedInv'
    BY <2>3, <2>4 DEF RaisedInv
  <2> QED
    BY <1>1, <2>2, <2>5
<1> QED
  BY <1>3, <1>4, <1>5 DEF Add

\* Whoever resolves, or raises the same thing, leaves the runner's call alone.
LEMMA OthersKeep ==
  ASSUME RaisedInv, OtherRaises \/ ReadToResolve \/ Resolve \/ ResolveAtOnce
  PROVE  RaisedInv' /\ adding'["runner"] = adding["runner"]
<1>1. CASE OtherRaises
  <2>1. adding["runner"].id \in Items
    BY <1>1, RunnerWrites DEF OtherRaises, Raising, RaisedInv
  <2> QED
    BY <1>1, <2>1, RunnerWrites, RaiseKeeps DEF OtherRaises
<1>2. CASE ReadToResolve \/ Resolve \/ ResolveAtOnce
  <2>1. open' \subseteq open /\ adding' = adding /\ shown' = shown
    BY <1>2 DEF ReadToResolve, Resolve, ResolveAtOnce
  <2>2. InboxTyped'
    BY <2>1 DEF RaisedInv, InboxTyped
  <2> QED
    BY <2>1, <2>2 DEF RaisedInv
<1> QED
  BY <1>1, <1>2

\* The inbox at work on a call of the runner's.
LEMMA CallerHears ==
  ASSUME CallerInv, UNCHANGED <<loopVars, watchVars, place, active>>,
         \/ adding'["runner"] = adding["runner"]
         \/ Raising("runner") /\ adding'["runner"].at # "none" /\ adding'["runner"].id = adding["runner"].id
  PROVE  CallerInv'
  BY DEF CallerInv, Alerted, loopVars, watchVars, pollVars, Raising

LEMMA InboxTells ==
  ASSUME TellInv, InInbox(IF active = "park" THEN Add("runner") \/ ResolveAtOnce ELSE InboxStep)
  PROVE  TellInv'
<1>1. UNCHANGED <<loopVars, watchVars, place, active>>
  BY DEF InInbox, parkVars
<1>2. (\E w \in Writers : Add(w)) \/ OtherRaises \/ ReadToResolve \/ Resolve \/ ResolveAtOnce
  BY RunnerWrites DEF InInbox, InboxStep
<1>3. ASSUME NEW w \in Writers, Add(w) PROVE TellInv'
  <2>1. /\ RaisedInv' /\ Raising(w) /\ adding'[w].at # "none" /\ adding'[w].id = adding[w].id
        /\ \A v \in Writers \ {w} : adding'[v] = adding[v]
    BY <1>3, AddKeeps DEF TellInv
  <2>2. \/ adding'["runner"] = adding["runner"]
        \/ Raising("runner") /\ adding'["runner"].at # "none" /\ adding'["runner"].id = adding["runner"].id
    BY <2>1, RunnerWrites
  <2> QED
    BY <1>1, <2>1, <2>2, CallerHears DEF TellInv
<1>4. CASE OtherRaises \/ ReadToResolve \/ Resolve \/ ResolveAtOnce
  BY <1>1, <1>4, OthersKeep, CallerHears DEF TellInv
<1> QED
  BY <1>2, <1>3, <1>4

LEMMA RaisedStill == ASSUME RaisedInv, UNCHANGED inboxVars PROVE RaisedInv' /\ adding' = adding
  BY DEF RaisedInv, InboxTyped, inboxVars

LEMMA LoopTells == ASSUME TellInv, InLoop(LoopStep) PROVE TellInv'
<1> USE DEF CallerInv
<1>1. /\ active = "loop" /\ active' = active /\ LoopStep /\ UNCHANGED watchVars /\ place' = place
      /\ RaisedInv /\ CallerInv /\ watch = "sleep"
  BY DEF InLoop, parkVars, TellInv
<1>2. Alerted' = Alerted /\ watch' = watch /\ missed' = missed /\ ~Alerted
  BY <1>1 DEF watchVars, pollVars, Alerted
<1>3. stopKind' \in Items
  BY <1>1, LoopAssumption DEF LoopStep, StartLoop, Reset, Top, Agent, Harness, Metric, NextIteration, GiveUp, Exit, AskToStop
<1>4. CASE GiveUp
  <2>1. loop' = "raising" /\ Raise("runner", stopKind) /\ stopKind' = stopKind
    BY <1>4 DEF GiveUp
  <2>2. RaisedInv' /\ adding'["runner"].id = stopKind /\ adding'["runner"].at = "read"
    BY <1>1, <2>1, RunnerWrites, RaiseKeeps
  <2> QED
    BY <1>1, <1>2, <1>3, <2>1, <2>2 DEF TellInv
<1>5. CASE Exit
  <2>1. loop = "raising" /\ loop' = "gaveup" /\ stopKind' = stopKind /\ ~Raising("runner") /\ UNCHANGED inboxVars
    BY <1>5 DEF Exit
  <2>2. RaisedInv' /\ adding' = adding
    BY <1>1, <2>1, RaisedStill
  <2>3. adding["runner"].at \in {"done", "failed"}
    BY <1>1, <2>1, RunnerWrites DEF Raising, RaisedInv, InboxTyped
  <2> QED
    BY <1>1, <1>2, <1>3, <2>1, <2>2, <2>3 DEF TellInv
<1>6. CASE AskToStop
  <2>1. loop' = loop /\ stopKind' = stopKind /\ UNCHANGED inboxVars
    BY <1>6 DEF AskToStop
  <2> QED
    BY <1>1, <1>2, <1>3, <2>1, RaisedStill DEF TellInv
<1>7. CASE StartLoop \/ Reset \/ Top \/ Agent \/ Harness \/ Metric
  <2>1. loop' \notin {"raising", "gaveup"} /\ UNCHANGED inboxVars
    BY <1>7 DEF StartLoop, Reset, Top, Agent, Harness, Metric, NextIteration
  <2> QED
    BY <1>1, <1>2, <1>3, <2>1, RaisedStill DEF TellInv
<1> QED
  BY <1>1, <1>4, <1>5, <1>6, <1>7 DEF LoopStep

LEMMA WatchTells == ASSUME TellInv, InWatch(WatchStep) PROVE TellInv'
<1>1. /\ active = "watch" /\ active' = active /\ WatchStep /\ place' = place /\ loop' = loop /\ stopKind' = stopKind
      /\ loop = "off" /\ RaisedInv /\ CallerInv /\ stopKind \in Items /\ place \in Nat \ {0}
  BY DEF InWatch, parkVars, loopVars, TellInv, CallerInv
<1>2. ASSUME RaisedInv',
             watch' \in {"box", "raising"} => adding'["runner"].at # "none",
             Alerted' => adding'["runner"].at = "done",
             watch' # "2" => ~missed'
      PROVE  TellInv'
  BY <1>1, <1>2 DEF TellInv, CallerInv
<1>3. /\ watch \in {"box", "raising"} => adding["runner"].at # "none"
      /\ Alerted => adding["runner"].at = "done"
      /\ watch # "2" => ~missed
  BY <1>1 DEF CallerInv
<1>4. ASSUME UNCHANGED <<watch, health, alerts, missed, inboxVars>> PROVE TellInv'
  BY <1>1, <1>2, <1>3, <1>4, RaisedStill DEF Alerted
<1>5. ASSUME NEW a \in Agents, NEW row \in Rows \ {"none"}, Write(a, row) PROVE TellInv'
  BY <1>4, <1>5 DEF Write, pollVars
<1>6. CASE Tick
  BY <1>4, <1>6 DEF Tick, pollVars
<1>7. CASE Box
  <2>1. watch = "sleep" /\ missed' = missed
    BY <1>7 DEF Box
  <2>2. CASE watch' = "box" /\ Raise("runner", BoxItem)
    <3>1. BoxItem \in Items
      BY WatchdogAssumption DEF WatchItems
    <3>2. RaisedInv' /\ adding'["runner"].at = "read"
      BY <1>1, <2>2, <3>1, RunnerWrites, RaiseKeeps
    <3> QED
      BY <1>2, <1>3, <2>1, <2>2, <3>2 DEF Alerted
  <2>3. CASE watch' = "read" /\ health' = 0 /\ UNCHANGED inboxVars
    BY <1>1, <1>2, <1>3, <2>1, <2>3, RaisedStill DEF Alerted
  <2> QED
    BY <1>7, <2>2, <2>3 DEF Box
<1>8. CASE BoxRaised \/ AgentRaised
  <2>1. /\ watch \in {"box", "raising"} /\ ~Raising("runner")
        /\ missed' = (adding["runner"].at = "failed") /\ UNCHANGED <<health, alerts, inboxVars>>
        /\ watch' \in {"read", "look"} => adding["runner"].at = "done"
        /\ watch' \in {"read", "look", "2"}
    BY <1>8 DEF BoxRaised, AgentRaised, pollVars
  <2> QED
    BY <1>1, <1>2, <1>3, <2>1, RaisedStill DEF Alerted
<1>9. CASE ReadJournal
  <2>1. watch = "read" /\ watch' \in {"clock", "2"} /\ UNCHANGED <<health, missed, inboxVars>>
    BY <1>9 DEF ReadJournal, Exits
  <2> QED
    BY <1>1, <1>2, <1>3, <2>1, RaisedStill DEF Alerted
<1>10. CASE ReadClock
  <2>1. watch = "clock" /\ watch' = "look" /\ alerts' = FALSE /\ UNCHANGED <<health, missed, inboxVars>>
    BY <1>10 DEF ReadClock
  <2> QED
    BY <1>1, <1>2, <1>3, <2>1, RaisedStill DEF Alerted
<1>11. ASSUME NEW a \in Agents, Look(a) PROVE TellInv'
  <2>1. watch = "look" /\ UNCHANGED <<health, missed>>
    BY <1>11 DEF Look
  <2>2. CASE watch' = "2" /\ UNCHANGED inboxVars
    BY <1>1, <1>2, <2>2, RaisedStill DEF Alerted
  <2>3. CASE UNCHANGED <<watch, alerts, inboxVars>>
    BY <1>4, <2>1, <2>3
  <2>4. CASE /\ watch' = "raising"
             /\ Raise("runner", <<IF states[a] = "failed" THEN "agent-killed" ELSE "agent-stalled", a>>)
    <3>1. <<IF states[a] = "failed" THEN "agent-killed" ELSE "agent-stalled", a>> \in Items
      BY WatchdogAssumption DEF WatchItems
    <3>2. RaisedInv' /\ adding'["runner"].at = "read"
      BY <1>1, <2>4, <3>1, RunnerWrites, RaiseKeeps
    <3> QED
      BY <1>2, <1>3, <2>1, <2>4, <3>2 DEF Alerted
  <2> QED
    BY <1>11, <2>2, <2>3, <2>4 DEF Look, Exits
<1>12. CASE Age
  <2>1. watch = "look" /\ missed' = missed /\ UNCHANGED inboxVars /\ watch' \in {"0", "1", "2", "sleep"}
    BY <1>12 DEF Age
  <2>2. watch' = "1" => alerts \/ health # 0
    BY <1>12 DEF Age
  <2> QED
    BY <1>1, <1>2, <1>3, <2>1, <2>2, RaisedStill DEF Alerted
<1> QED
  BY <1>1, <1>5, <1>6, <1>7, <1>8, <1>9, <1>10, <1>11, <1>12 DEF WatchStep

LEMMA ParkTells == ASSUME TellInv, InPark(ParkStep) PROVE TellInv'
<1>1. /\ active = "park" /\ active' = active /\ ParkStep /\ UNCHANGED <<loopVars, watchVars>>
      /\ loop = "off" /\ watch = "sleep" /\ RaisedInv /\ place \in Nat \ {0}
  BY DEF InPark, TellInv, CallerInv
<1>2. ASSUME RaisedInv', place' \in Nat \ {0} PROVE TellInv'
  BY <1>1, <1>2 DEF TellInv, CallerInv, Alerted, loopVars, watchVars, pollVars
<1>3. CASE LookAt
  <2>1. place' \in Nat \ {0}
    BY <1>1, <1>3 DEF LookAt, EndPoll, NextFile
  <2>2. CASE UNCHANGED inboxVars
    BY <1>1, <1>2, <2>1, <2>2, RaisedStill
  <2>3. ASSUME NEW kind \in {"wake-expired", "wake-ready"}, place <= Len(Waits), Raise("runner", <<kind, Here>>)
        PROVE  TellInv'
    <3>1. place \in DOMAIN Waits
      BY <1>1, <2>3, ParkingAssumption
    <3>2. <<kind, Here>> \in Items
      BY <2>3, <3>1, ParkingAssumption DEF Here, Parks
    <3> QED
      BY <1>1, <1>2, <2>1, <2>3, <3>2, RunnerWrites, RaiseKeeps
  <2> QED
    BY <1>3, <2>2, <2>3 DEF LookAt
<1>4. CASE PollRaised
  <2>1. place' \in Nat \ {0}
    BY <1>1, <1>4 DEF PollRaised, NextFile
  <2>2. open' = open /\ adding' = [adding EXCEPT !["runner"] = NoAdd] /\ shown' = [shown EXCEPT !["runner"] = FALSE]
    BY <1>4 DEF PollRaised, Returned
  <2>3. InboxTyped /\ NoItem \notin open
    BY <1>1, InboxAssumption DEF RaisedInv, InboxTyped
  <2>4. InboxTyped'
    BY <2>2, <2>3 DEF InboxTyped, NoAdd
  <2>5. ASSUME NEW v \in Writers
        PROVE  /\ adding'[v].at # "none" => adding'[v].id \in Items
               /\ adding'[v].id \in open' \/ adding'[v].at = "done" => shown'[v]
    <3>1. CASE v = "runner"
      <4>1. adding'[v] = NoAdd
        BY <2>2, <2>3, <3>1 DEF InboxTyped
      <4> QED
        BY <2>2, <2>3, <4>1 DEF NoAdd
    <3>2. CASE v # "runner"
      <4>1. adding'[v] = adding[v]
        BY <2>2, <2>3, <3>2 DEF InboxTyped
      <4>2. shown'[v] = shown[v]
        BY <2>2, <2>3, <3>2 DEF InboxTyped
      <4>3. /\ adding[v].at # "none" => adding[v].id \in Items
            /\ adding[v].id \in open \/ adding[v].at = "done" => shown[v]
        BY <1>1, Zenon DEF RaisedInv
      <4>4. adding'[v].at # "none" => adding'[v].id \in Items
        BY <4>1, <4>3, Zenon
      <4>5. adding'[v].id \in open' \/ adding'[v].at = "done" => shown'[v]
        <5>1. ASSUME adding'[v].id \in open' \/ adding'[v].at = "done" PROVE shown'[v]
          <6>1. adding[v].id \in open \/ adding[v].at = "done"
            BY <5>1, <2>2, <4>1
          <6>2. shown[v]
            BY <6>1, <4>3, Zenon
          <6> QED
            BY <6>2, <4>2, Zenon
        <5> QED
          BY <5>1
      <4> QED
        BY <4>4, <4>5
    <3> QED
      BY <3>1, <3>2
  <2> QED
    BY <1>2, <2>1, <2>4, <2>5 DEF RaisedInv
<1>5. CASE StartPoll \/ Reread \/ PollEmpties \/ PollFills \/ PollerDies
  <2>1. place' \in Nat \ {0} /\ UNCHANGED inboxVars
    BY <1>1, <1>5 DEF StartPoll, Reread, PollEmpties, PollFills, PollerDies, NextFile, EndPoll
  <2> QED
    BY <1>1, <1>2, <2>1, RaisedStill
<1>6. CASE RecordBlocked \/ Recording \/ RecorderDies \/ \E w \in Parks : Changes(w) \/ Due(w)
  <2>1. place' = place /\ UNCHANGED inboxVars
    BY <1>6 DEF RecordBlocked, Recording, RecordEmpties, RecordFills, RecorderDies, recorderKeeps, Changes, Due
  <2> QED
    BY <1>1, <1>2, <2>1, RaisedStill
<1> QED
  BY <1>1, <1>3, <1>4, <1>5, <1>6 DEF ParkStep, Polling

LEMMA OthersTell ==
  ASSUME TellInv, UNCHANGED <<inboxVars, loopVars, watchVars, parkVars, active>>
  PROVE  TellInv'
<1>1. RaisedInv' /\ adding' = adding
  BY RaisedStill DEF TellInv
<1> QED
  BY <1>1, CallerHears DEF TellInv, parkVars

LEMMA TellKeeps == TellInv /\ [Next]_vars => TellInv'
<1> SUFFICES ASSUME TellInv, [Next]_vars PROVE TellInv'
  OBVIOUS
<1>1. CASE InRecall(RecallStep) \/ InBaseline(BaselineStep) \/ InCompact(CompactStep) \/ UNCHANGED vars
  <2>1. UNCHANGED <<inboxVars, loopVars, watchVars, parkVars, active>>
    BY <1>1 DEF InRecall, InBaseline, InCompact, vars
  <2> QED
    BY <2>1, OthersTell
<1> QED
  BY <1>1, InboxTells, LoopTells, WatchTells, ParkTells DEF Next

LEMMA TellBegins == Init => TellInv
<1> SUFFICES ASSUME Init PROVE TellInv
  OBVIOUS
<1>1. open = {} /\ adding = [w \in Writers |-> NoAdd] /\ shown = [w \in Writers |-> FALSE]
  BY DEF Init, InboxInit
<1>2. RaisedInv
  BY <1>1 DEF RaisedInv, InboxTyped, NoAdd
<1>3. loop = "off" /\ stopKind = BudgetItem /\ watch = "sleep" /\ ~missed /\ place = 1
  BY DEF Init, LoopInit, LoopAbsent, LoopIdle, WatchInit, ParkInit, ParkAbsent, ParkIdle
<1> QED
  BY <1>2, <1>3, LoopAssumption DEF TellInv, CallerInv, Alerted

\* Whoever else raises and resolves the same items meanwhile: an item whose raiser was not
\* told that the inbox failed was open since, and neither the loop that gives up nor the
\* observer that leaves over an alert does so silently.
THEOREM NothingSilent == Spec => []NothingIsSilent
<1>1. TellInv => NothingIsSilent
  <2> SUFFICES ASSUME TellInv PROVE NothingIsSilent
    OBVIOUS
  <2>1. \A w \in Writers : adding[w].at = "done" => shown[w]
    BY DEF TellInv, RaisedInv
  <2>2. GiveUpIsTold
    <3> SUFFICES ASSUME loop = "gaveup" PROVE Told("runner", stopKind) \/ NotTold("runner", stopKind)
      BY DEF GiveUpIsTold
    <3>1. adding["runner"].id = stopKind /\ adding["runner"].at \in {"done", "failed"}
      BY DEF TellInv, CallerInv
    <3>2. adding["runner"] = [id |-> adding["runner"].id, at |-> adding["runner"].at]
      BY RunnerWrites DEF TellInv, RaisedInv, InboxTyped
    <3> QED
      BY <2>1, <3>1, <3>2, RunnerWrites DEF Told, NotTold
  <2>3. AlertIsTold
    <3> SUFFICES ASSUME watch = "1" PROVE ~missed /\ shown["runner"] /\ adding["runner"].at = "done"
      BY DEF AlertIsTold
    <3> QED
      BY <2>1, RunnerWrites DEF TellInv, CallerInv, Alerted
  <2> QED
    BY <2>1, <2>2, <2>3 DEF NothingIsSilent
<1>2. TellInv /\ [Next]_vars => TellInv'
  BY TellKeeps
<1> QED
  BY <1>1, <1>2, TellBegins, PTL DEF Spec
=============================================================================
