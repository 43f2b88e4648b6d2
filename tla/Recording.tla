----------------------------- MODULE Recording -----------------------------
(***************************************************************************)
(* What record-run.py makes of a campaign that says it is COMPLETE: the    *)
(* verdicts in its results, the executions its declared verifications cite *)
(* (attest.verify_claims over attest.jsonl and the records of the gate     *)
(* runs), and the outcome the Evidence row gets.                           *)
(*                                                                         *)
(* One gate.  Its executions start and end while the campaign runs and     *)
(* while it is recorded; the log is read once, the records of the runs at  *)
(* every citation.  The claims are the executors' own: any id, any exit    *)
(* code, any commit.                                                       *)
(***************************************************************************)
EXTENDS Naturals, Sequences, FiniteSets

CONSTANTS Runs,      \* executions of the gate
          NoRun,     \* no attestId
          Forged,    \* an attestId no row has
          Commits,
          Declared   \* the nodes in the order of their results: "prove" or "cites"
ASSUME RecordingAssumption ==
  /\ NoRun \notin Runs /\ Forged \notin Runs
  /\ "dirty" \notin Commits /\ Declared \in Seq({"prove", "cites"})

\* started before this run's launch, or under another run's nonce; under none;
\* under this run's
Origins == {"other", "none", "mine"}
\* A run that broke off stays "running".
States == {"off", "running", "green", "red", "cancelled"}
\* BLOCKED is BLOCKED-REDTEAM or BLOCKED-PROOF.
Outcomes == {"COMPLETE", "INCOMPLETE", "UNKNOWN", "HALTED", "BLOCKED", "TAMPERED-EXECUTION",
             "REFUSED-REPLAY"}
Clean == {"COMPLETE", "UNKNOWN"}

VARIABLES
  exec,     \* execution -> its record: origin, content, state, and the crash its pair closes
  at,       \* the recorder
  outcome,  \* outcome
  known,    \* rows: the executions the log held when it was read
  next,     \* the declared node to be checked
  backing,  \* the executions that verified nodes rest on
  objection, \* the worst that the checks found
  row       \* the outcome in the Evidence row, "none" without one

recorder == <<at, outcome, known, next, backing, objection, row>>
recordVars == <<exec, at, outcome, known, next, backing, objection, row>>

NoExec == [origin |-> "other", content |-> "dirty", state |-> "off", closes |-> NoRun]

RecordTypeOK ==
  /\ exec \in [Runs -> [origin : Origins, content : Commits \cup {"dirty"}, state : States,
                        closes : Runs \cup {NoRun}]]
  /\ at \in {"campaign", "derive", "read", "check", "file", "over"}
  /\ outcome \in Outcomes /\ row \in Outcomes \cup {"none"}
  /\ known \subseteq Runs /\ next \in 1 .. Len(Declared) + 1
  /\ backing \subseteq Runs
  /\ objection \in {"none", "incomplete", "tampered"}

RecordInit ==
  /\ exec = [i \in Runs |-> NoExec] /\ at = "campaign" /\ outcome = "UNKNOWN"
  /\ known = {} /\ next = 1 /\ backing = {}
  /\ objection = "none" /\ row = "none"

(***************************************************************************)
(* Executions of the gate: a record first, a row when it ends.  A green    *)
(* one that was cancelled leaves no row.  Nothing looks at them between    *)
(* the end of the campaign and the reading of the log, nor after the last  *)
(* check, so there they stand still; nor at the tree of one out of scope.  *)
(***************************************************************************)
Ended(i) == exec[i].state \in {"green", "red", "cancelled"}

Start(i) ==
  /\ exec[i].state = "off" /\ at = "campaign"
  /\ \E o \in Origins, c \in Commits \cup {"dirty"} :
       /\ o # "mine" => (o = "other" <=> c = "dirty")
       /\ exec' = [exec EXCEPT ![i] = [origin |-> o, content |-> c, state |-> "running",
                                      closes |-> NoRun]]
  /\ UNCHANGED recorder

End(i) ==
  /\ exec[i].state = "running" /\ at \in {"campaign", "check"}
  /\ \/ \E s \in {"green", "red", "cancelled"} : exec' = [exec EXCEPT ![i].state = s]
     \/ exec' = [exec EXCEPT ![i] = NoExec]
  /\ UNCHANGED recorder

\* The one rerun pair of a crash on a clean tree came back green (FaultPairs).
Pair(i, j) ==
  /\ exec[i].state = "off" /\ at = "campaign"
  /\ exec[j].state = "red" /\ exec[j].origin = "mine" /\ exec[j].content \in Commits
  /\ \A k \in Runs : exec[k].closes # j
  /\ exec' = [exec EXCEPT ![i] = [exec[j] EXCEPT !.state = "green", !.closes = j]]
  /\ UNCHANGED recorder

(***************************************************************************)
(* The recorder.                                                           *)
(***************************************************************************)
Goto(a) == at' = a

\* The summary of the campaign; one that carries no outcome is UNKNOWN.
Summarise ==
  /\ at = "campaign" /\ Goto("derive")
  /\ outcome' \in {"COMPLETE", "INCOMPLETE", "UNKNOWN", "HALTED"}
  /\ UNCHANGED <<exec, known, next, backing, objection, row>>

\* derive: a blocking or incoherent red team, a SHIP nobody recorded or a weakened
\* proof audit; an audit without a checker, or a repaired packet's own check.
Blocked(o) == IF o \in Clean \cup {"INCOMPLETE"} THEN "BLOCKED" ELSE o
Incomplete(o) == IF o \in Clean THEN "INCOMPLETE" ELSE o

Derive ==
  /\ at = "derive" /\ Goto("read")
  /\ outcome' \in {outcome, Blocked(outcome), Incomplete(outcome)}
  /\ UNCHANGED <<exec, known, next, backing, objection, row>>

\* verify_claims reads the log; a refused manifest leaves nothing to check with.
ReadLog ==
  /\ at = "read"
  /\ \/ known' = {i \in Runs : Ended(i)} /\ Goto("check") /\ UNCHANGED outcome
     \/ outcome' = Incomplete(outcome) /\ Goto("file") /\ UNCHANGED known
  /\ UNCHANGED <<exec, next, backing, objection, row>>

InScope(i, cited) ==
  /\ exec[i].state # "off" /\ exec[i].origin \in {"mine", "none"}
  /\ exec[i].content = exec[cited].content

Red(i) == exec[i].state \in {"red", "cancelled"}
Pairs(cited) == {i \in known : InScope(i, cited) /\ exec[i].closes # NoRun}
Closed(cited) == {exec[i].closes : i \in Pairs(cited)}

\* Variant: only the rows count, not the records of runs that have left none yet.
UnclosedRows(cited) == {i \in known : InScope(i, cited) /\ Red(i)} \ Closed(cited)
\* Red rows no pair closed, runs without a verdict, red ones the log does not show.
Unclosed(cited) ==
  ({i \in known : InScope(i, cited) /\ Red(i)} \ Closed(cited))
    \cup {i \in Runs : InScope(i, cited) /\ (exec[i].state = "running" \/ (Red(i) /\ i \notin known))}

\* What a citation rests on: with the row, every pair that settled its tree, and
\* the crashes these pairs settled.
Support(cited) == {cited} \cup Pairs(cited) \cup Closed(cited)

\* _check_cited, for one claim: the first objection.
Status(cited, exit, sha) ==
  IF exit = "none" THEN "MISMATCH"
  ELSE IF cited = NoRun THEN "UNATTESTED"
  ELSE IF cited \notin known \/ (exit = "green") # (exec[cited].state = "green") THEN "MISMATCH"
  ELSE IF exec[cited].origin # "mine" \/ exec[cited].content = "dirty" THEN "STALE"
  ELSE IF exec[cited].content # sha THEN "MISMATCH"
  ELSE IF exec[cited].state = "cancelled" THEN "STALE"
  ELSE IF exit = "green" /\ Unclosed(cited) # {} THEN "SUPERSEDED-RED"
  ELSE IF Support(cited) \cap backing # {} THEN "STALE"
  ELSE "ATTESTED"

\* What a status, or a claimed exit that is not 0, does to the outcome.
Objects(status, exit) ==
  IF status \in {"MISMATCH", "SUPERSEDED-RED"} \/ objection = "tampered" THEN "tampered"
  ELSE IF status \in {"STALE", "UNATTESTED"} \/ exit = "red" THEN "incomplete"
  ELSE objection

Filed(status, cited, exit) ==
  [objection |-> Objects(status, exit),
   backing |-> IF status = "ATTESTED" THEN backing \cup Support(cited) ELSE backing]

\* What an executor may claim: any id, exit code and commit.
Claims == (Runs \cup {NoRun, Forged}) \X {"green", "red", "none"} \X (Commits \cup {Forged})

\* A prove: node without a result is not checked at all, but then its campaign
\* noted UNPROVEN; a cited step without one contradicts the declaration.
Check ==
  /\ at = "check" /\ next <= Len(Declared) /\ next' = next + 1
  /\ \/ \E f \in {Filed(Status(c[1], c[2], c[3]), c[1], c[2]) : c \in Claims} :
          objection' = f.objection /\ backing' = f.backing
     \/ /\ Declared[next] = "cites"
        /\ objection' = Objects("MISMATCH", "none") /\ UNCHANGED backing
     \/ /\ Declared[next] = "prove" /\ outcome # "COMPLETE"
        /\ UNCHANGED <<objection, backing>>
  /\ UNCHANGED <<exec, at, outcome, known, row>>

\* The outcome after the checks, or after the cross-check threw.  The locals of
\* verify_claims are gone.
Checked(o) ==
  CASE objection = "tampered" -> "TAMPERED-EXECUTION"
    [] objection = "incomplete" -> Incomplete(o)
    [] objection = "none" -> o

Forget ==
  known' = {} /\ next' = 1 /\ backing' = {} /\ objection' = "none"

Judge ==
  /\ at = "check" /\ next > Len(Declared) /\ Goto("file")
  /\ outcome' = Checked(outcome)
  /\ Forget /\ UNCHANGED <<exec, row>>

Throw ==
  /\ at = "check" /\ Goto("file") /\ outcome' = "INCOMPLETE"
  /\ Forget /\ UNCHANGED <<exec, row>>

\* Replays refuse the row, unbound commands and unproven repairs make it INCOMPLETE.
Replayed(o) == {o, "REFUSED-REPLAY", Incomplete(o)}

\* The artifact, then the row; either may fail, and a refused run gets no row.
AppendRow ==
  /\ at = "file" /\ Goto("over")
  /\ outcome' \in Replayed(outcome)
  /\ row' \in {"none"} \cup ({outcome'} \ {"REFUSED-REPLAY"})
  /\ UNCHANGED <<exec, known, next, backing, objection>>

Gate == \E i \in Runs : Start(i) \/ End(i) \/ \E j \in Runs : Pair(i, j)
Recorder == Summarise \/ Derive \/ ReadLog \/ Check \/ Judge \/ Throw \/ AppendRow
RecordStep == Gate \/ Recorder

(***************************************************************************)
(* Properties.                                                             *)
(***************************************************************************)
Settled(j) == \E i \in Runs : exec[i].state = "green" /\ exec[i].closes = j

\* A clean green execution of this run, on a tree where no execution of the run
\* that had begun before the checks came back red and stayed unsettled.
Proof(i) ==
  /\ exec[i].state = "green" /\ exec[i].origin = "mine" /\ exec[i].content \in Commits
  /\ \A j \in Runs : InScope(j, i) /\ Red(j) => Settled(j)

\* "one execution cannot verify two nodes", "a later pass never erases a red
\* attempt": a run is filed COMPLETE only if each declared verification has an
\* execution of its own to stand on, whatever ids the executors cite and whatever
\* runs end while their citations are checked.
CompleteIsProven ==
  row = "COMPLETE" =>
    \E proof \in [DOMAIN Declared -> Runs] :
      /\ \A k \in DOMAIN Declared : Proof(proof[k])
      /\ \A k, l \in DOMAIN Declared : proof[k] = proof[l] => k = l
=============================================================================
