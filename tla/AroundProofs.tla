---------------------------- MODULE AroundProofs ----------------------------
(* Theorems about what stands around a campaign: for every set of executions *)
(* of the gate, every list of declared verifications, every number of        *)
(* searchers and every set of commits on a forge.                            *)
EXTENDS Around, FiniteSetTheorems, WellFoundedInduction, TLAPS

(***************************************************************************)
(* Recording: a run is filed COMPLETE                                      *)
(***************************************************************************)
\* An execution that closes a crash is green.
ClosesInv == \A i \in Runs : exec[i].closes # NoRun => exec[i].state = "green"

\* A proof that nothing which still runs can take away.
Firm(i) == Proof(i) /\ \A j \in Runs : InScope(j, i) => exec[j].state # "running"

\* The first n declared verifications have a firm execution each, out of the given ones.
StandOn(n, given) ==
  \E proof \in [1 .. n -> Runs] :
    /\ \A k \in 1 .. n : Firm(proof[k]) /\ proof[k] \in given
    /\ \A k, l \in 1 .. n : proof[k] = proof[l] => k = l

\* While the checks have no objection, a COMPLETE run stands on what they have found so
\* far; once they are over, on one execution for every declared verification.
RecordInv ==
  /\ RecordTypeOK
  /\ ClosesInv
  /\ at \in {"campaign", "derive", "read"} => next = 1 /\ backing = {} /\ objection = "none"
  /\ at = "check" /\ outcome = "COMPLETE" /\ objection = "none" => StandOn(next - 1, backing)
  /\ at \in {"file", "over"} /\ outcome = "COMPLETE" => StandOn(Len(Declared), Runs)
  /\ row = "COMPLETE" => at = "over" /\ outcome = "COMPLETE"

LEMMA DeclaredType == Len(Declared) \in Nat /\ DOMAIN Declared = 1 .. Len(Declared)
  BY RecordingAssumption

\* What was firm stays firm while other executions end.
LEMMA EndKeepsFirm ==
  ASSUME RecordTypeOK, ClosesInv, NEW i \in Runs, End(i), NEW k \in Runs, Firm(k)
  PROVE  Firm(k)'
<1>1. /\ exec[i].state = "running" /\ \A j \in Runs \ {i} : exec'[j] = exec[j]
      /\ \/ exec'[i].state = "off"
         \/ exec'[i].origin = exec[i].origin /\ exec'[i].content = exec[i].content
      /\ exec'[i].state # "running"
  BY DEF End, RecordTypeOK, NoExec
<1>2. k # i /\ exec'[k] = exec[k] /\ ~InScope(i, k)
  BY <1>1 DEF Firm, Proof
<1>3. ~InScope(i, k)'
  BY <1>1, <1>2 DEF InScope
<1>4. ASSUME NEW j \in Runs, InScope(j, k)' PROVE exec'[j] = exec[j] /\ InScope(j, k)
  BY <1>1, <1>2, <1>3, <1>4 DEF InScope
<1>5. ASSUME NEW j \in Runs, Settled(j) PROVE Settled(j)'
  BY <1>1, <1>5 DEF Settled
<1> QED
  BY <1>2, <1>4, <1>5 DEF Firm, Proof, Red

\* A check that objects to nothing has found a firm execution that backs no other node.
LEMMA AttestedIsFirm ==
  ASSUME RecordTypeOK, ClosesInv,
         NEW c \in Runs \cup {NoRun, Forged}, NEW e \in {"green", "red", "none"}, NEW sha,
         Objects(Status(c, e, sha), e) = "none"
  PROVE  /\ objection = "none" /\ Status(c, e, sha) = "ATTESTED"
         /\ c \in Runs /\ Firm(c) /\ c \notin backing
<1>1. objection = "none" /\ e # "red"
  BY DEF Objects, RecordTypeOK
<1>2. Status(c, e, sha) \notin {"MISMATCH", "SUPERSEDED-RED", "STALE", "UNATTESTED"}
  BY DEF Objects
<1>3. /\ e = "green" /\ c \in known /\ exec[c].state = "green" /\ exec[c].origin = "mine"
      /\ exec[c].content # "dirty" /\ Unclosed(c) = {} /\ Support(c) \cap backing = {}
      /\ Status(c, e, sha) = "ATTESTED"
  BY <1>1, <1>2, Zenon DEF Status
<1>4. c \in Runs /\ exec[c].content \in Commits /\ c \notin backing
  BY <1>3 DEF RecordTypeOK, Support
<1>5. ASSUME NEW j \in Runs, InScope(j, c)
      PROVE  exec[j].state # "running" /\ (Red(j) => Settled(j))
  <2>1. exec[j].state # "running" /\ (Red(j) => j \in known)
    BY <1>3, <1>5 DEF Unclosed
  <2>2. Red(j) => j \in Closed(c)
    BY <1>3, <1>5, <2>1 DEF Unclosed
  <2>3. j \in Closed(c) => Settled(j)
    BY DEF Closed, Pairs, Settled, ClosesInv, RecordTypeOK
  <2> QED
    BY <2>1, <2>2, <2>3
<1> QED
  BY <1>1, <1>3, <1>4, <1>5 DEF Firm, Proof

LEMMA GateRecord ==
  ASSUME RecordInv, NEW i \in Runs, Start(i) \/ End(i) \/ \E j \in Runs : Pair(i, j)
  PROVE  RecordInv'
<1>1. /\ UNCHANGED recorder
      /\ at # "campaign" => End(i)
      /\ RecordTypeOK' /\ ClosesInv'
  <2> USE DEF RecordInv, RecordTypeOK, ClosesInv, recorder, States, Origins
  <2>1. CASE Start(i)
    <3>1. PICK o \in Origins, c \in Commits \cup {"dirty"} :
            exec' = [exec EXCEPT ![i] = [origin |-> o, content |-> c, state |-> "running", closes |-> NoRun]]
      BY <2>1 DEF Start
    <3>2. at = "campaign" /\ UNCHANGED recorder
      BY <2>1, Zenon DEF Start
    <3> QED
      BY <3>1, <3>2
  <2>2. CASE End(i)
    BY <2>2 DEF End, NoExec
  <2>3. CASE \E j \in Runs : Pair(i, j)
    <3>1. PICK j \in Runs : Pair(i, j)
      BY <2>3
    <3> DEFINE e == [exec[j] EXCEPT !.state = "green", !.closes = j]
    <3>2. exec' = [exec EXCEPT ![i] = e] /\ at = "campaign" /\ UNCHANGED recorder
      BY <3>1, Zenon DEF Pair
    <3>3. e \in [origin : Origins, content : Commits \cup {"dirty"}, state : States,
                 closes : Runs \cup {NoRun}] /\ e.state = "green"
      OBVIOUS
    <3> HIDE DEF e
    <3> QED
      BY <3>2, <3>3
  <2> QED
    BY <2>1, <2>2, <2>3
<1>2. CASE at = "campaign"
  BY <1>1, <1>2 DEF RecordInv, recorder
<1>3. CASE at # "campaign"
  <2>1. ASSUME NEW n, NEW given, StandOn(n, given) PROVE StandOn(n, given)'
    BY <1>1, <1>3, <2>1, EndKeepsFirm DEF StandOn, RecordInv
  <2> QED
    BY <1>1, <1>3, <2>1 DEF RecordInv, recorder
<1> QED
  BY <1>2, <1>3

LEMMA CheckRecord ==
  ASSUME RecordInv, Check
  PROVE  RecordInv'
<1>1. next \in Nat /\ next <= Len(Declared) /\ next' = next + 1 /\ at = "check"
  BY DeclaredType DEF Check, RecordInv, RecordTypeOK
<1>2. UNCHANGED <<exec, at, outcome, known, row>>
  BY DEF Check
<1>3. CASE \E f \in {Filed(Status(c[1], c[2], c[3]), c[1], c[2]) : c \in Claims} :
             objection' = f.objection /\ backing' = f.backing
  <2>1. PICK c \in Runs \cup {NoRun, Forged}, e \in {"green", "red", "none"}, sha \in Commits \cup {Forged} :
          /\ objection' = Objects(Status(c, e, sha), e)
          /\ backing' = IF Status(c, e, sha) = "ATTESTED" THEN backing \cup Support(c) ELSE backing
    <3>1. PICK c \in Claims : /\ objection' = Filed(Status(c[1], c[2], c[3]), c[1], c[2]).objection
                              /\ backing' = Filed(Status(c[1], c[2], c[3]), c[1], c[2]).backing
      BY <1>3, Zenon
    <3>2. /\ c[1] \in Runs \cup {NoRun, Forged} /\ c[2] \in {"green", "red", "none"}
          /\ c[3] \in Commits \cup {Forged}
      BY ONLY c \in Claims DEF Claims
    <3>3. /\ objection' = Objects(Status(c[1], c[2], c[3]), c[2])
          /\ backing' = IF Status(c[1], c[2], c[3]) = "ATTESTED"
                        THEN backing \cup Support(c[1]) ELSE backing
      BY ONLY <3>1 DEF Filed
    <3> QED
      BY ONLY <3>2, <3>3
  <2>2. objection' \in {"none", "incomplete", "tampered"}
    BY <2>1 DEF Objects, RecordInv, RecordTypeOK
  <2>3. backing \subseteq backing' /\ backing' \subseteq Runs
    <3>1. Status(c, e, sha) = "ATTESTED" => c \in known
      BY Zenon DEF Status
    <3> QED
      BY <2>1, <3>1 DEF Support, Pairs, Closed, RecordInv, RecordTypeOK
  <2>4. ASSUME outcome = "COMPLETE", objection' = "none" PROVE StandOn(next, backing')
    <3>1. objection = "none" /\ c \in Runs /\ Firm(c) /\ c \notin backing /\ c \in backing'
      BY <2>1, <2>4, AttestedIsFirm DEF RecordInv, Support
    <3>2. PICK proof \in [1 .. next - 1 -> Runs] :
            /\ \A k \in 1 .. next - 1 : Firm(proof[k]) /\ proof[k] \in backing
            /\ \A k, l \in 1 .. next - 1 : proof[k] = proof[l] => k = l
      BY <1>1, <2>4, <3>1 DEF RecordInv, StandOn
    <3> DEFINE more == [k \in 1 .. next |-> IF k = next THEN c ELSE proof[k]]
    <3>3. ASSUME NEW k \in 1 .. next PROVE k = next \/ k \in 1 .. next - 1
      BY <1>1
    <3>4. more \in [1 .. next -> Runs]
      BY <3>1, <3>3
    <3>5. ASSUME NEW k \in 1 .. next PROVE Firm(more[k]) /\ more[k] \in backing'
      BY <2>3, <3>1, <3>2, <3>3
    <3>6. ASSUME NEW k \in 1 .. next, NEW l \in 1 .. next, more[k] = more[l] PROVE k = l
      BY <3>1, <3>2, <3>3, <3>6
    <3> HIDE DEF more
    <3> QED
      BY <3>4, <3>5, <3>6 DEF StandOn
  <2>5. StandOn(next, backing') => StandOn(next - 1, backing)'
    <3>1. ASSUME NEW k PROVE Firm(k)' <=> Firm(k)
      BY <1>2 DEF Firm, Proof, InScope, Red, Settled
    <3>2. next' - 1 = next
      BY <1>1
    <3> QED
      BY <3>1, <3>2, Zenon DEF StandOn
  <2> QED
    <3>1. RecordTypeOK' /\ ClosesInv'
      BY <1>1, <1>2, <2>2, <2>3, DeclaredType DEF RecordInv, RecordTypeOK, ClosesInv
    <3> QED
      BY <1>1, <1>2, <2>4, <2>5, <3>1 DEF RecordInv
<1>4. CASE objection' = Objects("MISMATCH", "none") /\ UNCHANGED backing
  <2>1. objection' = "tampered"
    BY <1>4 DEF Objects
  <2> QED
    BY <1>1, <1>2, <1>4, <2>1 DEF RecordInv, RecordTypeOK, ClosesInv
<1>5. CASE outcome # "COMPLETE" /\ UNCHANGED <<objection, backing>>
  BY <1>1, <1>2, <1>5 DEF RecordInv, RecordTypeOK, ClosesInv
<1> QED
  BY <1>3, <1>4, <1>5 DEF Check

LEMMA RecorderRecord ==
  ASSUME RecordInv, Recorder
  PROVE  RecordInv'
<1> USE DEF Goto
<1>1. CASE Check
  BY <1>1, CheckRecord
<1>2. ASSUME exec' = exec PROVE \A n, given : StandOn(n, given) <=> StandOn(n, given)'
  <2>1. ASSUME NEW k PROVE Firm(k)' <=> Firm(k)
    BY <1>2 DEF Firm, Proof, InScope, Red, Settled
  <2> QED
    BY <2>1, Zenon DEF StandOn
<1>3. {"COMPLETE", "INCOMPLETE", "UNKNOWN", "HALTED", "BLOCKED", "TAMPERED-EXECUTION", "REFUSED-REPLAY"}
        = Outcomes
  BY DEF Outcomes
<1>4. \A o \in Outcomes : Blocked(o) \in Outcomes /\ Incomplete(o) \in Outcomes \ {"COMPLETE"}
  BY DEF Outcomes, Blocked, Incomplete, Clean
<1> USE DeclaredType, <1>2, <1>3, <1>4 DEF RecordInv, RecordTypeOK, ClosesInv
<1>5. CASE Summarise
  BY <1>5 DEF Summarise
<1>6. CASE Derive
  BY <1>6 DEF Derive
<1>7. CASE ReadLog
  <2>1. CASE at' = "check"
    <3>1. StandOn(0, {})
      <4>1. [k \in 1 .. 0 |-> CHOOSE r \in Runs : TRUE] \in [1 .. 0 -> Runs]
        OBVIOUS
      <4>2. \A k \in 1 .. 0 : FALSE
        OBVIOUS
      <4> QED
        BY ONLY <4>1, <4>2 DEF StandOn
    <3>2. /\ known' \subseteq Runs /\ next = 1 /\ backing = {}
          /\ UNCHANGED <<exec, outcome, next, backing, objection, row>>
      BY <1>7, <2>1 DEF ReadLog
    <3>3. next' - 1 = 0 /\ backing' = {}
      BY <3>2
    <3>4. StandOn(next' - 1, backing')
      BY ONLY <3>1, <3>3, Zenon
    <3>5. StandOn(next - 1, backing)'
      BY <3>4, <3>2, Zenon DEF StandOn, Firm, Proof, InScope, Red, Settled
    <3> QED
      BY <1>7, <2>1, <3>2, <3>5 DEF ReadLog
  <2>2. CASE at' = "file"
    BY <1>7, <2>2 DEF ReadLog
  <2> QED
    BY <1>7, <2>1, <2>2 DEF ReadLog
<1>8. CASE Judge
  <2>1. outcome' \in Outcomes /\ (outcome' = "COMPLETE" => outcome = "COMPLETE" /\ objection = "none")
    BY <1>8 DEF Judge, Checked
  <2>2. next - 1 = Len(Declared)
    BY <1>8 DEF Judge
  <2>3. StandOn(next - 1, backing) => StandOn(Len(Declared), Runs)
    BY <2>2 DEF StandOn
  <2> QED
    BY <1>8, <2>1, <2>3 DEF Judge, Forget
<1>9. CASE Throw
  BY <1>9 DEF Throw, Forget
<1>10. CASE AppendRow
  BY <1>10 DEF AppendRow, Replayed
<1> QED
  BY <1>1, <1>5, <1>6, <1>7, <1>8, <1>9, <1>10 DEF Recorder

LEMMA RecordInitial == RecordInit => RecordInv
<1> SUFFICES ASSUME RecordInit PROVE RecordInv
  OBVIOUS
<1>1. next \in 1 .. Len(Declared) + 1
  BY DeclaredType DEF RecordInit
<1> QED
  BY <1>1 DEF RecordInit, NoExec, RecordInv, RecordTypeOK, ClosesInv, Origins, States, Outcomes

LEMMA RecordNext == RecordInv /\ [Next]_vars => RecordInv'
<1> SUFFICES ASSUME RecordInv, [Next]_vars PROVE RecordInv'
  OBVIOUS
<1>1. CASE UNCHANGED recordVars
  <2>1. ASSUME NEW n, NEW given PROVE StandOn(n, given)' <=> StandOn(n, given)
    <3>1. ASSUME NEW k PROVE Firm(k)' <=> Firm(k)
      BY <1>1 DEF recordVars, Firm, Proof, InScope, Red, Settled
    <3> QED
      BY <3>1, Zenon DEF StandOn
  <2> QED
    BY <1>1, <2>1 DEF recordVars, RecordInv, RecordTypeOK, ClosesInv
<1>2. CASE RecordStep
  <2>1. CASE Recorder
    BY <2>1, RecorderRecord
  <2>2. CASE Gate
    BY <2>2, GateRecord, Zenon DEF Gate
  <2> QED
    BY <1>2, <2>1, <2>2 DEF RecordStep
<1> QED
  BY <1>1, <1>2, Zenon DEF Next, InCompile, InForge, InRecord, InIndex, vars

\* A run is filed COMPLETE only if every declared verification has an execution of its own
\* that is green, of this run and on a clean tree without an unsettled red: whatever the
\* executors claim, for any number of executions that end while they are checked.
THEOREM CompleteProven == Spec => []CompleteIsProven
<1>1. Init => RecordInv
  BY RecordInitial DEF Init
<1>2. RecordInv /\ [Next]_vars => RecordInv'
  BY RecordNext
<1>3. RecordInv => CompleteIsProven
  <2> SUFFICES ASSUME RecordInv, row = "COMPLETE" PROVE StandOn(Len(Declared), Runs) => CompleteIsProven
    BY DEF RecordInv, CompleteIsProven
  <2> QED
    BY DeclaredType, Zenon DEF StandOn, Firm, CompleteIsProven
<1> QED
  BY <1>1, <1>2, <1>3, PTL DEF Spec

(***************************************************************************)
(* The recall index: what an answer rests on                               *)
(***************************************************************************)
Found == Generation \cup {Absent}
Task == [op : {"none", "build", "search", "hook"}, at : Steps, slot : Slots, seen : Found,
         fp : Versions, content : Versions, got : [Slots -> [graph : Found, lex : Found]],
         lags : BOOLEAN, again : BOOLEAN, since : [Slots -> Versions]]

IndexTyped ==
  /\ version \in [Slots -> Versions] /\ lock \in [Slots -> Searchers \cup {Nobody}]
  /\ files \in [Slots -> [graph : Found, lex : Found, meta : Found]]
  /\ task \in [Searchers -> Task]

Locked == {"fingerprint", "sources", "graph", "lex", "publish"}
Reads == {"readGraph", "readLex", "readMeta", "answer"}

\* Whoever builds a slot holds its lock.
LockInv ==
  \A s \in Slots, p \in Searchers : lock[s] = p <=> task[p].slot = s /\ task[p].at \in Locked

FilesOf(s) == {files[s].graph, files[s].lex, files[s].meta}

\* What a file holds was read after its fingerprint was taken.
FilesInv ==
  \A s \in Slots : \A f \in FilesOf(s) : f = Absent \/ (f.fp <= f.content /\ f.content <= version[s])

\* The graph on disk is of no earlier than the question of the task, and stays so.
Fresh(t, s) == files[s].graph # Absent /\ t.since[s] <= files[s].graph.content

\* A build began no earlier than its task, and all that is on disk is older than what it
\* writes: so contents only ever grow, and what was seen to be fresh remains fresh.
BuildInv(t) ==
  /\ t.at \in Locked \ {"fingerprint"} => t.since[t.slot] <= t.fp /\ t.fp <= version[t.slot]
  /\ t.at = "sources" => \A f \in FilesOf(t.slot) : f = Absent \/ f.content <= t.fp
  /\ t.at \in {"graph", "lex", "publish"} =>
       /\ t.fp <= t.content /\ t.content <= version[t.slot]
       /\ \A f \in FilesOf(t.slot) : f = Absent \/ f.content <= t.content
  /\ t.at \in {"lex", "publish"} => files[t.slot].graph = [fp |-> t.fp, content |-> t.content]

ReadInv(t) ==
  /\ t.slot = "notes" => t.lags \/ Fresh(t, "stores")
  /\ t.at \in Reads => t.lags \/ \A s \in Slots : Fresh(t, s)
  /\ t.at = "answer" => t.slot = "notes" /\ t.got["notes"].graph = t.got["notes"].lex
  /\ t.at \in Reads /\ t.slot = "notes" => t.got["stores"].graph = t.got["stores"].lex
  /\ \A s \in Slots : t.lags \/ t.got[s].graph = Absent \/ t.since[s] <= t.got[s].graph.content

TaskInv(t) == (\A s \in Slots : t.since[s] <= version[s]) /\ BuildInv(t) /\ ReadInv(t)

IndexInv == IndexTyped /\ LockInv /\ FilesInv /\ \A p \in Searchers : TaskInv(task[p])

\* The graph of a slot never becomes older.
Grown ==
  \A s \in Slots : files[s].graph # Absent =>
    files'[s].graph # Absent /\ files[s].graph.content <= files'[s].graph.content

\* What holds of a task goes on to hold while others change, build and read.
LEMMA TaskKept ==
  ASSUME IndexInv, IndexTyped', NEW q \in Searchers, task'[q] = task[q],
         \A s \in Slots : version[s] <= version'[s], Grown,
         task[q].at \in Locked => files'[task[q].slot] = files[task[q].slot]
  PROVE  TaskInv(task[q])'
<1> DEFINE t == task[q]
<1>1. /\ t \in Task /\ TaskInv(t) /\ task'[q] = t
      /\ \A s \in Slots : version[s] \in Nat /\ version'[s] \in Nat /\ version[s] <= version'[s]
      /\ \A s \in Slots : t.since[s] \in Nat
  BY DEF IndexInv, IndexTyped, Task, Versions
<1>2. ASSUME NEW s \in Slots PROVE files[s].graph # Absent => files[s].graph.content \in Nat /\ files'[s].graph.content \in Nat
  BY DEF IndexInv, IndexTyped, Found, Generation, Versions, Grown
<1>3. \A s \in Slots : Fresh(t, s) => (files'[s].graph # Absent /\ t.since[s] <= files'[s].graph.content)
  BY <1>1, <1>2 DEF Fresh, Grown
<1>4. t.fp \in Nat /\ t.content \in Nat /\ t.slot \in Slots
  BY <1>1 DEF Task, Versions
<1> HIDE DEF t
<1>5. \A s \in Slots : t.since[s] <= version'[s]
  BY <1>1 DEF TaskInv
<1>6. BuildInv(t) => BuildInv(task[q])'
  BY <1>1, <1>4 DEF BuildInv, Locked, FilesOf, t
<1>7. ReadInv(t) => ReadInv(task[q])'
  BY <1>1, <1>3 DEF ReadInv, Reads, Fresh, Slots
<1> QED
  BY <1>1, <1>5, <1>6, <1>7 DEF TaskInv

LEMMA TaskMoves ==
  ASSUME IndexInv, NEW p \in Searchers, NEW t \in Task, Does(p, t), TaskInv(t),
         version' = version, files' = files, lock' \in [Slots -> Searchers \cup {Nobody}], LockInv'
  PROVE  IndexInv'
<1>1. task'[p] = t /\ (\A q \in Searchers \ {p} : task'[q] = task[q]) /\ IndexTyped'
  BY DEF Does, IndexInv, IndexTyped
<1>2. \A s \in Slots : version[s] <= version'[s]
  BY DEF IndexInv, IndexTyped, Versions
<1>3. Grown
  BY DEF IndexInv, IndexTyped, FilesInv, FilesOf, Grown, Found, Generation, Versions
<1>4. ASSUME NEW q \in Searchers \ {p} PROVE TaskInv(task[q])'
  BY <1>1, <1>2, <1>3, TaskKept
<1>5. TaskInv(task[p])'
  BY <1>1 DEF TaskInv, BuildInv, ReadInv, Fresh, FilesOf
<1>6. FilesInv'
  BY DEF IndexInv, FilesInv, FilesOf
<1> QED
  BY <1>1, <1>4, <1>5, <1>6 DEF IndexInv

\* A step that neither takes nor frees a lock.
LEMMA TaskSteps ==
  ASSUME IndexInv, NEW p \in Searchers, NEW t \in Task, Does(p, t), TaskInv(t),
         UNCHANGED <<version, files, lock>>,
         t.at \in Locked <=> task[p].at \in Locked, t.at \in Locked => t.slot = task[p].slot
  PROVE  IndexInv'
<1>1. LockInv'
  BY DEF IndexInv, IndexTyped, LockInv, Does, Task
<1> QED
  BY <1>1, TaskMoves DEF IndexInv, IndexTyped

LEMMA SlotsHave == "stores" \in Slots /\ "notes" \in Slots /\ \A s \in Slots : s \in {"stores", "notes"}
  BY DEF Slots

LEMMA NoTaskType == NoTask \in Task /\ Absent \in Found /\ 0 \in Versions
  BY RecallIndexAssumption DEF NoTask, Task, Found, Versions, Steps, Slots

LEMMA BeginIndex == ASSUME IndexInv, NEW p \in Searchers, Begin(p) PROVE IndexInv'
<1>1. PICK op \in {"build", "search", "hook"} :
        Does(p, IF op = "build" THEN [NoTask EXCEPT !.op = op, !.at = "lock"]
                ELSE [NoTask EXCEPT !.op = op, !.since = version, !.at = "meta"])
  BY DEF Begin
<1> DEFINE t == IF op = "build" THEN [NoTask EXCEPT !.op = op, !.at = "lock"]
                ELSE [NoTask EXCEPT !.op = op, !.since = version, !.at = "meta"]
<1>2. t \in Task
  BY NoTaskType DEF Task, Steps, IndexInv, IndexTyped
<1>3. t.slot = "stores" /\ t.at \in {"lock", "meta"} /\ \A s \in Slots : t.got[s].graph = Absent
  BY DEF NoTask
<1>4. \A s \in Slots : t.since[s] <= version[s]
  BY DEF NoTask, IndexInv, IndexTyped, Versions
<1>5. TaskInv(t)
  BY <1>3, <1>4 DEF TaskInv, BuildInv, ReadInv, Locked, Reads
<1> HIDE DEF t
<1>6. Does(p, t)
  BY <1>1 DEF t
<1> QED
  BY <1>2, <1>3, <1>5, <1>6, TaskSteps DEF Begin, At, Locked

LEMMA ReadMetaFileIndex == ASSUME IndexInv, NEW p \in Searchers, ReadMetaFile(p) PROVE IndexInv'
<1> DEFINE t == [task[p] EXCEPT !.seen = files[task[p].slot].meta, !.at = "compare"]
<1>1. task[p] \in Task /\ TaskInv(task[p]) /\ task[p].at = "meta"
  BY DEF IndexInv, IndexTyped, ReadMetaFile, At
<1>2. t \in Task
  BY <1>1 DEF Task, Steps, IndexInv, IndexTyped
<1>3. TaskInv(t)
  BY <1>1 DEF TaskInv, BuildInv, ReadInv, Fresh, Locked, Reads, Task
<1>4. t.at = "compare" /\ Does(p, t) /\ UNCHANGED <<version, files, lock>>
  BY <1>1 DEF ReadMetaFile, Task
<1> HIDE DEF t
<1> QED
  BY <1>1, <1>2, <1>3, <1>4, TaskSteps DEF Locked

\* A slot that is not stale holds a graph of what it is compiled from now.
LEMMA NotStale ==
  ASSUME IndexInv, NEW s \in Slots, NEW meta \in Found, ~Stale(s, meta)
  PROVE  files[s].graph # Absent /\ files[s].graph.content = version[s]
<1>1. version[s] \in Versions /\ meta.fp = version[s] /\ files[s].graph = meta
  BY DEF IndexInv, IndexTyped, Stale
<1>2. meta # Absent
  BY <1>1, RecallIndexAssumption DEF Absent, Versions
<1>3. meta \in Generation
  BY <1>2 DEF Found
<1>4. meta.fp <= meta.content /\ meta.content <= version[s]
  BY <1>1, <1>2 DEF IndexInv, FilesInv, FilesOf
<1> QED
  BY <1>1, <1>2, <1>3, <1>4 DEF Generation, Versions

LEMMA CompareIndex == ASSUME IndexInv, NEW p \in Searchers, Compare(p) PROVE IndexInv'
<1> DEFINE t == [task[p] EXCEPT !.seen = Absent]
           read == [t EXCEPT !.slot = "stores", !.at = "readGraph"]
<1>1. /\ task[p] \in Task /\ TaskInv(task[p]) /\ task[p].at = "compare"
      /\ UNCHANGED <<version, files, lock>>
  BY DEF IndexInv, IndexTyped, Compare, At
<1>2. t \in Task /\ t.slot = task[p].slot /\ t.since = task[p].since /\ t.got = task[p].got
      /\ t.lags = task[p].lags /\ t.op = task[p].op
  BY <1>1, NoTaskType DEF Task
<1>3. \A s \in Slots : t.since[s] \in Nat /\ version[s] \in Nat /\ t.since[s] <= version[s]
  BY <1>1, <1>2 DEF TaskInv, Task, IndexInv, IndexTyped, Versions
<1>4. ASSUME ~Stale(t.slot, task[p].seen) PROVE Fresh(t, t.slot)
  BY <1>1, <1>2, <1>3, <1>4, NotStale DEF Fresh, Task
<1>5. CASE Stale(t.slot, task[p].seen) /\ t.op = "search"
  <2> DEFINE u == [t EXCEPT !.slot = "stores", !.at = "lock"]
  <2>1. u \in Task /\ Does(p, u)
    BY <1>2, <1>5 DEF Compare, Task, Steps, Slots
  <2>2. TaskInv(u) /\ u.at = "lock"
    BY <1>1, <1>2 DEF TaskInv, BuildInv, ReadInv, Locked, Reads, Task
  <2> HIDE DEF u
  <2> QED
    BY <1>1, <2>1, <2>2, TaskSteps DEF Locked
<1>6. CASE Stale(t.slot, task[p].seen) /\ t.op # "search"
  <2> DEFINE u == [read EXCEPT !.lags = TRUE, !.since = NoTask.since]
  <2>1. u \in Task /\ Does(p, u)
    BY <1>2, <1>6, NoTaskType DEF Compare, Task, Steps, Slots
  <2>2. TaskInv(u) /\ u.at = "readGraph"
    BY <1>1, <1>2, <1>3 DEF TaskInv, BuildInv, ReadInv, Locked, Reads, Task, NoTask, Fresh
  <2> HIDE DEF u
  <2> QED
    BY <1>1, <2>1, <2>2, TaskSteps DEF Locked
<1>7. CASE ~Stale(t.slot, task[p].seen) /\ t.slot = "stores"
  <2> DEFINE u == [t EXCEPT !.slot = "notes", !.at = "meta"]
  <2>1. u \in Task /\ Does(p, u)
    BY <1>2, <1>7 DEF Compare, Task, Steps, Slots
  <2>2. TaskInv(u) /\ u.at = "meta"
    BY <1>1, <1>2, <1>4, <1>7 DEF TaskInv, BuildInv, ReadInv, Locked, Reads, Task, Fresh
  <2> HIDE DEF u
  <2> QED
    BY <1>1, <2>1, <2>2, TaskSteps DEF Locked
<1>8. CASE ~Stale(t.slot, task[p].seen) /\ t.slot # "stores"
  <2>1. read \in Task /\ Does(p, read)
    BY <1>2, <1>8 DEF Compare, Task, Steps, Slots
  <2>2. t.lags \/ \A s \in Slots : Fresh(t, s)
    BY <1>1, <1>2, <1>4, <1>8, SlotsHave DEF TaskInv, ReadInv, Fresh, Task
  <2>3. TaskInv(read) /\ read.at = "readGraph"
    BY <1>1, <1>2, <2>2 DEF TaskInv, BuildInv, ReadInv, Locked, Reads, Task, Fresh
  <2> HIDE DEF read
  <2> QED
    BY <1>1, <2>1, <2>3, TaskSteps DEF Locked
<1> QED
  BY <1>5, <1>6, <1>7, <1>8

LEMMA TakeLockIndex == ASSUME IndexInv, NEW p \in Searchers, TakeLock(p) PROVE IndexInv'
<1> DEFINE t == [task[p] EXCEPT !.at = "fingerprint"]
<1>1. /\ task[p] \in Task /\ TaskInv(task[p]) /\ task[p].at = "lock" /\ Does(p, t)
      /\ lock[task[p].slot] = Nobody /\ lock' = [lock EXCEPT ![task[p].slot] = p]
      /\ UNCHANGED <<version, files>>
  BY DEF IndexInv, IndexTyped, TakeLock, At, Move
<1>2. t \in Task /\ t.at = "fingerprint" /\ t.slot = task[p].slot
  BY <1>1 DEF Task, Steps
<1>3. TaskInv(t)
  BY <1>1 DEF TaskInv, BuildInv, ReadInv, Fresh, Locked, Reads, Task
<1> HIDE DEF t
<1>4. LockInv' /\ lock' \in [Slots -> Searchers \cup {Nobody}]
  BY <1>1, <1>2, RecallIndexAssumption DEF IndexInv, IndexTyped, LockInv, Does, Task, Locked
<1> QED
  BY <1>1, <1>2, <1>3, <1>4, TaskMoves

\* What a slot's builder goes on to when the lock is free again.
Onward(p) ==
  LET t == [task[p] EXCEPT !.fp = 0, !.content = 0]
  IN IF t.slot = "stores" THEN [t EXCEPT !.slot = "notes", !.at = "lock"]
     ELSE IF t.op = "build" THEN NoTask
     ELSE IF t.again THEN [t EXCEPT !.slot = "stores", !.op = "hook", !.at = "meta"]
     ELSE [t EXCEPT !.slot = "stores", !.at = "readGraph"]

LEMMA ReleaseMoves ==
  ASSUME NEW p \in Searchers, task[p] \in Task, Release(p)
  PROVE  /\ Does(p, Onward(p)) /\ lock' = [lock EXCEPT ![task[p].slot] = Nobody]
         /\ Onward(p) \in Task /\ Onward(p).at \in {"lock", "idle", "meta", "readGraph"}
         /\ Onward(p).slot = "notes" => task[p].slot = "stores" /\ Onward(p).at = "lock"
         /\ Onward(p).at = "readGraph" => task[p].slot = "notes"
         /\ \/ Onward(p) = NoTask
            \/ /\ Onward(p).since = task[p].since /\ Onward(p).got = task[p].got
               /\ Onward(p).lags = task[p].lags
<1> DEFINE t == [task[p] EXCEPT !.fp = 0, !.content = 0]
           second == [t EXCEPT !.slot = "notes", !.at = "lock"]
           ask == [t EXCEPT !.slot = "stores", !.op = "hook", !.at = "meta"]
           read == [t EXCEPT !.slot = "stores", !.at = "readGraph"]
<1>1. Does(p, Onward(p)) /\ lock' = [lock EXCEPT ![task[p].slot] = Nobody]
  BY DEF Release, Onward, Task
<1>2. t \in Task /\ t.since = task[p].since /\ t.got = task[p].got /\ t.lags = task[p].lags
      /\ t.slot = task[p].slot
  BY NoTaskType DEF Task
<1>3. /\ t.slot = "stores" => Onward(p) = second
      /\ t.slot # "stores" => t.slot = "notes" /\ Onward(p) \in {NoTask, ask, read}
  BY <1>2 DEF Onward, Task, Slots
<1> HIDE DEF t
<1>4. second \in Task /\ ask \in Task /\ read \in Task
  BY <1>2 DEF Task, Steps, Slots
<1>5. /\ second.since = t.since /\ second.got = t.got /\ second.lags = t.lags
      /\ second.slot = "notes" /\ second.at = "lock"
  BY <1>2 DEF Task
<1>6. /\ ask.since = t.since /\ ask.got = t.got /\ ask.lags = t.lags
      /\ ask.slot = "stores" /\ ask.at = "meta"
  BY <1>2 DEF Task
<1>7. /\ read.since = t.since /\ read.got = t.got /\ read.lags = t.lags
      /\ read.slot = "stores" /\ read.at = "readGraph"
  BY <1>2 DEF Task
<1>8. NoTask.at = "idle" /\ NoTask.slot = "stores"
  BY DEF NoTask
<1> HIDE DEF second, ask, read
<1> QED
  BY <1>1, <1>2, <1>3, <1>4, <1>5, <1>6, <1>7, <1>8, NoTaskType

\* Once its slot is fresh, the builder of a slot may go on.
LEMMA OnwardHolds ==
  ASSUME IndexInv, NEW p \in Searchers, Release(p), Fresh(task[p], task[p].slot)
  PROVE  TaskInv(Onward(p))
<1>1. task[p] \in Task /\ TaskInv(task[p])
  BY DEF IndexInv, IndexTyped
<1>2. CASE Onward(p) = NoTask
  BY <1>2, SlotsHave DEF TaskInv, BuildInv, ReadInv, Locked, Reads, NoTask, IndexInv, IndexTyped, Versions
<1>3. CASE Onward(p) # NoTask
  <2> DEFINE u == Onward(p)
  <2>1. /\ u.since = task[p].since /\ u.got = task[p].got /\ u.lags = task[p].lags
        /\ u.at \in {"lock", "idle", "meta", "readGraph"}
        /\ u.slot = "notes" => task[p].slot = "stores" /\ u.at = "lock"
        /\ u.at = "readGraph" => task[p].slot = "notes"
    BY <1>1, <1>3, ReleaseMoves
  <2> HIDE DEF u
  <2>2. \A s \in Slots : Fresh(u, s) <=> Fresh(task[p], s)
    BY <2>1 DEF Fresh
  <2>3. task[p].slot = "notes" => task[p].lags \/ \A s \in Slots : Fresh(task[p], s)
    BY <1>1, SlotsHave DEF TaskInv, ReadInv
  <2>4. BuildInv(u)
    BY <2>1 DEF BuildInv, Locked
  <2>5. /\ u.slot = "notes" => u.lags \/ Fresh(u, "stores")
        /\ u.at = "readGraph" => u.lags \/ \A s \in Slots : Fresh(u, s)
    BY <2>1, <2>2, <2>3, SlotsHave
  <2>6. ReadInv(u)
    BY <1>1, <2>1, <2>5 DEF TaskInv, ReadInv, Reads
  <2>7. TaskInv(u)
    BY <1>1, <2>1, <2>4, <2>6 DEF TaskInv
  <2> QED
    BY <2>7 DEF u
<1> QED
  BY <1>2, <1>3

LEMMA ReleaseLock ==
  ASSUME IndexInv, NEW p \in Searchers, Release(p), task[p].at \in Locked
  PROVE  LockInv' /\ lock' \in [Slots -> Searchers \cup {Nobody}]
<1>1. /\ task[p] \in Task /\ lock \in [Slots -> Searchers \cup {Nobody}]
      /\ task \in [Searchers -> Task] /\ LockInv
  BY DEF IndexInv, IndexTyped
<1>2. /\ Onward(p).at \notin Locked /\ task[p].slot \in Slots
      /\ task'[p] = Onward(p) /\ \A q \in Searchers \ {p} : task'[q] = task[q]
      /\ lock' = [lock EXCEPT ![task[p].slot] = Nobody]
  BY <1>1, ReleaseMoves DEF Locked, Does, Task
<1>3. lock[task[p].slot] = p
  BY <1>1, <1>2 DEF LockInv
<1>4. ASSUME NEW s \in Slots, NEW q \in Searchers
      PROVE  lock'[s] = q <=> task'[q].slot = s /\ task'[q].at \in Locked
  <2>1. CASE q = p
    BY <1>1, <1>2, <1>3, <2>1, RecallIndexAssumption DEF LockInv
  <2>2. CASE q # p
    BY <1>1, <1>2, <1>3, <2>2, RecallIndexAssumption DEF LockInv
  <2> QED
    BY <2>1, <2>2
<1>5. LockInv'
  BY <1>4 DEF LockInv
<1> QED
  BY <1>1, <1>2, <1>5

LEMMA FingerprintIndex == ASSUME IndexInv, NEW p \in Searchers, Fingerprint(p) PROVE IndexInv'
<1>1. task[p] \in Task /\ TaskInv(task[p]) /\ task[p].at = "fingerprint" /\ UNCHANGED <<version, files>>
  BY DEF IndexInv, IndexTyped, Fingerprint, At
<1>2. CASE task[p].slot = "notes" /\ ~Stale("notes", files["notes"].meta)
  <2>1. Release(p)
    BY <1>2 DEF Fingerprint
  <2>2. Fresh(task[p], task[p].slot)
    <3>1. files["notes"].meta \in Found
      BY SlotsHave DEF IndexInv, IndexTyped
    <3> QED
      BY <1>1, <1>2, <3>1, NotStale, SlotsHave DEF Fresh, TaskInv
  <2>3. LockInv' /\ lock' \in [Slots -> Searchers \cup {Nobody}] /\ TaskInv(Onward(p))
    BY <1>1, <2>1, <2>2, ReleaseLock, OnwardHolds DEF Locked
  <2> QED
    BY <1>1, <2>1, <2>3, ReleaseMoves, TaskMoves
<1>3. CASE ~(task[p].slot = "notes" /\ ~Stale("notes", files["notes"].meta))
  <2> DEFINE t == [task[p] EXCEPT !.fp = version[task[p].slot], !.at = "sources"]
  <2>1. Does(p, t) /\ UNCHANGED lock
    BY <1>3 DEF Fingerprint
  <2>2. t \in Task /\ t.at = "sources" /\ t.slot = task[p].slot
    BY <1>1 DEF Task, Steps, IndexInv, IndexTyped
  <2>3. \A f \in FilesOf(task[p].slot) : f = Absent \/ f.content <= version[task[p].slot]
    BY <1>1 DEF IndexInv, FilesInv, Task
  <2>4. version[task[p].slot] \in Nat
    BY <1>1 DEF Task, IndexInv, IndexTyped, Versions
  <2>5. TaskInv(t)
    BY <1>1, <2>3, <2>4 DEF TaskInv, BuildInv, ReadInv, Fresh, Locked, Reads, Task
  <2> HIDE DEF t
  <2> QED
    BY <1>1, <2>1, <2>2, <2>5, TaskSteps DEF Locked
<1> QED
  BY <1>2, <1>3

LEMMA ReadSourcesIndex == ASSUME IndexInv, NEW p \in Searchers, ReadSources(p) PROVE IndexInv'
<1> DEFINE t == [task[p] EXCEPT !.content = version[task[p].slot], !.at = "graph"]
<1>1. /\ task[p] \in Task /\ TaskInv(task[p]) /\ task[p].at = "sources" /\ Does(p, t)
      /\ UNCHANGED <<version, files, lock>>
  BY DEF IndexInv, IndexTyped, ReadSources, At
<1>2. t \in Task /\ t.at = "graph" /\ t.slot = task[p].slot
  BY <1>1 DEF Task, Steps, IndexInv, IndexTyped
<1>3. \A f \in FilesOf(task[p].slot) : f = Absent \/ f.content <= version[task[p].slot]
  BY <1>1 DEF IndexInv, FilesInv, Task
<1>4. version[task[p].slot] \in Nat
  BY <1>1 DEF Task, IndexInv, IndexTyped, Versions
<1>5. TaskInv(t)
  BY <1>1, <1>3, <1>4 DEF TaskInv, BuildInv, ReadInv, Fresh, Locked, Reads, Task
<1> HIDE DEF t
<1> QED
  BY <1>1, <1>2, <1>5, TaskSteps DEF Locked

LEMMA NothingIndex ==
  ASSUME IndexInv, NEW p \in Searchers, Nothing(p), task[p].at \notin Locked,
         UNCHANGED <<version, files, lock>>
  PROVE  IndexInv'
<1>1. TaskInv(NoTask)
  BY SlotsHave DEF TaskInv, BuildInv, ReadInv, Locked, Reads, NoTask, IndexInv, IndexTyped, Versions
<1>2. NoTask.at \notin Locked
  BY DEF NoTask, Locked
<1> QED
  BY <1>1, <1>2, NoTaskType, TaskSteps DEF Nothing

LEMMA ReadGraphIndex == ASSUME IndexInv, NEW p \in Searchers, ReadGraph(p) PROVE IndexInv'
<1> DEFINE o == task[p]
           g == files[o.slot].graph
           got == [o.got EXCEPT ![o.slot].graph = g]
           t == [o EXCEPT !.got = got, !.at = "readLex"]
<1>1. o \in Task /\ TaskInv(o) /\ o.at = "readGraph" /\ Does(p, t) /\ UNCHANGED <<version, files, lock>>
  BY DEF IndexInv, IndexTyped, ReadGraph, At
<1>2. g \in Found /\ o.slot \in Slots /\ o.got \in [Slots -> [graph : Found, lex : Found]]
  BY <1>1 DEF IndexInv, IndexTyped, Task
<1>3. /\ t \in Task /\ t.at = "readLex" /\ t.slot = o.slot /\ t.since = o.since /\ t.lags = o.lags
      /\ t.got = [o.got EXCEPT ![o.slot].graph = g]
  <2>1. got \in [Slots -> [graph : Found, lex : Found]]
    BY <1>2
  <2> HIDE DEF got
  <2>2. t \in Task
    BY <1>1, <2>1 DEF Task, Steps
  <2>3. t.at = "readLex" /\ t.slot = o.slot /\ t.since = o.since /\ t.lags = o.lags /\ t.got = got
    BY <1>1 DEF Task
  <2> QED
    BY <2>2, <2>3 DEF got
<1>4. t.lags \/ (\A s \in Slots : Fresh(t, s))
  BY <1>1, <1>3 DEF TaskInv, ReadInv, Reads, Fresh
<1>5. \A s \in Slots : t.lags \/ t.got[s].graph = Absent \/ t.since[s] <= t.got[s].graph.content
  <2> SUFFICES ASSUME NEW s \in Slots PROVE t.lags \/ t.got[s].graph = Absent \/ t.since[s] <= t.got[s].graph.content
    OBVIOUS
  <2>1. CASE s = o.slot
    BY <1>2, <1>3, <1>4, <2>1 DEF Fresh
  <2>2. CASE s # o.slot
    BY <1>1, <1>2, <1>3, <2>2 DEF TaskInv, ReadInv
  <2> QED
    BY <2>1, <2>2
<1>6. t.slot = "notes" => t.got["stores"] = o.got["stores"]
  BY <1>2, <1>3, SlotsHave
<1> HIDE DEF t
<1>7. TaskInv(t)
  BY <1>1, <1>3, <1>4, <1>5, <1>6, SlotsHave DEF TaskInv, BuildInv, ReadInv, Locked, Reads
<1> QED
  BY <1>1, <1>3, <1>7, TaskSteps DEF Locked

\* A search that finds its files missing or torn goes back to the lock.
LEMMA BackToLock ==
  ASSUME IndexInv, NEW p \in Searchers, NEW t \in Task, Does(p, t), UNCHANGED <<version, files, lock>>,
         task[p].at \notin Locked, t.at = "lock", t.slot = "stores", t.since = task[p].since,
         t.got = NoTask.got
  PROVE  IndexInv'
<1>1. task[p] \in Task /\ TaskInv(task[p])
  BY DEF IndexInv, IndexTyped
<1>2. \A s \in Slots : t.got[s].graph = Absent
  BY DEF NoTask
<1>3. TaskInv(t)
  BY <1>1, <1>2 DEF TaskInv, BuildInv, ReadInv, Locked, Reads
<1> QED
  BY <1>3, TaskSteps DEF Locked

LEMMA ReadLexIndex == ASSUME IndexInv, NEW p \in Searchers, ReadLex(p) PROVE IndexInv'
<1> DEFINE o == task[p]
           lex == files[o.slot].lex
           got == [o.got EXCEPT ![o.slot].lex = lex]
           t == [o EXCEPT !.got = got, !.at = "readMeta"]
           u == [o EXCEPT !.got = NoTask.got, !.at = "lock"]
<1>1. /\ o \in Task /\ TaskInv(o) /\ o.at = "readLex" /\ UNCHANGED <<version, files, lock>>
      /\ Does(p, t) \/ (o.slot = "stores" /\ Does(p, u)) \/ Nothing(p)
  BY DEF IndexInv, IndexTyped, ReadLex, At
<1>2. CASE Does(p, t)
  <2>1. lex \in Found /\ o.slot \in Slots /\ o.got \in [Slots -> [graph : Found, lex : Found]]
    BY <1>1 DEF IndexInv, IndexTyped, Task
  <2>2. /\ t \in Task /\ t.at = "readMeta" /\ t.slot = o.slot /\ t.since = o.since /\ t.lags = o.lags
        /\ t.got = [o.got EXCEPT ![o.slot].lex = lex]
    <3>1. got \in [Slots -> [graph : Found, lex : Found]]
      BY <2>1
    <3> HIDE DEF got
    <3>2. t \in Task
      BY <1>1, <3>1 DEF Task, Steps
    <3>3. t.at = "readMeta" /\ t.slot = o.slot /\ t.since = o.since /\ t.lags = o.lags /\ t.got = got
      BY <1>1 DEF Task
    <3> QED
      BY <3>2, <3>3 DEF got
  <2>3. t.slot = "notes" => t.got["stores"] = o.got["stores"]
    BY <2>1, <2>2, SlotsHave
  <2>4. \A s \in Slots : t.got[s].graph = o.got[s].graph
    BY <2>1, <2>2
  <2> HIDE DEF t
  <2>5. TaskInv(t)
    BY <1>1, <2>2, <2>3, <2>4, SlotsHave DEF TaskInv, BuildInv, ReadInv, Fresh, Locked, Reads
  <2> QED
    BY <1>1, <1>2, <2>2, <2>5, TaskSteps DEF Locked
<1>3. CASE o.slot = "stores" /\ Does(p, u)
  <2>1. u \in Task /\ u.at = "lock" /\ u.slot = "stores" /\ u.since = o.since /\ u.got = NoTask.got
    BY <1>1, <1>3, NoTaskType DEF Task, Steps
  <2> QED
    BY <1>1, <1>3, <2>1, BackToLock DEF Locked
<1> QED
  BY <1>1, <1>2, <1>3, NothingIndex DEF Locked

LEMMA ReadMetaIndex == ASSUME IndexInv, NEW p \in Searchers, ReadMeta(p) PROVE IndexInv'
<1> DEFINE o == task[p]
           whole == OneGeneration(o.got[o.slot], files[o.slot].meta)
           t == [o EXCEPT !.slot = "notes", !.at = "readGraph"]
           v == [o EXCEPT !.at = "answer"]
           u == [o EXCEPT !.again = TRUE, !.got = NoTask.got, !.at = "lock"]
<1>1. /\ o \in Task /\ TaskInv(o) /\ o.at = "readMeta" /\ UNCHANGED <<version, files, lock>>
      /\ \/ whole /\ o.slot = "stores" /\ Does(p, t)
         \/ whole /\ o.slot # "stores" /\ Does(p, v)
         \/ o.slot = "stores" /\ Does(p, u)
         \/ Nothing(p)
  BY DEF IndexInv, IndexTyped, ReadMeta, At
<1>2. whole => o.got[o.slot].graph = o.got[o.slot].lex
  BY DEF OneGeneration
<1>3. CASE whole /\ o.slot = "stores" /\ Does(p, t)
  <2>1. /\ t \in Task /\ t.at = "readGraph" /\ t.slot = "notes" /\ t.since = o.since /\ t.lags = o.lags
        /\ t.got = o.got
    BY <1>1 DEF Task, Steps, Slots
  <2>2. o.lags \/ \A s \in Slots : Fresh(o, s)
    BY <1>1 DEF TaskInv, ReadInv, Reads
  <2>3. t.lags \/ \A s \in Slots : Fresh(t, s)
    BY <2>1, <2>2 DEF Fresh
  <2> HIDE DEF t
  <2>4. TaskInv(t)
    BY <1>1, <1>2, <1>3, <2>1, <2>3, SlotsHave DEF TaskInv, BuildInv, ReadInv, Locked, Reads
  <2> QED
    BY <1>1, <1>3, <2>1, <2>4, TaskSteps DEF Locked
<1>4. CASE whole /\ o.slot # "stores" /\ Does(p, v)
  <2>1. /\ v \in Task /\ v.at = "answer" /\ v.slot = "notes" /\ o.slot = "notes" /\ v.since = o.since
        /\ v.lags = o.lags /\ v.got = o.got
    BY <1>1, <1>4 DEF Task, Steps, Slots
  <2> HIDE DEF v
  <2>2. TaskInv(v)
    BY <1>1, <1>2, <1>4, <2>1, SlotsHave DEF TaskInv, BuildInv, ReadInv, Fresh, Locked, Reads
  <2> QED
    BY <1>1, <1>4, <2>1, <2>2, TaskSteps DEF Locked
<1>5. CASE o.slot = "stores" /\ Does(p, u)
  <2>1. u \in Task /\ u.at = "lock" /\ u.slot = "stores" /\ u.since = o.since /\ u.got = NoTask.got
    BY <1>1, <1>5, NoTaskType DEF Task, Steps
  <2> QED
    BY <1>1, <1>5, <2>1, BackToLock DEF Locked
<1> QED
  BY <1>1, <1>3, <1>4, <1>5, NothingIndex DEF Locked

LEMMA DieIndex == ASSUME IndexInv, NEW p \in Searchers, Die(p) PROVE IndexInv'
<1>1. /\ Does(p, NoTask) /\ UNCHANGED <<version, files>>
      /\ lock' = [s \in Slots |-> IF lock[s] = p THEN Nobody ELSE lock[s]]
  BY DEF Die, Nothing
<1>2. TaskInv(NoTask)
  BY SlotsHave DEF TaskInv, BuildInv, ReadInv, Locked, Reads, NoTask, IndexInv, IndexTyped, Versions
<1>3. NoTask.at \notin Locked
  BY DEF NoTask, Locked
<1>4. LockInv' /\ lock' \in [Slots -> Searchers \cup {Nobody}]
  BY <1>1, <1>3, RecallIndexAssumption DEF IndexInv, IndexTyped, LockInv, Does
<1> QED
  BY <1>1, <1>2, <1>4, NoTaskType, TaskMoves

LEMMA ChangeIndex == ASSUME IndexInv, NEW s \in Slots, Change(s) PROVE IndexInv'
<1>1. /\ version' = [version EXCEPT ![s] = @ + 1] /\ UNCHANGED <<files, lock, task>>
      /\ version["stores"] + version["notes"] < MaxVersion /\ version \in [Slots -> Versions]
  BY DEF Change, IndexInv, IndexTyped
<1>2. version' \in [Slots -> Versions] /\ \A r \in Slots : version[r] <= version'[r]
  BY <1>1, SlotsHave, RecallIndexAssumption DEF Versions
<1>3. IndexTyped' /\ LockInv'
  BY <1>1, <1>2 DEF IndexInv, IndexTyped, LockInv
<1>4. Grown
  BY <1>1 DEF IndexInv, IndexTyped, FilesInv, FilesOf, Grown, Found, Generation, Versions
<1>5. ASSUME NEW q \in Searchers PROVE TaskInv(task[q])'
  BY <1>1, <1>2, <1>3, <1>4, TaskKept
<1>6. FilesInv'
  BY <1>1, <1>2 DEF IndexInv, IndexTyped, FilesInv, FilesOf, Found, Generation, Versions
<1> QED
  BY <1>3, <1>5, <1>6 DEF IndexInv

\* A builder writes only what it read under the lock of its slot: what all others rest on
\* stays as it is or becomes newer.
LEMMA Written ==
  ASSUME IndexInv, IndexTyped', NEW p \in Searchers, NEW s \in Slots, s = task[p].slot,
         task[p].at \in {"graph", "lex", "publish"}, version' = version,
         \A r \in Slots \ {s} : files'[r] = files[r],
         files'[s].graph \in {files[s].graph, Built(p)},
         {files'[s].lex, files'[s].meta} \subseteq FilesOf(s) \cup {Built(p)},
         \A q \in Searchers \ {p} : task'[q] = task[q]
  PROVE  FilesInv' /\ \A q \in Searchers \ {p} : TaskInv(task[q])'
<1> DEFINE b == Built(p)
<1>1. /\ b.fp \in Nat /\ b.content \in Nat /\ version[s] \in Nat /\ b.fp <= b.content
      /\ b.content <= version[s] /\ b.content # MaxVersion + 1
      /\ \A f \in FilesOf(s) : f = Absent \/ f.content <= b.content
  BY RecallIndexAssumption DEF IndexInv, IndexTyped, Task, TaskInv, BuildInv, Built, Versions
<1>2. b # Absent
  BY <1>1 DEF Absent
<1>3. files'[s].graph \in FilesOf(s) \cup {b}
  BY DEF FilesOf
<1> HIDE DEF b
<1>4. FilesInv'
  <2> SUFFICES ASSUME NEW r \in Slots, NEW f \in {files'[r].graph, files'[r].lex, files'[r].meta}
               PROVE  f = Absent \/ (f.fp <= f.content /\ f.content <= version[r])
    BY DEF FilesInv, FilesOf
  <2>1. CASE r = s
    BY <1>1, <1>3, <2>1 DEF IndexInv, FilesInv, b
  <2>2. CASE r # s
    BY <2>2 DEF IndexInv, FilesInv, FilesOf
  <2> QED
    BY <2>1, <2>2
<1>5. Grown
  <2> SUFFICES ASSUME NEW r \in Slots, files[r].graph # Absent
               PROVE  files'[r].graph # Absent /\ files[r].graph.content <= files'[r].graph.content
    BY DEF Grown
  <2>1. files[r].graph.content \in Nat
    BY DEF IndexInv, IndexTyped, Found, Generation, Versions
  <2>2. CASE r = s
    BY <1>1, <1>2, <2>1, <2>2 DEF b, FilesOf
  <2>3. CASE r # s
    BY <2>1, <2>3
  <2> QED
    BY <2>2, <2>3
<1>6. ASSUME NEW q \in Searchers \ {p} PROVE TaskInv(task[q])'
  <2>1. task[q].at \in Locked => task[q].slot \in Slots \ {s}
    BY RecallIndexAssumption DEF IndexInv, IndexTyped, LockInv, Task, Locked
  <2>2. \A r \in Slots : version[r] <= version'[r]
    BY DEF IndexInv, IndexTyped, Versions
  <2> QED
    BY <1>5, <2>1, <2>2, TaskKept
<1> QED
  BY <1>4, <1>6

LEMMA BuiltType == ASSUME NEW p \in Searchers, task[p] \in Task PROVE Built(p) \in Found
  BY DEF Built, Found, Generation, Task

LEMMA WriteGraphIndex == ASSUME IndexInv, NEW p \in Searchers, WriteGraph(p) PROVE IndexInv'
<1> DEFINE t == [task[p] EXCEPT !.at = "lex"]
<1> PICK s \in Slots : s = task[p].slot
  BY DEF IndexInv, IndexTyped, Task
<1>1. /\ task[p] \in Task /\ TaskInv(task[p]) /\ task[p].at = "graph" /\ Does(p, t)
      /\ UNCHANGED <<version, lock>> /\ files' = [files EXCEPT ![s].graph = Built(p)]
      /\ files \in [Slots -> [graph : Found, lex : Found, meta : Found]]
  BY DEF IndexInv, IndexTyped, WriteGraph, At, Move
<1>2. t \in Task /\ t.at = "lex" /\ t.slot = s
  BY <1>1 DEF Task, Steps
<1>3. /\ files'[s] = [files[s] EXCEPT !.graph = Built(p)]
      /\ \A r \in Slots \ {s} : files'[r] = files[r]
      /\ files' \in [Slots -> [graph : Found, lex : Found, meta : Found]]
  BY <1>1, BuiltType
<1>4. files'[s].graph = Built(p) /\ files'[s].lex = files[s].lex /\ files'[s].meta = files[s].meta
  BY <1>1, <1>3
<1>5. /\ t.since = task[p].since /\ t.fp = task[p].fp /\ t.content = task[p].content
      /\ t.got = task[p].got /\ t.lags = task[p].lags
  BY <1>1 DEF Task
<1> HIDE DEF t
<1>6. task'[p] = t /\ (\A q \in Searchers \ {p} : task'[q] = task[q]) /\ task' \in [Searchers -> Task]
  BY <1>1, <1>2 DEF Does, IndexInv, IndexTyped
<1>7. IndexTyped'
  BY <1>1, <1>3, <1>6 DEF IndexInv, IndexTyped
<1>8. LockInv'
  BY <1>1, <1>2, <1>6 DEF IndexInv, LockInv, Locked
<1>9. FilesInv' /\ \A q \in Searchers \ {p} : TaskInv(task[q])'
  BY <1>1, <1>3, <1>4, <1>6, <1>7, Written DEF FilesOf
<1>10. TaskInv(task[p])'
  <2>1. BuildInv(task[p])'
    <3>1. task[p].content \in Nat
      BY <1>1 DEF Task, Versions
    <3> QED
      BY <1>1, <1>2, <1>4, <1>5, <1>6, <3>1 DEF TaskInv, BuildInv, FilesOf, Locked, Built
  <2>2. ReadInv(task[p])'
    BY <1>1, <1>2, <1>3, <1>5, <1>6, SlotsHave DEF TaskInv, ReadInv, Fresh, Reads
  <2> QED
    BY <1>1, <1>5, <1>6, <2>1, <2>2 DEF TaskInv
<1> QED
  BY <1>7, <1>8, <1>9, <1>10 DEF IndexInv

LEMMA WriteLexIndex == ASSUME IndexInv, NEW p \in Searchers, WriteLex(p) PROVE IndexInv'
<1> DEFINE t == [task[p] EXCEPT !.at = "publish"]
<1> PICK s \in Slots : s = task[p].slot
  BY DEF IndexInv, IndexTyped, Task
<1>1. /\ task[p] \in Task /\ TaskInv(task[p]) /\ task[p].at = "lex" /\ Does(p, t)
      /\ UNCHANGED <<version, lock>> /\ files' = [files EXCEPT ![s].lex = Built(p)]
      /\ files \in [Slots -> [graph : Found, lex : Found, meta : Found]]
  BY DEF IndexInv, IndexTyped, WriteLex, At, Move
<1>2. t \in Task /\ t.at = "publish" /\ t.slot = s
  BY <1>1 DEF Task, Steps
<1>3. /\ files'[s] = [files[s] EXCEPT !.lex = Built(p)]
      /\ \A r \in Slots \ {s} : files'[r] = files[r]
      /\ files' \in [Slots -> [graph : Found, lex : Found, meta : Found]]
  BY <1>1, BuiltType
<1>4. files'[s].graph = files[s].graph /\ files'[s].lex = Built(p) /\ files'[s].meta = files[s].meta
  BY <1>1, <1>3
<1>5. /\ t.since = task[p].since /\ t.fp = task[p].fp /\ t.content = task[p].content
      /\ t.got = task[p].got /\ t.lags = task[p].lags
  BY <1>1 DEF Task
<1> HIDE DEF t
<1>6. task'[p] = t /\ (\A q \in Searchers \ {p} : task'[q] = task[q]) /\ task' \in [Searchers -> Task]
  BY <1>1, <1>2 DEF Does, IndexInv, IndexTyped
<1>7. IndexTyped'
  BY <1>1, <1>3, <1>6 DEF IndexInv, IndexTyped
<1>8. LockInv'
  BY <1>1, <1>2, <1>6 DEF IndexInv, LockInv, Locked
<1>9. FilesInv' /\ \A q \in Searchers \ {p} : TaskInv(task[q])'
  BY <1>1, <1>3, <1>4, <1>6, <1>7, Written DEF FilesOf
<1>10. TaskInv(task[p])'
  <2>1. BuildInv(task[p])'
    <3>1. task[p].content \in Nat
      BY <1>1 DEF Task, Versions
    <3> QED
      BY <1>1, <1>2, <1>4, <1>5, <1>6, <3>1 DEF TaskInv, BuildInv, FilesOf, Locked, Built
  <2>2. ReadInv(task[p])'
    BY <1>1, <1>2, <1>3, <1>5, <1>6, SlotsHave DEF TaskInv, ReadInv, Fresh, Reads
  <2> QED
    BY <1>1, <1>5, <1>6, <2>1, <2>2 DEF TaskInv
<1> QED
  BY <1>7, <1>8, <1>9, <1>10 DEF IndexInv

LEMMA PublishIndex == ASSUME IndexInv, NEW p \in Searchers, Publish(p) PROVE IndexInv'
<1> PICK s \in Slots : s = task[p].slot
  BY DEF IndexInv, IndexTyped, Task
<1>1. /\ task[p] \in Task /\ TaskInv(task[p]) /\ task[p].at = "publish" /\ Release(p)
      /\ version' = version /\ files' = [files EXCEPT ![s].meta = Built(p)]
      /\ files \in [Slots -> [graph : Found, lex : Found, meta : Found]]
  BY DEF IndexInv, IndexTyped, Publish, At
<1>2. /\ files'[s] = [files[s] EXCEPT !.meta = Built(p)]
      /\ \A r \in Slots \ {s} : files'[r] = files[r]
      /\ files' \in [Slots -> [graph : Found, lex : Found, meta : Found]]
  BY <1>1, BuiltType
<1>3. files'[s].graph = files[s].graph /\ files'[s].lex = files[s].lex /\ files'[s].meta = Built(p)
  BY <1>1, <1>2
<1>4. Fresh(task[p], s)
  <2>1. /\ files[s].graph = Built(p) /\ task[p].since[s] <= task[p].fp /\ task[p].fp <= task[p].content
        /\ task[p].since[s] \in Nat /\ task[p].fp \in Nat /\ task[p].content \in 0 .. MaxVersion
    BY <1>1 DEF TaskInv, BuildInv, Locked, Task, Versions, Built
  <2>2. Built(p).content # MaxVersion + 1
    BY <2>1, RecallIndexAssumption DEF Built
  <2> QED
    BY <2>1, <2>2 DEF Fresh, Built, Absent
<1>5. TaskInv(Onward(p))
  BY <1>1, <1>4, OnwardHolds
<1>6. /\ task'[p] = Onward(p) /\ Onward(p).at \notin Locked
      /\ (\A q \in Searchers \ {p} : task'[q] = task[q]) /\ task' \in [Searchers -> Task]
  BY <1>1, ReleaseMoves DEF Does, IndexInv, IndexTyped, Locked
<1>7. LockInv' /\ lock' \in [Slots -> Searchers \cup {Nobody}]
  BY <1>1, ReleaseLock DEF Locked
<1>8. IndexTyped'
  BY <1>1, <1>2, <1>6, <1>7 DEF IndexInv, IndexTyped
<1>9. FilesInv' /\ \A q \in Searchers \ {p} : TaskInv(task[q])'
  BY <1>1, <1>2, <1>3, <1>6, <1>8, Written DEF FilesOf
<1>10. TaskInv(task[p])'
  <2>1. \A r \in Slots : files'[r].graph = files[r].graph
    BY <1>2, <1>3
  <2> QED
    BY <1>1, <1>5, <1>6, <2>1, SlotsHave DEF TaskInv, BuildInv, ReadInv, Fresh, Locked
<1> QED
  BY <1>7, <1>8, <1>9, <1>10 DEF IndexInv

LEMMA IndexInitial == IndexInit => IndexInv
<1> SUFFICES ASSUME IndexInit PROVE IndexInv
  OBVIOUS
<1>1. IndexTyped
  BY NoTaskType DEF IndexInit, IndexTyped
<1>2. NoTask.at = "idle" /\ NoTask.slot = "stores"
  BY DEF NoTask
<1>3. LockInv
  BY <1>2, RecallIndexAssumption DEF IndexInit, LockInv, Locked
<1>4. FilesInv
  BY DEF IndexInit, FilesInv, FilesOf
<1>5. TaskInv(NoTask)
  BY SlotsHave DEF TaskInv, BuildInv, ReadInv, Locked, Reads, NoTask, IndexInit
<1> QED
  BY <1>1, <1>3, <1>4, <1>5 DEF IndexInv, IndexInit

LEMMA IndexIdle == ASSUME IndexInv, UNCHANGED indexVars PROVE IndexInv'
  BY DEF IndexInv, IndexTyped, LockInv, FilesInv, FilesOf, TaskInv, BuildInv, ReadInv, Fresh, indexVars

LEMMA IndexNext == IndexInv /\ [Next]_vars => IndexInv'
<1> SUFFICES ASSUME IndexInv, [Next]_vars PROVE IndexInv'
  OBVIOUS
<1>1. CASE UNCHANGED indexVars
  BY <1>1, IndexIdle
<1>2. CASE IndexStep
  <2>1. ASSUME NEW s \in Slots, Change(s) PROVE IndexInv'
    BY <2>1, ChangeIndex
  <2>2. ASSUME NEW p \in Searchers,
               \/ Begin(p) \/ ReadMetaFile(p) \/ Compare(p) \/ TakeLock(p) \/ Fingerprint(p)
               \/ ReadSources(p) \/ WriteGraph(p) \/ WriteLex(p) \/ Publish(p) \/ ReadGraph(p)
               \/ ReadLex(p) \/ ReadMeta(p) \/ Answer(p) \/ Die(p)
        PROVE IndexInv'
    <3>1. CASE Answer(p)
      BY <3>1, NothingIndex DEF Answer, At, Locked
    <3> QED
      BY <2>2, <3>1, BeginIndex, ReadMetaFileIndex, CompareIndex, TakeLockIndex, FingerprintIndex,
         ReadSourcesIndex, WriteGraphIndex, WriteLexIndex, PublishIndex, ReadGraphIndex,
         ReadLexIndex, ReadMetaIndex, DieIndex
  <2> QED
    BY <1>2, <2>1, <2>2, Zenon DEF IndexStep
<1> QED
  BY <1>1, <1>2, Zenon DEF Next, InCompile, InForge, InRecord, InIndex, vars

\* Whoever builds, dies half way or files something meanwhile, for any number of processes
\* and of changes: an answer rests on files of one compilation, and unless it says that the
\* index lags, on all that was filed when the question was asked.
THEOREM AnswerWhole == Spec => []AnswerIsWhole
<1>1. Init => IndexInv
  BY IndexInitial DEF Init
<1>2. IndexInv /\ [Next]_vars => IndexInv'
  BY IndexNext
<1>3. IndexInv => AnswerIsWhole
  <2> SUFFICES ASSUME IndexInv, NEW p \in Searchers, At(p, "answer"), NEW s \in Slots
               PROVE  /\ task[p].got[s].graph = task[p].got[s].lex
                      /\ ~task[p].lags => task[p].got[s].graph.content >= task[p].since[s]
    BY DEF AnswerIsWhole
  <2>1. task[p] \in Task /\ ReadInv(task[p]) /\ task[p].at = "answer"
    BY DEF IndexInv, IndexTyped, TaskInv, At
  <2>2. task[p].got["stores"].graph = task[p].got["stores"].lex /\ task[p].got["notes"].graph = task[p].got["notes"].lex
    BY <2>1 DEF ReadInv, Reads
  <2>3. task[p].since[s] \in 0 .. MaxVersion /\ Absent.content = MaxVersion + 1
    BY <2>1 DEF Task, Versions, Absent
  <2>4. task[p].got[s].graph \in Found
    BY <2>1 DEF Task
  <2>5. task[p].got[s].graph.content \in Nat
    BY <2>4, RecallIndexAssumption DEF Found, Generation, Versions, Absent
  <2>6. task[p].lags \/ task[p].got[s].graph = Absent \/ task[p].since[s] <= task[p].got[s].graph.content
    BY <2>1 DEF ReadInv
  <2>7. ~task[p].lags => task[p].got[s].graph.content >= task[p].since[s]
    BY <2>3, <2>5, <2>6, RecallIndexAssumption
  <2> QED
    BY <2>2, <2>7, SlotsHave
<1> QED
  BY <1>1, <1>2, <1>3, PTL DEF Spec

(***************************************************************************)
(* Numbers: the library's induction theorems take an operator, which the   *)
(* provers at hand cannot instantiate; that a set of naturals has a least  *)
(* member can be had without one.                                          *)
(***************************************************************************)
LEMMA Least == ASSUME NEW T, T \subseteq Nat, T # {} PROVE \E m \in T : \A k \in T : m <= k
<1> DEFINE R == {ss \in Nat \X Nat : ss[1] < ss[2]}
<1>1. IsWellFoundedOn(R, Nat)
  BY NatLessThanWellFounded DEF OpToRel
<1>2. \A x, y \in Nat : y < x => <<y, x>> \in R
  OBVIOUS
<1> HIDE DEF R
<1>3. PICK m \in T : \A k \in T : ~(<<k, m>> \in R)
  BY <1>1, WFMin
<1>4. \A k \in T : m <= k
  <2> TAKE k \in T
  <2>1. ~(k < m)
    BY <1>2, <1>3
  <2> QED
    BY <2>1
<1> QED
  BY <1>4

\* A bounded set of naturals has a greatest member.
LEMMA Greatest ==
  ASSUME NEW N \in Nat, NEW T, T \subseteq 0 .. N, T # {}
  PROVE  \E m \in T : \A k \in T : k <= m
<1> DEFINE U == {N - k : k \in T}
<1>1. U \subseteq Nat /\ U # {}
  <2>1. \A k \in T : k \in Nat /\ N - k \in Nat
    OBVIOUS
  <2>2. PICK k \in T : TRUE
    OBVIOUS
  <2>3. N - k \in U
    OBVIOUS
  <2> QED
    BY <2>1, <2>3
<1>2. PICK u \in U : \A k \in U : u <= k
  BY <1>1, Least
<1>3. PICK m \in T : u = N - m
  OBVIOUS
<1>4. \A k \in T : N - m <= N - k
  BY <1>2, <1>3
<1> QED
  BY <1>4

(***************************************************************************)
(* Forge: a green pointer stands                                           *)
(***************************************************************************)
Rows == [Kinds -> Seq(Post)]
Seen == [kind : Kinds, id : Nat, row : Post]

\* A row never changes but that a pending check completes.
Later(r, s) == r.name = s.name /\ r.pinned = s.pinned /\ (r.state = "pending" \/ r.state = s.state)
GrownFrom(old, new) ==
  \A k \in Kinds : /\ Len(old[k]) <= Len(new[k])
                   /\ \A i \in 1 .. Len(old[k]) : Later(old[k][i], new[k][i])

\* What was seen was so while the observation lasted.
SeenSince(seen, stood, now) ==
  \A m \in DOMAIN seen :
    LET k == seen[m].kind
        i == seen[m].id IN
    /\ i \in 1 .. Len(now[k]) /\ Later(seen[m].row, now[k][i])
    /\ i <= Len(stood[k]) => Later(stood[k][i], seen[m].row)

HasSeen(seen, k, i) == \E m \in DOMAIN seen : seen[m].kind = k /\ seen[m].id = i

\* Every row that stood at the beginning has been seen or is on a page to come: rows
\* posted meanwhile only push it further down the listing.
Covered(seen, k, stood, last) == \A i \in 1 .. Len(stood[k]) : HasSeen(seen, k, i) \/ i <= last

Now == posts[observer.sha]

ForgeTyped ==
  /\ posts \in [Heads -> Rows] /\ tip \in Heads
  /\ observer \in [at : {"idle", "statuses", "checks", "confirm"}, sha : Heads \cup {"none"}, page : Nat,
                   total : Nat, seen : Seq(Seen), verdict : {"none", "green", "red"}, stood : Rows \cup {<<>>}]

ListingInv ==
  observer.at \in {"statuses", "checks"} =>
    /\ observer.sha \in Heads /\ observer.stood \in Rows /\ observer.page >= 1
    /\ GrownFrom(observer.stood, Now)
    /\ SeenSince(observer.seen, observer.stood, Now)
    /\ Covered(observer.seen, "status", observer.stood,
               IF observer.at = "statuses" THEN Len(Now["status"]) + 1 - observer.page ELSE 0)
    /\ observer.at = "checks" =>
         Covered(observer.seen, "check", observer.stood, Len(Now["check"]) + 1 - observer.page)

VerdictInv ==
  observer.at = "confirm" => /\ observer.sha \in Heads /\ observer.stood \in Rows
                             /\ observer.verdict = "green" => Clear(observer.stood, Now)

ForgeInv == ForgeTyped /\ ListingInv /\ VerdictInv

LEMMA LaterIsOrder ==
  /\ \A r \in Post : Later(r, r)
  /\ \A r, s, t \in Post : Later(r, s) /\ Later(s, t) => Later(r, t)
  BY DEF Later

LEMMA GrownIsOrder ==
  /\ \A a \in Rows : GrownFrom(a, a)
  /\ \A a, b, c \in Rows : GrownFrom(a, b) /\ GrownFrom(b, c) => GrownFrom(a, c)
<1>1. \A a \in Rows, k \in Kinds : Len(a[k]) \in Nat /\ \A i \in 1 .. Len(a[k]) : a[k][i] \in Post
  BY DEF Rows
<1>2. \A a \in Rows : GrownFrom(a, a)
  BY <1>1, LaterIsOrder DEF GrownFrom
<1>3. ASSUME NEW a \in Rows, NEW b \in Rows, NEW c \in Rows, GrownFrom(a, b), GrownFrom(b, c)
      PROVE  GrownFrom(a, c)
  <2> SUFFICES ASSUME NEW k \in Kinds
               PROVE  /\ Len(a[k]) <= Len(c[k])
                      /\ \A i \in 1 .. Len(a[k]) : Later(a[k][i], c[k][i])
    BY DEF GrownFrom
  <2>1. Len(a[k]) <= Len(b[k]) /\ Len(b[k]) <= Len(c[k])
    BY <1>3 DEF GrownFrom
  <2>2. ASSUME NEW i \in 1 .. Len(a[k]) PROVE Later(a[k][i], c[k][i])
    <3>1. i \in 1 .. Len(b[k]) /\ i \in 1 .. Len(c[k])
      BY <1>1, <2>1
    <3>2. Later(a[k][i], b[k][i]) /\ Later(b[k][i], c[k][i])
      BY <1>3, <3>1 DEF GrownFrom
    <3>3. a[k][i] \in Post /\ b[k][i] \in Post /\ c[k][i] \in Post
      BY <1>1, <3>1
    <3> QED
      BY <3>2, <3>3, LaterIsOrder
  <2> QED
    BY <1>1, <2>1, <2>2
<1> QED
  BY <1>2, <1>3

\* One listing of one commit takes a later form.
LEMMA ListingGrows ==
  ASSUME posts \in [Heads -> Rows], NEW c \in Heads, NEW k \in Kinds, NEW list \in Seq(Post),
         posts' = [posts EXCEPT ![c][k] = list],
         Len(posts[c][k]) <= Len(list),
         \A i \in 1 .. Len(posts[c][k]) : Later(posts[c][k][i], list[i])
  PROVE  posts' \in [Heads -> Rows] /\ \A d \in Heads : GrownFrom(posts[d], posts'[d])
<1>1. posts' \in [Heads -> Rows]
  BY DEF Rows
<1>2. \A d \in Heads : posts[d] \in Rows
  OBVIOUS
<1>3. \A d \in Heads : d # c => posts'[d] = posts[d]
  OBVIOUS
<1>4. \A l \in Kinds : posts'[c][l] = IF l = k THEN list ELSE posts[c][l]
  BY DEF Rows
<1>5. GrownFrom(posts[c], posts'[c])
  <2>1. GrownFrom(posts[c], posts[c])
    BY <1>2, GrownIsOrder
  <2> QED
    BY <1>4, <2>1 DEF GrownFrom
<1> QED
  BY <1>1, <1>2, <1>3, <1>5, GrownIsOrder

\* Whatever happens to a forge, the rows of a commit only grow.
LEMMA PostsGrow ==
  ASSUME posts \in [Heads -> Rows],
         NEW c \in Heads, (\E k \in Kinds : PostRow(c, k)) \/ CompleteRun(c)
  PROVE  posts' \in [Heads -> Rows] /\ \A d \in Heads : GrownFrom(posts[d], posts'[d])
<1>1. \A k \in Kinds : /\ posts[c][k] \in Seq(Post) /\ Len(posts[c][k]) \in Nat
                       /\ \A i \in 1 .. Len(posts[c][k]) : posts[c][k][i] \in Post
  BY DEF Rows
<1>2. ASSUME NEW k \in Kinds, PostRow(c, k)
      PROVE  posts' \in [Heads -> Rows] /\ \A d \in Heads : GrownFrom(posts[d], posts'[d])
  <2>1. PICK post \in Post : posts' = [posts EXCEPT ![c][k] = Append(posts[c][k], post)]
    BY <1>2 DEF PostRow
  <2> DEFINE list == Append(posts[c][k], post)
  <2>2. /\ list \in Seq(Post) /\ Len(list) = Len(posts[c][k]) + 1
        /\ \A i \in 1 .. Len(posts[c][k]) : list[i] = posts[c][k][i]
    BY <1>1
  <2>3. posts' = [posts EXCEPT ![c][k] = list]
    BY <2>1
  <2> HIDE DEF list
  <2>4. Len(posts[c][k]) <= Len(list) /\ \A i \in 1 .. Len(posts[c][k]) : Later(posts[c][k][i], list[i])
    BY <1>1, <2>2, LaterIsOrder
  <2> QED
    BY <2>2, <2>3, <2>4, ListingGrows
<1>3. ASSUME CompleteRun(c)
      PROVE  posts' \in [Heads -> Rows] /\ \A d \in Heads : GrownFrom(posts[d], posts'[d])
  <2> DEFINE runs == posts[c]["check"]
  <2>1. PICK i \in DOMAIN runs, s \in {"success", "failure"} :
          /\ runs[i].state = "pending"
          /\ posts' = [posts EXCEPT ![c]["check"][i].state = s]
    BY <1>3 DEF CompleteRun
  <2> DEFINE post == [runs[i] EXCEPT !.state = s]
             list == [runs EXCEPT ![i] = post]
  <2>2. "check" \in Kinds /\ runs \in Seq(Post) /\ Len(runs) \in Nat /\ i \in 1 .. Len(runs) /\ runs[i] \in Post
    BY <1>1, <2>1 DEF Kinds
  <2>3. posts' = [posts EXCEPT ![c]["check"] = list]
    BY <2>1
  <2>4. post \in Post /\ Later(runs[i], post)
    BY <2>1, <2>2 DEF Post, PostStates, Later
  <2> HIDE DEF post
  <2>5. list \in Seq(Post) /\ Len(list) = Len(runs) /\ \A j \in 1 .. Len(runs) : list[j] = IF j = i THEN post ELSE runs[j]
    BY <2>2, <2>4
  <2> HIDE DEF list
  <2>6. Len(runs) <= Len(list) /\ \A j \in 1 .. Len(runs) : Later(runs[j], list[j])
    BY <1>1, <2>2, <2>4, <2>5, LaterIsOrder
  <2> QED
    BY <2>2, <2>3, <2>5, <2>6, ListingGrows
<1> QED
  BY <1>2, <1>3

\* What a listing has shown, and what was clear, outlasts the growth of the rows.
LEMMA ClearGrows ==
  ASSUME NEW stood \in Rows, NEW a \in Rows, NEW b \in Rows, GrownFrom(a, b), Clear(stood, a)
  PROVE  Clear(stood, b)
<1> SUFFICES ASSUME NEW n \in Contexts
             PROVE  /\ \A k \in Kinds, i \in 1 .. MaxPosts :
                         i \in DOMAIN stood[k] /\ stood[k][i].name = n => stood[k][i].state # "failure"
                    /\ \E k \in Kinds : \E i \in DOMAIN b[k] :
                         b[k][i].name = n /\ b[k][i].pinned /\ b[k][i].state = "success"
                    /\ \A k \in Kinds : \A i \in DOMAIN stood[k] :
                         stood[k][i].name = n /\ stood[k][i].pinned =>
                           \E j \in i .. Len(b[k]) :
                             b[k][j].name = n /\ b[k][j].pinned /\ b[k][j].state = "success"
  BY Zenon DEF Clear
<1>1. \A k \in Kinds : /\ DOMAIN a[k] = 1 .. Len(a[k]) /\ Len(a[k]) \in Nat
                       /\ DOMAIN b[k] = 1 .. Len(b[k]) /\ Len(b[k]) \in Nat
                       /\ DOMAIN stood[k] \subseteq Nat \ {0}
  BY DEF Rows
<1>2. \A k \in Kinds : \A i \in 1 .. Len(a[k]) :
        /\ i \in 1 .. Len(b[k])
        /\ a[k][i].name = n /\ a[k][i].pinned /\ a[k][i].state = "success" =>
             b[k][i].name = n /\ b[k][i].pinned /\ b[k][i].state = "success"
  BY <1>1 DEF GrownFrom, Later
<1>3. \E k \in Kinds : \E i \in DOMAIN b[k] :
        b[k][i].name = n /\ b[k][i].pinned /\ b[k][i].state = "success"
  <2>1. PICK k \in Kinds : \E i \in DOMAIN a[k] : a[k][i].name = n /\ a[k][i].pinned /\ a[k][i].state = "success"
    BY DEF Clear
  <2>2. PICK i \in DOMAIN a[k] : a[k][i].name = n /\ a[k][i].pinned /\ a[k][i].state = "success"
    BY <2>1
  <2> QED
    BY <1>1, <1>2, <2>2
<1>4. ASSUME NEW k \in Kinds, NEW i \in DOMAIN stood[k], stood[k][i].name = n, stood[k][i].pinned
      PROVE  \E j \in i .. Len(b[k]) : b[k][j].name = n /\ b[k][j].pinned /\ b[k][j].state = "success"
  <2>1. PICK j \in i .. Len(a[k]) : a[k][j].name = n /\ a[k][j].pinned /\ a[k][j].state = "success"
    BY <1>4 DEF Clear
  <2> QED
    BY <1>1, <1>2, <2>1
<1> QED
  BY <1>3, <1>4 DEF Clear

\* The last page has been turned: a verdict of green is one of rows that were clear.
LEMMA GreenIsClear ==
  ASSUME NEW stood \in Rows, NEW now \in Rows, NEW seen \in Seq(Seen),
         GrownFrom(stood, now), SeenSince(seen, stood, now),
         \A k \in Kinds : \A i \in 1 .. Len(stood[k]) : HasSeen(seen, k, i),
         Verdict(seen) = "green"
  PROVE  Clear(stood, now)
<1> SUFFICES ASSUME NEW n \in Contexts
             PROVE  /\ \A k \in Kinds, i \in 1 .. MaxPosts :
                         i \in DOMAIN stood[k] /\ stood[k][i].name = n => stood[k][i].state # "failure"
                    /\ \E k \in Kinds : \E i \in DOMAIN now[k] :
                         now[k][i].name = n /\ now[k][i].pinned /\ now[k][i].state = "success"
                    /\ \A k \in Kinds : \A i \in DOMAIN stood[k] :
                         stood[k][i].name = n /\ stood[k][i].pinned =>
                           \E j \in i .. Len(now[k]) :
                             now[k][j].name = n /\ now[k][j].pinned /\ now[k][j].state = "success"
  BY Zenon DEF Clear
<1>1. \A k \in Kinds : /\ DOMAIN stood[k] = 1 .. Len(stood[k]) /\ Len(stood[k]) \in Nat
                       /\ DOMAIN now[k] = 1 .. Len(now[k]) /\ Len(now[k]) \in Nat
                       /\ Len(stood[k]) <= Len(now[k])
  BY DEF Rows, GrownFrom
<1>2. \A m \in DOMAIN seen : seen[m] \in ToSet(seen) /\ seen[m] \in Seen
  BY DEF ToSet
<1>3. \A x \in ToSet(seen) :
        /\ x \in Seen /\ x.id \in 1 .. Len(now[x.kind]) /\ Later(x.row, now[x.kind][x.id])
        /\ x.id <= Len(stood[x.kind]) => Later(stood[x.kind][x.id], x.row)
  <2> TAKE x \in ToSet(seen)
  <2>1. PICK m \in DOMAIN seen : x = seen[m]
    BY DEF ToSet
  <2>2. seen[m] \in Seen
    BY <1>2
  <2> QED
    BY <2>1, <2>2 DEF SeenSince
<1>4. \A k \in Kinds : \A i \in DOMAIN stood[k] : \E x \in ToSet(seen) : x.kind = k /\ x.id = i
  BY <1>1, <1>2 DEF HasSeen
<1>5. ContextState(seen, n) = "success"
  <2>1. ContextState(seen, n) \in {ContextState(seen, c) : c \in Contexts}
    OBVIOUS
  <2>2. ContextState(seen, n) \in {"failure", "success", "pending"}
    BY Zenon DEF ContextState
  <2> QED
    BY <2>1, <2>2, Zenon DEF Verdict
<1>6. /\ ~\E x \in ToSet(seen) : x.row.name = n /\ x.row.state = "failure"
      /\ Newest(seen, n) # {} /\ \A x \in Newest(seen, n) : x.row.state = "success"
  BY <1>5, Zenon DEF ContextState
<1>7. \A x \in Newest(seen, n) :
        /\ x \in ToSet(seen) /\ x.id \in DOMAIN now[x.kind]
        /\ now[x.kind][x.id].name = n /\ now[x.kind][x.id].pinned /\ now[x.kind][x.id].state = "success"
  <2> TAKE x \in Newest(seen, n)
  <2>1. x \in ToSet(seen) /\ x.row.pinned /\ x.row.name = n /\ x.row.state = "success"
    BY <1>6 DEF Newest, Pinned
  <2>2. x.kind \in Kinds
    BY <1>3, <2>1 DEF Seen
  <2> QED
    BY <1>1, <1>3, <2>1, <2>2 DEF Later
<1>8. ASSUME NEW k \in Kinds, NEW i \in DOMAIN stood[k], stood[k][i].name = n
      PROVE  stood[k][i].state # "failure"
  <2>1. PICK x \in ToSet(seen) : x.kind = k /\ x.id = i
    BY <1>4
  <2>2. Later(stood[k][i], x.row)
    BY <1>1, <1>3, <2>1
  <2> QED
    BY <1>6, <1>8, <2>2 DEF Later
<1>9. \E k \in Kinds : \E i \in DOMAIN now[k] :
        now[k][i].name = n /\ now[k][i].pinned /\ now[k][i].state = "success"
  <2>1. PICK x \in Newest(seen, n) : TRUE
    BY <1>6
  <2>2. x.kind \in Kinds
    BY <1>3, <1>7 DEF Seen
  <2> QED
    BY <1>7, <2>2
<1>10. ASSUME NEW k \in Kinds, NEW i \in DOMAIN stood[k], stood[k][i].name = n, stood[k][i].pinned
       PROVE  \E j \in i .. Len(now[k]) : now[k][j].name = n /\ now[k][j].pinned /\ now[k][j].state = "success"
  <2>1. PICK x \in ToSet(seen) : x.kind = k /\ x.id = i
    BY <1>4
  <2>2. Later(stood[k][i], x.row)
    BY <1>1, <1>3, <2>1
  <2>3. x \in Pinned(seen, n)
    BY <1>10, <2>1, <2>2 DEF Pinned, Later
  <2> DEFINE ids == {y.id : y \in {z \in Pinned(seen, n) : z.kind = k}}
  <2>4. ids \subseteq 0 .. Len(now[k]) /\ i \in ids
    <3>1. \A y \in Pinned(seen, n) : y \in ToSet(seen)
      BY DEF Pinned
    <3>2. \A y \in Pinned(seen, n) : y.kind = k => y.id \in 1 .. Len(now[k])
      BY <1>3, <3>1
    <3>3. 1 .. Len(now[k]) \subseteq 0 .. Len(now[k])
      BY <1>1
    <3> QED
      BY <2>1, <2>3, <3>2, <3>3
  <2> HIDE DEF ids
  <2>5. PICK top \in ids : \A id \in ids : id <= top
    BY <1>1, <2>4, Greatest
  <2>6. PICK y \in Pinned(seen, n) : y.kind = k /\ y.id = top
    BY DEF ids
  <2>7. y \in Newest(seen, n)
    BY <2>5, <2>6 DEF ids, Newest
  <2>8. /\ top \in DOMAIN now[k] /\ now[k][top].name = n /\ now[k][top].pinned
        /\ now[k][top].state = "success"
    BY <1>7, <2>6, <2>7
  <2> QED
    BY <1>1, <2>4, <2>5, <2>8
<1> QED
  BY <1>8, <1>9, <1>10

LEMMA RowsType ==
  \A a \in Rows, k \in Kinds : /\ Len(a[k]) \in Nat /\ DOMAIN a[k] = 1 .. Len(a[k])
                               /\ \A i \in 1 .. Len(a[k]) : a[k][i] \in Post
  BY DEF Rows

\* What was seen was so while the rows grow on.
LEMMA SeenGrows ==
  ASSUME NEW stood \in Rows, NEW a \in Rows, NEW b \in Rows, NEW seen \in Seq(Seen),
         GrownFrom(a, b), SeenSince(seen, stood, a)
  PROVE  SeenSince(seen, stood, b)
<1> SUFFICES ASSUME NEW m \in DOMAIN seen, NEW k, NEW i, NEW r,
                    k = seen[m].kind, i = seen[m].id, r = seen[m].row
             PROVE  /\ i \in 1 .. Len(b[k]) /\ Later(r, b[k][i])
                    /\ i <= Len(stood[k]) => Later(stood[k][i], r)
  BY Zenon DEF SeenSince
<1>1. seen[m] \in Seen
  OBVIOUS
<1>2. k \in Kinds /\ i \in Nat /\ r \in Post
  BY <1>1 DEF Seen
<1>3. i \in 1 .. Len(a[k]) /\ Later(r, a[k][i]) /\ (i <= Len(stood[k]) => Later(stood[k][i], r))
  BY Zenon DEF SeenSince
<1>4. Len(a[k]) \in Nat /\ Len(b[k]) \in Nat
  BY <1>2, RowsType
<1>5. Len(a[k]) <= Len(b[k]) /\ Later(a[k][i], b[k][i])
  BY <1>2, <1>3 DEF GrownFrom
<1>6. i \in 1 .. Len(b[k])
  BY <1>3, <1>4, <1>5
<1>7. a[k][i] \in Post /\ b[k][i] \in Post
  BY <1>2, <1>3, <1>6, RowsType
<1> QED
  BY <1>2, <1>3, <1>5, <1>6, <1>7, LaterIsOrder

LEMMA CoveredGrows ==
  ASSUME NEW stood \in Rows, NEW k \in Kinds, NEW seen, NEW more, NEW m \in Int, NEW n \in Int,
         m <= n, \A j \in 1 .. Len(stood[k]) : HasSeen(seen, k, j) => HasSeen(more, k, j),
         Covered(seen, k, stood, m)
  PROVE  Covered(more, k, stood, n)
<1>1. Len(stood[k]) \in Nat
  BY RowsType
<1> QED
  BY <1>1 DEF Covered

\* The forge moves on under an observation.
LEMMA PostForge ==
  ASSUME ForgeInv, NEW c \in Heads, (\E k \in Kinds : PostRow(c, k)) \/ CompleteRun(c)
  PROVE  ForgeInv'
<1>1. UNCHANGED <<tip, observer>>
  BY DEF PostRow, CompleteRun
<1>2. posts' \in [Heads -> Rows] /\ \A d \in Heads : GrownFrom(posts[d], posts'[d])
  BY PostsGrow DEF ForgeInv, ForgeTyped
<1>3. ForgeTyped'
  BY <1>1, <1>2 DEF ForgeInv, ForgeTyped
<1>4. observer.sha \in Heads => Now \in Rows /\ Now' \in Rows /\ GrownFrom(Now, Now')
  BY <1>1, <1>2 DEF ForgeInv, ForgeTyped, Now
<1>5. ASSUME observer.at \in {"statuses", "checks"} PROVE ListingInv'
  <2> DEFINE stood == observer.stood
             seen == observer.seen
             page == observer.page
  <2>1. /\ observer.sha \in Heads /\ stood \in Rows /\ page >= 1
        /\ GrownFrom(stood, Now) /\ SeenSince(seen, stood, Now)
        /\ Covered(seen, "status", stood, IF observer.at = "statuses" THEN Len(Now["status"]) + 1 - page ELSE 0)
        /\ observer.at = "checks" => Covered(seen, "check", stood, Len(Now["check"]) + 1 - page)
    BY <1>5 DEF ForgeInv, ListingInv
  <2>2. seen \in Seq(Seen) /\ page \in Nat
    BY DEF ForgeInv, ForgeTyped
  <2>3. GrownFrom(stood, Now')
    BY <1>4, <2>1, GrownIsOrder
  <2>4. \A k \in Kinds : Len(Now[k]) \in Nat /\ Len(Now'[k]) \in Nat /\ Len(Now[k]) <= Len(Now'[k])
    BY <1>4, <2>1, RowsType DEF GrownFrom
  <2> HIDE DEF stood, seen, page
  <2>5. SeenSince(seen, stood, Now')
    BY <1>4, <2>1, <2>2, SeenGrows
  <2>6. "status" \in Kinds /\ "check" \in Kinds
    BY DEF Kinds
  <2>7. ASSUME NEW k \in Kinds, Covered(seen, k, stood, Len(Now[k]) + 1 - page)
        PROVE  Covered(seen, k, stood, Len(Now'[k]) + 1 - page)
    <3>1. /\ Len(Now[k]) + 1 - page \in Int /\ Len(Now'[k]) + 1 - page \in Int
          /\ Len(Now[k]) + 1 - page <= Len(Now'[k]) + 1 - page
      BY <2>2, <2>4
    <3> QED
      BY <2>1, <2>7, <3>1, CoveredGrows
  <2>8. /\ Covered(seen, "status", stood, IF observer.at = "statuses" THEN Len(Now'["status"]) + 1 - page ELSE 0)
        /\ observer.at = "checks" => Covered(seen, "check", stood, Len(Now'["check"]) + 1 - page)
    BY <2>1, <2>6, <2>7
  <2> QED
    BY <1>1, <2>1, <2>3, <2>5, <2>8 DEF ListingInv, stood, seen, page
<1>6. ASSUME observer.at \notin {"statuses", "checks"} PROVE ListingInv'
  BY <1>1, <1>6 DEF ListingInv
<1>7. VerdictInv'
  <2> SUFFICES ASSUME observer.at = "confirm"
               PROVE  /\ observer.sha \in Heads /\ observer.stood \in Rows
                      /\ observer.verdict = "green" => Clear(observer.stood, Now')
    BY <1>1 DEF VerdictInv
  <2>1. observer.sha \in Heads /\ observer.stood \in Rows /\ (observer.verdict = "green" => Clear(observer.stood, Now))
    BY DEF ForgeInv, VerdictInv
  <2> QED
    BY <1>4, <2>1, ClearGrows
<1> QED
  BY <1>3, <1>5, <1>6, <1>7 DEF ForgeInv

LEMMA IdleForge ==
  ASSUME ForgeInv, observer' = Idle, UNCHANGED <<posts, tip>>
  PROVE  ForgeInv'
<1>1. /\ Idle \in [at : {"idle", "statuses", "checks", "confirm"}, sha : Heads \cup {"none"}, page : Nat,
                   total : Nat, seen : Seq(Seen), verdict : {"none", "green", "red"}, stood : Rows \cup {<<>>}]
      /\ Idle.at = "idle"
  BY DEF Idle
<1> QED
  BY <1>1 DEF ForgeInv, ForgeTyped, ListingInv, VerdictInv

LEMMA ReadTargetForge == ASSUME ForgeInv, ReadTarget PROVE ForgeInv'
<1>1. /\ observer' = [at |-> "statuses", sha |-> tip, page |-> 1, total |-> 0, seen |-> <<>>,
                      verdict |-> "none", stood |-> posts[tip]]
      /\ UNCHANGED <<posts, tip>>
  BY DEF ReadTarget, Idle
<1>2. tip \in Heads /\ posts[tip] \in Rows
  BY DEF ForgeInv, ForgeTyped
<1>3. Now' = posts[tip]
  BY <1>1 DEF Now
<1>4. "status" \in Kinds /\ Len(posts[tip]["status"]) \in Nat
  BY <1>2 DEF Rows, Kinds
<1>5. ForgeTyped'
  BY <1>1, <1>2 DEF ForgeInv, ForgeTyped
<1>6. GrownFrom(posts[tip], posts[tip])
  BY <1>2, GrownIsOrder
<1>7. SeenSince(<<>>, posts[tip], posts[tip])
  BY DEF SeenSince
<1>8. Covered(<<>>, "status", posts[tip], Len(posts[tip]["status"]) + 1 - 1)
  BY <1>4 DEF Covered
<1>9. ListingInv' /\ VerdictInv'
  BY <1>1, <1>2, <1>3, <1>6, <1>7, <1>8 DEF ListingInv, VerdictInv
<1> QED
  BY <1>5, <1>9 DEF ForgeInv

\* The next page of a listing shows one row more, and the ones before it are covered still.
LEMMA PageSeen ==
  ASSUME NEW now \in Rows, NEW stood \in Rows, NEW seen \in Seq(Seen), NEW k \in Kinds,
         GrownFrom(stood, now), SeenSince(seen, stood, now), NEW i \in 1 .. Len(now[k]),
         NEW more, more = Append(seen, [kind |-> k, id |-> i, row |-> now[k][i]])
  PROVE  /\ more \in Seq(Seen) /\ SeenSince(more, stood, now)
         /\ Covered(seen, k, stood, i) => Covered(more, k, stood, i - 1)
<1> DEFINE x == [kind |-> k, id |-> i, row |-> now[k][i]]
<1>1. Len(now[k]) \in Nat /\ Len(stood[k]) \in Nat /\ Len(stood[k]) <= Len(now[k])
  BY RowsType DEF GrownFrom
<1>2. i \in 1 .. Len(now[k]) /\ i \in Nat
  BY <1>1
<1>3. now[k][i] \in Post
  BY <1>2, RowsType
<1>4. x \in Seen /\ x.kind = k /\ x.id = i /\ x.row = now[k][i]
  BY <1>2, <1>3 DEF Seen
<1>5. more = Append(seen, x)
  OBVIOUS
<1> HIDE DEF x
<1>6. /\ more \in Seq(Seen) /\ DOMAIN more = 1 .. Len(seen) + 1 /\ Len(seen) \in Nat
      /\ DOMAIN seen = 1 .. Len(seen)
      /\ more[Len(seen) + 1] = x /\ \A m \in DOMAIN seen : more[m] = seen[m]
  BY <1>4, <1>5
<1>7. i <= Len(stood[k]) => Later(stood[k][i], now[k][i])
  <2>1. i <= Len(stood[k]) => i \in 1 .. Len(stood[k])
    BY <1>1, <1>2
  <2> QED
    BY <2>1, Zenon DEF GrownFrom
<1>8. SeenSince(more, stood, now)
  <2> SUFFICES ASSUME NEW m \in DOMAIN more
               PROVE  /\ more[m].id \in 1 .. Len(now[more[m].kind])
                      /\ Later(more[m].row, now[more[m].kind][more[m].id])
                      /\ more[m].id <= Len(stood[more[m].kind]) => Later(stood[more[m].kind][more[m].id], more[m].row)
    BY Zenon DEF SeenSince
  <2>1. CASE m \in DOMAIN seen
    <3>1. more[m] = seen[m]
      BY <1>6, <2>1
    <3> QED
      BY <2>1, <3>1, Zenon DEF SeenSince
  <2>2. CASE m = Len(seen) + 1
    <3>1. more[m] = x
      BY <1>6, <2>2
    <3>2. Later(now[k][i], now[k][i])
      BY <1>3, LaterIsOrder
    <3> QED
      BY <1>2, <1>4, <1>7, <3>1, <3>2
  <2>3. m \in DOMAIN seen \/ m = Len(seen) + 1
    BY <1>6
  <2> QED
    BY <2>1, <2>2, <2>3
<1>9. \A l \in Kinds, j \in Int : HasSeen(seen, l, j) => HasSeen(more, l, j)
  BY <1>6 DEF HasSeen
<1>10. HasSeen(more, k, i)
  <2>1. Len(seen) + 1 \in DOMAIN more
    BY <1>6
  <2> QED
    BY <1>4, <1>6, <2>1 DEF HasSeen
<1>11. Covered(seen, k, stood, i) => Covered(more, k, stood, i - 1)
  <2>1. \A j \in 1 .. Len(stood[k]) : j \in Int /\ (j <= i => j <= i - 1 \/ j = i)
    BY <1>1, <1>2
  <2> QED
    BY <1>9, <1>10, <2>1 DEF Covered
<1> QED
  BY <1>6, <1>8, <1>11

LEMMA StillSeen ==
  ASSUME NEW seen \in Seq(Seen), NEW x \in Seen, NEW stood \in Rows, NEW k \in Kinds, NEW last \in Int,
         Covered(seen, k, stood, last)
  PROVE  Covered(Append(seen, x), k, stood, last)
<1>1. \A j \in Int : HasSeen(seen, k, j) => HasSeen(Append(seen, x), k, j)
  BY DEF HasSeen
<1>2. Len(stood[k]) \in Nat
  BY RowsType
<1> QED
  BY <1>1, <1>2 DEF Covered

LEMMA PageNumbers ==
  \A len, page \in Nat : /\ len + 1 - page \in Int /\ (len + 1 - page) - 1 \in Int
                         /\ (len + 1 - page) - 1 = len + 1 - (page + 1)
                         /\ page + 1 \in Nat /\ page + 1 >= 1
                         /\ ~(page <= len) => len + 1 - page <= 0
                         /\ page >= 1 /\ page <= len => len + 1 - page \in 1 .. len
                         /\ page >= len => (len + 1 - page) - 1 <= 0
  OBVIOUS

LEMMA ListStatusesForge == ASSUME ForgeInv, ListStatuses PROVE ForgeInv'
<1> DEFINE stood == observer.stood
           seen == observer.seen
           page == observer.page
           length == Len(Now["status"])
           i == length + 1 - page
<1>1. /\ observer.sha \in Heads /\ stood \in Rows /\ page >= 1 /\ page \in Nat /\ seen \in Seq(Seen)
      /\ GrownFrom(stood, Now) /\ SeenSince(seen, stood, Now) /\ Covered(seen, "status", stood, i)
  BY DEF ForgeInv, ForgeTyped, ListingInv, ListStatuses
<1>2. Now \in Rows /\ "status" \in Kinds /\ "check" \in Kinds
  BY <1>1 DEF ForgeInv, ForgeTyped, Now, Kinds
<1>3. \A k \in Kinds : Len(Now[k]) \in Nat /\ Len(stood[k]) \in Nat /\ Len(stood[k]) <= Len(Now[k])
  BY <1>1, <1>2, RowsType DEF GrownFrom
<1>4. length \in Nat
  BY <1>2, <1>3
<1>5. /\ i \in Int /\ i - 1 \in Int /\ i - 1 = length + 1 - (page + 1)
      /\ page + 1 \in Nat /\ page + 1 >= 1
      /\ ~(page <= length) => i <= 0
      /\ page <= length => i \in 1 .. length
  <2> HIDE DEF length, page
  <2> QED
    BY <1>1, <1>4, PageNumbers
<1>6. CASE OnPage("status")
  <2> DEFINE more == Append(seen, [kind |-> "status", id |-> i, row |-> Now["status"][i]])
  <2>1. page <= length
    BY <1>6 DEF OnPage, Listing, Now
  <2>2. i \in 1 .. length
    BY <1>5, <2>1
  <2>3. observer' = [observer EXCEPT !.page = page + 1, !.seen = more] /\ UNCHANGED <<posts, tip>>
    BY <1>6 DEF ListStatuses, Turned, Item, Listing, Now
  <2> HIDE DEF i
  <2>4. more \in Seq(Seen) /\ SeenSince(more, stood, Now) /\ Covered(more, "status", stood, i - 1)
    BY <1>1, <1>2, <2>2, PageSeen
  <2> HIDE DEF more
  <2>5. /\ observer'.at = "statuses" /\ observer'.sha = observer.sha /\ observer'.stood = stood
        /\ observer'.page = page + 1 /\ observer'.seen = more
    BY <2>3 DEF ForgeInv, ForgeTyped, ListStatuses
  <2>6. Now' = Now
    BY <2>3, <2>5 DEF Now
  <2>7. ForgeTyped'
    BY <1>5, <2>3, <2>4 DEF ForgeInv, ForgeTyped
  <2>8. Covered(more, "status", stood, length + 1 - (page + 1))
    BY <1>5, <2>4
  <2>9. ListingInv' /\ VerdictInv'
    BY <1>1, <1>2, <1>5, <2>4, <2>5, <2>6, <2>8 DEF ListingInv, VerdictInv
  <2> QED
    BY <2>7, <2>9 DEF ForgeInv
<1>7. CASE ~OnPage("status")
  <2>1. ~(page <= length)
    BY <1>7 DEF OnPage, Listing, Now
  <2>2. i \in Int /\ i <= 0 /\ 0 \in Int
    BY <1>5, <2>1
  <2>3. observer' = [observer EXCEPT !.at = "checks", !.page = 1] /\ UNCHANGED <<posts, tip>>
    BY <1>7 DEF ListStatuses
  <2> HIDE DEF i
  <2>4. Covered(seen, "status", stood, 0)
    BY <1>1, <1>2, <2>2, CoveredGrows
  <2>5. Covered(seen, "check", stood, Len(Now["check"]) + 1 - 1)
    BY <1>2, <1>3 DEF Covered
  <2>6. /\ observer'.at = "checks" /\ observer'.sha = observer.sha /\ observer'.stood = stood
        /\ observer'.page = 1 /\ observer'.seen = seen
    BY <2>3 DEF ForgeInv, ForgeTyped
  <2>7. Now' = Now
    BY <2>3, <2>6 DEF Now
  <2>8. ForgeTyped'
    BY <2>3 DEF ForgeInv, ForgeTyped
  <2>9. ListingInv' /\ VerdictInv'
    BY <1>1, <1>2, <2>4, <2>5, <2>6, <2>7 DEF ListingInv, VerdictInv
  <2> QED
    BY <2>8, <2>9 DEF ForgeInv
<1> QED
  BY <1>6, <1>7

\* The last page of the check runs: their number has not changed, and all that stood
\* have been seen.
LEMMA ListChecksForge == ASSUME ForgeInv, ListChecks PROVE ForgeInv'
<1> DEFINE stood == observer.stood
           seen == observer.seen
           page == observer.page
           length == Len(Now["check"])
           i == length + 1 - page
           more == IF OnPage("check") THEN Append(seen, Item("check")) ELSE seen
<1>1. /\ observer.sha \in Heads /\ stood \in Rows /\ page >= 1 /\ page \in Nat /\ seen \in Seq(Seen)
      /\ GrownFrom(stood, Now) /\ SeenSince(seen, stood, Now) /\ Covered(seen, "check", stood, i)
      /\ Covered(seen, "status", stood, 0) /\ observer.at = "checks"
  BY DEF ForgeInv, ForgeTyped, ListingInv, ListChecks
<1>2. Now \in Rows /\ "status" \in Kinds /\ "check" \in Kinds /\ UNCHANGED <<posts, tip>>
  BY <1>1 DEF ForgeInv, ForgeTyped, Now, ListChecks, Kinds
<1>3. \A k \in Kinds : Len(Now[k]) \in Nat /\ Len(stood[k]) \in Nat /\ Len(stood[k]) <= Len(Now[k])
  BY <1>1, <1>2, RowsType DEF GrownFrom
<1>4. length \in Nat
  BY <1>2, <1>3
<1>5. /\ i \in Int /\ i - 1 \in Int /\ i - 1 = length + 1 - (page + 1)
      /\ page + 1 \in Nat /\ page + 1 >= 1
      /\ ~(page <= length) => i <= 0
      /\ page <= length => i \in 1 .. length
      /\ page >= length => i - 1 <= 0
  <2> HIDE DEF length, page
  <2> QED
    BY <1>1, <1>4, PageNumbers
<1>6. OnPage("check") <=> page <= length
  BY DEF OnPage, Listing, Now
<1>7. OnPage("check") =>
        more = Append(seen, [kind |-> "check", id |-> i, row |-> Now["check"][i]])
  BY DEF Item, Listing, Now
<1>8. ~OnPage("check") => more = seen
  OBVIOUS
<1>9. CASE Refused
  BY <1>2, <1>9, IdleForge DEF Refused
<1>10. ASSUME ~Refused, Enough(page) PROVE ForgeInv'
  <2>1. Examined(more) /\ Len(Now["check"]) = Expected
    BY <1>10 DEF ListChecks, Listing, Now
  <2>2. page >= length
    BY <1>10, <2>1 DEF Enough
  <2>3. i - 1 <= 0 /\ 0 \in Int
    BY <1>5, <2>2
  <2> HIDE DEF more, i
  <2>4. /\ more \in Seq(Seen) /\ SeenSince(more, stood, Now)
        /\ Covered(more, "status", stood, 0) /\ Covered(more, "check", stood, 0)
    <3>1. CASE OnPage("check")
      <4>1. i \in 1 .. length
        BY <1>5, <1>6, <3>1
      <4> DEFINE longer == Append(seen, [kind |-> "check", id |-> i, row |-> Now["check"][i]])
      <4>2. more = longer
        BY <1>7, <3>1
      <4>3. longer \in Seq(Seen) /\ SeenSince(longer, stood, Now)
        BY <1>1, <1>2, <4>1, PageSeen
      <4>4. Covered(longer, "check", stood, i - 1)
        BY <1>1, <1>2, <4>1, PageSeen
      <4>5. [kind |-> "check", id |-> i, row |-> Now["check"][i]] \in Seen
        BY <1>2, <1>4, <4>1, RowsType DEF Seen
      <4>6. Covered(longer, "status", stood, 0)
        BY <1>1, <1>2, <2>3, <4>5, StillSeen
      <4> HIDE DEF longer
      <4>7. Covered(more, "check", stood, i - 1)
        BY <4>2, <4>4
      <4>8. Covered(more, "check", stood, 0)
        BY <1>1, <1>2, <1>5, <2>3, <4>7, CoveredGrows
      <4> QED
        BY <4>2, <4>3, <4>6, <4>8
    <3>2. CASE ~OnPage("check")
      <4>1. i <= 0 /\ more = seen
        BY <1>5, <1>6, <1>8, <3>2
      <4>2. Covered(more, "check", stood, 0)
        BY <1>1, <1>2, <1>5, <2>3, <4>1, CoveredGrows
      <4> QED
        BY <1>1, <4>1, <4>2
    <3> QED
      BY <3>1, <3>2
  <2>5. \A k \in Kinds : \A j \in 1 .. Len(stood[k]) : HasSeen(more, k, j)
    <3> SUFFICES ASSUME NEW k \in Kinds, NEW j \in 1 .. Len(stood[k]) PROVE HasSeen(more, k, j)
      OBVIOUS
    <3>1. k \in {"status", "check"}
      BY DEF Kinds
    <3>2. Covered(more, k, stood, 0)
      BY <2>4, <3>1
    <3>3. Len(stood[k]) \in Nat /\ ~(j <= 0)
      BY <1>3
    <3> QED
      BY <3>2, <3>3 DEF Covered
  <2>6. /\ observer' = [at |-> "confirm", sha |-> observer.sha, page |-> 1, total |-> 0, seen |-> <<>>,
                        verdict |-> Verdict(more), stood |-> stood]
    BY <1>10, <2>1 DEF Examined, Idle
  <2>7. Verdict(more) \in {"none", "green", "red"}
    BY Zenon DEF Verdict
  <2>8. Verdict(more) = "green" => Clear(stood, Now)
    BY <1>1, <1>2, <2>4, <2>5, GreenIsClear
  <2> HIDE DEF stood
  <2>9. ForgeTyped'
    BY <1>1, <1>2, <2>6, <2>7 DEF ForgeInv, ForgeTyped
  <2>10. ListingInv' /\ VerdictInv'
    BY <1>1, <1>2, <2>6, <2>8 DEF Now, ListingInv, VerdictInv
  <2> QED
    BY <2>9, <2>10 DEF ForgeInv
<1>11. ASSUME ~Refused, ~Enough(page) PROVE ForgeInv'
  <2>1. /\ observer' = [observer EXCEPT !.page = page + 1, !.total = Expected, !.seen = more]
        /\ Len(Now["check"]) = Expected
    BY <1>11 DEF ListChecks, Turned, Listing, Now
  <2>2. ~(page >= length) /\ Expected \in Nat
    BY <1>4, <1>11, <2>1 DEF Enough
  <2>3. OnPage("check")
    BY <1>1, <1>4, <1>6, <2>2
  <2>4. i \in 1 .. length
    BY <1>5, <1>6, <2>3
  <2> HIDE DEF more, i
  <2>5. /\ more \in Seq(Seen) /\ SeenSince(more, stood, Now)
        /\ Covered(more, "status", stood, 0) /\ Covered(more, "check", stood, i - 1)
    <3> DEFINE longer == Append(seen, [kind |-> "check", id |-> i, row |-> Now["check"][i]])
    <3>1. more = longer /\ 0 \in Int
      BY <1>7, <2>3
    <3>2. longer \in Seq(Seen) /\ SeenSince(longer, stood, Now)
      BY <1>1, <1>2, <2>4, PageSeen
    <3>3. Covered(longer, "check", stood, i - 1)
      BY <1>1, <1>2, <2>4, PageSeen
    <3>4. [kind |-> "check", id |-> i, row |-> Now["check"][i]] \in Seen
      BY <1>2, <1>4, <2>4, RowsType DEF Seen
    <3>5. Covered(longer, "status", stood, 0)
      BY <1>1, <1>2, <3>1, <3>4, StillSeen
    <3> QED
      BY <3>1, <3>2, <3>3, <3>5
  <2>6. /\ observer'.at = "checks" /\ observer'.sha = observer.sha /\ observer'.stood = stood
        /\ observer'.page = page + 1 /\ observer'.seen = more
    BY <1>1, <2>1 DEF ForgeInv, ForgeTyped
  <2>7. Now' = Now
    BY <1>2, <2>6 DEF Now
  <2>8. ForgeTyped'
    BY <1>2, <1>5, <2>1, <2>2, <2>5 DEF ForgeInv, ForgeTyped
  <2>9. Covered(more, "check", stood, length + 1 - (page + 1))
    BY <1>5, <2>5
  <2>10. ListingInv' /\ VerdictInv'
    BY <1>1, <1>2, <1>5, <2>5, <2>6, <2>7, <2>9 DEF ListingInv, VerdictInv
  <2> QED
    BY <2>8, <2>10 DEF ForgeInv
<1> QED
  BY <1>9, <1>10, <1>11

LEMMA ForgeMoves == ASSUME ForgeInv, ForgeStep PROVE ForgeInv'
<1>1. ASSUME MoveTip PROVE ForgeInv'
  BY <1>1 DEF MoveTip, ForgeInv, ForgeTyped, ListingInv, VerdictInv, Now
<1>2. ASSUME Confirm PROVE ForgeInv'
  BY <1>2, IdleForge DEF Confirm, Refused
<1>3. ASSUME Fails PROVE ForgeInv'
  BY <1>3, IdleForge DEF Fails, Refused
<1> QED
  BY <1>1, <1>2, <1>3, PostForge, ReadTargetForge, ListStatusesForge, ListChecksForge DEF ForgeStep

LEMMA ForgeStill == ASSUME ForgeInv, UNCHANGED forgeVars PROVE ForgeInv'
  BY DEF forgeVars, ForgeInv, ForgeTyped, ListingInv, VerdictInv, Now

LEMMA ForgeNext == ASSUME ForgeInv, [Next]_vars PROVE ForgeInv' /\ ([ForgeStep]_forgeVars)
<1>1. [ForgeStep]_forgeVars
  BY Zenon DEF Next, InCompile, InForge, InRecord, InIndex, vars
<1> QED
  BY <1>1, ForgeMoves, ForgeStill

LEMMA ForgeInitial == Init => ForgeInv
<1> SUFFICES ASSUME ForgeInit PROVE ForgeInv
  BY DEF Init
<1>1. tip \in Heads
  BY ForgeAssumption DEF ForgeInit
<1>2. posts \in [Heads -> Rows]
  BY DEF ForgeInit, Rows
<1>3. observer = Idle /\ observer.at = "idle"
  BY DEF ForgeInit, Idle
<1>4. ForgeTyped
  BY <1>1, <1>2, <1>3 DEF ForgeTyped, Idle
<1> QED
  BY <1>3, <1>4 DEF ForgeInv, ListingInv, VerdictInv

\* "API failures and incomplete/malformed listings are undecided, never green": a green
\* pointer is recorded, and a citation of it stands, only in the step that ends an
\* observation, and on rows that were clear when that observation began, however many
\* rows are posted, complete or move from page to page while it turns the pages
\* (forge_evidence.py's observe, attest.py's attest_ci and _check_cited).
THEOREM GreenHolds == Spec => GreenStands
<1>1. ASSUME ForgeInv, [Next]_vars
      PROVE  [/\ pointer'.exit = "green"
              /\ pointer' # pointer \/ (cited' = "ATTESTED" /\ cited # "ATTESTED")
              => Clear(observer.stood, posts[observer.sha])]_forgeVars
  <2> SUFFICES ASSUME ForgeStep, pointer'.exit = "green",
                      pointer' # pointer \/ (cited' = "ATTESTED" /\ cited # "ATTESTED")
               PROVE  Clear(observer.stood, posts[observer.sha])
    BY <1>1, ForgeNext
  <2>1. Confirm
    BY DEF ForgeStep, CompleteRun, PostRow, MoveTip, ReadTarget, ListStatuses, ListChecks, Fails, Refused, Examined
  <2>2. observer.at = "confirm" /\ observer.verdict = "green"
    BY <2>1 DEF Confirm, Refused
  <2> QED
    BY <1>1, <2>2 DEF ForgeInv, VerdictInv, Now
<1> QED
  BY <1>1, ForgeInitial, ForgeNext, PTL DEF Spec, GreenStands

(***************************************************************************)
(* Schedule: what a plan runs, and in which order                          *)
(***************************************************************************)
\* Induction up to a bound, for a set of the numbers that are wanted.
LEMMA UpTo ==
  ASSUME NEW N \in Nat, NEW W, 0 \in W, \A m \in 1 .. N : m - 1 \in W => m \in W
  PROVE  0 .. N \subseteq W
<1> DEFINE T == (0 .. N) \ W
<1> SUFFICES ASSUME T # {} PROVE FALSE
  OBVIOUS
<1>1. T \subseteq Nat
  OBVIOUS
<1> HIDE DEF T
<1>2. PICK m \in T : \A k \in T : m <= k
  BY <1>1, Least
<1>3. m \in 1 .. N /\ m - 1 \in 0 .. N /\ m - 1 \notin T
  BY <1>2 DEF T
<1> QED
  BY <1>2, <1>3 DEF T

\* The bodies of a stage, a sequence of stages, the spots in it and what is put there.
Bodies == [Lanes -> Seq(Ids)] \cup [{NoLane} -> Seq(Ids)]
SpotsIn(q) == UNION {UNION {{<<s, l, k>> : k \in DOMAIN q[s][l]} : l \in DOMAIN q[s]} : s \in DOMAIN q}
Put(q, p) == q[p[1]][p[2]][p[3]]

Ahead(p, r) == p[1] < r[1] \/ (p[1] = r[1] /\ p[2] = r[2] /\ p[3] < r[3])
Beside(p, r) == p[1] = r[1] /\ p[2] # r[2] /\ NoLane \notin {p[2], r[2]}

\* The first n nodes of g are laid out, each once but for the fixers: in its own lane or
\* alone, and ahead of every later node but those that run beside it in another lane and
\* are not after it.
Laid(g, q, n) ==
  /\ q \in Seq(Bodies)
  /\ \A x \in (1 .. n) \ Owned(g) : \E p \in SpotsIn(q) : Put(q, p) = x
  /\ \A p \in SpotsIn(q) : Put(q, p) \in (1 .. n) \ Owned(g) /\ p[2] \in {NoLane, g[Put(q, p)].lane}
  /\ \A p, r \in SpotsIn(q) :
       /\ Put(q, p) = Put(q, r) => p = r
       /\ Put(q, p) < Put(q, r) => Ahead(p, r) \/ (Beside(p, r) /\ Put(q, p) \notin g[Put(q, r)].after)

LEMMA SpotType ==
  ASSUME NEW q \in Seq(Bodies), NEW p
  PROVE  p \in SpotsIn(q) <=>
           \E s \in 1 .. Len(q) : \E l \in DOMAIN q[s] : \E k \in 1 .. Len(q[s][l]) : p = <<s, l, k>>
<1>1. DOMAIN q = 1 .. Len(q)
  OBVIOUS
<1>2. \A s \in 1 .. Len(q) : \A l \in DOMAIN q[s] : DOMAIN q[s][l] = 1 .. Len(q[s][l])
  <2>1. \A s \in 1 .. Len(q) : q[s] \in Bodies
    OBVIOUS
  <2> QED
    BY <2>1 DEF Bodies
<1>3. p \in SpotsIn(q) <=> \E s \in DOMAIN q : \E l \in DOMAIN q[s] : \E k \in DOMAIN q[s][l] : p = <<s, l, k>>
  BY DEF SpotsIn
<1> QED
  BY <1>1, <1>2, <1>3

\* A stage more: the spots of the sequence, and those of the stage.
LEMMA StageAdded ==
  ASSUME NEW q \in Seq(Bodies), NEW b \in Bodies
  PROVE  /\ Append(q, b) \in Seq(Bodies)
         /\ \A p : p \in SpotsIn(Append(q, b)) <=>
              p \in SpotsIn(q) \/ \E l \in DOMAIN b : \E k \in 1 .. Len(b[l]) : p = <<Len(q) + 1, l, k>>
         /\ \A p \in SpotsIn(q) : p[1] \in 1 .. Len(q) /\ Put(Append(q, b), p) = Put(q, p)
         /\ \A l \in DOMAIN b : \A k \in 1 .. Len(b[l]) : Put(Append(q, b), <<Len(q) + 1, l, k>>) = b[l][k]
<1> DEFINE a == Append(q, b)
<1>1. /\ a \in Seq(Bodies) /\ Len(a) = Len(q) + 1 /\ Len(q) \in Nat /\ a[Len(q) + 1] = b
      /\ \A s \in 1 .. Len(q) : a[s] = q[s]
  OBVIOUS
<1> HIDE DEF a
<1>2. \A s \in 1 .. Len(a) : s \in 1 .. Len(q) \/ s = Len(q) + 1
  BY <1>1
<1>3. \A s \in 1 .. Len(q) : s \in 1 .. Len(a)
  BY <1>1
<1>4. Len(q) + 1 \in 1 .. Len(a)
  BY <1>1
<1>5. ASSUME NEW p
      PROVE  p \in SpotsIn(a) <=>
               p \in SpotsIn(q) \/ \E l \in DOMAIN b : \E k \in 1 .. Len(b[l]) : p = <<Len(q) + 1, l, k>>
  <2>1. ASSUME p \in SpotsIn(a)
        PROVE  p \in SpotsIn(q) \/ \E l \in DOMAIN b : \E k \in 1 .. Len(b[l]) : p = <<Len(q) + 1, l, k>>
    <3>1. PICK s \in 1 .. Len(a) : \E l \in DOMAIN a[s] : \E k \in 1 .. Len(a[s][l]) : p = <<s, l, k>>
      BY <1>1, <2>1, SpotType
    <3>2. CASE s \in 1 .. Len(q)
      BY <1>1, <3>1, <3>2, SpotType
    <3>3. CASE s = Len(q) + 1
      BY <1>1, <3>1, <3>3
    <3> QED
      BY <1>2, <3>2, <3>3
  <2>2. ASSUME p \in SpotsIn(q) PROVE p \in SpotsIn(a)
    <3>1. PICK s \in 1 .. Len(q) : \E l \in DOMAIN q[s] : \E k \in 1 .. Len(q[s][l]) : p = <<s, l, k>>
      BY <2>2, SpotType
    <3> QED
      BY <1>1, <1>3, <3>1, SpotType
  <2>3. ASSUME NEW l \in DOMAIN b, NEW k \in 1 .. Len(b[l]), p = <<Len(q) + 1, l, k>> PROVE p \in SpotsIn(a)
    BY <1>1, <1>4, <2>3, SpotType
  <2> QED
    BY <2>1, <2>2, <2>3
<1>6. ASSUME NEW p \in SpotsIn(q) PROVE p[1] \in 1 .. Len(q) /\ Put(a, p) = Put(q, p)
  <2>1. PICK s \in 1 .. Len(q) : \E l \in DOMAIN q[s] : \E k \in 1 .. Len(q[s][l]) : p = <<s, l, k>>
    BY SpotType
  <2> QED
    BY <1>1, <2>1 DEF Put
<1>7. \A l \in DOMAIN b : \A k \in 1 .. Len(b[l]) : Put(a, <<Len(q) + 1, l, k>>) = b[l][k]
  BY <1>1 DEF Put
<1> QED
  BY <1>1, <1>5, <1>6, <1>7 DEF a

\* One node more, on a spot that is ahead of none.
LEMMA OneMore ==
  ASSUME NEW g, NEW i \in Nat \ {0}, i \notin Owned(g), NEW q, Laid(g, q, i - 1),
         NEW a \in Seq(Bodies), NEW z, Put(a, z) = i, z[2] \in {NoLane, g[i].lane},
         \A p : p \in SpotsIn(a) <=> p \in SpotsIn(q) \/ p = z,
         \A p \in SpotsIn(q) : /\ Put(a, p) = Put(q, p)
                               /\ Ahead(p, z) \/ (Beside(p, z) /\ Put(q, p) \notin g[i].after)
  PROVE  Laid(g, a, i)
<1>1. \A p \in SpotsIn(q) : /\ Put(q, p) \in (1 .. i - 1) \ Owned(g) /\ p[2] \in {NoLane, g[Put(q, p)].lane}
                            /\ Put(a, p) = Put(q, p) /\ p \in SpotsIn(a)
  BY DEF Laid
<1>2. \A j \in 1 .. i - 1 : j \in 1 .. i /\ j < i
  OBVIOUS
<1>3. \A j \in 1 .. i : j \in 1 .. i - 1 \/ j = i
  OBVIOUS
<1>4. z \in SpotsIn(a) /\ i \in 1 .. i /\ ~(i < i)
  OBVIOUS
<1>5. \A x \in (1 .. i) \ Owned(g) : \E p \in SpotsIn(a) : Put(a, p) = x
  <2> TAKE x \in (1 .. i) \ Owned(g)
  <2>1. CASE x = i
    BY <1>4, <2>1
  <2>2. CASE x \in 1 .. i - 1
    <3>1. PICK p \in SpotsIn(q) : Put(q, p) = x
      BY <2>2 DEF Laid
    <3> QED
      BY <1>1, <3>1
  <2> QED
    BY <1>3, <2>1, <2>2
<1>6. ASSUME NEW p \in SpotsIn(a) PROVE Put(a, p) \in (1 .. i) \ Owned(g) /\ p[2] \in {NoLane, g[Put(a, p)].lane}
  <2>1. CASE p = z
    BY <1>4, <2>1
  <2>2. CASE p \in SpotsIn(q)
    BY <1>1, <1>2, <2>2
  <2> QED
    BY <2>1, <2>2
<1>7. ASSUME NEW p \in SpotsIn(a), NEW r \in SpotsIn(a)
      PROVE  /\ Put(a, p) = Put(a, r) => p = r
             /\ Put(a, p) < Put(a, r) => Ahead(p, r) \/ (Beside(p, r) /\ Put(a, p) \notin g[Put(a, r)].after)
  <2>1. CASE p \in SpotsIn(q) /\ r \in SpotsIn(q)
    BY <1>1, <2>1 DEF Laid
  <2>2. CASE p \in SpotsIn(q) /\ r = z
    <3>1. Put(a, p) < i /\ Put(a, p) # i
      BY <1>1, <1>2, <2>2
    <3> QED
      BY <1>1, <2>2, <3>1
  <2>3. CASE p = z /\ r \in SpotsIn(q)
    <3>1. Put(a, r) < i /\ Put(a, r) # i /\ ~(i < Put(a, r))
      BY <1>1, <1>2, <2>3
    <3> QED
      BY <2>3, <3>1
  <2>4. CASE p = z /\ r = z
    BY <1>4, <2>4
  <2> QED
    BY <2>1, <2>2, <2>3, <2>4
<1> QED
  BY <1>5, <1>6, <1>7 DEF Laid

\* The stages that are closed and the batch that is open.
Filling(g, s, n) ==
  /\ s \in [stages : Seq(Bodies), batch : [Lanes -> Seq(Ids)]]
  /\ Laid(g, Append(s.stages, s.batch), n)

LEMMA NothingAdded ==
  ASSUME NEW g, NEW n, NEW q \in Seq(Bodies)
  PROVE  Laid(g, Append(q, NoBatch), n) <=> Laid(g, q, n)
<1>1. NoBatch \in Bodies /\ DOMAIN NoBatch = Lanes /\ \A l \in Lanes : 1 .. Len(NoBatch[l]) = {}
  BY DEF NoBatch, Bodies
<1>2. /\ Append(q, NoBatch) \in Seq(Bodies)
      /\ \A p : p \in SpotsIn(Append(q, NoBatch)) <=>
           p \in SpotsIn(q) \/ \E l \in DOMAIN NoBatch : \E k \in 1 .. Len(NoBatch[l]) : p = <<Len(q) + 1, l, k>>
      /\ \A p \in SpotsIn(q) : Put(Append(q, NoBatch), p) = Put(q, p)
  BY <1>1, StageAdded
<1> DEFINE a == Append(q, NoBatch)
<1>3. SpotsIn(a) = SpotsIn(q)
  BY <1>1, <1>2
<1> HIDE DEF a
<1> QED
  BY <1>2, <1>3 DEF Laid, a

LEMMA FlushedLaid == ASSUME NEW g, NEW s, NEW n, Filling(g, s, n) PROVE Laid(g, Flushed(s), n)
<1>1. s.stages \in Seq(Bodies) /\ Laid(g, Append(s.stages, s.batch), n)
  BY DEF Filling
<1>2. CASE s.batch = NoBatch
  BY <1>1, <1>2, NothingAdded DEF Flushed
<1>3. CASE s.batch # NoBatch
  BY <1>1, <1>3 DEF Flushed
<1> QED
  BY <1>2, <1>3

LEMMA PlacedLaid ==
  ASSUME NEW g, NEW i \in Ids, i \notin Owned(g), g[i].lane \in Lanes \cup {NoLane},
         NEW s, Filling(g, s, i - 1)
  PROVE  Filling(g, Placed(g, s, i), i)
<1>0. i \in Nat \ {0} /\ NoLane \notin Lanes
  BY ScheduleAssumption DEF Ids
<1>1. CASE g[i].lane = NoLane \/ Foreign(g, s, i)
  <2> DEFINE q == Flushed(s)
             a == Append(q, Alone(i))
             z == <<Len(q) + 1, NoLane, 1>>
  <2>1. Placed(g, s, i) = [stages |-> a, batch |-> NoBatch]
    BY <1>1 DEF Placed
  <2>2. Laid(g, q, i - 1) /\ q \in Seq(Bodies)
    BY FlushedLaid DEF Laid
  <2>3. /\ Alone(i) \in Bodies /\ DOMAIN Alone(i) = {NoLane} /\ Len(Alone(i)[NoLane]) = 1
        /\ Alone(i)[NoLane][1] = i
    BY DEF Alone, Bodies
  <2>4. NoBatch \in [Lanes -> Seq(Ids)]
    BY DEF NoBatch
  <2> HIDE DEF q
  <2>5. /\ a \in Seq(Bodies)
        /\ \A p : p \in SpotsIn(a) <=>
             p \in SpotsIn(q) \/ \E l \in DOMAIN Alone(i) : \E k \in 1 .. Len(Alone(i)[l]) : p = <<Len(q) + 1, l, k>>
        /\ \A p \in SpotsIn(q) : p[1] \in 1 .. Len(q) /\ Put(a, p) = Put(q, p)
        /\ \A l \in DOMAIN Alone(i) : \A k \in 1 .. Len(Alone(i)[l]) : Put(a, <<Len(q) + 1, l, k>>) = Alone(i)[l][k]
    BY <2>2, <2>3, StageAdded
  <2>6. Put(a, z) = i /\ z[1] = Len(q) + 1 /\ z[2] = NoLane
    BY <2>3, <2>5
  <2>7. \A p : p \in SpotsIn(a) <=> p \in SpotsIn(q) \/ p = z
    <3> HIDE DEF a
    <3>1. 1 .. Len(Alone(i)[NoLane]) = {1}
      BY <2>3
    <3>2. \A p : (\E l \in DOMAIN Alone(i) : \E k \in 1 .. Len(Alone(i)[l]) : p = <<Len(q) + 1, l, k>>) <=> p = z
      <4> SUFFICES ASSUME NEW p
                   PROVE  (\E l \in {NoLane} : \E k \in 1 .. Len(Alone(i)[l]) : p = <<Len(q) + 1, l, k>>) <=> p = z
        BY <2>3
      <4>1. (\E l \in {NoLane} : \E k \in 1 .. Len(Alone(i)[l]) : p = <<Len(q) + 1, l, k>>)
              <=> \E k \in {1} : p = <<Len(q) + 1, NoLane, k>>
        BY <3>1
      <4> QED
        BY <4>1
    <3> QED
      BY <2>5, <3>2, Zenon
  <2> HIDE DEF a, z
  <2>8. \A p \in SpotsIn(q) : Ahead(p, z)
    BY <2>2, <2>5, <2>6 DEF Ahead
  <2>9. Laid(g, a, i)
    BY <1>0, <2>2, <2>5, <2>6, <2>7, <2>8, OneMore
  <2>10. Laid(g, Append(a, NoBatch), i)
    BY <2>5, <2>9, NothingAdded
  <2> QED
    BY <2>1, <2>4, <2>5, <2>10 DEF Filling
<1>2. CASE g[i].lane # NoLane /\ ~Foreign(g, s, i)
  <2> DEFINE l == g[i].lane
             u == s.batch
             b == [u EXCEPT ![l] = Append(u[l], i)]
             q == Append(s.stages, u)
             a == Append(s.stages, b)
             z == <<Len(s.stages) + 1, l, Len(u[l]) + 1>>
  <2>1. Placed(g, s, i) = [s EXCEPT !.batch = b]
    BY <1>2 DEF Placed
  <2>2. s.stages \in Seq(Bodies) /\ u \in [Lanes -> Seq(Ids)] /\ u \in Bodies /\ Laid(g, q, i - 1) /\ l \in Lanes
    BY <1>2 DEF Filling, Bodies
  <2>3. /\ b \in [Lanes -> Seq(Ids)] /\ b \in Bodies /\ DOMAIN b = Lanes /\ DOMAIN u = Lanes
        /\ Len(u[l]) \in Nat /\ Len(b[l]) = Len(u[l]) + 1 /\ b[l][Len(u[l]) + 1] = i
        /\ \A k \in 1 .. Len(u[l]) : b[l][k] = u[l][k]
        /\ \A m \in Lanes \ {l} : b[m] = u[m]
    BY <2>2 DEF Bodies
  <2> DEFINE last == Len(s.stages) + 1
             top == Len(u[l]) + 1
  <2>4. /\ q \in Seq(Bodies)
        /\ \A p : p \in SpotsIn(q) <=>
             p \in SpotsIn(s.stages) \/ \E m \in DOMAIN u : \E k \in 1 .. Len(u[m]) : p = <<last, m, k>>
        /\ \A p \in SpotsIn(s.stages) : p[1] \in 1 .. Len(s.stages) /\ Put(q, p) = Put(s.stages, p)
        /\ \A m \in DOMAIN u : \A k \in 1 .. Len(u[m]) : Put(q, <<last, m, k>>) = u[m][k]
    BY <2>2, StageAdded
  <2> HIDE DEF b
  <2>5. /\ a \in Seq(Bodies)
        /\ \A p : p \in SpotsIn(a) <=>
             p \in SpotsIn(s.stages) \/ \E m \in DOMAIN b : \E k \in 1 .. Len(b[m]) : p = <<last, m, k>>
        /\ \A p \in SpotsIn(s.stages) : Put(a, p) = Put(s.stages, p)
        /\ \A m \in DOMAIN b : \A k \in 1 .. Len(b[m]) : Put(a, <<last, m, k>>) = b[m][k]
    BY <2>2, <2>3, StageAdded
  <2>6. ~\E d \in g[i].after, m \in Lanes \ {l} : d \in ToSet(u[m])
    BY <1>2 DEF Foreign
  <2>7. \A m \in Lanes : \A k \in 1 .. Len(u[m]) : u[m][k] \in ToSet(u[m])
    BY <2>2 DEF ToSet
  <2>8. Len(s.stages) \in Nat /\ last \in Nat /\ z[1] = last /\ z[2] = l /\ z[3] = top /\ z = <<last, l, top>>
    BY <2>2
  <2> HIDE DEF q, a, z, l, u, last
  <2>9. \A k \in 1 .. Len(b[l]) : k \in 1 .. Len(u[l]) \/ k = top
    BY <2>3
  <2>10. top \in 1 .. Len(b[l])
    BY <2>3
  <2>11. \A k \in 1 .. Len(u[l]) : k \in 1 .. Len(b[l]) /\ k < top
    BY <2>3
  <2> HIDE DEF top
  <2>12. Put(a, z) = i /\ z \in SpotsIn(a)
    BY <2>2, <2>3, <2>5, <2>8, <2>10 DEF top
  <2>13. ASSUME NEW p \in SpotsIn(q)
         PROVE  /\ p \in SpotsIn(a) /\ Put(a, p) = Put(q, p)
                /\ Ahead(p, z) \/ (Beside(p, z) /\ Put(q, p) \notin g[i].after)
    <3>1. CASE p \in SpotsIn(s.stages)
      <4>1. p[1] \in 1 .. Len(s.stages) /\ p \in SpotsIn(a) /\ Put(a, p) = Put(q, p)
        BY <2>4, <2>5, <3>1
      <4>2. p[1] < last
        BY <2>8, <4>1 DEF last
      <4> QED
        BY <2>8, <4>1, <4>2 DEF Ahead
    <3>2. CASE \E m \in Lanes : \E k \in 1 .. Len(u[m]) : p = <<last, m, k>>
      <4>1. PICK m \in Lanes : \E k \in 1 .. Len(u[m]) : p = <<last, m, k>>
        BY <3>2
      <4>2. PICK k \in 1 .. Len(u[m]) : p = <<last, m, k>>
        BY <4>1
      <4>3. Put(q, p) = u[m][k]
        BY <2>3, <2>4, <4>2
      <4>4. k \in 1 .. Len(b[m]) /\ b[m][k] = u[m][k]
        BY <2>3, <2>11
      <4>5. p \in SpotsIn(a) /\ Put(a, p) = u[m][k]
        BY <2>3, <2>5, <4>2, <4>4
      <4>6. CASE m = l
        BY <2>8, <2>11, <4>2, <4>3, <4>5, <4>6 DEF Ahead
      <4>7. CASE m # l
        BY <1>0, <2>2, <2>6, <2>7, <2>8, <4>2, <4>3, <4>5, <4>7 DEF Beside
      <4> QED
        BY <4>6, <4>7
    <3> QED
      BY <2>3, <2>4, <3>1, <3>2
  <2>14. ASSUME NEW p \in SpotsIn(a) PROVE p \in SpotsIn(q) \/ p = z
    <3>1. CASE p \in SpotsIn(s.stages)
      BY <2>4, <3>1
    <3>2. CASE \E m \in Lanes : \E k \in 1 .. Len(b[m]) : p = <<last, m, k>>
      <4>1. PICK m \in Lanes : \E k \in 1 .. Len(b[m]) : p = <<last, m, k>>
        BY <3>2
      <4>2. PICK k \in 1 .. Len(b[m]) : p = <<last, m, k>>
        BY <4>1
      <4>3. CASE m = l
        BY <2>3, <2>4, <2>8, <2>9, <4>2, <4>3
      <4>4. CASE m # l
        BY <2>3, <2>4, <4>2, <4>4
      <4> QED
        BY <4>3, <4>4
    <3> QED
      BY <2>3, <2>5, <3>1, <3>2
  <2>15. Laid(g, a, i)
    <3>1. \A p : p \in SpotsIn(a) <=> p \in SpotsIn(q) \/ p = z
      BY <2>12, <2>13, <2>14
    <3>2. z[2] \in {NoLane, g[i].lane}
      BY <2>8 DEF l
    <3> QED
      BY <1>0, <2>2, <2>5, <2>12, <2>13, <3>1, <3>2, OneMore
  <2>16. Placed(g, s, i) \in [stages : Seq(Bodies), batch : [Lanes -> Seq(Ids)]]
         /\ Placed(g, s, i).stages = s.stages /\ Placed(g, s, i).batch = b
    BY <2>1, <2>2, <2>3 DEF Filling
  <2> QED
    BY <2>15, <2>16 DEF Filling, a
<1> QED
  BY <1>1, <1>2

\* What an author may have declared.
WellMade(g) ==
  /\ g \in Seq(Fields)
  /\ \A i \in 1 .. Len(g) : i \in Ids /\ WellFormed(g[i]) /\ g[i].after \cup {g[i].of} \subseteq 0 .. i - 1
  /\ \A i \in 1 .. Len(g) : g[i].role = "effect" => g[i].lane = NoLane
  /\ \A i \in 1 .. Len(g) : g[i].role = "check" => g[g[i].of].role = "build" /\ g[g[i].of].lane = g[i].lane
  /\ \A i, j \in 1 .. Len(g) : g[i].role = "check" /\ g[j].role = "check" => i = j
  /\ \A i, j \in 1 .. Len(g) :
       g[i].ref = g[j].ref /\ g[i].ref # NoRef /\ NoLane \notin {g[i].lane, g[j].lane} => g[i].lane = g[j].lane

LEMMA WellMadeType ==
  ASSUME NEW g, WellMade(g)
  PROVE  /\ Len(g) \in Nat /\ DOMAIN g = 1 .. Len(g)
         /\ \A i \in 1 .. Len(g) :
              /\ i \in Ids /\ g[i] \in Fields /\ g[i].lane \in Lanes \cup {NoLane} /\ g[i].role \in Roles
              /\ g[i].after \subseteq 1 .. i - 1 /\ g[i].of \in 0 .. i - 1
              /\ g[i].of # 0 <=> g[i].role \in {"gate", "check", "reduce"}
<1>1. Len(g) \in Nat /\ DOMAIN g = 1 .. Len(g) /\ \A i \in 1 .. Len(g) : g[i] \in Fields
  BY DEF WellMade
<1>2. ASSUME NEW i \in 1 .. Len(g)
      PROVE  /\ i \in Ids /\ g[i].lane \in Lanes \cup {NoLane} /\ g[i].role \in Roles
             /\ g[i].after \subseteq 1 .. i - 1 /\ g[i].of \in 0 .. i - 1
             /\ g[i].of # 0 <=> g[i].role \in {"gate", "check", "reduce"}
  <2>1. g[i] \in Fields
    BY <1>1
  <2>2. i \in Ids /\ WellFormed(g[i]) /\ g[i].after \cup {g[i].of} \subseteq 0 .. i - 1
    BY DEF WellMade
  <2>3. g[i].lane \in Lanes \cup {NoLane} /\ g[i].role \in Roles /\ g[i].after \subseteq Ids
    BY <2>1 DEF Fields
  <2>4. g[i].after \subseteq 1 .. i - 1
    BY <1>1, <2>2, <2>3 DEF Ids
  <2>5. g[i].of # 0 <=> g[i].role \in {"gate", "check", "reduce"}
    BY <2>2 DEF WellFormed
  <2> QED
    BY <2>2, <2>3, <2>4, <2>5
<1> QED
  BY <1>1, <1>2

Unlaid == [stages |-> <<>>, batch |-> NoBatch]
Taking(g, s, i) == IF i \in Owned(g) THEN s ELSE Placed(g, s, i)

\* The recursive function of execution_stages is what its equation says.
LEMMA StagesDefined ==
  ASSUME NEW g, Len(g) \in Nat
  PROVE  \E f : /\ f = [i \in 0 .. Len(g) |-> IF i = 0 THEN Unlaid ELSE Taking(g, f[i - 1], i)]
                /\ Stages(g) = Flushed(f[Len(g)])
<1> DEFINE W == {n \in 0 .. Len(g) : \E f : f = [i \in 0 .. n |-> IF i = 0 THEN Unlaid ELSE Taking(g, f[i - 1], i)]}
<1>1. 0 \in W
  <2> DEFINE h == [i \in 0 .. 0 |-> Unlaid]
  <2>1. h = [i \in 0 .. 0 |-> IF i = 0 THEN Unlaid ELSE Taking(g, h[i - 1], i)]
    OBVIOUS
  <2> HIDE DEF h
  <2>2. \E f : f = [i \in 0 .. 0 |-> IF i = 0 THEN Unlaid ELSE Taking(g, f[i - 1], i)]
    BY <2>1
  <2> QED
    BY <2>2
<1>2. ASSUME NEW m \in 1 .. Len(g), m - 1 \in W PROVE m \in W
  <2>1. PICK h : h = [i \in 0 .. m - 1 |-> IF i = 0 THEN Unlaid ELSE Taking(g, h[i - 1], i)]
    BY <1>2
  <2> DEFINE e == [i \in 0 .. m |-> IF i = m THEN Taking(g, h[m - 1], m) ELSE h[i]]
  <2>2. ASSUME NEW i \in 0 .. m PROVE e[i] = IF i = 0 THEN Unlaid ELSE Taking(g, e[i - 1], i)
    BY <1>2, <2>1
  <2>3. e = [i \in 0 .. m |-> e[i]]
    OBVIOUS
  <2>4. e = [i \in 0 .. m |-> IF i = 0 THEN Unlaid ELSE Taking(g, e[i - 1], i)]
    BY <2>2, <2>3
  <2> HIDE DEF e
  <2>5. \E f : f = [i \in 0 .. m |-> IF i = 0 THEN Unlaid ELSE Taking(g, f[i - 1], i)]
    BY <2>4
  <2> QED
    BY <2>5
<1>3. Len(g) \in W
  <2> HIDE DEF W
  <2>1. 0 .. Len(g) \subseteq W
    BY <1>1, <1>2, UpTo
  <2> QED
    BY <2>1
<1> DEFINE F == CHOOSE f : f = [i \in 0 .. Len(g) |-> IF i = 0 THEN Unlaid ELSE Taking(g, f[i - 1], i)]
<1>4. F = [i \in 0 .. Len(g) |-> IF i = 0 THEN Unlaid ELSE Taking(g, F[i - 1], i)]
  BY <1>3
<1>5. Stages(g) = Flushed(F[Len(g)])
  BY DEF Stages, Unlaid, Taking
<1> HIDE DEF F
<1> QED
  BY <1>4, <1>5

LEMMA StagesLaid == ASSUME NEW g, WellMade(g) PROVE Laid(g, Stages(g), Len(g))
<1>1. Len(g) \in Nat /\ \A i \in 1 .. Len(g) : i \in Ids /\ g[i].lane \in Lanes \cup {NoLane}
  BY WellMadeType
<1>2. PICK f : /\ f = [i \in 0 .. Len(g) |-> IF i = 0 THEN Unlaid ELSE Taking(g, f[i - 1], i)]
               /\ Stages(g) = Flushed(f[Len(g)])
  BY <1>1, StagesDefined
<1>3. f[0] = Unlaid /\ \A i \in 1 .. Len(g) : f[i] = Taking(g, f[i - 1], i)
  BY <1>1, <1>2
<1> DEFINE W == {n \in 0 .. Len(g) : Filling(g, f[n], n)}
<1>4. \A n \in 0 .. Len(g) : n \in W <=> Filling(g, f[n], n)
  BY Zenon
<1> HIDE DEF W
<1>5. 0 \in W
  <2>1. Unlaid \in [stages : Seq(Bodies), batch : [Lanes -> Seq(Ids)]] /\ Unlaid.stages = <<>> /\ Unlaid.batch = NoBatch
    BY DEF Unlaid, NoBatch
  <2>2. SpotsIn(<<>>) = {} /\ <<>> \in Seq(Bodies)
    BY DEF SpotsIn
  <2>3. Laid(g, <<>>, 0)
    BY <2>2 DEF Laid
  <2>4. Laid(g, Append(Unlaid.stages, Unlaid.batch), 0)
    BY <2>1, <2>2, <2>3, NothingAdded
  <2>5. Filling(g, Unlaid, 0)
    BY <2>1, <2>4 DEF Filling
  <2> QED
    BY <1>1, <1>3, <1>4, <2>5
<1>6. ASSUME NEW m \in 1 .. Len(g), m - 1 \in W PROVE m \in W
  <2>1. m - 1 \in 0 .. Len(g) /\ m \in 0 .. Len(g) /\ m \in Ids
    BY <1>1
  <2>2. Filling(g, f[m - 1], m - 1)
    BY <1>4, <1>6, <2>1
  <2> DEFINE s == f[m - 1]
  <2>3. f[m] = Taking(g, s, m)
    BY <1>3
  <2> HIDE DEF s
  <2>4. CASE m \in Owned(g)
    <3>1. Laid(g, Append(s.stages, s.batch), m - 1)
      BY <2>2 DEF Filling, s
    <3>2. /\ \A x : x \in (1 .. m) \ Owned(g) <=> x \in (1 .. m - 1) \ Owned(g)
      BY <1>1, <2>4
    <3>3. Laid(g, Append(s.stages, s.batch), m)
      BY <3>1, <3>2 DEF Laid
    <3>4. Filling(g, s, m)
      BY <2>2, <3>3 DEF Filling, s
    <3> QED
      BY <1>4, <2>1, <2>3, <2>4, <3>4 DEF Taking
  <2>5. CASE m \notin Owned(g)
    <3>1. Filling(g, Placed(g, s, m), m)
      BY <1>1, <2>1, <2>2, <2>5, PlacedLaid DEF s
    <3> QED
      BY <1>4, <2>1, <2>3, <2>5, <3>1 DEF Taking
  <2> QED
    BY <2>4, <2>5
<1>7. Filling(g, f[Len(g)], Len(g))
  <2>1. 0 .. Len(g) \subseteq W
    BY <1>1, <1>5, <1>6, UpTo
  <2>2. Len(g) \in 0 .. Len(g)
    BY <1>1
  <2> QED
    BY <1>4, <2>1, <2>2
<1> QED
  BY <1>2, <1>7, FlushedLaid

\* A plan of an accepted graph.
Standing == WellMade(graph) /\ Laid(graph, plan, Len(graph))

LEMMA HostType ==
  ASSUME WellMade(graph), NEW i \in 1 .. Len(graph)
  PROVE  /\ Host(i) \in (1 .. Len(graph)) \ Owned(graph)
         /\ graph[Host(i)].lane = graph[i].lane
         /\ i \notin Owned(graph) => Host(i) = i
         /\ i \in Owned(graph) => /\ graph[i].role = "build" /\ i < Host(i)
                                  /\ graph[Host(i)].role = "check" /\ graph[Host(i)].of = i
<1>1. /\ Len(graph) \in Nat /\ DOMAIN graph = 1 .. Len(graph)
      /\ \A c \in 1 .. Len(graph) : graph[c].of \in 0 .. c - 1
      /\ \A c \in 1 .. Len(graph) : graph[c].role = "check" => graph[c].of # 0
  BY WellMadeType
<1>2. /\ \A c \in 1 .. Len(graph) : graph[c].role = "check" =>
           graph[graph[c].of].role = "build" /\ graph[graph[c].of].lane = graph[c].lane
      /\ \A c, d \in 1 .. Len(graph) : graph[c].role = "check" /\ graph[d].role = "check" => c = d
  BY DEF WellMade
<1>3. \A j : j \in Owned(graph) => \E c \in 1 .. Len(graph) : graph[c].role = "check" /\ graph[c].of = j
  BY <1>1 DEF Owned
<1>4. CASE i \notin Owned(graph)
  BY <1>4 DEF Host
<1>5. CASE i \in Owned(graph)
  <2>1. PICK c \in 1 .. Len(graph) : graph[c].role = "check" /\ graph[c].of = i
    BY <1>3, <1>5
  <2>2. Host(i) = c
    BY <1>1, <1>2, <1>5, <2>1 DEF Host
  <2>3. graph[i].role = "build" /\ graph[i].lane = graph[c].lane /\ i < c
    BY <1>1, <1>2, <2>1
  <2>4. c \notin Owned(graph)
    <3> SUFFICES ASSUME c \in Owned(graph) PROVE FALSE
      OBVIOUS
    <3>1. PICK d \in 1 .. Len(graph) : graph[d].role = "check" /\ graph[d].of = c
      BY <1>3
    <3> QED
      BY <1>2, <2>1, <3>1
  <2> QED
    BY <1>5, <2>1, <2>2, <2>3, <2>4
<1> QED
  BY <1>4, <1>5

LEMMA PlacesOne ==
  ASSUME Standing, NEW x \in (1 .. Len(graph)) \ Owned(graph)
  PROVE  \E p \in SpotsIn(plan) : Put(plan, p) = x /\ Places(x) = {p}
<1>1. PICK p \in SpotsIn(plan) : Put(plan, p) = x
  BY DEF Standing, Laid
<1>2. \A r \in SpotsIn(plan) : Put(plan, r) = x => r = p
  BY <1>1 DEF Standing, Laid
<1>3. Places(x) = {r \in SpotsIn(plan) : Put(plan, r) = x}
  BY DEF Places, Spots, SpotsIn, Put
<1> QED
  BY <1>1, <1>2, <1>3

LEMMA SpotNumbers ==
  ASSUME Standing, NEW p \in SpotsIn(plan) PROVE p[1] \in Nat /\ p[3] \in Nat
<1>1. plan \in Seq(Bodies)
  BY DEF Standing, Laid
<1>2. PICK s \in 1 .. Len(plan) : \E l \in DOMAIN plan[s] : \E k \in 1 .. Len(plan[s][l]) : p = <<s, l, k>>
  BY <1>1, SpotType
<1>3. PICK l \in DOMAIN plan[s] : \E k \in 1 .. Len(plan[s][l]) : p = <<s, l, k>>
  BY <1>2
<1>4. PICK k \in 1 .. Len(plan[s][l]) : p = <<s, l, k>>
  BY <1>3
<1>5. Len(plan) \in Nat /\ Len(plan[s][l]) \in Nat
  <2> DEFINE b == plan[s]
  <2>1. b \in Bodies /\ l \in DOMAIN b
    BY <1>1, <1>2, <1>3
  <2> HIDE DEF b
  <2>2. b[l] \in Seq(Ids)
    BY <2>1 DEF Bodies
  <2>3. Len(b[l]) \in Nat
    BY <2>2
  <2> QED
    BY <1>1, <2>3 DEF b
<1> QED
  BY <1>4, <1>5

\* Of two nodes the one that is declared first, or hosted so, is ahead, unless they run
\* side by side.
LEMMA HostsOrdered ==
  ASSUME Standing, NEW i \in 1 .. Len(graph), NEW j \in 1 .. Len(graph), Host(i) < Host(j)
  PROVE  \/ Before(i, j)
         \/ /\ graph[i].lane # graph[j].lane /\ NoLane \notin {graph[i].lane, graph[j].lane}
            /\ Host(i) \notin graph[Host(j)].after
<1>1. /\ Host(i) \in (1 .. Len(graph)) \ Owned(graph) /\ graph[Host(i)].lane = graph[i].lane
      /\ Host(j) \in (1 .. Len(graph)) \ Owned(graph) /\ graph[Host(j)].lane = graph[j].lane
  BY HostType DEF Standing
<1>2. PICK p \in SpotsIn(plan) : Put(plan, p) = Host(i) /\ Places(Host(i)) = {p}
  BY <1>1, PlacesOne
<1>3. PICK r \in SpotsIn(plan) : Put(plan, r) = Host(j) /\ Places(Host(j)) = {r}
  BY <1>1, PlacesOne
<1>4. Ahead(p, r) \/ (Beside(p, r) /\ Host(i) \notin graph[Host(j)].after)
  BY <1>2, <1>3 DEF Standing, Laid
<1>5. CASE Ahead(p, r)
  BY <1>2, <1>3, <1>5 DEF Ahead, Before
<1>6. CASE Beside(p, r) /\ Host(i) \notin graph[Host(j)].after
  <2>1. p[2] \in {NoLane, graph[i].lane} /\ r[2] \in {NoLane, graph[j].lane}
    BY <1>1, <1>2, <1>3 DEF Standing, Laid
  <2> QED
    BY <1>6, <2>1 DEF Beside
<1> QED
  BY <1>4, <1>5, <1>6

LEMMA BeforeIsTransitive ==
  ASSUME Standing, NEW i \in 1 .. Len(graph), NEW j \in 1 .. Len(graph), NEW k \in 1 .. Len(graph),
         Before(i, j), Before(j, k)
  PROVE  Before(i, k)
<1>1. PICK p \in SpotsIn(plan) : Places(Host(i)) = {p}
  BY HostType, PlacesOne DEF Standing
<1>2. PICK q \in SpotsIn(plan) : Places(Host(j)) = {q}
  BY HostType, PlacesOne DEF Standing
<1>3. PICK r \in SpotsIn(plan) : Places(Host(k)) = {r}
  BY HostType, PlacesOne DEF Standing
<1>4. p[1] \in Nat /\ p[3] \in Nat /\ q[1] \in Nat /\ q[3] \in Nat /\ r[1] \in Nat /\ r[3] \in Nat
  BY SpotNumbers
<1>5. Ahead(p, q) /\ Ahead(q, r)
  BY <1>1, <1>2, <1>3 DEF Before, Ahead
<1>6. \A a, b, c \in Nat : a < b /\ b < c => a < c
  OBVIOUS
<1>7. Ahead(p, r)
  <2>1. CASE p[1] < q[1] /\ q[1] < r[1]
    BY <1>4, <1>6, <2>1, Zenon DEF Ahead
  <2>2. CASE p[1] < q[1] /\ q[1] = r[1]
    BY <2>2, Zenon DEF Ahead
  <2>3. CASE p[1] = q[1] /\ q[1] < r[1]
    BY <2>3, Zenon DEF Ahead
  <2>4. CASE p[1] = q[1] /\ p[2] = q[2] /\ p[3] < q[3] /\ q[1] = r[1] /\ q[2] = r[2] /\ q[3] < r[3]
    BY <1>4, <1>6, <2>4, Zenon DEF Ahead
  <2> QED
    BY <1>5, <2>1, <2>2, <2>3, <2>4, Zenon DEF Ahead
<1> QED
  BY <1>1, <1>3, <1>7 DEF Before, Ahead

\* What a node consumes is before it, but for what the code overlooks.
LEMMA EdgeKept ==
  ASSUME Standing, NEW i \in 1 .. Len(graph), NEW d \in Consumed(graph[i])
  PROVE  d \in 1 .. i - 1 /\ (Before(d, i) \/ Overlooked(d, i))
<1>1. /\ Len(graph) \in Nat /\ graph[i].after \subseteq 1 .. i - 1 /\ graph[i].of \in 0 .. i - 1
      /\ graph[i].role = "reduce" => graph[i].of # 0
      /\ NoLane \notin Lanes
  BY WellMadeType, ScheduleAssumption DEF Standing
<1>2. d \in graph[i].after \/ (graph[i].role = "reduce" /\ d = graph[i].of)
  BY DEF Consumed
<1>3. d \in 1 .. i - 1 /\ d \in 1 .. Len(graph) /\ d < i
  BY <1>1, <1>2
<1>4. /\ Host(d) \in 1 .. Len(graph) /\ Host(i) \in 1 .. Len(graph)
      /\ d \notin Owned(graph) => Host(d) = d
      /\ i \notin Owned(graph) => Host(i) = i
      /\ d \in Owned(graph) => d < Host(d)
      /\ i \in Owned(graph) => i < Host(i)
  BY <1>3, HostType DEF Standing
<1>5. CASE Host(d) = Host(i)
  BY <1>3, <1>5 DEF Overlooked
<1>6. CASE d \in Owned(graph) /\ i < Host(d)
  BY <1>3, <1>6 DEF Overlooked
<1>7. CASE Host(d) # Host(i) /\ ~(d \in Owned(graph) /\ i < Host(d))
  <2>1. Host(d) < Host(i)
    <3>1. CASE d \notin Owned(graph)
      BY <1>1, <1>3, <1>4, <1>7, <3>1
    <3>2. CASE d \in Owned(graph) /\ i \notin Owned(graph)
      BY <1>1, <1>3, <1>4, <1>7, <3>2
    <3>3. CASE d \in Owned(graph) /\ i \in Owned(graph)
      <4>1. /\ graph[Host(d)].role = "check" /\ graph[Host(i)].role = "check"
        BY <1>3, <3>3, HostType DEF Standing
      <4>2. Host(d) = Host(i)
        BY <1>4, <4>1 DEF Standing, WellMade
      <4> QED
        BY <1>7, <4>2
    <3> QED
      BY <3>1, <3>2, <3>3
  <2>2. Before(d, i) \/ /\ graph[d].lane # graph[i].lane /\ NoLane \notin {graph[d].lane, graph[i].lane}
                        /\ Host(d) \notin graph[Host(i)].after
    BY <1>3, <2>1, HostsOrdered
  <2>3. ASSUME graph[d].lane # graph[i].lane, NoLane \notin {graph[d].lane, graph[i].lane},
               Host(d) \notin graph[Host(i)].after
        PROVE  Overlooked(d, i)
    <3>1. CASE {d, i} \cap Owned(graph) # {}
      BY <2>3, <3>1 DEF Overlooked
    <3>2. CASE {d, i} \cap Owned(graph) = {}
      <4>1. graph[i].role = "reduce"
        BY <1>2, <1>4, <2>3, <3>2
      <4> QED
        BY <2>3, <4>1 DEF Overlooked
    <3> QED
      BY <3>1, <3>2
  <2> QED
    BY <1>3, <2>2, <2>3
<1> QED
  BY <1>5, <1>6, <1>7

LEMMA ConsumedType ==
  ASSUME NEW g, WellMade(g), NEW i \in 1 .. Len(g) PROVE Consumed(g[i]) \subseteq 1 .. i - 1
<1>1. /\ g[i].after \subseteq 1 .. i - 1 /\ g[i].of \in 0 .. i - 1 /\ (g[i].role = "reduce" => g[i].of # 0)
  BY WellMadeType
<1> QED
  BY <1>1 DEF Consumed

\* The recursive function of ancestors is what its equation says.
LEMMA AncestorsDefined ==
  ASSUME NEW g, WellMade(g)
  PROVE  \A i \in 1 .. Len(g) :
           Ancestors(g)[i] = Consumed(g[i]) \cup UNION {Ancestors(g)[d] : d \in Consumed(g[i])}
<1>1. Len(g) \in Nat /\ DOMAIN g = 1 .. Len(g)
  BY WellMadeType
<1>2. \A i \in 1 .. Len(g) : Consumed(g[i]) \subseteq 1 .. i - 1
  BY ConsumedType
<1> DEFINE All(h, i) == Consumed(g[i]) \cup UNION {h[d] : d \in Consumed(g[i])}
           W == {n \in 0 .. Len(g) : \E f : f = [i \in 1 .. n |-> All(f, i)]}
<1>3. 0 \in W
  <2> DEFINE h == [i \in 1 .. 0 |-> {}]
  <2>1. h = [i \in 1 .. 0 |-> All(h, i)]
    OBVIOUS
  <2> HIDE DEF h
  <2> HIDE DEF All
  <2>2. \E f : f = [i \in 1 .. 0 |-> All(f, i)]
    BY <2>1 DEF All
  <2>3. 0 \in 0 .. Len(g)
    BY <1>1
  <2> QED
    BY <2>2, <2>3, Zenon
<1>4. ASSUME NEW m \in 1 .. Len(g), m - 1 \in W PROVE m \in W
  <2> HIDE DEF All
  <2>1. PICK h : h = [i \in 1 .. m - 1 |-> All(h, i)]
    BY <1>4
  <2> DEFINE e == [i \in 1 .. m |-> IF i = m THEN All(h, m) ELSE h[i]]
  <2>2. ASSUME NEW i \in 1 .. m PROVE e[i] = All(e, i)
    <3>1. \A d \in Consumed(g[i]) : e[d] = h[d]
      BY <1>1, <1>2
    <3>2. All(e, i) = All(h, i)
      BY <3>1 DEF All
    <3>3. e[i] = All(h, i)
      <4>1. i # m => i \in 1 .. m - 1
        BY <1>1
      <4> QED
        BY <2>1, <4>1
    <3> QED
      BY <3>2, <3>3
  <2>3. e = [i \in 1 .. m |-> e[i]]
    OBVIOUS
  <2>4. e = [i \in 1 .. m |-> All(e, i)]
    BY <2>2, <2>3
  <2> HIDE DEF e
  <2>5. \E f : f = [i \in 1 .. m |-> All(f, i)]
    BY <2>4
  <2> QED
    BY <1>1, <2>5
<1>5. \E f : f = [i \in 1 .. Len(g) |-> All(f, i)]
  <2> HIDE DEF W
  <2>1. 0 .. Len(g) \subseteq W
    BY <1>1, <1>3, <1>4, UpTo
  <2>2. Len(g) \in W
    BY <1>1, <2>1
  <2> QED
    BY <2>2 DEF W
<1> DEFINE F == CHOOSE f : f = [i \in 1 .. Len(g) |-> All(f, i)]
<1>6. F = [i \in 1 .. Len(g) |-> All(F, i)]
  <2> HIDE DEF All
  <2> QED
    BY <1>5
<1>7. Ancestors(g) = F
  BY <1>1 DEF Ancestors
<1> HIDE DEF F
<1> QED
  BY <1>6, <1>7

\* A node's ancestors are declared before it, and theirs are its own.
LEMMA AncestorsType ==
  ASSUME NEW g, WellMade(g)
  PROVE  \A i \in 1 .. Len(g) :
           Ancestors(g)[i] \subseteq 1 .. i - 1 /\ \A d \in Ancestors(g)[i] : Ancestors(g)[d] \subseteq Ancestors(g)[i]
<1> DEFINE A(i) == Ancestors(g)[i]
           Good(i) == A(i) \subseteq 1 .. i - 1 /\ \A d \in A(i) : A(d) \subseteq A(i)
           T == {i \in 1 .. Len(g) : ~Good(i)}
<1>1. Len(g) \in Nat
  BY WellMadeType
<1>2. \A i \in 1 .. Len(g) : A(i) = Consumed(g[i]) \cup UNION {A(d) : d \in Consumed(g[i])}
  BY AncestorsDefined
<1>3. \A i \in 1 .. Len(g) : Consumed(g[i]) \subseteq 1 .. i - 1
  BY ConsumedType
<1> HIDE DEF A
<1>4. T = {}
  <2> SUFFICES ASSUME T # {} PROVE FALSE
    OBVIOUS
  <2>1. \A i \in 1 .. Len(g) : i \notin T => Good(i)
    OBVIOUS
  <2>2. T \subseteq 1 .. Len(g) /\ T \subseteq Nat
    BY <1>1
  <2>3. \A i \in T : ~Good(i)
    OBVIOUS
  <2> HIDE DEF T
  <2>4. PICK i \in T : \A k \in T : i <= k
    BY <2>2, Least
  <2>5. i \in 1 .. Len(g)
    BY <2>2
  <2>6. \A d \in Consumed(g[i]) : d \in 1 .. i - 1 /\ d \in 1 .. Len(g) /\ Good(d)
    BY <1>1, <1>3, <2>1, <2>4, <2>5
  <2>7. A(i) \subseteq 1 .. i - 1
    BY <1>1, <1>2, <2>5, <2>6
  <2>8. ASSUME NEW d \in A(i) PROVE A(d) \subseteq A(i)
    <3>1. CASE d \in Consumed(g[i])
      BY <1>2, <2>5, <3>1
    <3>2. CASE \E c \in Consumed(g[i]) : d \in A(c)
      BY <1>2, <2>5, <2>6, <3>2
    <3> QED
      BY <1>2, <2>5, <3>1, <3>2
  <2> QED
    BY <2>3, <2>4, <2>7, <2>8
<1> QED
  BY <1>4 DEF A

\* Unless an edge on the way is overlooked, all ancestors of a node are before it.
LEMMA AncestorsBefore ==
  ASSUME Standing, NEW i \in 1 .. Len(graph),
         ~\E r \in Ancestors(graph)[i] \cup {i} : \E d \in Consumed(graph[r]) : Overlooked(d, r)
  PROVE  \A d \in Ancestors(graph)[i] : Before(d, i)
<1> DEFINE A(j) == Ancestors(graph)[j]
           T == {j \in A(i) \cup {i} : \E d \in A(j) : ~Before(d, j)}
<1>1. Len(graph) \in Nat /\ WellMade(graph)
  BY WellMadeType DEF Standing
<1>2. \A j \in 1 .. Len(graph) : A(j) = Consumed(graph[j]) \cup UNION {A(d) : d \in Consumed(graph[j])}
  BY <1>1, AncestorsDefined
<1>3. \A j \in 1 .. Len(graph) : A(j) \subseteq 1 .. j - 1 /\ \A d \in A(j) : A(d) \subseteq A(j)
  BY <1>1, AncestorsType
<1>4. \A r \in A(i) \cup {i} : \A d \in Consumed(graph[r]) : ~Overlooked(d, r)
  OBVIOUS
<1> HIDE DEF A
<1>5. A(i) \cup {i} \subseteq 1 .. Len(graph)
  BY <1>1, <1>3
<1>6. T = {}
  <2> SUFFICES ASSUME T # {} PROVE FALSE
    OBVIOUS
  <2>1. T \subseteq Nat
    BY <1>1, <1>5
  <2>2. \A j \in A(i) \cup {i} : j \notin T => \A d \in A(j) : Before(d, j)
    OBVIOUS
  <2>3. \A j \in T : j \in A(i) \cup {i} /\ \E d \in A(j) : ~Before(d, j)
    OBVIOUS
  <2> HIDE DEF T
  <2>4. PICK j \in T : \A k \in T : j <= k
    BY <2>1, Least
  <2>5. j \in 1 .. Len(graph) /\ j \in A(i) \cup {i}
    BY <1>5, <2>3, <2>4
  <2>6. PICK d \in A(j) : ~Before(d, j)
    BY <2>3, <2>4
  <2>7. \A c \in Consumed(graph[j]) : c \in 1 .. j - 1 /\ c \in A(j) /\ Before(c, j)
    BY <1>2, <1>4, <2>5, EdgeKept
  <2>8. PICK c \in Consumed(graph[j]) : d \in A(c)
    BY <1>2, <2>5, <2>6, <2>7
  <2>9. c \in A(i) /\ c \in 1 .. Len(graph) /\ c \notin T
    <3>1. c \in A(i)
      BY <1>3, <1>5, <2>5, <2>7
    <3>2. ~(j <= c)
      BY <1>1, <2>5, <2>7
    <3> QED
      BY <1>5, <2>4, <3>1, <3>2
  <2>10. Before(d, c) /\ Before(c, j)
    BY <2>2, <2>7, <2>8, <2>9
  <2>11. d \in 1 .. Len(graph)
    BY <1>1, <1>3, <2>8, <2>9
  <2> QED
    BY <2>5, <2>6, <2>9, <2>10, <2>11, BeforeIsTransitive
<1> QED
  BY <1>6 DEF A

LEMMA RunsOnce ==
  ASSUME Standing PROVE \A i \in DOMAIN graph \ Owned(graph) : Cardinality(Places(i)) = 1
<1>1. DOMAIN graph = 1 .. Len(graph)
  BY WellMadeType DEF Standing
<1> SUFFICES ASSUME NEW i \in (1 .. Len(graph)) \ Owned(graph) PROVE Cardinality(Places(i)) = 1
  BY <1>1
<1>2. PICK p : Places(i) = {p}
  BY PlacesOne
<1> QED
  BY <1>2, FS_Singleton

\* Nodes of which the first is hosted before the second, and that cannot run side by side.
LEMMA AloneIsOrdered ==
  ASSUME Standing, NEW i \in 1 .. Len(graph), NEW j \in 1 .. Len(graph), Host(i) # Host(j),
         graph[i].lane = graph[j].lane \/ NoLane \in {graph[i].lane, graph[j].lane}
  PROVE  Before(i, j) \/ Before(j, i)
<1>1. Len(graph) \in Nat /\ Host(i) \in 1 .. Len(graph) /\ Host(j) \in 1 .. Len(graph)
  BY WellMadeType, HostType DEF Standing
<1>2. CASE Host(i) < Host(j)
  BY <1>2, HostsOrdered
<1>3. CASE Host(j) < Host(i)
  BY <1>3, HostsOrdered
<1> QED
  BY <1>1, <1>2, <1>3

\* A gate runs after what it judges: it is an ancestor, or, in a graph that is emitted one
\* node after the other, was declared before.
LEMMA GateKept ==
  ASSUME Standing, Coherent(graph), NEW i \in 1 .. Len(graph), graph[i].role = "gate"
  PROVE  \/ Before(graph[i].of, i) \/ Overlooked(graph[i].of, i)
         \/ \E r \in Ancestors(graph)[i] \cup {i} : \E d \in Consumed(graph[r]) : Overlooked(d, r)
<1> DEFINE x == graph[i].of
<1>1. /\ Len(graph) \in Nat /\ DOMAIN graph = 1 .. Len(graph) /\ x \in 1 .. i - 1 /\ x \in 1 .. Len(graph)
  BY WellMadeType DEF Standing
<1>2. Founded(graph, i)
  BY <1>1 DEF Coherent
<1>3. CASE Modern(graph)
  <2>1. x \in Ancestors(graph)[i]
    BY <1>2, <1>3 DEF Founded
  <2> QED
    BY <2>1, AncestorsBefore
<1>4. CASE ~Modern(graph)
  <2>1. \A j \in 1 .. Len(graph) : graph[j].lane = NoLane
    BY <1>1, <1>4 DEF Modern
  <2>2. i \notin Owned(graph) /\ Host(i) = i
    BY HostType DEF Standing
  <2>3. CASE x \in Owned(graph) /\ i < Host(x)
    BY <2>3 DEF Overlooked
  <2>4. CASE ~(x \in Owned(graph) /\ i < Host(x))
    <3>1. Host(x) \in 1 .. Len(graph) /\ (x \notin Owned(graph) => Host(x) = x)
          /\ (x \in Owned(graph) => graph[Host(x)].role = "check")
      BY <1>1, HostType DEF Standing
    <3>2. Host(x) < Host(i)
      <4>1. CASE x \in Owned(graph)
        <5>1. Host(x) # i
          BY <3>1, <4>1
        <5> QED
          BY <1>1, <2>2, <2>4, <3>1, <4>1, <5>1
      <4>2. CASE x \notin Owned(graph)
        BY <1>1, <2>2, <3>1, <4>2
      <4> QED
        BY <4>1, <4>2
    <3> HIDE DEF x
    <3>3. Before(x, i)
      BY <1>1, <2>1, <3>2, HostsOrdered
    <3> QED
      BY <3>3 DEF x
  <2> QED
    BY <2>3, <2>4
<1> QED
  BY <1>3, <1>4

LEMMA RefsApart ==
  ASSUME Standing, NEW i \in 1 .. Len(graph), NEW j \in 1 .. Len(graph),
         graph[i].ref = graph[j].ref, graph[i].ref # NoRef
  PROVE  Host(i) = Host(j) \/ Before(i, j) \/ Before(j, i)
<1>1. graph[i].lane = graph[j].lane \/ NoLane \in {graph[i].lane, graph[j].lane}
  BY DEF Standing, WellMade
<1> QED
  BY <1>1, AloneIsOrdered

LEMMA OrderStands == ASSUME Standing, Coherent(graph) PROVE OrderIsKept
<1>1. DOMAIN graph = 1 .. Len(graph)
  BY WellMadeType DEF Standing
<1>2. \A i \in DOMAIN graph : \A d \in Consumed(graph[i]) : Before(d, i) \/ Overlooked(d, i)
  BY <1>1, EdgeKept
<1>3. \A i \in DOMAIN graph : graph[i].role = "gate" =>
        \/ Before(graph[i].of, i) \/ Overlooked(graph[i].of, i)
        \/ \E r \in Ancestors(graph)[i] \cup {i} : \E d \in Consumed(graph[r]) : Overlooked(d, r)
  BY <1>1, GateKept
<1>4. \A i, j \in DOMAIN graph : graph[i].ref = graph[j].ref /\ graph[i].ref # NoRef =>
        Host(i) = Host(j) \/ Before(i, j) \/ Before(j, i)
  BY <1>1, RefsApart
<1> QED
  BY <1>2, <1>3, <1>4, RunsOnce DEF OrderIsKept

LEMMA EffectStands == ASSUME Standing, Coherent(graph) PROVE EffectIsGuarded
<1>1. Len(graph) \in Nat /\ DOMAIN graph = 1 .. Len(graph)
  BY WellMadeType DEF Standing
<1> SUFFICES ASSUME NEW i \in 1 .. Len(graph), graph[i].role = "effect"
             PROVE  /\ \A j \in (1 .. Len(graph)) \ {i} : Host(j) = Host(i) \/ Before(i, j) \/ Before(j, i)
                    /\ \E j \in 1 .. Len(graph) :
                         /\ graph[j].role = "gate" /\ Before(j, i)
                         /\ LaneGraph(graph) \/ graph[i].after = {} => ~graph[j].replay
  BY <1>1 DEF EffectIsGuarded
<1>2. graph[i].lane = NoLane
  BY DEF Standing, WellMade
<1>3. \A j \in (1 .. Len(graph)) \ {i} : Host(j) = Host(i) \/ Before(i, j) \/ Before(j, i)
  BY <1>2, AloneIsOrdered
<1>4. Guards(graph, i) # {} /\ \A j \in Protected(graph, i) : ~graph[j].replay
  BY <1>1 DEF Coherent, Founded
<1>5. PICK j \in 1 .. i - 1 : graph[j].role = "gate" /\ (LaneGraph(graph) => j \in Ancestors(graph)[i])
  BY <1>4 DEF Guards
<1>6. j \in 1 .. Len(graph) /\ j < i
  BY <1>1, <1>5
<1>7. Host(j) = j /\ Host(i) = i
  BY <1>5, <1>6, HostType DEF Standing
<1>8. Before(j, i)
  BY <1>2, <1>6, <1>7, HostsOrdered
<1>9. LaneGraph(graph) \/ graph[i].after = {} => ~graph[j].replay
  BY <1>4, <1>5 DEF Protected
<1> QED
  BY <1>3, <1>5, <1>6, <1>8, <1>9

\* A graph that is declared node by node is well made, and a plan is that of its graph.
PlanInv ==
  /\ WellMade(graph) /\ Len(graph) <= Size
  /\ compiled = "yes" => Coherent(graph) /\ plan = Stages(graph)

LEMMA DeclareMakesWell ==
  ASSUME WellMade(graph), Len(graph) < Size, NEW n \in Node[Len(graph) + 1], Accepts(graph, n)
  PROVE  WellMade(Append(graph, n)) /\ Len(Append(graph, n)) <= Size
<1> DEFINE a == Append(graph, n)
           m == Len(graph) + 1
<1>1. Len(graph) \in Nat /\ DOMAIN graph = 1 .. Len(graph) /\ Size \in Nat
  BY WellMadeType, ScheduleAssumption
<1>2. m \in Ids /\ m \in Nat
  BY <1>1 DEF Ids
<1>3. n \in Fields /\ WellFormed(n) /\ n.after \cup {n.of} \subseteq 0 .. m - 1
  BY <1>2 DEF Node
<1>4. /\ a \in Seq(Fields) /\ Len(a) = m /\ a[m] = n
      /\ \A i \in 1 .. Len(graph) : a[i] = graph[i]
  BY <1>1, <1>3 DEF WellMade
<1>5. n.of \in 0 .. Len(graph) /\ (n.of # 0 => n.of \in 1 .. Len(graph))
  <2>1. 0 .. m - 1 = 0 .. Len(graph)
    BY <1>1
  <2>2. n.of \in 0 .. Len(graph)
    BY <1>3, <2>1
  <2> DEFINE x == n.of
             last == Len(graph)
  <2> HIDE DEF x, last
  <2>3. last \in Nat /\ x \in 0 .. last
    BY <1>1, <2>2 DEF x, last
  <2>4. x # 0 => x \in 1 .. last
    BY <2>3
  <2> QED
    BY <2>2, <2>4 DEF x, last
<1>6. \A i \in 1 .. m : i \in 1 .. Len(graph) \/ i = m
  BY <1>1
<1>7. \A i \in 1 .. Len(graph) : graph[i].of \in 0 .. i - 1 /\ (graph[i].role = "check" => graph[i].of \in 1 .. Len(graph))
  BY <1>1, WellMadeType
<1> HIDE DEF a, m
<1>8. \A i \in 1 .. m : i \in Ids /\ WellFormed(a[i]) /\ a[i].after \cup {a[i].of} \subseteq 0 .. i - 1
  BY <1>2, <1>3, <1>4, <1>6 DEF WellMade
<1>9. \A i \in 1 .. m : a[i].role = "effect" => a[i].lane = NoLane
  BY <1>4, <1>6 DEF WellMade, Accepts
<1>10. \A i \in 1 .. m : a[i].role = "check" => a[a[i].of].role = "build" /\ a[a[i].of].lane = a[i].lane
  <2> SUFFICES ASSUME NEW i \in 1 .. m, a[i].role = "check"
               PROVE  a[a[i].of].role = "build" /\ a[a[i].of].lane = a[i].lane
    OBVIOUS
  <2>1. CASE i \in 1 .. Len(graph)
    BY <1>4, <1>7, <2>1 DEF WellMade
  <2>2. CASE i = m
    <3>1. n.of \in 1 .. Len(graph)
      BY <1>3, <1>4, <1>5, <2>2 DEF WellFormed
    <3> QED
      BY <1>4, <2>2, <3>1 DEF Accepts
  <2> QED
    BY <1>6, <2>1, <2>2
<1>11. \A i, j \in 1 .. m : a[i].role = "check" /\ a[j].role = "check" => i = j
  BY <1>1, <1>4, <1>6 DEF WellMade, Accepts
<1>12. \A i, j \in 1 .. m :
         a[i].ref = a[j].ref /\ a[i].ref # NoRef /\ NoLane \notin {a[i].lane, a[j].lane} => a[i].lane = a[j].lane
  <2> SUFFICES ASSUME NEW i \in 1 .. m, NEW j \in 1 .. m, a[i].ref = a[j].ref, a[i].ref # NoRef,
                      NoLane \notin {a[i].lane, a[j].lane}
               PROVE  a[i].lane = a[j].lane
    OBVIOUS
  <2>1. \A k \in 1 .. Len(graph) :
          n.ref # NoRef /\ n.lane # NoLane /\ graph[k].ref = n.ref /\ graph[k].lane # NoLane => graph[k].lane = n.lane
    BY <1>1 DEF Accepts, OneLaneEach
  <2>2. CASE i \in 1 .. Len(graph) /\ j \in 1 .. Len(graph)
    BY <1>4, <2>2 DEF WellMade
  <2>3. CASE i \in 1 .. Len(graph) /\ j = m
    BY <1>4, <2>1, <2>3
  <2>4. CASE i = m /\ j \in 1 .. Len(graph)
    BY <1>4, <2>1, <2>4
  <2>5. CASE i = m /\ j = m
    BY <2>5
  <2> QED
    BY <1>6, <2>2, <2>3, <2>4, <2>5
<1>13. m <= Size
  BY <1>1 DEF m
<1>14. Len(a) = m /\ a \in Seq(Fields)
  BY <1>4
<1>15. WellMade(a)
  BY <1>8, <1>9, <1>10, <1>11, <1>12, <1>14 DEF WellMade
<1> QED
  BY <1>13, <1>14, <1>15 DEF a

LEMMA PlanInitial == Init => PlanInv
<1> SUFFICES ASSUME PlanInit PROVE PlanInv
  BY DEF Init
<1>1. WellMade(<<>>)
  BY DEF WellMade
<1> QED
  BY <1>1, ScheduleAssumption DEF PlanInit, PlanInv

LEMMA PlanNext == ASSUME PlanInv, [Next]_vars PROVE PlanInv'
<1>1. [PlanStep]_planVars
  BY Zenon DEF Next, InCompile, InForge, InRecord, InIndex, vars
<1>2. CASE UNCHANGED planVars
  BY <1>2 DEF PlanInv, planVars
<1>3. ASSUME Refuse PROVE PlanInv'
  <2>1. WellMade(<<>>)
    BY DEF WellMade
  <2> QED
    BY <1>3, <2>1, ScheduleAssumption DEF Refuse, PlanInv
<1>4. ASSUME Len(graph) < Size, NEW n \in Node[Len(graph) + 1], Declare(n) PROVE PlanInv'
  <2>1. CASE Accepts(graph, n)
    BY <1>4, <2>1, DeclareMakesWell DEF Declare, PlanInv
  <2>2. CASE ~Accepts(graph, n)
    BY <1>3, <1>4, <2>2 DEF Declare
  <2> QED
    BY <2>1, <2>2
<1>5. ASSUME Compile PROVE PlanInv'
  <2>1. CASE Coherent(graph)
    BY <1>5, <2>1 DEF Compile, PlanInv
  <2>2. CASE ~Coherent(graph)
    BY <1>3, <1>5, <2>2 DEF Compile
  <2> QED
    BY <2>1, <2>2
<1> QED
  BY <1>1, <1>2, <1>4, <1>5 DEF PlanStep

\* Of every graph of any size, with any lanes and branches: if compile-graph.py accepts it,
\* each node is emitted once, after all that it consumes and a gate after what it judges,
\* but for the edges that execution_stages overlooks; no two builders that push to one
\* ref are side by side, nothing is beside an irreversible effect, and a gate is before it.
THEOREM PlanSound == Spec => []PlanIsSound
<1>1. PlanInv => PlanIsSound
  <2> SUFFICES ASSUME PlanInv, compiled = "yes" PROVE OrderIsKept /\ EffectIsGuarded
    BY DEF PlanIsSound
  <2>1. Standing /\ Coherent(graph)
    BY StagesLaid DEF PlanInv, Standing
  <2> QED
    BY <2>1, OrderStands, EffectStands
<1> QED
  BY <1>1, PlanInitial, PlanNext, PTL DEF Spec
=============================================================================
