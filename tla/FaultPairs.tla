----------------------------- MODULE FaultPairs -----------------------------
(***************************************************************************)
(* One crash of a gate, classified by the declared policy, may be run      *)
(* again once: natively, and then inside the pinned reference runtime.     *)
(* Only two green reruns on the crash's own tree settle it; everything     *)
(* else leaves it red for the run.  fault_attempts.py, over the records of *)
(* background.py and the gate execution of attest.py.                      *)
(*                                                                         *)
(* Requests race for the one attempt; its worker, detached or not, runs    *)
(* the two legs while the tree may move, the manifest may be edited, a     *)
(* cancellation may arrive and any process may die.  A tree that moves     *)
(* does not come back: a move that is undone within one leg is invisible   *)
(* to the code, which reads HEAD and dirt before and after.                *)
(***************************************************************************)
EXTENDS Naturals

CONSTANTS Requests,  \* calls of attest.py --rerun-fault for this crash
          Worker     \* the process a detached request starts
ASSUME RequestsAssumption == Worker \notin Requests

Procs == Requests \cup {Worker}
Roles == {"native", "reference"}

VARIABLES
  pc,       \* process -> where it is
  receipt,  \* record fault_<id>: taken, and workerStarted
  lock,     \* holder of the lock on fault_<id>, or "free"
  rec,      \* the pair's record: status and cancelRequested
  leg,      \* role -> the leg's record and row
  pair,     \* the pair's row: "none", "green" or "red"
  fresh,    \* a later green execution of the gate on the same tree was recorded
  tree, manifest,
  canceller,\* "idle", "asked" (read a running record), "gone"
  ran,      \* history: role -> how often the leg was executed
  pure,     \* history: role -> tree and manifest stood still while it ran
  stopped   \* history: a cancellation was on record before the pair's row was

vars == <<pc, receipt, lock, rec, leg, pair, fresh, tree, manifest, canceller, ran, pure, stopped>>

NoLeg == [status |-> "none", row |-> "none", bound |-> FALSE]
Terminal == {"DONE", "CANCELLED", "ERROR"}
Active == {"write", "spawn", "own", "ready", "exec", "run", "publish", "record", "print"}

TypeOK ==
  /\ pc \in [Procs -> [at : Active \cup {"off", "enter", "valid", "over", "dead"},
                       role : Roles]]
  /\ receipt \in [taken : BOOLEAN, started : BOOLEAN]
  /\ lock \in Procs \cup {"free"}
  /\ rec \in [status : Terminal \cup {"none", "RUNNING"}, cancel : BOOLEAN]
  /\ leg \in [Roles -> [status : {"none", "RUNNING", "DONE", "CANCELLED"},
                        row : {"none", "green", "red"}, bound : BOOLEAN]]
  /\ pair \in {"none", "green", "red"} /\ fresh \in BOOLEAN
  /\ tree \in {"original", "moved"} /\ manifest \in {"launch", "edited"}
  /\ canceller \in {"idle", "asked", "gone"}
  /\ ran \in [Roles -> 0 .. 2] /\ pure \in [Roles -> BOOLEAN] /\ stopped \in BOOLEAN

Init ==
  /\ pc = [p \in Procs |-> [at |-> IF p = Worker THEN "off" ELSE "enter", role |-> "native"]]
  /\ receipt = [taken |-> FALSE, started |-> FALSE] /\ lock = "free"
  /\ rec = [status |-> "none", cancel |-> FALSE]
  /\ leg = [r \in Roles |-> NoLeg] /\ pair = "none" /\ fresh = FALSE
  /\ tree = "original" /\ manifest = "launch" /\ canceller = "idle"
  /\ ran = [r \in Roles |-> 0] /\ pure = [r \in Roles |-> TRUE] /\ stopped = FALSE

history == <<ran, pure, stopped>>
world == <<fresh, tree, manifest, canceller>>

Goto(p, at) == pc' = [pc EXCEPT ![p].at = at]

\* bg.fail, for the process that knows the pair's token, which only the winner
\* of the attempt and its worker do.
Fail(p) == rec' = [rec EXCEPT !.status = "ERROR"] /\ Goto(p, "over")

\* bg.finish without a code.
Cancelled(p) == rec' = [rec EXCEPT !.status = "CANCELLED"] /\ Goto(p, "over")

Unmoved == tree = "original" /\ manifest = "launch"

\* Variant: what is refused before the attempt is owned leaves no error.
FailsNever(p) == FALSE
Fails(p) == p = Worker

\* The row, the policy and the tree are judged before the lock is asked for.
Validate(p) ==
  /\ pc[p].at = "enter"
  /\ \/ Unmoved /\ Goto(p, "valid") /\ UNCHANGED rec
     \/ ~Unmoved /\ IF Fails(p) THEN Fail(p) ELSE Goto(p, "over") /\ UNCHANGED rec
  /\ UNCHANGED <<receipt, lock, leg, pair, world, history>>

\* Variant: the receipt read before the lock was taken decides.
FreeStale == TRUE
Free == ~receipt.taken

\* The first request under the lock takes the one attempt.
Consume(p) ==
  /\ p \in Requests /\ pc[p].at = "valid" /\ lock = "free"
  /\ IF Free
     THEN /\ receipt' = [receipt EXCEPT !.taken = TRUE] /\ lock' = p
          /\ Goto(p, "write") /\ UNCHANGED rec
     ELSE /\ IF Fails(p) THEN Fail(p) ELSE Goto(p, "over") /\ UNCHANGED rec
          /\ UNCHANGED <<receipt, lock>>
  /\ UNCHANGED <<leg, pair, world, history>>

\* The pair's record follows the receipt, still under the lock; then a request
\* that does not detach becomes its own worker.
WritePair(p) ==
  /\ pc[p].at = "write"
  /\ rec' = [rec EXCEPT !.status = "RUNNING"] /\ lock' = "free"
  /\ \/ Goto(p, "spawn") /\ UNCHANGED receipt
     \/ Goto(p, "own") /\ receipt' = [receipt EXCEPT !.started = TRUE]
  /\ UNCHANGED <<leg, pair, world, history>>

\* The write of the pid may fail after the worker was started, which goes on.
Spawn(p) ==
  /\ pc[p].at = "spawn"
  /\ \/ /\ pc' = [pc EXCEPT ![p].at = "over", ![Worker].at = "enter"]
        /\ rec' = rec \/ rec' = [rec EXCEPT !.status = "ERROR"]
     \/ Fail(p)
  /\ UNCHANGED <<receipt, lock, leg, pair, world, history>>

\* The worker finds the receipt of its token, unstarted.
Enter(p) ==
  /\ p = Worker /\ pc[p].at = "valid" /\ lock = "free"
  /\ IF receipt.taken /\ ~receipt.started
     THEN receipt' = [receipt EXCEPT !.started = TRUE] /\ Goto(p, "own") /\ UNCHANGED rec
     ELSE Fail(p) /\ UNCHANGED receipt
  /\ UNCHANGED <<lock, leg, pair, world, history>>

\* The pid is on record.
Own(p) ==
  /\ pc[p].at = "own"
  /\ IF rec.cancel THEN Cancelled(p) ELSE Goto(p, "ready") /\ UNCHANGED rec
  /\ UNCHANGED <<receipt, lock, leg, pair, world, history>>

\* Before each leg: cancellation, tree and policy.  A snapshot may fail.
Ready(p) ==
  /\ pc[p].at = "ready"
  /\ IF rec.cancel THEN Cancelled(p)
     ELSE \/ Unmoved /\ Goto(p, "exec") /\ UNCHANGED rec
          \/ Fail(p)
  /\ UNCHANGED <<receipt, lock, leg, pair, world, history>>

\* _execute begins: the manifest is compared once more, HEAD and dirt are read.
\* The reference leg runs in a clone of the original commit.
OnOriginal(role) == role = "reference" \/ tree = "original"

Execute(p) ==
  LET r == pc[p].role IN
  /\ pc[p].at = "exec"
  /\ IF manifest # "launch"
     THEN Fail(p) /\ UNCHANGED <<leg, history>>
     ELSE /\ leg' = [leg EXCEPT ![r] = [status |-> "RUNNING", row |-> "none",
                                        bound |-> OnOriginal(r)]]
          /\ ran' = [ran EXCEPT ![r] = @ + 1] /\ pure' = [pure EXCEPT ![r] = OnOriginal(r)]
          /\ Goto(p, "run") /\ UNCHANGED <<rec, stopped>>
  /\ UNCHANGED <<receipt, lock, pair, world>>

Bound(r) == leg[r].bound /\ OnOriginal(r) /\ manifest = "launch"

\* The command ends, or was never started, or its run breaks off.  A row is
\* appended unless a cancelled command came back green.
LegEnds(p) ==
  LET r == pc[p].role IN
  /\ pc[p].at = "run"
  /\ \/ /\ rec.cancel /\ leg' = [leg EXCEPT ![r].status = "DONE"] /\ Cancelled(p)
     \/ /\ Fail(p) /\ UNCHANGED leg
     \/ \E exit \in {"green", "red"} :
          /\ leg' = [leg EXCEPT ![r] =
               [status |-> IF rec.cancel THEN "CANCELLED" ELSE "DONE",
                row |-> IF rec.cancel /\ exit = "green" THEN "none" ELSE exit,
                bound |-> Bound(r)]]
          /\ IF rec.cancel THEN Cancelled(p)
             ELSE /\ pc' = [pc EXCEPT ![p] =
                       IF r = "native" THEN [at |-> "ready", role |-> "reference"]
                       ELSE [at |-> "publish", role |-> r]]
                  /\ UNCHANGED rec
  /\ UNCHANGED <<receipt, lock, pair, world, history>>

Verdict == IF leg["native"].row = "green" /\ leg["reference"].row = "green"
           THEN "green" ELSE "red"

MayPublish == ~rec.cancel

\* finish under the record's lock: the row, then the record.  No canceller can
\* write in between.
Publish(p) ==
  /\ pc[p].at = "publish"
  /\ IF MayPublish THEN pair' = Verdict /\ stopped' = rec.cancel
     ELSE UNCHANGED <<pair, stopped>>
  /\ Goto(p, "record")
  /\ UNCHANGED <<receipt, lock, rec, leg, world, ran, pure>>

Record(p) ==
  /\ pc[p].at = "record"
  /\ rec' = [rec EXCEPT !.status = IF rec.cancel THEN "CANCELLED" ELSE "DONE"]
  /\ Goto(p, "print")
  /\ UNCHANGED <<receipt, lock, leg, pair, world, history>>

\* The last line may find no reader, which is an OSError like any other.
Tell(p) ==
  /\ pc[p].at = "print"
  /\ Fail(p) \/ (Goto(p, "over") /\ UNCHANGED rec)
  /\ UNCHANGED <<receipt, lock, leg, pair, world, history>>

Recording == \E p \in Procs : pc[p].at = "record"
OwnerLive == \E p \in Procs : pc[p].at \in Active \ {"write", "spawn"}

\* bg.cancel reads the record, and asks on what it read.
CancelRead ==
  /\ canceller = "idle" /\ rec.status = "RUNNING" /\ canceller' = "asked"
  /\ UNCHANGED <<pc, receipt, lock, rec, leg, pair, fresh, tree, manifest, history>>

CancelWrite ==
  /\ canceller = "asked" /\ ~rec.cancel /\ ~Recording
  /\ rec' = [rec EXCEPT !.cancel = TRUE]
  /\ UNCHANGED <<pc, receipt, lock, leg, pair, world, history>>

\* An owner that is not there is cancelled in its stead; with a live one the
\* request stays pending.  A detached worker is there before its pid is on record.
CancelEnd ==
  /\ canceller = "asked" /\ rec.cancel /\ ~Recording
  /\ canceller' = "gone"
  /\ \/ /\ rec.status \notin Terminal /\ ~OwnerLive
        /\ rec' = [rec EXCEPT !.status = "CANCELLED"]
     \/ /\ rec.status \in Terminal \/ OwnerLive \/ pc[Worker].at \in {"enter", "valid"}
        /\ UNCHANGED rec
  /\ UNCHANGED <<pc, receipt, lock, leg, pair, fresh, tree, manifest, history>>

\* Other processes: the tree, the manifest, a later run of the gate.
Running(r) == \E p \in Procs : pc[p] = [at |-> "run", role |-> r]

Move ==
  /\ tree = "original" /\ tree' = "moved"
  /\ pure' = [r \in Roles |-> pure[r] /\ ~(r = "native" /\ Running(r))]
  /\ UNCHANGED <<pc, receipt, lock, rec, leg, pair, fresh, manifest, canceller, ran, stopped>>

Edit ==
  /\ manifest = "launch" /\ manifest' = "edited"
  /\ pure' = [r \in Roles |-> pure[r] /\ ~Running(r)]
  /\ UNCHANGED <<pc, receipt, lock, rec, leg, pair, fresh, tree, canceller, ran, stopped>>

RunGate ==
  /\ Unmoved /\ ~fresh /\ fresh' = TRUE
  /\ UNCHANGED <<pc, receipt, lock, rec, leg, pair, tree, manifest, canceller, history>>

\* A write of the receipt, of the record, of the pair's log or of its row fails, and the
\* attempt with it.  Where the error cannot be written either, the process is as dead.
WriteFails(p) ==
  /\ \/ pc[p].at \in {"write", "own", "publish", "record"}
     \/ pc[p].at = "valid" /\ lock = "free" /\ (p = Worker \/ Free)
  /\ Fail(p) /\ lock' = IF lock = p THEN "free" ELSE lock
  /\ UNCHANGED <<receipt, leg, pair, world, history>>

\* The locks of a process die with it.
Die(p) ==
  /\ pc[p].at \in Active \cup {"valid"} \/ (p = Worker /\ pc[p].at = "enter")
  /\ Goto(p, "dead") /\ lock' = IF lock = p THEN "free" ELSE lock
  /\ UNCHANGED <<receipt, rec, leg, pair, world, history>>

Step(p) == \/ Validate(p) \/ Consume(p) \/ WritePair(p) \/ Spawn(p) \/ Enter(p) \/ Own(p)
           \/ Ready(p) \/ Execute(p) \/ LegEnds(p) \/ Publish(p) \/ Record(p) \/ Tell(p)
           \/ WriteFails(p)

Others == CancelRead \/ CancelWrite \/ CancelEnd \/ Move \/ Edit \/ RunGate

Next == (\E p \in Procs : Step(p) \/ Die(p)) \/ Others

Spec == Init /\ [][Next]_vars /\ \A p \in Procs : WF_vars(Step(p))

(***************************************************************************)
(* What the other side reads: verify_pair and unclosed_reds.               *)
(***************************************************************************)
Verified ==
  /\ pair = "green" /\ rec.status = "DONE" /\ ~rec.cancel
  /\ receipt.taken /\ manifest = "launch"
  /\ \A r \in Roles : leg[r].status = "DONE" /\ leg[r].row = "green" /\ leg[r].bound

\* Variant: the crash itself is no longer looked for once a later run is green.
UnsettledOfReruns ==
  \/ rec.status \in {"RUNNING", "ERROR"} \/ pair = "red"
  \/ \E r \in Roles : leg[r].status = "RUNNING" \/ (leg[r].row = "red" /\ leg[r].bound)
\* A record in scope is unfinished or failed, or a red row is not settled.
Unsettled ==
  \/ rec.status \in {"RUNNING", "ERROR"} \/ pair = "red" \/ ~Verified
  \/ \E r \in Roles : \/ leg[r].status = "RUNNING"
                      \/ leg[r].row = "red" /\ leg[r].bound

\* A citation of the pair, or of a later green run, backs a pass.
Backed == (pair = "green" /\ Verified /\ ~Unsettled) \/ (fresh /\ manifest = "launch" /\ ~Unsettled)

(***************************************************************************)
(* Properties.                                                             *)
(***************************************************************************)
\* "a later pass never erases a red attempt": a pass stands on the crash's tree
\* only if both legs came back green there with tree and manifest at rest, and
\* nobody had cancelled the pair when its row was written.
PassIsEarned ==
  Backed => /\ ~stopped
            /\ \A r \in Roles : ran[r] = 1 /\ pure[r] /\ leg[r].row = "green"

\* "one consumed crash, one sequential native/reference pair" and "crash already
\* consumed by a rerun pair; no further rerun is allowed": whatever requests race
\* and die, they make one attempt; once its processes are gone without a green
\* row, no request and no later run of the gate backs a pass.
Owns(p) == pc[p].at \in Active \/ (p = Worker /\ pc[p].at \in {"enter", "valid"})

Phase == CASE ~receipt.taken -> "open"
           [] receipt.taken /\ pair = "green" -> "green"
           [] receipt.taken /\ pair # "green" /\ (\E p \in Procs : Owns(p)) -> "taken"
           [] OTHER -> "spent"

Promise == INSTANCE OneAttempt WITH phase <- Phase, runs <- ran, backs <- Backed

ImplementsOneAttempt == Promise!Spec

\* A pair that began comes to an end, unless one of its processes died.
PairEnds ==
  (rec.status = "RUNNING") ~> (rec.status \in Terminal \/ \E p \in Procs : pc[p].at = "dead")
=============================================================================
