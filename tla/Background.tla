------------------------------ MODULE Background ------------------------------
(***************************************************************************)
(* One detached run of fluxpoint's background runner, on POSIX: its record *)
(* (scripts/background.py, Store), the process that starts it, the worker  *)
(* that owns the command's process group (run_command, finish, fail), the  *)
(* calls that cancel it and the calls that await it.  The worker is        *)
(* attest.py's (_execute, which mints an attestation row before it         *)
(* publishes DONE) or longrun.py's (worker, which attests nothing).        *)
(*                                                                         *)
(* Every read-modify-write of the record holds the token's flock and is    *)
(* one action, but for the two sections in which something else happens    *)
(* under the lock: the launch (spawn, then record) and the publication     *)
(* (append the row, then record).  Unlocked reads are actions of their     *)
(* own, so everything decided from one may be stale when it is used.       *)
(*                                                                         *)
(* Time is abstracted: a deadline may pass whenever the code tests it.     *)
(***************************************************************************)
EXTENDS FiniteSets

CONSTANTS Procs,       \* the processes the command may become, its leader included
          Leader,      \* the process run_command starts; its pid names the group
          Alien,       \* an unrelated process given the group's number afterwards
          Cancellers,  \* concurrent callers of background.cancel
          Awaiters,    \* concurrent callers of background.wait
          Attesting,   \* TRUE: attest.py's worker; FALSE: longrun.py's
          MayCrash,    \* whether the starter and the worker may be killed
          MayFail,     \* whether a spawn or a write of the store may raise
          MayReuse     \* whether the kernel may reuse the process numbers

ASSUME ConstantsAssumption ==
  /\ Leader \in Procs /\ Alien \notin Procs
  /\ {Attesting, MayCrash, MayFail, MayReuse} \subseteq BOOLEAN

VARIABLES
  rec,          \* the run's record, as on disk
  lock,         \* who holds the token's flock across actions
  row,          \* the exit in the run's row of attest.jsonl, "none" without a row
  spc,          \* the starter's next step
  wpc,          \* the worker's next step
  wcode,        \* the command's exit as the worker knows it (code)
  wstopped,     \* the worker has terminated its tree once (stopped)
  wmembers,     \* the group as the worker last saw it (tree.members)
  started,      \* the command's processes that have ever run
  group,        \* the live processes of the group numbered like Leader
  leaderExit,   \* the leader's exit, "none" while it runs
  cpc,          \* per canceller: its next step, or how the call ended
  crec,         \* per canceller: its copy of the record (rec), stale when used
  clive,        \* per canceller: owner_live
  apc,          \* per awaiter: its next step, or what the call reported
  arec,         \* per awaiter: its copy of the record
  runnerReused  \* the worker is dead and its process number is another's

storeVars == <<rec, lock, row>>
workerVars == <<wpc, wcode, wstopped, wmembers>>
treeVars == <<started, group, leaderExit>>
cancelVars == <<cpc, crec, clive>>
awaitVars == <<apc, arec>>
vars == <<rec, lock, row, spc, wpc, wcode, wstopped, wmembers, started, group,
          leaderExit, cpc, crec, clive, apc, arec, runnerReused>>

Terminal == {"DONE", "CANCELLED", "ERROR"}
Exits == {"none", "ok", "red", "killed"}
Record == [status : Terminal \cup {"ABSENT", "RUNNING"}, pid : BOOLEAN,
           cancelRequested : BOOLEAN, pending : BOOLEAN, tree : BOOLEAN,
           members : SUBSET (Procs \cup {Alien}), exit : Exits, attested : BOOLEAN]
NoRecord == [status |-> "ABSENT", pid |-> FALSE, cancelRequested |-> FALSE,
             pending |-> FALSE, tree |-> FALSE, members |-> {}, exit |-> "none",
             attested |-> FALSE]

StarterSteps == {"write", "spawn", "pid", "done"}
WorkerSteps == {"unborn", "begin", "launch", "record", "read", "kill", "poll",
                "observe", "snap", "unwind", "finish", "publish", "tell",
                "fail", "exit", "dead"}
CancelSteps == {"idle", "owner", "owned", "mark", "markPending", "reopen",
                "request", "wait", "check", "asleep", "final", "late", "killOld",
                "killOldNow", "closeOld", "drain", "drainNow", "drainPending",
                "runner", "close", "returned", "raised"}
AwaitSteps == {"idle", "alive", "reread", "complete",
               "completed", "error", "unfinished", "lost"}

TypeOK ==
  /\ rec \in Record
  /\ lock \in {"free", "worker"}
  /\ row \in Exits
  /\ spc \in StarterSteps
  /\ wpc \in WorkerSteps
  /\ wcode \in Exits
  /\ wstopped \in BOOLEAN
  /\ wmembers \in SUBSET (Procs \cup {Alien})
  /\ started \in SUBSET Procs
  /\ group \in SUBSET (Procs \cup {Alien})
  /\ leaderExit \in Exits
  /\ cpc \in [Cancellers -> CancelSteps]
  /\ crec \in [Cancellers -> Record]
  /\ clive \in [Cancellers -> BOOLEAN]
  /\ apc \in [Awaiters -> AwaitSteps]
  /\ arec \in [Awaiters -> Record]
  /\ runnerReused \in BOOLEAN

\* A run is started by --detach or longrun's start (a starter spawns the
\* worker), or by a plain attest.py --run, which is its own worker.
Init ==
  /\ rec = NoRecord /\ lock = "free" /\ row = "none"
  /\ \/ spc = "write" /\ wpc = "unborn"
     \/ Attesting /\ spc = "done" /\ wpc = "begin"
  /\ wcode = "none" /\ wstopped = FALSE /\ wmembers = {}
  /\ started = {} /\ group = {} /\ leaderExit = "none"
  /\ cpc = [c \in Cancellers |-> "idle"]
  /\ crec = [c \in Cancellers |-> NoRecord]
  /\ clive = [c \in Cancellers |-> FALSE]
  /\ apc = [a \in Awaiters |-> "idle"]
  /\ arec = [a \in Awaiters |-> NoRecord]
  /\ runnerReused = FALSE

LockFree == lock = "free"
WorkerLive == wpc \notin {"unborn", "dead"}

\* matches(pid, runnerIdentity) and alive(pid): the recorded runner still runs.
RunnerLive(r) == r.pid /\ WorkerLive
\* What a reader may conclude of the runner.  Before a pid is recorded it
\* counts as alive for 60 seconds, so either answer is possible.
MaySeeLive(r) == r.pid => WorkerLive
MaySeeGone(r) == r.pid => ~WorkerLive

\* owned_members(r): none; some, proved by a recorded creation identity; or a
\* group that none of the recorded identities proves (CleanupPending).
Unowned(r) == ~r.tree \/ group = {}
Proved(r) == group \cap (r.members \cup {Leader}) # {}
Owned(r) == r.tree /\ group # {} /\ Proved(r)
Unproved(r) == r.tree /\ group # {} /\ ~Proved(r)

\* terminate_tree: TERM, grace, KILL to the whole group; nothing is left, or
\* something outlives the bounded wait and CleanupPending is raised.
KillGroup(left) ==
  /\ group' = left
  /\ IF Leader \in group \ left THEN leaderExit' \in Exits \ {"none"}
                                ELSE UNCHANGED leaderExit
  /\ UNCHANGED started

(***************************************************************************)
(* The starter: run_gate's detach branch, longrun's start.                 *)
(***************************************************************************)
StarterWrite ==
  /\ spc = "write" /\ LockFree
  /\ rec' = [rec EXCEPT !.status = "RUNNING"]
  /\ spc' = "spawn"
  /\ UNCHANGED <<lock, row, workerVars, treeVars, cancelVars, awaitVars, runnerReused>>

StarterSpawn ==
  /\ spc = "spawn"
  /\ wpc' = "begin" /\ spc' = "pid"
  /\ UNCHANGED <<storeVars, wcode, wstopped, wmembers, treeVars, cancelVars,
                 awaitVars, runnerReused>>

StarterPid ==
  /\ spc = "pid" /\ LockFree
  /\ rec' = [rec EXCEPT !.pid = TRUE]
  /\ spc' = "done"
  /\ UNCHANGED <<lock, row, workerVars, treeVars, cancelVars, awaitVars, runnerReused>>

\* OSError from the spawn, or from the write of the pid after it.
StarterFail ==
  /\ MayFail /\ spc \in {"spawn", "pid"} /\ LockFree
  /\ rec' = [rec EXCEPT !.status = "ERROR"]
  /\ spc' = "done"
  /\ UNCHANGED <<lock, row, workerVars, treeVars, cancelVars, awaitVars, runnerReused>>

StarterCrash ==
  /\ MayCrash /\ spc \in {"spawn", "pid"}
  /\ spc' = "done"
  /\ UNCHANGED <<storeVars, workerVars, treeVars, cancelVars, awaitVars, runnerReused>>

Starter == StarterWrite \/ StarterSpawn \/ StarterPid \/ StarterFail \/ StarterCrash

(***************************************************************************)
(* The worker: _execute or longrun's worker, run_command, finish, fail.    *)
(***************************************************************************)
WorkerStep(from, to) == wpc = from /\ wpc' = to

\* Variant: the worker's first record replaces what was requested before it came up.
WorkerBeginAfresh ==
  /\ WorkerStep("begin", "launch") /\ LockFree
  /\ rec' = [rec EXCEPT !.pid = TRUE, !.status = "RUNNING", !.cancelRequested = FALSE]
  /\ UNCHANGED <<lock, row, wcode, wstopped, wmembers, treeVars>>

\* attest's worker writes a whole RUNNING record, longrun's only its pid.
WorkerBegin ==
  /\ WorkerStep("begin", "launch") /\ LockFree
  /\ rec' = [rec EXCEPT !.pid = TRUE,
                        !.status = IF Attesting THEN "RUNNING" ELSE @]
  /\ UNCHANGED <<lock, row, wcode, wstopped, wmembers, treeVars>>

\* Unresolved pins: the suite is not started and its exit is 1.
WorkerRefuse ==
  /\ Attesting /\ WorkerStep("launch", "finish")
  /\ wcode' = "red"
  /\ UNCHANGED <<storeVars, wstopped, wmembers, treeVars>>

\* run_command, cancelled before launch: returns None, so no exit is known.
WorkerSkip ==
  /\ WorkerStep("launch", "finish") /\ LockFree
  /\ rec.cancelRequested
  /\ UNCHANGED <<storeVars, wcode, wstopped, wmembers, treeVars>>

WorkerSpawn ==
  /\ WorkerStep("launch", "record") /\ LockFree
  /\ ~rec.cancelRequested
  /\ lock' = "worker"
  /\ started' = {Leader} /\ group' = {Leader} /\ wmembers' = {Leader}
  /\ UNCHANGED <<rec, row, wcode, wstopped, leaderExit>>

WorkerRecord ==
  /\ WorkerStep("record", "read")
  /\ rec' = [rec EXCEPT !.tree = TRUE, !.members = wmembers]
  /\ lock' = "free"
  /\ UNCHANGED <<row, wcode, wstopped, wmembers, treeVars>>

\* Variant: a cancellation is honoured only after the tree was stopped once.
WorkerReadDeaf ==
  /\ WorkerStep("read", IF rec.cancelRequested /\ wstopped THEN "kill" ELSE "poll")
  /\ UNCHANGED <<storeVars, wcode, wstopped, wmembers, treeVars>>

WorkerRead ==
  /\ WorkerStep("read", IF rec.cancelRequested /\ ~wstopped THEN "kill" ELSE "poll")
  /\ UNCHANGED <<storeVars, wcode, wstopped, wmembers, treeVars>>

WorkerKill ==
  \E left \in SUBSET group :
    /\ WorkerStep("kill", IF left = {} THEN "poll" ELSE "unwind")
    /\ wstopped' = (left = {})
    /\ KillGroup(left)
    /\ UNCHANGED <<storeVars, wcode, wmembers>>

WorkerPoll ==
  /\ WorkerStep("poll", "observe")
  /\ wcode' = leaderExit
  /\ UNCHANGED <<storeVars, wstopped, wmembers, treeVars>>

\* The run ends when the leader's exit is known and its whole group is gone.
WorkerObserve ==
  /\ WorkerStep("observe", IF group = {} /\ wcode # "none" THEN "finish"
                           ELSE IF group # rec.members THEN "snap" ELSE "read")
  /\ wmembers' = group
  /\ UNCHANGED <<storeVars, wcode, wstopped, treeVars>>

WorkerSnap ==
  /\ WorkerStep("snap", "read") /\ LockFree
  /\ rec' = [rec EXCEPT !.members = wmembers]
  /\ UNCHANGED <<lock, row, wcode, wstopped, wmembers, treeVars>>

\* An exception of the store, the spawn or attest's last print: with a tree,
\* run_command's handler terminates it first; a lock held is released on the way out.
WorkerFault ==
  /\ MayFail
  /\ \/ /\ wpc \in {"launch", "finish", "publish"} \/ (wpc = "begin" /\ Attesting)
        /\ wpc' = "fail"
     \/ wpc = "tell" /\ Attesting /\ wpc' = "fail"
     \/ wpc \in {"record", "read", "snap"} /\ wpc' = "unwind"
  /\ lock' = "free"
  /\ UNCHANGED <<rec, row, wcode, wstopped, wmembers, treeVars>>

\* The handler's own terminate may fail as well; either way the exception
\* goes on to fail.
WorkerUnwind ==
  \E left \in SUBSET group :
    /\ WorkerStep("unwind", "fail")
    /\ KillGroup(left)
    /\ UNCHANGED <<storeVars, wcode, wstopped, wmembers>>

WorkerFail ==
  /\ WorkerStep("fail", "exit") /\ LockFree
  /\ rec' = [rec EXCEPT !.status = "ERROR"]
  /\ UNCHANGED <<lock, row, wcode, wstopped, wmembers, treeVars>>

\* publish(rec): a run that started and either was not asked to stop or did
\* not exit 0 gets its row, under the lock finish holds.
MintsRow == Attesting /\ wcode # "none" /\ (~rec.cancelRequested \/ wcode # "ok")

\* Variant: the row is appended before the lock of the publication is taken.
WorkerFinishUnlocked ==
  /\ WorkerStep("finish", "publish")
  /\ row' = IF MintsRow THEN wcode ELSE row
  /\ UNCHANGED <<rec, lock, wcode, wstopped, wmembers, treeVars>>

WorkerFinish ==
  /\ WorkerStep("finish", "publish") /\ LockFree
  /\ lock' = "worker"
  /\ row' = IF MintsRow THEN wcode ELSE row
  /\ UNCHANGED <<rec, wcode, wstopped, wmembers, treeVars>>

WorkerPublish ==
  /\ WorkerStep("publish", "tell")
  /\ rec' = [rec EXCEPT !.status = IF rec.cancelRequested THEN "CANCELLED" ELSE "DONE",
                        !.exit = wcode, !.pending = FALSE, !.attested = (row # "none")]
  /\ lock' = "free"
  /\ UNCHANGED <<row, wcode, wstopped, wmembers, treeVars>>

WorkerExit ==
  /\ WorkerStep("tell", "dead") \/ WorkerStep("exit", "dead")
  /\ UNCHANGED <<storeVars, wcode, wstopped, wmembers, treeVars>>

\* Killed: the kernel drops the flock, the command's group lives on.
WorkerCrash ==
  /\ MayCrash /\ WorkerLive
  /\ wpc' = "dead" /\ lock' = "free"
  /\ UNCHANGED <<rec, row, wcode, wstopped, wmembers, treeVars>>

WorkerRuns ==
  \/ WorkerBegin \/ WorkerRefuse \/ WorkerSkip \/ WorkerSpawn \/ WorkerRecord
  \/ WorkerRead \/ WorkerKill \/ WorkerPoll \/ WorkerObserve \/ WorkerSnap
  \/ WorkerUnwind \/ WorkerFail \/ WorkerFinish \/ WorkerPublish \/ WorkerExit
Worker ==
  /\ WorkerRuns \/ WorkerFault \/ WorkerCrash
  /\ UNCHANGED <<spc, cancelVars, awaitVars, runnerReused>>

(***************************************************************************)
(* The command's processes, and what the kernel may do with their numbers. *)
(***************************************************************************)
ProcFork ==
  /\ group \cap Procs # {}
  /\ \E p \in Procs \ started : started' = started \cup {p} /\ group' = group \cup {p}
  /\ UNCHANGED leaderExit

ProcExit ==
  \E p \in group \cap Procs :
    /\ group' = group \ {p}
    /\ IF p = Leader THEN leaderExit' \in {"ok", "red"} ELSE UNCHANGED leaderExit
    /\ UNCHANGED started

\* A group's number is free again once the group is empty and the leader has
\* been reaped: by the worker's poll, or by init after the worker.
AlienArrives ==
  /\ MayReuse /\ started # {} /\ group = {}
  /\ wcode # "none" \/ wpc = "dead"
  /\ group' = {Alien}
  /\ UNCHANGED <<started, leaderExit>>

AlienLeaves ==
  /\ group = {Alien} /\ group' = {}
  /\ UNCHANGED <<started, leaderExit>>

RunnerReuse ==
  /\ MayReuse /\ wpc = "dead" /\ ~runnerReused
  /\ runnerReused' = TRUE
  /\ UNCHANGED <<storeVars, spc, workerVars, treeVars, cancelVars, awaitVars>>

Environment ==
  \/ /\ ProcFork \/ ProcExit \/ AlienArrives \/ AlienLeaves
     /\ UNCHANGED <<storeVars, spc, workerVars, cancelVars, awaitVars, runnerReused>>
  \/ RunnerReuse

(***************************************************************************)
(* background.cancel                                                       *)
(***************************************************************************)
CancelStep(c, from, to) == cpc[c] = from /\ cpc' = [cpc EXCEPT ![c] = to]

CancelRead(c) ==
  /\ CancelStep(c, "idle", "owner")
  /\ rec.status # "ABSENT"
  /\ crec' = [crec EXCEPT ![c] = rec]
  /\ UNCHANGED <<storeVars, treeVars, clive>>

CancelOwner(c) ==
  /\ CancelStep(c, "owner", IF crec[c].status \in Terminal THEN "owned" ELSE "request")
  /\ clive' = [clive EXCEPT ![c] = RunnerLive(crec[c])]
  /\ UNCHANGED <<storeVars, treeVars, crec>>

\* Variant: a terminal label alone hands the run to the canceller.
CancelOwnedBlind(c) ==
  /\ CancelStep(c, "owned", IF clive[c] THEN "reopen"
                            ELSE IF Unproved(crec[c]) THEN "markPending" ELSE "mark")
  /\ UNCHANGED <<storeVars, treeVars, crec, clive>>

\* A terminal record is believed only if no tree of its run is left; a live
\* owner is asked to drain it, a dead one's tree is taken over.
CancelOwned(c) ==
  /\ CancelStep(c, "owned", IF Unowned(crec[c]) THEN "returned"
                            ELSE IF clive[c] THEN "reopen"
                            ELSE IF Owned(crec[c]) THEN "mark" ELSE "markPending")
  /\ UNCHANGED <<storeVars, treeVars, crec, clive>>

Reopened == [rec EXCEPT !.status = "RUNNING", !.cancelRequested = TRUE, !.pending = TRUE]
CancelMark(c) ==
  /\ \/ CancelStep(c, "mark", "killOld") \/ CancelStep(c, "markPending", "raised")
  /\ LockFree
  /\ rec' = Reopened
  /\ UNCHANGED <<lock, row, treeVars, crec, clive>>

CancelReopen(c) ==
  /\ CancelStep(c, "reopen", "wait") /\ LockFree
  /\ rec' = Reopened /\ crec' = [crec EXCEPT ![c] = Reopened]
  /\ UNCHANGED <<lock, row, treeVars, clive>>

Requested == [rec EXCEPT !.cancelRequested = TRUE]
CancelRequest(c) ==
  /\ CancelStep(c, "request", "wait") /\ LockFree
  /\ rec' = Requested /\ crec' = [crec EXCEPT ![c] = Requested]
  /\ UNCHANGED <<lock, row, treeVars, clive>>

\* The three-second wait for the owner: read, look at the runner, sleep, repeat.
\* The deadline is first tested as it is set, so at least one round is made.
CancelPoll(c) ==
  /\ LET next == IF rec.status \in Terminal THEN "returned" ELSE "check"
     IN  CancelStep(c, "wait", next) \/ CancelStep(c, "asleep", next)
  /\ crec' = [crec EXCEPT ![c] = rec]
  /\ UNCHANGED <<storeVars, treeVars, clive>>

CancelCheck(c) ==
  /\ \/ MaySeeLive(crec[c]) /\ CancelStep(c, "check", "asleep")
     \/ MaySeeGone(crec[c]) /\ CancelStep(c, "check", "final")
  /\ UNCHANGED <<storeVars, treeVars, crec, clive>>

\* Variant: the deadline is set anew in every round.
CancelDeadlineRearmed(c) ==
  /\ CancelStep(c, "asleep", "wait")
  /\ UNCHANGED <<storeVars, treeVars, crec, clive>>

CancelDeadline(c) ==
  /\ CancelStep(c, "asleep", "final")
  /\ UNCHANGED <<storeVars, treeVars, crec, clive>>

\* Variant: once the wait is over the canceller helps a slow owner.
CancelFinalImpatient(c) ==
  /\ CancelStep(c, "final", "drain")
  /\ UNCHANGED <<storeVars, treeVars, crec, clive>>

CancelFinal(c) ==
  /\ CancelStep(c, "final", IF RunnerLive(crec[c]) THEN "late" ELSE "drain")
  /\ UNCHANGED <<storeVars, treeVars, crec, clive>>

\* The owner is still draining: leave the request pending, unless it has
\* published meanwhile.
CancelLate(c) ==
  /\ CancelStep(c, "late", IF rec.status \in Terminal THEN "returned" ELSE "raised")
  /\ LockFree
  /\ rec' = IF rec.status \in Terminal THEN rec
            ELSE [rec EXCEPT !.status = "RUNNING", !.pending = TRUE]
  /\ UNCHANGED <<lock, row, treeVars, crec, clive>>

\* terminate_owned(rec), first half: is the group still this run's?
CancelVerify(c) ==
  /\ \/ Unowned(crec[c]) /\ (\/ CancelStep(c, "killOld", "closeOld")
                             \/ CancelStep(c, "drain", "runner"))
     \/ Owned(crec[c]) /\ (\/ CancelStep(c, "killOld", "killOldNow")
                           \/ CancelStep(c, "drain", "drainNow"))
     \/ Unproved(crec[c]) /\ (\/ CancelStep(c, "killOld", "markPending")
                              \/ CancelStep(c, "drain", "drainPending"))
  /\ UNCHANGED <<storeVars, treeVars, crec, clive>>

\* Variant: an incomplete drain is not told from a complete one.
CancelKillUnverified(c) ==
  \E left \in SUBSET group :
    /\ CancelStep(c, "killOldNow", "closeOld") \/ CancelStep(c, "drainNow", "runner")
    /\ KillGroup(left)
    /\ UNCHANGED <<storeVars, crec, clive>>

\* Second half: the signals go to the number, whoever is behind it by now.
CancelKill(c) ==
  \E left \in SUBSET group :
    /\ \/ CancelStep(c, "killOldNow", IF left = {} THEN "closeOld" ELSE "markPending")
       \/ CancelStep(c, "drainNow", IF left = {} THEN "runner" ELSE "drainPending")
    /\ KillGroup(left)
    /\ UNCHANGED <<storeVars, crec, clive>>

CancelDrainPending(c) ==
  /\ CancelStep(c, "drainPending", "raised") /\ LockFree
  /\ rec' = [rec EXCEPT !.status = "RUNNING", !.pending = TRUE]
  /\ UNCHANGED <<lock, row, treeVars, crec, clive>>

\* A reused runner number is refused; the same runner cannot have come back.
CancelRunner(c) ==
  /\ CancelStep(c, "runner", IF crec[c].pid /\ runnerReused THEN "raised" ELSE "close")
  /\ UNCHANGED <<storeVars, treeVars, crec, clive>>

CancelClose(c) ==
  /\ \/ CancelStep(c, "close", "returned") \/ CancelStep(c, "closeOld", "returned")
  /\ LockFree
  /\ rec' = [rec EXCEPT !.status = "CANCELLED", !.pending = FALSE]
  /\ UNCHANGED <<lock, row, treeVars, crec, clive>>

\* "repeat the bounded await/cancel call until the owner confirms the drain"
CancelAgain(c) ==
  /\ CancelStep(c, "raised", "idle")
  /\ UNCHANGED <<storeVars, treeVars, crec, clive>>

CancelRuns(c) ==
  \/ CancelRead(c) \/ CancelOwner(c) \/ CancelOwned(c) \/ CancelMark(c)
  \/ CancelReopen(c) \/ CancelRequest(c) \/ CancelPoll(c) \/ CancelCheck(c)
  \/ CancelDeadline(c) \/ CancelFinal(c) \/ CancelLate(c) \/ CancelVerify(c)
  \/ CancelKill(c) \/ CancelDrainPending(c) \/ CancelRunner(c) \/ CancelClose(c)
Canceller(c) ==
  /\ CancelRuns(c) \/ CancelAgain(c)
  /\ UNCHANGED <<spc, workerVars, awaitVars, runnerReused>>

(***************************************************************************)
(* background.wait and completion.  The deadline is not modelled: await    *)
(* then says "still running" and its caller repeats the call.              *)
(***************************************************************************)
AwaitStep(a, from, to) == apc[a] = from /\ apc' = [apc EXCEPT ![a] = to]

AwaitRead(a) ==
  /\ AwaitStep(a, "idle", IF rec.status \in Terminal THEN "complete" ELSE "alive")
  /\ rec.status # "ABSENT"
  /\ arec' = [arec EXCEPT ![a] = rec]

AwaitAlive(a) ==
  /\ \/ MaySeeLive(arec[a]) /\ AwaitStep(a, "alive", "idle")
     \/ MaySeeGone(arec[a]) /\ AwaitStep(a, "alive", "reread")
  /\ UNCHANGED arec

\* Variant: a runner seen dead is lost, without a second look at its record.
AwaitRereadSkipped(a) ==
  /\ AwaitStep(a, "reread", "lost")
  /\ UNCHANGED arec

AwaitReread(a) ==
  /\ AwaitStep(a, "reread", IF rec.status \in Terminal THEN "complete" ELSE "lost")
  /\ arec' = IF rec.status \in Terminal THEN [arec EXCEPT ![a] = rec] ELSE arec

AwaitComplete(a) ==
  /\ AwaitStep(a, "complete",
               IF ~Unowned(arec[a]) THEN "unfinished"
               ELSE IF arec[a].status = "ERROR" THEN "error" ELSE "completed")
  /\ UNCHANGED arec

Awaiter(a) ==
  /\ AwaitRead(a) \/ AwaitAlive(a) \/ AwaitReread(a) \/ AwaitComplete(a)
  /\ UNCHANGED <<storeVars, spc, workerVars, treeVars, cancelVars, runnerReused>>

(***************************************************************************)
Next ==
  \/ Starter
  \/ Worker
  \/ Environment
  \/ \E c \in Cancellers : Canceller(c)
  \/ \E a \in Awaiters : Awaiter(a)

Spec == Init /\ [][Next]_vars

\* The operating system schedules the starter, the worker and every call that
\* has begun.  Nothing makes a command finish, a process crash, a number be
\* reused or a caller repeat its call.
Fairness ==
  /\ WF_vars(Starter)
  /\ WF_vars(WorkerRuns /\ UNCHANGED <<spc, cancelVars, awaitVars, runnerReused>>)
  /\ \A c \in Cancellers :
       /\ WF_vars(cpc[c] # "idle" /\ CancelRuns(c)
                  /\ UNCHANGED <<spc, workerVars, awaitVars, runnerReused>>)
       /\ SF_vars(CancelDeadline(c)
                  /\ UNCHANGED <<spc, workerVars, awaitVars, runnerReused>>)
FairSpec == Spec /\ Fairness

(***************************************************************************)
(* Properties                                                              *)
(***************************************************************************)
Drained == group \cap Procs = {}

\* The worker died, or failed to write, between spawning the command and
\* recording its group: no reader of the record can know of the tree.
Unrecorded == started # {} /\ ~rec.tree

\* longrun.md: "Cancellation is terminal only after observed group/job drain",
\* for every launch that was recorded: whoever writes CANCELLED - the worker, or
\* a canceller acting for a dead one on a stale copy - no process of the run is
\* alive then or later.
CancelledIsDrained == rec.status = "CANCELLED" /\ ~Unrecorded => Drained

\* longrun.md: the CLI never competes with a living owner.  A canceller that is
\* about to signal the group does so for a worker that is gone.
OwnerKillsFirst ==
  \A c \in Cancellers : cpc[c] \in {"killOldNow", "drainNow"} => ~WorkerLive

\* await reports 0 only for a run nothing of which is left or will start again.
CompletedIsDrained ==
  \A a \in Awaiters : apc[a] = "completed" /\ ~Unrecorded => Drained

\* "runner is gone and left no verdict": a recorded runner reported lost has
\* published no verdict, and never will.
LostHasNoVerdict ==
  \A a \in Awaiters : apc[a] = "lost" /\ arec[a].pid => rec.status # "DONE"

\* attest.py: "persist any evidence before publishing DONE".  A DONE record
\* carries the exit of a command that ended, and an attesting worker's carries
\* the row with the very same exit.
DoneIsEvidenced ==
  rec.status = "DONE" =>
    /\ rec.exit # "none"
    /\ Attesting => rec.attested /\ row = rec.exit

\* The record tells the truth to whoever reads it last: what await reports of a
\* run, and what the record itself claims, agree with what became of the run.
RecordIsTrue == CompletedIsDrained /\ LostHasNoVerdict /\ DoneIsEvidenced

\* attest.py publish: "Serialize verdict publication with cancellation."  Without reuse
\* of numbers and failing writes, a cancelled run has no passing row on file, unless its
\* worker was killed between the row and the record.
CancelledIsNotGreen ==
  rec.status = "CANCELLED" /\ row = "ok" => wpc = "dead" /\ ~rec.attested

\* A cancelled run is never reported as done afterwards, whichever of the
\* starter, the worker and the cancellers writes next.
CancelledNeverDone == [][rec.status = "CANCELLED" => rec'.status # "DONE"]_vars

\* Once a launch was recorded as cancelled nothing of it runs ever again, however late its
\* starter or its worker comes up, writes a record of its own over that one, or crashes.
CancelledStaysDown == [](rec.status = "CANCELLED" /\ ~Unrecorded => []Drained)

\* Without reuse of numbers and failing writes, a DONE the worker has published
\* is not taken back by any cancellation, whenever it was requested.
DoneStays == [][rec.status = "DONE" => rec'.status = "DONE"]_vars

\* A request to a living worker ends in a verdict, or the worker dies, or its
\* group's number has become another's, which it waits for like its own.
RequestSettles ==
  rec.cancelRequested /\ WorkerLive
    ~> rec.status \in Terminal \/ wpc = "dead" \/ Alien \in group

\* Every call of cancel that has begun returns or raises, whoever else holds
\* the lock, cancels or crashes.
CancelReturns ==
  \A c \in Cancellers : cpc[c] = "owner" ~> cpc[c] \in {"returned", "raised"}
=============================================================================
