-------------------------- MODULE BackgroundProofs --------------------------
(* Theorems about Background, for every set of processes, cancellers and    *)
(* awaiters, either kind of worker, with and without crashes, failures and  *)
(* reuse of process numbers.                                                *)
EXTENDS Background, TLAPS

(***************************************************************************)
(* Type correctness                                                        *)
(***************************************************************************)
LEMMA StarterType == TypeOK /\ Starter => TypeOK'
<1> SUFFICES ASSUME TypeOK, Starter PROVE TypeOK'
  OBVIOUS
<1> USE DEF TypeOK, Record, Terminal, StarterSteps, WorkerSteps,
            workerVars, storeVars, treeVars, cancelVars, awaitVars
<1>1. CASE StarterWrite
  BY <1>1 DEF StarterWrite
<1>2. CASE StarterSpawn
  BY <1>2 DEF StarterSpawn
<1>3. CASE StarterPid
  BY <1>3 DEF StarterPid
<1>4. CASE StarterFail
  BY <1>4 DEF StarterFail
<1>5. CASE StarterCrash
  BY <1>5 DEF StarterCrash
<1> QED
  BY <1>1, <1>2, <1>3, <1>4, <1>5 DEF Starter

LEMMA WorkerType == TypeOK /\ Worker => TypeOK'
<1> SUFFICES ASSUME TypeOK, Worker PROVE TypeOK'
  OBVIOUS
<1> USE ConstantsAssumption DEF TypeOK, Record, Terminal, Exits, WorkerSteps, WorkerStep,
            storeVars, treeVars, cancelVars, awaitVars, Worker
<1>1. CASE WorkerBegin
  <2>1. rec' \in Record
    <3>1. CASE Attesting
      BY <1>1, <3>1 DEF WorkerBegin
    <3>2. CASE ~Attesting
      BY <1>1, <3>2 DEF WorkerBegin
    <3> QED
      BY <3>1, <3>2
  <2> QED
    BY <1>1, <2>1 DEF WorkerBegin
<1>2. CASE WorkerRefuse
  BY <1>2 DEF WorkerRefuse
<1>3. CASE WorkerSkip
  BY <1>3 DEF WorkerSkip
<1>4. CASE WorkerSpawn
  BY <1>4 DEF WorkerSpawn
<1>5. CASE WorkerRecord
  BY <1>5 DEF WorkerRecord
<1>6. CASE WorkerRead
  BY <1>6 DEF WorkerRead
<1>7. CASE WorkerKill
  BY <1>7 DEF WorkerKill, KillGroup
<1>8. CASE WorkerPoll
  BY <1>8 DEF WorkerPoll
<1>9. CASE WorkerObserve
  BY <1>9 DEF WorkerObserve
<1>10. CASE WorkerSnap
  BY <1>10 DEF WorkerSnap
<1>11. CASE WorkerUnwind
  BY <1>11 DEF WorkerUnwind, KillGroup
<1>12. CASE WorkerFail
  BY <1>12 DEF WorkerFail
<1>13. CASE WorkerFinish
  BY <1>13 DEF WorkerFinish
<1>14. CASE WorkerPublish
  <2>1. rec' \in Record
    <3>1. CASE rec.cancelRequested
      BY <1>14, <3>1 DEF WorkerPublish
    <3>2. CASE ~rec.cancelRequested
      BY <1>14, <3>2 DEF WorkerPublish
    <3> QED
      BY <3>1, <3>2
  <2> QED
    BY <1>14, <2>1 DEF WorkerPublish
<1>15. CASE WorkerExit
  BY <1>15 DEF WorkerExit
<1>16. CASE WorkerFault
  BY <1>16 DEF WorkerFault
<1>17. CASE WorkerCrash
  BY <1>17 DEF WorkerCrash
<1> QED
  BY <1>1, <1>2, <1>3, <1>4, <1>5, <1>6, <1>7, <1>8, <1>9, <1>10, <1>11, <1>12,
     <1>13, <1>14, <1>15, <1>16, <1>17 DEF WorkerRuns

LEMMA EnvironmentType == TypeOK /\ Environment => TypeOK'
<1> SUFFICES ASSUME TypeOK, Environment PROVE TypeOK'
  OBVIOUS
<1> USE DEF TypeOK, Record, Terminal, Exits, WorkerSteps,
            storeVars, treeVars, workerVars, cancelVars, awaitVars
<1>1. CASE ProcFork
  BY <1>1 DEF ProcFork, Environment, RunnerReuse
<1>2. CASE ProcExit
  BY <1>2 DEF ProcExit, Environment, RunnerReuse
<1>3. CASE AlienArrives
  BY <1>3 DEF AlienArrives, Environment, RunnerReuse
<1>4. CASE AlienLeaves
  BY <1>4 DEF AlienLeaves, Environment, RunnerReuse
<1>5. CASE RunnerReuse
  BY <1>5 DEF RunnerReuse
<1> QED
  BY <1>1, <1>2, <1>3, <1>4, <1>5 DEF Environment

LEMMA CancellerType ==
  ASSUME NEW c \in Cancellers, TypeOK, Canceller(c)
  PROVE  TypeOK'
<1> USE DEF TypeOK, Terminal, CancelSteps, CancelStep,
            storeVars, treeVars, workerVars, awaitVars, Canceller
<1>1. CASE CancelRead(c)
  BY <1>1 DEF CancelRead
<1>2. CASE CancelOwner(c)
  BY <1>2 DEF CancelOwner, RunnerLive, WorkerLive, Record
<1>3. CASE CancelOwned(c)
  BY <1>3 DEF CancelOwned
<1>4. CASE CancelMark(c)
  BY <1>4 DEF CancelMark, Reopened, Record
<1>5. CASE CancelReopen(c)
  <2>1. Reopened \in Record
    BY DEF Reopened, Record
  <2> QED
    BY <1>5, <2>1 DEF CancelReopen
<1>6. CASE CancelRequest(c)
  <2>1. Requested \in Record
    BY DEF Requested, Record
  <2> QED
    BY <1>6, <2>1 DEF CancelRequest
<1>7. CASE CancelPoll(c)
  BY <1>7 DEF CancelPoll
<1>8. CASE CancelCheck(c)
  BY <1>8 DEF CancelCheck
<1>9. CASE CancelDeadline(c)
  BY <1>9 DEF CancelDeadline
<1>10. CASE CancelFinal(c)
  BY <1>10 DEF CancelFinal
<1>11. CASE CancelLate(c)
  BY <1>11 DEF CancelLate, Record
<1>12. CASE CancelVerify(c)
  BY <1>12 DEF CancelVerify
<1>13. CASE CancelKill(c)
  BY <1>13 DEF CancelKill, KillGroup, Exits
<1>14. CASE CancelDrainPending(c)
  BY <1>14 DEF CancelDrainPending, Record
<1>15. CASE CancelRunner(c)
  BY <1>15 DEF CancelRunner
<1>16. CASE CancelClose(c)
  BY <1>16 DEF CancelClose, Record
<1>17. CASE CancelAgain(c)
  BY <1>17 DEF CancelAgain
<1> QED
  BY <1>1, <1>2, <1>3, <1>4, <1>5, <1>6, <1>7, <1>8, <1>9, <1>10, <1>11, <1>12,
     <1>13, <1>14, <1>15, <1>16, <1>17 DEF CancelRuns

LEMMA AwaiterType ==
  ASSUME NEW a \in Awaiters, TypeOK, Awaiter(a)
  PROVE  TypeOK'
<1> USE DEF TypeOK, Terminal, AwaitSteps, AwaitStep,
            storeVars, treeVars, workerVars, cancelVars, Awaiter
<1>1. CASE AwaitRead(a)
  BY <1>1 DEF AwaitRead
<1>2. CASE AwaitAlive(a)
  BY <1>2 DEF AwaitAlive
<1>3. CASE AwaitReread(a)
  BY <1>3 DEF AwaitReread
<1>4. CASE AwaitComplete(a)
  BY <1>4 DEF AwaitComplete
<1> QED
  BY <1>1, <1>2, <1>3, <1>4

LEMMA TypeInit == Init => TypeOK
<1>1. NoRecord \in Record
  BY DEF NoRecord, Record, Exits
<1> QED
  BY <1>1 DEF Init, TypeOK, Exits, StarterSteps, WorkerSteps, CancelSteps, AwaitSteps

LEMMA TypeStep == TypeOK /\ [Next]_vars => TypeOK'
<1> SUFFICES ASSUME TypeOK, [Next]_vars PROVE TypeOK'
  OBVIOUS
<1>1. CASE UNCHANGED vars
  BY <1>1 DEF TypeOK, vars
<1> QED
  BY <1>1, StarterType, WorkerType, EnvironmentType, CancellerType, AwaiterType DEF Next

\* Every variable keeps its type; in particular the record on disk and every
\* stale copy of it stay records, whoever writes them and in whatever order.
THEOREM TypeCorrect == Spec => []TypeOK
<1>1. Init => TypeOK
  BY TypeInit
<1>2. TypeOK /\ [Next]_vars => TypeOK'
  BY TypeStep
<1> QED
  BY <1>1, <1>2, PTL DEF Spec

(***************************************************************************)
(* The inductive invariant behind the safety of cancellation               *)
(***************************************************************************)
\* The group only ever holds processes that were started, or Alien.
TreeInv == group \cap Procs \subseteq started

\* Where the worker is, in terms of what it has started and recorded.
WorkerInv ==
  /\ wpc \in {"unborn", "begin", "launch"} => started = {} /\ ~rec.tree /\ wcode = "none"
  /\ wpc = "record" => ~rec.tree /\ ~rec.cancelRequested
  /\ wpc \in {"launch", "record"} => rec.pid
  /\ wpc \in {"finish", "publish"} => Drained
  /\ lock = "worker" <=> wpc \in {"record", "publish"}
  /\ wpc = "unborn" => ~rec.pid /\ spc \in {"write", "spawn", "done"}
  /\ spc \in {"write", "spawn"} => wpc = "unborn"
  /\ rec.tree => rec.pid

\* A record says CANCELLED only if it was asked to, and the drain was observed.
RecordInv ==
  rec.status = "CANCELLED" => rec.cancelRequested /\ (Unrecorded \/ Drained)

Asked == {"killOld", "killOldNow", "closeOld", "wait", "check", "asleep", "final",
          "late", "drain", "drainNow", "drainPending", "runner", "close"}
TookOver == {"mark", "killOld", "killOldNow", "closeOld"}

\* What a canceller's stale copy still says truly, at each of its steps.
CancelInv(c) ==
  /\ crec[c].tree => crec[c].pid /\ rec.tree
  /\ crec[c].pid => wpc # "unborn"
  /\ cpc[c] \in Asked => rec.cancelRequested /\ (crec[c].tree <=> rec.tree)
  /\ cpc[c] = "owned" /\ crec[c].pid /\ ~clive[c] => wpc = "dead"
  /\ cpc[c] \in TookOver => crec[c].tree /\ wpc = "dead"
  /\ cpc[c] = "drain" /\ crec[c].pid => wpc = "dead"
  /\ cpc[c] = "drainNow" => wpc = "dead"
  /\ cpc[c] \in {"runner", "close", "closeOld"} => Unrecorded \/ Drained

SafetyInv ==
  /\ TypeOK
  /\ TreeInv
  /\ WorkerInv
  /\ RecordInv
  /\ \A c \in Cancellers : CancelInv(c)

LEMMA InitSafety == Init => SafetyInv
<1>1. Init => TypeOK
  BY TypeInit
<1> QED
  BY <1>1 DEF Init, NoRecord, SafetyInv, TreeInv, WorkerInv, RecordInv, CancelInv,
              Drained, Asked, TookOver

LEMMA StarterSafety == SafetyInv /\ Starter => SafetyInv'
<1> SUFFICES ASSUME SafetyInv, Starter PROVE SafetyInv'
  OBVIOUS
<1>1. TypeOK'
  BY StarterType DEF SafetyInv
<1> USE DEF SafetyInv, TreeInv, WorkerInv, RecordInv, CancelInv, Drained, Unrecorded,
            workerVars, storeVars, treeVars, cancelVars, awaitVars, LockFree
<1>2. CASE StarterWrite
  BY <1>1, <1>2 DEF StarterWrite, TypeOK, Record
<1>3. CASE StarterSpawn
  BY <1>1, <1>3 DEF StarterSpawn, TypeOK
<1>4. CASE StarterPid
  BY <1>1, <1>4 DEF StarterPid, TypeOK, Record
<1>5. CASE StarterFail
  BY <1>1, <1>5 DEF StarterFail, TypeOK, Record
<1>6. CASE StarterCrash
  BY <1>1, <1>6 DEF StarterCrash, TypeOK
<1> QED
  BY <1>2, <1>3, <1>4, <1>5, <1>6 DEF Starter

LEMMA WorkerSafety == SafetyInv /\ Worker => SafetyInv'
<1> SUFFICES ASSUME SafetyInv, Worker PROVE SafetyInv'
  OBVIOUS
<1>0. TypeOK'
  BY WorkerType DEF SafetyInv
<1> USE <1>0 DEF SafetyInv, TreeInv, WorkerInv, RecordInv, CancelInv, Drained, Unrecorded,
            WorkerStep, Worker, storeVars, treeVars, cancelVars, awaitVars, LockFree
<1>1. CASE WorkerBegin
  BY <1>1 DEF WorkerBegin, TypeOK, Record
<1>2. CASE WorkerRefuse
  BY <1>2 DEF WorkerRefuse
<1>3. CASE WorkerSkip
  BY <1>3 DEF WorkerSkip
<1>4. CASE WorkerSpawn
  BY <1>4 DEF WorkerSpawn, Asked, TookOver
<1>5. CASE WorkerRecord
  BY <1>5 DEF WorkerRecord, TypeOK, Record, Asked, TookOver
<1>6. CASE WorkerRead
  BY <1>6 DEF WorkerRead
<1>7. CASE WorkerKill
  BY <1>7 DEF WorkerKill, KillGroup
<1>8. CASE WorkerPoll
  BY <1>8 DEF WorkerPoll
<1>9. CASE WorkerObserve
  BY <1>9 DEF WorkerObserve
<1>10. CASE WorkerSnap
  BY <1>10 DEF WorkerSnap, TypeOK, Record
<1>11. CASE WorkerUnwind
  BY <1>11 DEF WorkerUnwind, KillGroup
<1>12. CASE WorkerFail
  BY <1>12 DEF WorkerFail, TypeOK, Record
<1>13. CASE WorkerFinish
  BY <1>13 DEF WorkerFinish
<1>14. CASE WorkerPublish
  BY <1>14 DEF WorkerPublish, TypeOK, Record
<1>15. CASE WorkerExit
  BY <1>15 DEF WorkerExit
<1>16. CASE WorkerFault
  BY <1>16 DEF WorkerFault
<1>17. CASE WorkerCrash
  BY <1>17 DEF WorkerCrash, WorkerLive
<1> QED
  BY <1>1, <1>2, <1>3, <1>4, <1>5, <1>6, <1>7, <1>8, <1>9, <1>10, <1>11, <1>12,
     <1>13, <1>14, <1>15, <1>16, <1>17 DEF WorkerRuns

LEMMA EnvironmentSafety == SafetyInv /\ Environment => SafetyInv'
<1> SUFFICES ASSUME SafetyInv, Environment PROVE SafetyInv'
  OBVIOUS
<1>0. TypeOK'
  BY EnvironmentType DEF SafetyInv
<1> USE <1>0, ConstantsAssumption DEF SafetyInv, TreeInv, WorkerInv, RecordInv, CancelInv, Drained, Unrecorded,
            Environment, storeVars, workerVars, treeVars, cancelVars, awaitVars
<1>1. CASE ProcFork
  BY <1>1 DEF ProcFork, RunnerReuse
<1>2. CASE ProcExit
  BY <1>2 DEF ProcExit, RunnerReuse
<1>3. CASE AlienArrives
  BY <1>3 DEF AlienArrives, RunnerReuse
<1>4. CASE AlienLeaves
  BY <1>4 DEF AlienLeaves, RunnerReuse
<1>5. CASE RunnerReuse
  BY <1>5 DEF RunnerReuse
<1> QED
  BY <1>1, <1>2, <1>3, <1>4, <1>5

LEMMA CancellerSafety ==
  ASSUME NEW c \in Cancellers, SafetyInv, Canceller(c)
  PROVE  SafetyInv'
<1>0. TypeOK'
  BY CancellerType DEF SafetyInv
<1> USE <1>0 DEF SafetyInv, TreeInv, WorkerInv, RecordInv, CancelInv, Drained, Unrecorded,
            CancelStep, Canceller, storeVars, workerVars, treeVars, awaitVars, LockFree,
            TypeOK, Asked, TookOver
<1>1. CASE CancelRead(c)
  BY <1>1 DEF CancelRead
<1>2. CASE CancelOwner(c)
  BY <1>2 DEF CancelOwner, RunnerLive, WorkerLive, Terminal
<1>3. CASE CancelOwned(c)
  BY <1>3 DEF CancelOwned, Unowned, Owned, Unproved
<1>4. CASE CancelMark(c)
  BY <1>4 DEF Reopened, CancelMark, Record
<1>5. CASE CancelReopen(c)
  BY <1>5 DEF Reopened, CancelReopen, Record
<1>6. CASE CancelRequest(c)
  <2>1. rec' = [rec EXCEPT !.cancelRequested = TRUE] /\ crec' = [crec EXCEPT ![c] = rec']
    BY <1>6 DEF CancelRequest, Requested
  <2>2. TreeInv' /\ WorkerInv' /\ RecordInv'
    BY <1>6, <2>1 DEF CancelRequest, Record
  <2>3. ASSUME NEW d \in Cancellers PROVE CancelInv(d)'
    BY <1>6, <2>1, <2>3 DEF CancelRequest, Record
  <2> QED
    BY <2>2, <2>3
<1>7. CASE CancelPoll(c)
  BY <1>7 DEF CancelPoll, Terminal, Record
<1>8. CASE CancelCheck(c)
  BY <1>8 DEF CancelCheck
<1>9. CASE CancelDeadline(c)
  BY <1>9 DEF CancelDeadline
<1>10. CASE CancelFinal(c)
  BY <1>10 DEF CancelFinal, RunnerLive, WorkerLive
<1>11. CASE CancelLate(c)
  BY <1>11 DEF CancelLate, Terminal, Record
<1>12. CASE CancelVerify(c)
  BY <1>12 DEF CancelVerify, Unowned, Owned, Unproved
<1>13. CASE CancelKill(c)
  BY <1>13 DEF KillGroup, CancelKill
<1>14. CASE CancelDrainPending(c)
  BY <1>14 DEF CancelDrainPending, Record
<1>15. CASE CancelRunner(c)
  BY <1>15 DEF CancelRunner
<1>16. CASE CancelClose(c)
  BY <1>16 DEF CancelClose, Record
<1>17. CASE CancelAgain(c)
  BY <1>17 DEF CancelAgain
<1> QED
  BY <1>1, <1>2, <1>3, <1>4, <1>5, <1>6, <1>7, <1>8, <1>9, <1>10, <1>11, <1>12, <1>13, <1>14, <1>15, <1>16, <1>17 DEF CancelRuns

LEMMA AwaiterSafety ==
  ASSUME NEW a \in Awaiters, SafetyInv, Awaiter(a)
  PROVE  SafetyInv'
<1>1. TypeOK'
  BY AwaiterType DEF SafetyInv
<1>2. UNCHANGED <<storeVars, spc, workerVars, treeVars, cancelVars>>
  BY DEF Awaiter
<1> QED
  BY <1>1, <1>2 DEF SafetyInv, TreeInv, WorkerInv, RecordInv, CancelInv, Drained,
                    Unrecorded, storeVars, workerVars, treeVars, cancelVars

LEMMA SafetyStep == SafetyInv /\ [Next]_vars => SafetyInv'
<1> SUFFICES ASSUME SafetyInv, [Next]_vars PROVE SafetyInv'
  OBVIOUS
<1>1. CASE UNCHANGED vars
  <2>1. TypeOK'
    BY <1>1, TypeStep DEF SafetyInv
  <2> QED
    BY <1>1, <2>1 DEF SafetyInv, TreeInv, WorkerInv, RecordInv, CancelInv, Drained,
                      Unrecorded, vars
<1> QED
  BY <1>1, StarterSafety, WorkerSafety, EnvironmentSafety, CancellerSafety, AwaiterSafety
  DEF Next

\* The inductive invariant holds in every reachable state: in particular what a
\* canceller's stale copy of the record still says truly at each of its steps.
THEOREM SafetyCorrect == Spec => []SafetyInv
<1>1. Init => SafetyInv
  BY InitSafety
<1>2. SafetyInv /\ [Next]_vars => SafetyInv'
  BY SafetyStep
<1> QED
  BY <1>1, <1>2, PTL DEF Spec

\* CANCELLED is terminal only after the drain was observed, for any number of
\* cancellers racing the worker, any crash and any failing write, as long as
\* the launch was recorded.
THEOREM CancelledDrained == Spec => []CancelledIsDrained
<1>1. SafetyInv => CancelledIsDrained
  BY DEF SafetyInv, RecordInv, CancelledIsDrained
<1> QED
  BY <1>1, SafetyCorrect, PTL

\* No canceller signals a group whose worker still lives: the kill is one owner's.
THEOREM OwnerFirst == Spec => []OwnerKillsFirst
<1>1. SafetyInv => OwnerKillsFirst
  BY DEF SafetyInv, CancelInv, OwnerKillsFirst, TookOver, WorkerLive
<1> QED
  BY <1>1, SafetyCorrect, PTL

(***************************************************************************)
(* Action properties                                                       *)
(***************************************************************************)
\* Only the worker writes DONE, and never over a requested cancellation.
LEMMA DoneByWorker ==
  SafetyInv /\ [Next]_vars /\ rec.status # "DONE" /\ rec'.status = "DONE"
  => ~rec.cancelRequested
<1> SUFFICES ASSUME SafetyInv, [Next]_vars, rec.status # "DONE", rec'.status = "DONE"
             PROVE  ~rec.cancelRequested
  OBVIOUS
<1>0. rec \in Record
  BY DEF SafetyInv, TypeOK
<1>1. CASE Starter
  BY <1>0, <1>1 DEF Starter, StarterWrite, StarterSpawn, StarterPid, StarterFail,
                    StarterCrash, storeVars, Record
<1>2. CASE Worker
  BY <1>0, <1>2 DEF Worker, WorkerRuns, WorkerBegin, WorkerRefuse, WorkerSkip,
       WorkerSpawn, WorkerRecord, WorkerRead, WorkerKill, WorkerPoll, WorkerObserve,
       WorkerSnap, WorkerUnwind, WorkerFail, WorkerFinish, WorkerPublish, WorkerExit,
       WorkerFault, WorkerCrash, storeVars, Record
<1>3. CASE Environment
  BY <1>3 DEF Environment, RunnerReuse, storeVars
<1>4. ASSUME NEW c \in Cancellers, Canceller(c) PROVE FALSE
  BY <1>0, <1>4 DEF Canceller, CancelRuns, CancelRead, CancelOwner, CancelOwned,
       CancelMark, CancelReopen, CancelRequest, CancelPoll, CancelCheck,
       CancelDeadline, CancelFinal, CancelLate, CancelVerify, CancelKill,
       CancelDrainPending, CancelRunner, CancelClose, CancelAgain, Reopened,
       Requested, storeVars, Record
<1>5. ASSUME NEW a \in Awaiters, Awaiter(a) PROVE FALSE
  BY <1>5 DEF Awaiter, storeVars
<1>6. CASE UNCHANGED vars
  BY <1>6 DEF vars
<1> QED
  BY <1>1, <1>2, <1>3, <1>4, <1>5, <1>6 DEF Next

\* A cancelled run is never reported as done afterwards.
THEOREM CancelledStaysUndone == Spec => CancelledNeverDone
<1>1. SafetyInv /\ [Next]_vars => (rec.status = "CANCELLED" => rec'.status # "DONE")
  <2> SUFFICES ASSUME SafetyInv, [Next]_vars, rec.status = "CANCELLED"
               PROVE  rec'.status # "DONE"
    OBVIOUS
  <2>1. rec.cancelRequested
    BY DEF SafetyInv, RecordInv
  <2> QED
    BY <2>1, DoneByWorker
<1> QED
  BY <1>1, SafetyCorrect, PTL DEF Spec, CancelledNeverDone

\* A request is never withdrawn, whoever writes the record next.
LEMMA RequestStays == SafetyInv /\ [Next]_vars /\ rec.cancelRequested => rec'.cancelRequested
<1> SUFFICES ASSUME SafetyInv, [Next]_vars, rec.cancelRequested PROVE rec'.cancelRequested
  OBVIOUS
<1>0. rec \in Record
  BY DEF SafetyInv, TypeOK
<1>1. CASE Starter
  BY <1>0, <1>1 DEF Starter, StarterWrite, StarterSpawn, StarterPid, StarterFail,
                    StarterCrash, storeVars, Record
<1>2. CASE Worker
  BY <1>0, <1>2 DEF Worker, WorkerRuns, WorkerBegin, WorkerRefuse, WorkerSkip,
       WorkerSpawn, WorkerRecord, WorkerRead, WorkerKill, WorkerPoll, WorkerObserve,
       WorkerSnap, WorkerUnwind, WorkerFail, WorkerFinish, WorkerPublish, WorkerExit,
       WorkerFault, WorkerCrash, storeVars, Record
<1>3. CASE Environment
  BY <1>3 DEF Environment, RunnerReuse, storeVars
<1>4. ASSUME NEW c \in Cancellers, Canceller(c) PROVE rec'.cancelRequested
  BY <1>0, <1>4 DEF Canceller, CancelRuns, CancelRead, CancelOwner, CancelOwned,
       CancelMark, CancelReopen, CancelRequest, CancelPoll, CancelCheck,
       CancelDeadline, CancelFinal, CancelLate, CancelVerify, CancelKill,
       CancelDrainPending, CancelRunner, CancelClose, CancelAgain, Reopened,
       Requested, storeVars, Record
<1>5. CASE (\E a \in Awaiters : Awaiter(a)) \/ UNCHANGED vars
  BY <1>5 DEF Awaiter, storeVars, vars
<1> QED
  BY <1>1, <1>2, <1>3, <1>4, <1>5 DEF Next

\* A run with nothing left stays so once it was asked to stop: the worker launches
\* nothing, and without a live process there is none to fork another.
LEMMA DrainStays ==
  SafetyInv /\ [Next]_vars /\ rec.cancelRequested /\ Drained => Drained'
<1> SUFFICES ASSUME SafetyInv, [Next]_vars, rec.cancelRequested, Drained PROVE Drained'
  OBVIOUS
<1>1. CASE Starter
  BY <1>1 DEF Drained, Starter, StarterWrite, StarterSpawn, StarterPid, StarterFail,
              StarterCrash, treeVars
<1>2. CASE Worker
  BY <1>2 DEF Drained, Worker, WorkerRuns, WorkerBegin, WorkerRefuse, WorkerSkip,
       WorkerSpawn, WorkerRecord, WorkerRead, WorkerKill, WorkerPoll, WorkerObserve,
       WorkerSnap, WorkerUnwind, WorkerFail, WorkerFinish, WorkerPublish, WorkerExit,
       WorkerFault, WorkerCrash, KillGroup, treeVars
<1>3. CASE Environment
  BY <1>3, ConstantsAssumption DEF Drained, Environment, ProcFork, ProcExit, AlienArrives,
       AlienLeaves, RunnerReuse, treeVars
<1>4. ASSUME NEW c \in Cancellers, Canceller(c) PROVE Drained'
  BY <1>4 DEF Drained, Canceller, CancelRuns, CancelRead, CancelOwner, CancelOwned,
       CancelMark, CancelReopen, CancelRequest, CancelPoll, CancelCheck,
       CancelDeadline, CancelFinal, CancelLate, CancelVerify, CancelKill,
       CancelDrainPending, CancelRunner, CancelClose, CancelAgain, KillGroup, treeVars
<1>5. CASE (\E a \in Awaiters : Awaiter(a)) \/ UNCHANGED vars
  BY <1>5 DEF Drained, Awaiter, treeVars, vars
<1> QED
  BY <1>1, <1>2, <1>3, <1>4, <1>5 DEF Next

\* Once a launch was recorded as cancelled nothing of it runs again, for any number of
\* processes and calls, with late starters and workers, crashes, failures and reuse.
THEOREM StaysDown == Spec => CancelledStaysDown
<1> DEFINE Down == rec.cancelRequested /\ Drained
<1>1. SafetyInv /\ rec.status = "CANCELLED" /\ ~Unrecorded => Down
  BY DEF SafetyInv, RecordInv
<1>2. SafetyInv /\ Down /\ [Next]_vars => Down'
  BY RequestStays, DrainStays
<1>3. Down => Drained
  OBVIOUS
<1> HIDE DEF Down
<1> QED
  BY <1>1, <1>2, <1>3, SafetyCorrect, PTL DEF Spec, CancelledStaysDown

(***************************************************************************)
(* What is published and what an awaiter reports of it                     *)
(***************************************************************************)
\* Nothing of the run will start again: its worker is done, or it was asked to stop.
Settled == rec.cancelRequested \/ wpc \in {"tell", "fail", "exit", "dead"}

\* The exit is known when the run is published, unless it was asked to stop; under the
\* lock, the row already carries it; and DONE is the worker's last word.
PublishInv ==
  /\ wpc \in {"finish", "publish"} => wcode # "none" \/ rec.cancelRequested
  /\ wpc = "publish" /\ Attesting /\ ~rec.cancelRequested => row = wcode
  /\ rec.status = "DONE" => wpc \in {"tell", "fail", "exit", "dead"}

\* What an awaiter's stale copy still says truly.
AwaitInv(a) ==
  /\ arec[a].tree => rec.tree
  /\ arec[a].pid => wpc # "unborn"
  /\ arec[a].status \in {"DONE", "CANCELLED"} => Settled /\ (rec.tree => arec[a].tree)
  /\ apc[a] = "complete" => arec[a].status \in Terminal
  /\ apc[a] = "completed" => /\ arec[a].status \in {"DONE", "CANCELLED"}
                             /\ Unrecorded \/ Drained
  /\ apc[a] \in {"reread", "lost"} /\ arec[a].pid => wpc = "dead"

TruthInv == SafetyInv /\ PublishInv /\ RecordIsTrue /\ \A a \in Awaiters : AwaitInv(a)

LEMMA TruthInit == Init => TruthInv
  BY InitSafety DEF Init, NoRecord, TruthInv, PublishInv, RecordIsTrue, CompletedIsDrained,
     LostHasNoVerdict, DoneIsEvidenced, AwaitInv, Terminal

LEMMA WorkerTruth == TruthInv /\ Worker => TruthInv'
<1> SUFFICES ASSUME TruthInv, Worker PROVE TruthInv'
  OBVIOUS
<1>0. SafetyInv'
  BY WorkerSafety DEF TruthInv
<1> USE <1>0 DEF TruthInv, PublishInv, RecordIsTrue, CompletedIsDrained, LostHasNoVerdict,
       DoneIsEvidenced, AwaitInv, Settled, SafetyInv, TreeInv, WorkerInv, RecordInv, Drained,
       Unrecorded, WorkerStep, Worker, storeVars, treeVars, cancelVars, awaitVars, LockFree
<1>1. CASE WorkerBegin
  BY <1>1 DEF WorkerBegin, TypeOK, Record
<1>2. CASE WorkerRefuse
  BY <1>2 DEF WorkerRefuse
<1>3. CASE WorkerSkip
  BY <1>3 DEF WorkerSkip
<1>4. CASE WorkerSpawn
  BY <1>4 DEF WorkerSpawn
<1>5. CASE WorkerRecord
  BY <1>5 DEF WorkerRecord, TypeOK, Record
<1>6. CASE WorkerRead
  BY <1>6 DEF WorkerRead
<1>7. CASE WorkerKill
  BY <1>7 DEF WorkerKill, KillGroup
<1>8. CASE WorkerPoll
  BY <1>8 DEF WorkerPoll
<1>9. CASE WorkerObserve
  BY <1>9 DEF WorkerObserve
<1>10. CASE WorkerSnap
  BY <1>10 DEF WorkerSnap, TypeOK, Record
<1>11. CASE WorkerUnwind
  BY <1>11 DEF WorkerUnwind, KillGroup
<1>12. CASE WorkerFail
  BY <1>12 DEF WorkerFail, TypeOK, Record
<1>13. CASE WorkerFinish
  BY <1>13 DEF WorkerFinish, MintsRow
<1>14. CASE WorkerPublish
  <2>1. /\ rec' = [rec EXCEPT !.status = IF rec.cancelRequested THEN "CANCELLED" ELSE "DONE",
                              !.exit = wcode, !.pending = FALSE, !.attested = (row # "none")]
        /\ wpc = "publish" /\ wpc' = "tell"
        /\ UNCHANGED <<row, wcode, started, group, apc, arec>>
    BY <1>14 DEF WorkerPublish
  <2>2. /\ rec'.tree = rec.tree /\ rec'.cancelRequested = rec.cancelRequested
        /\ rec'.exit = wcode /\ (row # "none" => rec'.attested)
        /\ rec.cancelRequested => rec'.status = "CANCELLED"
        /\ ~rec.cancelRequested => rec'.status = "DONE"
    <3>1. rec \in Record
      BY DEF TypeOK
    <3> QED
      BY ONLY <2>1, <3>1 DEF Record
  <2>3. CASE rec.cancelRequested
    BY <2>1, <2>2, <2>3
  <2>31. ~rec.cancelRequested => wcode # "none" /\ (Attesting => row = wcode)
    BY <2>1
  <2>32. CASE ~rec.cancelRequested
    BY <2>1, <2>2, <2>31, <2>32
  <2> QED
    BY <2>3, <2>32
<1>15. CASE WorkerExit
  BY <1>15 DEF WorkerExit
<1>16. CASE WorkerFault
  BY <1>16 DEF WorkerFault
<1>17. CASE WorkerCrash
  BY <1>17 DEF WorkerCrash, WorkerLive
<1> QED
  BY <1>1, <1>2, <1>3, <1>4, <1>5, <1>6, <1>7, <1>8, <1>9, <1>10,
     <1>11, <1>12, <1>13, <1>14, <1>15, <1>16, <1>17 DEF WorkerRuns

\* A canceller never writes DONE, and what it says of a tree was so.
LEMMA CancellerTruth ==
  ASSUME NEW c \in Cancellers, TruthInv, Canceller(c)
  PROVE  TruthInv'
<1>0. SafetyInv'
  BY CancellerSafety DEF TruthInv
<1>1. /\ UNCHANGED <<row, wpc, wcode, started, apc, arec>>
      /\ rec'.tree = rec.tree /\ rec'.pid = rec.pid /\ (rec.cancelRequested => rec'.cancelRequested)
      /\ rec'.exit = rec.exit /\ rec'.attested = rec.attested
      /\ rec'.status = "DONE" => rec.status = "DONE"
      /\ group' \subseteq group
  BY DEF TruthInv, SafetyInv, TypeOK, Record, Canceller, CancelRuns, CancelRead, CancelOwner, CancelOwned,
       CancelMark, CancelReopen, CancelRequest, CancelPoll, CancelCheck,
       CancelDeadline, CancelFinal, CancelLate, CancelVerify, CancelKill,
       CancelDrainPending, CancelRunner, CancelClose, CancelAgain, KillGroup, Reopened, Requested,
       storeVars, treeVars, workerVars, awaitVars
<1>2. wpc = "publish" => rec'.cancelRequested = rec.cancelRequested
  BY DEF TruthInv, SafetyInv, WorkerInv, TypeOK, Record, Canceller, CancelRuns, CancelRead, CancelOwner, CancelOwned,
       CancelMark, CancelReopen, CancelRequest, CancelPoll, CancelCheck,
       CancelDeadline, CancelFinal, CancelLate, CancelVerify, CancelKill,
       CancelDrainPending, CancelRunner, CancelClose, CancelAgain, LockFree, storeVars
<1>3. PublishInv' /\ DoneIsEvidenced' /\ LostHasNoVerdict'
  BY <1>1, <1>2 DEF TruthInv, PublishInv, RecordIsTrue, DoneIsEvidenced, LostHasNoVerdict
<1>4. ASSUME NEW a \in Awaiters PROVE AwaitInv(a)'
  BY <1>1 DEF TruthInv, AwaitInv, Settled, Unrecorded, Drained
<1>5. CompletedIsDrained'
  BY <1>4 DEF AwaitInv, CompletedIsDrained
<1> QED
  BY <1>0, <1>3, <1>4, <1>5 DEF TruthInv, RecordIsTrue

LEMMA StarterTruth == TruthInv /\ Starter => TruthInv'
<1> SUFFICES ASSUME TruthInv, Starter PROVE TruthInv'
  OBVIOUS
<1>0. SafetyInv'
  BY StarterSafety DEF TruthInv
<1> USE <1>0 DEF TruthInv, PublishInv, RecordIsTrue, CompletedIsDrained, LostHasNoVerdict,
       DoneIsEvidenced, AwaitInv, Settled, SafetyInv, WorkerInv, Drained, Unrecorded,
       storeVars, treeVars, workerVars, cancelVars, awaitVars, LockFree, TypeOK, Record
<1>1. CASE StarterWrite
  BY <1>1 DEF StarterWrite
<1>2. CASE StarterSpawn
  BY <1>2 DEF StarterSpawn
<1>3. CASE StarterPid
  BY <1>3 DEF StarterPid
<1>4. CASE StarterFail
  BY <1>4 DEF StarterFail
<1>5. CASE StarterCrash
  BY <1>5 DEF StarterCrash
<1> QED
  BY <1>1, <1>2, <1>3, <1>4, <1>5 DEF Starter

LEMMA EnvironmentTruth == TruthInv /\ Environment => TruthInv'
<1> SUFFICES ASSUME TruthInv, Environment PROVE TruthInv'
  OBVIOUS
<1>0. SafetyInv'
  BY EnvironmentSafety DEF TruthInv
<1>1. UNCHANGED <<rec, row, wpc, wcode, apc, arec>>
  BY DEF Environment, RunnerReuse, storeVars, workerVars, awaitVars
<1>2. (Unrecorded \/ Drained) => (Unrecorded \/ Drained)'
  BY ConstantsAssumption, <1>1 DEF Environment, RunnerReuse, ProcFork, ProcExit, AlienArrives, AlienLeaves,
     Unrecorded, Drained, treeVars
<1> QED
  BY <1>0, <1>1, <1>2 DEF TruthInv, PublishInv, RecordIsTrue, CompletedIsDrained, LostHasNoVerdict,
     DoneIsEvidenced, AwaitInv, Settled

LEMMA AwaiterTruth ==
  ASSUME NEW a \in Awaiters, TruthInv, Awaiter(a)
  PROVE  TruthInv'
<1>0. SafetyInv'
  BY AwaiterSafety DEF TruthInv
<1> USE <1>0 DEF TruthInv, PublishInv, RecordIsTrue, CompletedIsDrained, LostHasNoVerdict,
       DoneIsEvidenced, AwaitInv, Settled, SafetyInv, WorkerInv, RecordInv, TreeInv, Drained,
       Unrecorded, Awaiter, AwaitStep, storeVars, treeVars, workerVars, cancelVars, TypeOK
<1>1. CASE AwaitRead(a)
  BY <1>1 DEF AwaitRead, Terminal
<1>2. CASE AwaitAlive(a)
  BY <1>2 DEF AwaitAlive, MaySeeLive, MaySeeGone, WorkerLive
<1>3. CASE AwaitReread(a)
  BY <1>3 DEF AwaitReread, Terminal
<1>4. CASE AwaitComplete(a)
  BY <1>4 DEF AwaitComplete, Unowned, Terminal
<1> QED
  BY <1>1, <1>2, <1>3, <1>4

LEMMA TruthStep == TruthInv /\ [Next]_vars => TruthInv'
<1> SUFFICES ASSUME TruthInv, [Next]_vars PROVE TruthInv'
  OBVIOUS
<1>1. CASE UNCHANGED vars
  <2>1. SafetyInv'
    BY <1>1, SafetyStep DEF TruthInv
  <2> QED
    BY <1>1, <2>1 DEF vars, TruthInv, PublishInv, RecordIsTrue, CompletedIsDrained,
       LostHasNoVerdict, DoneIsEvidenced, AwaitInv, Settled, Unrecorded, Drained
<1> QED
  BY <1>1, StarterTruth, WorkerTruth, EnvironmentTruth, CancellerTruth, AwaiterTruth DEF Next

\* Whatever crashes, fails or is cancelled: a run reported complete has nothing left, one
\* reported lost has no verdict, and a DONE carries the exit that its row attests.
THEOREM RecordTrue == Spec => []RecordIsTrue
<1>1. Init => TruthInv
  BY TruthInit
<1>2. TruthInv /\ [Next]_vars => TruthInv'
  BY TruthStep
<1>3. TruthInv => RecordIsTrue
  BY DEF TruthInv
<1> QED
  BY <1>1, <1>2, <1>3, PTL DEF Spec

(***************************************************************************)
(* The verdict that is not taken back                                      *)
(***************************************************************************)
\* The steps at and after which a canceller overrules what the record says.
Overruling == {"mark", "markPending", "killOld", "killOldNow", "closeOld", "reopen", "check",
               "asleep", "final", "late", "drain", "drainNow", "drainPending", "runner", "close"}

\* While no number is reused and no write fails, a DONE has no process left, an ERROR no
\* worker, and a canceller that overrules the record was either heard or came too late.
DoneInv ==
  /\ group \subseteq Procs
  /\ rec.status = "DONE" => group = {} /\ wpc # "fail"
  /\ rec.status = "ERROR" => wpc \in {"exit", "dead"}
  /\ \A c \in Cancellers :
       /\ crec[c].status \in Terminal => Settled
       /\ cpc[c] = "owned" => crec[c].status \in Terminal
       /\ cpc[c] \in Overruling => Settled /\ rec.status # "DONE"

LEMMA DoneStarter == TruthInv /\ DoneInv /\ ~MayFail /\ Starter => DoneInv'
  BY DEF TruthInv, SafetyInv, WorkerInv, PublishInv, TypeOK, Record, DoneInv, Settled, Starter,
     StarterWrite, StarterSpawn, StarterPid, StarterFail, StarterCrash, storeVars, treeVars,
     workerVars, cancelVars

LEMMA DoneWorker == TruthInv /\ DoneInv /\ ~MayFail /\ Worker => DoneInv'
<1> SUFFICES ASSUME TruthInv, DoneInv, ~MayFail, Worker PROVE DoneInv'
  OBVIOUS
<1> USE DEF TruthInv, SafetyInv, WorkerInv, PublishInv, TypeOK, DoneInv, Settled, Drained,
       WorkerStep, Worker, storeVars, treeVars, cancelVars, Terminal
<1>1. CASE WorkerBegin
  BY <1>1 DEF WorkerBegin, Record
<1>2. CASE WorkerRefuse \/ WorkerSkip \/ WorkerRead \/ WorkerPoll \/ WorkerObserve \/ WorkerExit
  BY <1>2 DEF WorkerRefuse, WorkerSkip, WorkerRead, WorkerPoll, WorkerObserve, WorkerExit
<1>3. CASE WorkerSpawn
  BY <1>3, ConstantsAssumption DEF WorkerSpawn
<1>4. CASE WorkerRecord \/ WorkerSnap \/ WorkerFail
  BY <1>4 DEF WorkerRecord, WorkerSnap, WorkerFail, Record
<1>5. CASE WorkerKill \/ WorkerUnwind
  BY <1>5 DEF WorkerKill, WorkerUnwind, KillGroup
<1>6. CASE WorkerFinish \/ WorkerFault \/ WorkerCrash
  BY <1>6 DEF WorkerFinish, WorkerFault, WorkerCrash, WorkerLive
<1>7. CASE WorkerPublish
  <2>1. /\ rec' = [rec EXCEPT !.status = IF rec.cancelRequested THEN "CANCELLED" ELSE "DONE",
                              !.exit = wcode, !.pending = FALSE, !.attested = (row # "none")]
        /\ wpc = "publish" /\ wpc' = "tell"
        /\ UNCHANGED <<group, cpc, crec>>
    BY <1>7 DEF WorkerPublish
  <2>2. /\ rec'.cancelRequested = rec.cancelRequested
        /\ rec.cancelRequested => rec'.status = "CANCELLED"
        /\ ~rec.cancelRequested => rec'.status = "DONE"
    <3>1. rec \in Record
      BY DEF TypeOK
    <3> QED
      BY ONLY <2>1, <3>1 DEF Record
  <2>3. CASE rec.cancelRequested
    BY <2>1, <2>2, <2>3
  <2>4. CASE ~rec.cancelRequested
    BY <2>1, <2>2, <2>4
  <2> QED
    BY <2>3, <2>4
<1> QED
  BY <1>1, <1>2, <1>3, <1>4, <1>5, <1>6, <1>7 DEF WorkerRuns

LEMMA DoneCanceller ==
  ASSUME NEW c \in Cancellers, TruthInv, DoneInv, Canceller(c)
  PROVE  DoneInv'
<1> USE DEF TruthInv, SafetyInv, WorkerInv, CancelInv, PublishInv, TypeOK, DoneInv, Settled, Asked,
       CancelStep, Canceller, storeVars, treeVars, workerVars, Terminal, Overruling, TookOver
<1>0. CASE CancelPoll(c)
  BY <1>0 DEF CancelPoll
<1>1. CASE CancelRead(c)
  BY <1>1 DEF CancelRead, RecordInv, Record
<1>12. CASE CancelOwner(c)
  BY <1>12 DEF CancelOwner
<1>2. CASE CancelOwned(c)
  BY <1>2 DEF CancelOwned, Unowned
<1>3. CASE CancelMark(c)
  BY <1>3 DEF CancelMark, Reopened, Record
<1>4. CASE CancelReopen(c)
  BY <1>4 DEF CancelReopen, Reopened, Record
<1>5. CASE CancelRequest(c)
  BY <1>5 DEF CancelRequest, Requested, Record
<1>6. CASE CancelCheck(c) \/ CancelDeadline(c) \/ CancelFinal(c) \/ CancelVerify(c) \/ CancelRunner(c)
  BY <1>6 DEF CancelCheck, CancelDeadline, CancelFinal, CancelVerify, CancelRunner
<1>7. CASE CancelLate(c)
  BY <1>7 DEF CancelLate, Record
<1>10. CASE CancelDrainPending(c)
  BY <1>10 DEF CancelDrainPending, Record
<1>11. CASE CancelClose(c)
  BY <1>11 DEF CancelClose, Record
<1>8. CASE CancelKill(c)
  BY <1>8 DEF CancelKill, KillGroup
<1>9. CASE CancelAgain(c)
  BY <1>9 DEF CancelAgain
<1> QED
  BY <1>0, <1>1, <1>2, <1>3, <1>4, <1>5, <1>6, <1>7, <1>8, <1>9, <1>10, <1>11,
     <1>12 DEF CancelRuns

LEMMA DoneStep == TruthInv /\ DoneInv /\ ~MayFail /\ ~MayReuse /\ [Next]_vars => DoneInv'
<1> SUFFICES ASSUME TruthInv, DoneInv, ~MayFail, ~MayReuse, [Next]_vars PROVE DoneInv'
  OBVIOUS
<1>1. CASE Environment
  BY <1>1 DEF DoneInv, Settled, Environment, RunnerReuse, ProcFork, ProcExit, AlienArrives,
     AlienLeaves, storeVars, workerVars, cancelVars
<1>2. ASSUME NEW a \in Awaiters, Awaiter(a) PROVE DoneInv'
  BY <1>2 DEF DoneInv, Settled, Awaiter, storeVars, treeVars, workerVars, cancelVars
<1>3. CASE UNCHANGED vars
  BY <1>3 DEF DoneInv, Settled, vars
<1> QED
  BY <1>1, <1>2, <1>3, DoneStarter, DoneWorker, DoneCanceller DEF Next

\* A published DONE is never overwritten, whoever is still cancelling or starting the run.
LEMMA DoneKept ==
  TruthInv /\ DoneInv /\ ~MayFail /\ [Next]_vars /\ rec.status = "DONE" => rec'.status = "DONE"
<1> SUFFICES ASSUME TruthInv, DoneInv, ~MayFail, [Next]_vars, rec.status = "DONE"
             PROVE  rec'.status = "DONE"
  OBVIOUS
<1>1. wpc \in {"tell", "exit", "dead"} /\ rec \in Record /\ spc \notin {"write", "spawn"}
  BY DEF TruthInv, PublishInv, SafetyInv, WorkerInv, TypeOK, DoneInv
<1>2. CASE Starter
  BY <1>1, <1>2 DEF Starter, StarterWrite, StarterSpawn, StarterPid, StarterFail, StarterCrash,
     storeVars, Record
<1>3. CASE Worker
  BY <1>1, <1>3 DEF Worker, WorkerRuns, WorkerBegin, WorkerRefuse, WorkerSkip, WorkerSpawn,
     WorkerRecord, WorkerRead, WorkerKill, WorkerPoll, WorkerObserve, WorkerSnap, WorkerUnwind,
     WorkerFail, WorkerFinish, WorkerPublish, WorkerExit, WorkerFault, WorkerCrash, WorkerStep,
     storeVars
<1>4. CASE Environment
  BY <1>4 DEF Environment, RunnerReuse, storeVars
<1>5. ASSUME NEW c \in Cancellers, Canceller(c) PROVE rec'.status = "DONE"
  BY <1>1, <1>5 DEF DoneInv, Overruling, Terminal, Canceller, CancelRuns, CancelRead, CancelOwner,
     CancelOwned, CancelMark, CancelReopen, CancelRequest, CancelPoll, CancelCheck,
     CancelDeadline, CancelFinal, CancelLate, CancelVerify, CancelKill, CancelDrainPending,
     CancelRunner, CancelClose, CancelAgain, CancelStep, Reopened, Requested, storeVars, Record
<1>6. CASE (\E a \in Awaiters : Awaiter(a)) \/ UNCHANGED vars
  BY <1>6 DEF Awaiter, storeVars, vars
<1> QED
  BY <1>2, <1>3, <1>4, <1>5, <1>6 DEF Next

\* Unless a number is reused or a write fails, no cancellation takes a DONE back, for any
\* number of cancellers, each with its own stale copy, and any crash.
THEOREM DoneIsKept == ~MayReuse /\ ~MayFail /\ Spec => DoneStays
<1> SUFFICES ASSUME ~MayReuse, ~MayFail PROVE Spec => DoneStays
  OBVIOUS
<1>1. Init => TruthInv /\ DoneInv
  <2>1. Init => TruthInv
    BY TruthInit
  <2>2. Init => DoneInv
    BY DEF Init, NoRecord, DoneInv, Overruling, Terminal
  <2> QED
    BY <2>1, <2>2
<1>2. TruthInv /\ DoneInv /\ [Next]_vars => (TruthInv /\ DoneInv)'
  BY TruthStep, DoneStep
<1>3. TruthInv /\ DoneInv /\ [Next]_vars => (rec.status = "DONE" => rec'.status = "DONE")
  BY DoneKept
<1> QED
  BY <1>1, <1>2, <1>3, PTL DEF Spec, DoneStays

\* A passing row is minted for a run that nobody asked to stop, under the lock in which it
\* is then published: from there the record says DONE, or its worker was killed between.
RowInv ==
  /\ row = "ok" => wpc \in {"publish", "tell", "dead"}
  /\ rec.attested => wpc \in {"tell", "dead"}
  /\ row = "ok" /\ wpc = "publish" => ~rec.cancelRequested
  /\ row = "ok" /\ wpc = "tell" => rec.attested
  /\ row = "ok" /\ rec.attested => rec.status = "DONE"

LEMMA RowWorker == TruthInv /\ DoneInv /\ RowInv /\ ~MayFail /\ Worker => RowInv'
<1> SUFFICES ASSUME TruthInv, DoneInv, RowInv, ~MayFail, Worker PROVE RowInv'
  OBVIOUS
<1>0. rec \in Record
  BY DEF TruthInv, SafetyInv, TypeOK
<1> USE DEF RowInv, WorkerStep, Worker, storeVars
<1>1. CASE WorkerPublish
  <2>1. /\ rec' = [rec EXCEPT !.status = IF rec.cancelRequested THEN "CANCELLED" ELSE "DONE",
                              !.exit = wcode, !.pending = FALSE, !.attested = (row # "none")]
        /\ wpc = "publish" /\ wpc' = "tell" /\ row' = row
    BY <1>1 DEF WorkerPublish
  <2>2. /\ rec'.attested <=> row # "none"
        /\ ~rec.cancelRequested => rec'.status = "DONE"
    BY ONLY <1>0, <2>1 DEF Record
  <2> QED
    BY <2>1, <2>2
<1>2. CASE WorkerFinish
  BY <1>2 DEF WorkerFinish, MintsRow
<1>3. CASE WorkerBegin \/ WorkerRecord \/ WorkerSnap \/ WorkerFail
  BY <1>0, <1>3 DEF WorkerBegin, WorkerRecord, WorkerSnap, WorkerFail, Record
<1>4. CASE WorkerRuns /\ ~WorkerPublish /\ ~WorkerFinish /\ ~WorkerBegin /\ ~WorkerRecord /\ ~WorkerSnap /\ ~WorkerFail
  BY <1>4 DEF WorkerRuns, WorkerRefuse, WorkerSkip, WorkerSpawn, WorkerRead, WorkerKill, WorkerPoll, WorkerObserve,
     WorkerUnwind, WorkerExit
<1>5. CASE WorkerFault \/ WorkerCrash
  BY <1>5 DEF WorkerFault, WorkerCrash
<1> QED
  BY <1>1, <1>2, <1>3, <1>4, <1>5

LEMMA RowStep ==
  TruthInv /\ DoneInv /\ RowInv /\ ~MayFail /\ ~MayReuse /\ [Next]_vars => RowInv'
<1> SUFFICES ASSUME TruthInv, DoneInv, RowInv, ~MayFail, ~MayReuse, [Next]_vars PROVE RowInv'
  OBVIOUS
<1>0. rec \in Record /\ (rec.status = "DONE" => rec'.status = "DONE")
  BY DoneKept DEF TruthInv, SafetyInv, TypeOK
<1>1. CASE Starter
  BY <1>0, <1>1 DEF RowInv, TruthInv, SafetyInv, WorkerInv, Starter, StarterWrite, StarterSpawn, StarterPid,
     StarterFail, StarterCrash, storeVars, workerVars, Record
<1>2. ASSUME NEW c \in Cancellers, Canceller(c) PROVE RowInv'
  <2>1. /\ UNCHANGED <<row, wpc>> /\ rec'.attested = rec.attested
        /\ wpc = "publish" => rec'.cancelRequested = rec.cancelRequested
    BY <1>0, <1>2 DEF TruthInv, SafetyInv, WorkerInv, Record, Canceller, CancelRuns, CancelRead, CancelOwner,
       CancelOwned, CancelMark, CancelReopen, CancelRequest, CancelPoll, CancelCheck,
       CancelDeadline, CancelFinal, CancelLate, CancelVerify, CancelKill,
       CancelDrainPending, CancelRunner, CancelClose, CancelAgain, Reopened, Requested, LockFree,
       storeVars, workerVars
  <2> QED
    BY <1>0, <2>1 DEF RowInv
<1>3. CASE Environment \/ (\E a \in Awaiters : Awaiter(a)) \/ UNCHANGED vars
  BY <1>3 DEF RowInv, Environment, RunnerReuse, Awaiter, storeVars, workerVars, vars
<1> QED
  BY <1>1, <1>2, <1>3, RowWorker DEF Next

\* Unless a number is reused or a write fails: a run that is recorded as cancelled has no
\* passing row, but for a worker killed between the two, for any number of cancellers.
THEOREM CancelledNotGreen == ~MayReuse /\ ~MayFail /\ Spec => []CancelledIsNotGreen
<1> SUFFICES ASSUME ~MayReuse, ~MayFail PROVE Spec => []CancelledIsNotGreen
  OBVIOUS
<1>1. Init => TruthInv /\ DoneInv /\ RowInv
  <2>1. Init => TruthInv
    BY TruthInit
  <2>2. Init => DoneInv /\ RowInv
    BY DEF Init, NoRecord, DoneInv, RowInv, Overruling, Terminal
  <2> QED
    BY <2>1, <2>2
<1>2. TruthInv /\ DoneInv /\ RowInv /\ [Next]_vars => (TruthInv /\ DoneInv /\ RowInv)'
  BY TruthStep, DoneStep, RowStep
<1>3. TruthInv /\ RowInv => CancelledIsNotGreen
  BY DEF TruthInv, SafetyInv, RecordInv, RowInv, CancelledIsNotGreen
<1> QED
  BY <1>1, <1>2, <1>3, PTL DEF Spec
=============================================================================
