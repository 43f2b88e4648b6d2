-------------------------- MODULE FaultPairsProofs --------------------------
(***************************************************************************)
(* Proofs about FaultPairs: its types, that a pass is earned, and that the *)
(* requests for one crash implement OneAttempt.                            *)
(***************************************************************************)
EXTENDS FaultPairs, TLAPS

Busy(p) == pc[p].at \in Active

\* One process has the attempt: a request, or the worker that request started.
Alone ==
  /\ \A p, q \in Procs : Busy(p) /\ Busy(q) => p = q
  /\ \A p \in Requests : Busy(p) => pc[Worker].at = "off"
  /\ ~receipt.taken => pc[Worker].at = "off" /\ \A p \in Procs : ~Busy(p)
  /\ pc[Worker].at \notin {"write", "spawn"}

\* How many legs were executed says where the owner is.
Executed(n, r) == ran["native"] = n /\ ran["reference"] = r

Stage(p) ==
  /\ pc[p].at \in {"off", "enter", "valid", "write", "spawn", "own"} => pc[p].role = "native"
  /\ Owns(p) /\ pc[p].at \notin {"run", "publish", "record", "print"} =>
       IF pc[p].role = "native" THEN Executed(0, 0) ELSE Executed(1, 0)
  /\ pc[p].at = "run" => IF pc[p].role = "native" THEN Executed(1, 0) ELSE Executed(1, 1)
  /\ pc[p].at \in {"publish", "record", "print"} => Executed(1, 1)

Stages == /\ \A p \in Procs : Stage(p)
          /\ ~receipt.taken => Executed(0, 0)
          /\ Executed(0, 0) \/ Executed(1, 0) \/ Executed(1, 1)

\* A row that is bound to the crash's tree is of a leg nobody disturbed.
LegInv(r) ==
  /\ leg[r].row # "none" => ran[r] = 1
  /\ leg[r].row # "none" /\ leg[r].bound => pure[r]
  /\ \A p \in Procs : pc[p].at = "run" /\ pc[p].role = r =>
       leg[r].row = "none" /\ (Bound(r) => pure[r])

\* The pair's row and its DONE record come once, from the owner's last steps.
PairInv ==
  /\ ~stopped
  /\ pair # "none" => /\ receipt.taken
                      /\ \A p \in Procs : Owns(p) => pc[p].at \in {"record", "print"}
  /\ rec.status = "DONE" => /\ receipt.taken
                            /\ \A p \in Procs : Owns(p) => pc[p].at = "print"

Inv == TypeOK /\ Alone /\ Stages /\ (\A r \in Roles : LegInv(r)) /\ PairInv

(***************************************************************************)
(* Where a step takes its process.                                         *)
(***************************************************************************)
Ats == Active \cup {"off", "enter", "valid", "over", "dead"}
PcType == pc \in [Procs -> [at : Ats, role : Roles]]

Still(p) == \A q \in Procs : q # p => pc'[q] = pc[q]
Shift(p, from, to) == /\ PcType' /\ Still(p) /\ pc[p].at \in from /\ pc'[p].at \in to
                      /\ pc'[p].role = pc[p].role

LEMMA GotoShifts ==
  ASSUME PcType, NEW p \in Procs, NEW at \in Ats, Goto(p, at)
  PROVE  Shift(p, {pc[p].at}, {at})
BY DEF PcType, Goto, Shift, Still

LEMMA Shifts ==
  ASSUME PcType, NEW p \in Procs
  PROVE  /\ Validate(p) => Shift(p, {"enter"}, {"valid", "over"})
         /\ Consume(p) => Shift(p, {"valid"}, IF ~receipt.taken THEN {"write"} ELSE {"over"})
         /\ WritePair(p) => Shift(p, {"write"}, {"spawn", "own"})
         /\ Enter(p) => Shift(p, {"valid"}, {"own", "over"})
         /\ Own(p) => Shift(p, {"own"}, {"ready", "over"})
         /\ Ready(p) => Shift(p, {"ready"}, {"exec", "over"})
         /\ Execute(p) => Shift(p, {"exec"}, {"run", "over"})
         /\ Publish(p) => Shift(p, {"publish"}, {"record"})
         /\ Record(p) => Shift(p, {"record"}, {"print"})
         /\ Tell(p) => Shift(p, {"print"}, {"over"})
         /\ Die(p) => Shift(p, Active \cup {"enter", "valid"}, {"dead"})
<1> USE GotoShifts DEF Shift, Ats, Active
<1>1. Validate(p) => Shift(p, {"enter"}, {"valid", "over"})
  BY DEF Validate, Fail
<1>2. Consume(p) => Shift(p, {"valid"}, IF ~receipt.taken THEN {"write"} ELSE {"over"})
  BY DEF Consume, Fail, Free
<1>3. WritePair(p) => Shift(p, {"write"}, {"spawn", "own"})
  BY DEF WritePair
<1>4. Enter(p) => Shift(p, {"valid"}, {"own", "over"})
  BY DEF Enter, Fail
<1>5. Own(p) => Shift(p, {"own"}, {"ready", "over"})
  BY DEF Own, Cancelled
<1>6. Ready(p) => Shift(p, {"ready"}, {"exec", "over"})
  BY DEF Ready, Cancelled, Fail
<1>7. Execute(p) => Shift(p, {"exec"}, {"run", "over"})
  BY DEF Execute, Fail
<1>8. Publish(p) => Shift(p, {"publish"}, {"record"})
  BY DEF Publish
<1>9. Record(p) => Shift(p, {"record"}, {"print"})
  BY DEF Record
<1>10. Tell(p) => Shift(p, {"print"}, {"over"})
  BY DEF Tell, Fail
<1>11. Die(p) => Shift(p, Active \cup {"enter", "valid"}, {"dead"})
  BY DEF Die
<1> QED BY <1>1, <1>2, <1>3, <1>4, <1>5, <1>6, <1>7, <1>8, <1>9, <1>10, <1>11

LEMMA WriteShifts ==
  ASSUME PcType, NEW p \in Procs, WriteFails(p)
  PROVE  Shift(p, {"valid", "write", "own", "publish", "record"}, {"over"})
BY GotoShifts DEF WriteFails, Fail, Shift, Ats, Active

\* The request starts its worker, or fails.
LEMMA SpawnShifts ==
  ASSUME PcType, NEW p \in Procs, Spawn(p), p # Worker
  PROVE  \/ Shift(p, {"spawn"}, {"over"})
         \/ /\ PcType' /\ pc[p].at = "spawn" /\ pc'[p].at = "over" /\ pc'[p].role = pc[p].role
            /\ pc'[Worker].at = "enter" /\ pc'[Worker].role = pc[Worker].role
            /\ \A q \in Procs \ {p, Worker} : pc'[q] = pc[q]
<1>1. CASE Fail(p)
  BY <1>1, GotoShifts DEF Spawn, Fail, Shift, Ats
<1>2. CASE pc' = [pc EXCEPT ![p].at = "over", ![Worker].at = "enter"]
  BY <1>2, RequestsAssumption DEF Spawn, PcType, Ats, Procs
<1> QED BY <1>1, <1>2 DEF Spawn

\* A leg ends the attempt, or hands on to the next leg or to the publication.
LEMMA LegShifts ==
  ASSUME PcType, NEW p \in Procs, LegEnds(p)
  PROVE  \/ Shift(p, {"run"}, {"over"})
         \/ /\ PcType' /\ Still(p) /\ pc[p].at = "run" /\ pc[p].role = "native"
            /\ pc'[p].at = "ready" /\ pc'[p].role = "reference"
         \/ pc[p].role = "reference" /\ Shift(p, {"run"}, {"publish"})
<1>1. CASE Goto(p, "over")
  BY <1>1, GotoShifts DEF LegEnds, Shift, Ats
<1>2. CASE pc' = [pc EXCEPT ![p] = [at |-> "ready", role |-> "reference"]] /\ pc[p].role = "native"
  BY <1>2 DEF LegEnds, PcType, Ats, Active, Roles, Still
<1>3. CASE pc' = [pc EXCEPT ![p] = [at |-> "publish", role |-> pc[p].role]] /\ pc[p].role # "native"
  BY <1>3 DEF LegEnds, PcType, Ats, Active, Roles, Still, Shift
<1> QED BY <1>1, <1>2, <1>3 DEF LegEnds, Fail, Cancelled

LEMMA InvFacts ==
  ASSUME Inv
  PROVE  /\ TypeOK /\ PcType /\ Alone /\ Stages /\ PairInv
         /\ \A p \in Procs : Stage(p)
         /\ \A r \in Roles : LegInv(r)
BY DEF Inv, TypeOK, PcType, Ats, Stages

LEMMA PcStep == Inv /\ [Next]_vars => PcType'
<1> SUFFICES ASSUME Inv, [Next]_vars PROVE PcType'
  OBVIOUS
<1>0. PcType /\ Alone
  BY InvFacts
<1>1. CASE UNCHANGED vars
  BY <1>0, <1>1 DEF PcType, vars
<1>2. ASSUME NEW p \in Procs, Validate(p) PROVE PcType'
  BY <1>0, <1>2, Shifts DEF Shift
<1>3. ASSUME NEW p \in Procs, Consume(p) PROVE PcType'
  BY <1>0, <1>3, Shifts DEF Shift
<1>4. ASSUME NEW p \in Procs, WritePair(p) PROVE PcType'
  BY <1>0, <1>4, Shifts DEF Shift
<1>5. ASSUME NEW p \in Procs, Spawn(p) PROVE PcType'
  BY <1>0, <1>5, SpawnShifts DEF Shift, Alone, Spawn
<1>6. ASSUME NEW p \in Procs, Enter(p) PROVE PcType'
  BY <1>0, <1>6, Shifts DEF Shift
<1>7. ASSUME NEW p \in Procs, Own(p) PROVE PcType'
  BY <1>0, <1>7, Shifts DEF Shift
<1>8. ASSUME NEW p \in Procs, Ready(p) PROVE PcType'
  BY <1>0, <1>8, Shifts DEF Shift
<1>9. ASSUME NEW p \in Procs, Execute(p) PROVE PcType'
  BY <1>0, <1>9, Shifts DEF Shift
<1>10. ASSUME NEW p \in Procs, LegEnds(p) PROVE PcType'
  BY <1>0, <1>10, LegShifts DEF Shift
<1>11. ASSUME NEW p \in Procs, Publish(p) PROVE PcType'
  BY <1>0, <1>11, Shifts DEF Shift
<1>12. ASSUME NEW p \in Procs, Record(p) PROVE PcType'
  BY <1>0, <1>12, Shifts DEF Shift
<1>13. ASSUME NEW p \in Procs, Tell(p) PROVE PcType'
  BY <1>0, <1>13, Shifts DEF Shift
<1>14. ASSUME NEW p \in Procs, Die(p) PROVE PcType'
  BY <1>0, <1>14, Shifts DEF Shift
<1>21. ASSUME NEW p \in Procs, WriteFails(p) PROVE PcType'
  BY <1>0, <1>21, WriteShifts DEF Shift
<1>15. CASE CancelRead
  BY <1>0, <1>15 DEF CancelRead, PcType, world, history
<1>16. CASE CancelWrite
  BY <1>0, <1>16 DEF CancelWrite, PcType, world, history
<1>17. CASE CancelEnd
  BY <1>0, <1>17 DEF CancelEnd, PcType, world, history
<1>18. CASE Move
  BY <1>0, <1>18 DEF Move, PcType, world, history
<1>19. CASE Edit
  BY <1>0, <1>19 DEF Edit, PcType, world, history
<1>20. CASE RunGate
  BY <1>0, <1>20 DEF RunGate, PcType, world, history
<1> QED BY <1>1, <1>2, <1>3, <1>4, <1>5, <1>6, <1>7, <1>8, <1>9, <1>10, <1>11, <1>12, <1>13, <1>14, <1>15, <1>16, <1>17, <1>18, <1>19, <1>20, <1>21 DEF Next, Step, Others

\* The receipt's fields, step by step.
LEMMA ReceiptSteps ==
  ASSUME TypeOK, NEW p \in Procs
  PROVE  /\ Consume(p) => receipt'.taken = TRUE \/ (receipt.taken /\ receipt' = receipt)
         /\ WritePair(p) \/ Enter(p) => receipt'.taken = receipt.taken
         /\ (Enter(p) => p = Worker) /\ (Consume(p) => p # Worker)
BY RequestsAssumption DEF TypeOK, Consume, Free, WritePair, Enter

LEMMA AloneStep == Inv /\ [Next]_vars => Alone'
<1> SUFFICES ASSUME Inv, [Next]_vars PROVE Alone'
  OBVIOUS
<1> USE RequestsAssumption DEF Alone, Busy, Active, Procs
<1>0. TypeOK /\ PcType /\ Alone
  BY InvFacts
<1>1. CASE UNCHANGED vars
  BY <1>0, <1>1 DEF vars
<1>2. ASSUME NEW p \in Procs, Validate(p) PROVE Alone'
  BY <1>0, <1>2, Shifts DEF Validate, Shift, Still
<1>3. ASSUME NEW p \in Procs, Consume(p) PROVE Alone'
  <2>1. pc[p].at = "valid" /\ p # Worker /\ Still(p)
    BY <1>0, <1>3, Shifts, ReceiptSteps DEF Shift
  <2>2. CASE ~receipt.taken
    <3>1. pc'[p].at = "write" /\ receipt'.taken
      BY <1>0, <1>3, <2>2, Shifts, ReceiptSteps DEF Shift
    <3>2. pc'[Worker].at = "off" /\ \A q \in Procs \ {p} : ~Busy(q)'
      BY <1>0, <2>1, <2>2 DEF Still
    <3> QED BY <3>1, <3>2
  <2>3. CASE receipt.taken
    <3>1. pc'[p].at = "over" /\ receipt'.taken
      BY <1>0, <1>3, <2>3, Shifts, ReceiptSteps DEF Shift
    <3> QED BY <1>0, <2>1, <3>1 DEF Still
  <2> QED BY <2>2, <2>3
<1>4. ASSUME NEW p \in Procs, WritePair(p) PROVE Alone'
  <2>1. Shift(p, {"write"}, {"spawn", "own"}) /\ receipt'.taken = receipt.taken
    BY <1>0, <1>4, Shifts, ReceiptSteps
  <2>2. p # Worker /\ receipt.taken /\ \A q \in Procs \ {p} : ~Busy(q) /\ pc'[q] = pc[q]
    BY <1>0, <2>1 DEF Shift, Still
  <2>3. pc[Worker].at = "off" /\ pc'[Worker] = pc[Worker]
    BY <1>0, <2>1, <2>2 DEF Shift
  <2> QED BY <2>1, <2>2, <2>3
<1>5. ASSUME NEW p \in Procs, Spawn(p) PROVE Alone'
  <2>1. p # Worker /\ pc[p].at = "spawn" /\ receipt' = receipt /\ receipt.taken
    BY <1>0, <1>5 DEF Spawn
  <2>2. \A q \in Procs : Busy(q)' => q # p /\ Busy(q) /\ pc'[q] = pc[q]
    BY <1>0, <1>5, <2>1, SpawnShifts DEF Shift, Still
  <2>3. pc'[Worker].at \notin {"write", "spawn"}
    BY <1>0, <1>5, <2>1, SpawnShifts DEF Shift, Still
  <2>4. \A q \in Procs : ~Busy(q)'
    BY <1>0, <2>1, <2>2
  <2> QED BY <2>1, <2>3, <2>4
<1>6. ASSUME NEW p \in Procs, Enter(p) PROVE Alone'
  <2>1. p = Worker /\ pc[Worker].at = "valid" /\ receipt'.taken = receipt.taken
    BY <1>0, <1>6, Shifts, ReceiptSteps DEF Shift
  <2>2. receipt.taken /\ \A q \in Requests : ~Busy(q) /\ pc'[q] = pc[q]
    BY <1>0, <1>6, <2>1, Shifts DEF Shift, Still
  <2>3. pc'[Worker].at \in {"own", "over"}
    BY <1>0, <1>6, <2>1, Shifts DEF Shift
  <2> QED BY <2>1, <2>2, <2>3
<1>7. ASSUME NEW p \in Procs, Own(p) PROVE Alone'
  BY <1>0, <1>7, Shifts DEF Own, Shift, Still
<1>8. ASSUME NEW p \in Procs, Ready(p) PROVE Alone'
  BY <1>0, <1>8, Shifts DEF Ready, Shift, Still
<1>9. ASSUME NEW p \in Procs, Execute(p) PROVE Alone'
  BY <1>0, <1>9, Shifts DEF Execute, Shift, Still
<1>10. ASSUME NEW p \in Procs, LegEnds(p) PROVE Alone'
  BY <1>0, <1>10, LegShifts DEF LegEnds, Shift, Still
<1>11. ASSUME NEW p \in Procs, Publish(p) PROVE Alone'
  BY <1>0, <1>11, Shifts DEF Publish, Shift, Still
<1>12. ASSUME NEW p \in Procs, Record(p) PROVE Alone'
  BY <1>0, <1>12, Shifts DEF Record, Shift, Still
<1>13. ASSUME NEW p \in Procs, Tell(p) PROVE Alone'
  BY <1>0, <1>13, Shifts DEF Tell, Shift, Still
<1>14. ASSUME NEW p \in Procs, Die(p) PROVE Alone'
  BY <1>0, <1>14, Shifts DEF Die, Shift, Still
<1>21. ASSUME NEW p \in Procs, WriteFails(p) PROVE Alone'
  BY <1>0, <1>21, WriteShifts DEF WriteFails, Fail, Shift, Still
<1>15. CASE CancelRead
  BY <1>0, <1>15 DEF CancelRead, world, history
<1>16. CASE CancelWrite
  BY <1>0, <1>16 DEF CancelWrite, world, history
<1>17. CASE CancelEnd
  BY <1>0, <1>17 DEF CancelEnd, world, history
<1>18. CASE Move
  BY <1>0, <1>18 DEF Move, world, history
<1>19. CASE Edit
  BY <1>0, <1>19 DEF Edit, world, history
<1>20. CASE RunGate
  BY <1>0, <1>20 DEF RunGate, world, history
<1> QED BY <1>1, <1>2, <1>3, <1>4, <1>5, <1>6, <1>7, <1>8, <1>9, <1>10, <1>11, <1>12, <1>13, <1>14, <1>15, <1>16, <1>17, <1>18, <1>19, <1>20, <1>21 DEF Next, Step, Others

LEMMA StagesFrom ==
  ASSUME Inv, NEW p \in Procs, Still(p), ran' = ran, receipt.taken => receipt'.taken, Stage(p)'
  PROVE  Stages'
<1>0. Stages /\ \A q \in Procs : Stage(q)
  BY InvFacts
<1>1. ASSUME NEW q \in Procs, q # p PROVE Stage(q)'
  BY <1>0, <1>1 DEF Still, Stage, Owns, Executed
<1> QED BY <1>0, <1>1 DEF Stages, Executed

LEMMA StagesKept ==
  ASSUME Inv, pc' = pc, ran' = ran, receipt' = receipt PROVE Stages'
BY InvFacts DEF Stages, Stage, Owns, Executed

LEMMA StagesStep == Inv /\ [Next]_vars => Stages'
<1> SUFFICES ASSUME Inv, [Next]_vars PROVE Stages'
  OBVIOUS
<1> USE DEF world, history
<1>0. TypeOK /\ PcType /\ Alone /\ Stages /\ \A p \in Procs : Stage(p)
  BY InvFacts
<1>1. CASE UNCHANGED vars
  BY <1>0, <1>1, StagesKept DEF vars
<1>2. ASSUME NEW p \in Procs, Validate(p) PROVE Stages'
  <2>1. Still(p) /\ ran' = ran /\ (receipt.taken => receipt'.taken)
    BY <1>0, <1>2, Shifts DEF Shift, Validate
  <2>2. Stage(p)'
    BY <1>0, <1>2, <2>1, Shifts DEF Shift, Stage, Stages, Owns, Active, Executed
  <2> QED BY <2>1, <2>2, StagesFrom
<1>3. ASSUME NEW p \in Procs, Consume(p) PROVE Stages'
  <2>1. Still(p) /\ ran' = ran /\ (receipt.taken => receipt'.taken)
    BY <1>0, <1>3, Shifts, ReceiptSteps DEF Shift, Consume
  <2>2. Stage(p)'
    BY <1>0, <1>3, <2>1, Shifts, ReceiptSteps DEF Shift, Stage, Stages, Owns, Active, Executed
  <2> QED BY <2>1, <2>2, StagesFrom
<1>4. ASSUME NEW p \in Procs, WritePair(p) PROVE Stages'
  <2>1. Still(p) /\ ran' = ran /\ (receipt.taken => receipt'.taken)
    BY <1>0, <1>4, Shifts, ReceiptSteps DEF Shift, WritePair
  <2>2. Stage(p)'
    BY <1>0, <1>4, <2>1, Shifts, ReceiptSteps DEF Shift, Stage, Stages, Owns, Active, Executed
  <2> QED BY <2>1, <2>2, StagesFrom
<1>5. ASSUME NEW p \in Procs, Spawn(p) PROVE Stages'
  <2>1. p # Worker /\ UNCHANGED <<ran, receipt>> /\ pc[p].at = "spawn"
    BY <1>0, <1>5 DEF Spawn, Alone
  <2>2. CASE Shift(p, {"spawn"}, {"over"})
    <3>1. Still(p) /\ Stage(p)'
      BY <2>2 DEF Shift, Stage, Owns, Active
    <3> QED BY <2>1, <3>1, StagesFrom
  <2>3. CASE ~Shift(p, {"spawn"}, {"over"})
    <3>1. /\ pc'[p].at = "over" /\ pc'[Worker].at = "enter" /\ pc'[Worker].role = pc[Worker].role
          /\ \A q \in Procs \ {p, Worker} : pc'[q] = pc[q]
      BY <1>0, <1>5, <2>1, <2>3, SpawnShifts
    <3>2. receipt.taken /\ pc[Worker].at = "off" /\ Executed(0, 0) /\ pc[Worker].role = "native"
      BY <1>0, <2>1, RequestsAssumption DEF Alone, Busy, Active, Stage, Owns, Procs
    <3>3. Executed(0, 0)'
      BY <2>1, <3>2 DEF Executed
    <3>4. Stage(p)' /\ Stage(Worker)'
      BY <3>1, <3>2, <3>3 DEF Stage, Owns, Active
    <3>5. ASSUME NEW q \in Procs \ {p, Worker} PROVE Stage(q)'
      BY <1>0, <2>1, <3>1, <3>5 DEF Stage, Owns, Executed
    <3> QED BY <2>1, <3>2, <3>3, <3>4, <3>5 DEF Stages, Procs
  <2> QED BY <2>2, <2>3
<1>6. ASSUME NEW p \in Procs, Enter(p) PROVE Stages'
  <2>1. Still(p) /\ ran' = ran /\ (receipt.taken => receipt'.taken)
    BY <1>0, <1>6, Shifts, ReceiptSteps DEF Shift, Enter
  <2>2. Stage(p)'
    BY <1>0, <1>6, <2>1, Shifts, ReceiptSteps DEF Shift, Stage, Stages, Owns, Active, Executed
  <2> QED BY <2>1, <2>2, StagesFrom
<1>7. ASSUME NEW p \in Procs, Own(p) PROVE Stages'
  <2>1. Still(p) /\ ran' = ran /\ (receipt.taken => receipt'.taken)
    BY <1>0, <1>7, Shifts DEF Shift, Own
  <2>2. Stage(p)'
    BY <1>0, <1>7, <2>1, Shifts DEF Shift, Stage, Stages, Owns, Active, Executed
  <2> QED BY <2>1, <2>2, StagesFrom
<1>8. ASSUME NEW p \in Procs, Ready(p) PROVE Stages'
  <2>1. Still(p) /\ ran' = ran /\ (receipt.taken => receipt'.taken)
    BY <1>0, <1>8, Shifts DEF Shift, Ready
  <2>2. Stage(p)'
    BY <1>0, <1>8, <2>1, Shifts DEF Shift, Stage, Stages, Owns, Active, Executed
  <2> QED BY <2>1, <2>2, StagesFrom
<1>9. ASSUME NEW p \in Procs, Execute(p) PROVE Stages'
  <2>1. pc[p].at = "exec" /\ Still(p) /\ UNCHANGED receipt /\ pc'[p].role = pc[p].role
    BY <1>0, <1>9, Shifts DEF Shift, Execute
  <2>2. CASE pc'[p].at = "over"
    <3>1. ran' = ran
      BY <1>0, <1>9, <2>2 DEF Execute, Goto, PcType
    <3>2. Stage(p)'
      BY <2>2 DEF Stage, Owns, Active
    <3> QED BY <2>1, <3>1, <3>2, StagesFrom
  <2>3. CASE pc'[p].at = "run"
    <3>1. ran' = [ran EXCEPT ![pc[p].role] = @ + 1]
      BY <1>0, <1>9, <2>3 DEF Execute, Fail, Goto, PcType
    <3>2. \/ pc[p].role = "native" /\ Executed(0, 0) /\ Executed(1, 0)'
          \/ pc[p].role = "reference" /\ Executed(1, 0) /\ Executed(1, 1)'
      <4>1. pc[p].role \in Roles /\ ran \in [Roles -> 0 .. 2]
        BY <1>0 DEF TypeOK, PcType
      <4>2. IF pc[p].role = "native" THEN Executed(0, 0) ELSE Executed(1, 0)
        BY <1>0, <2>1 DEF Stage, Owns, Active
      <4>3. CASE pc[p].role = "native"
        <5>1. ran'["native"] = 1 /\ ran'["reference"] = 0
          BY <3>1, <4>1, <4>2, <4>3 DEF Executed, Roles
        <5> QED BY <4>2, <4>3, <5>1 DEF Executed
      <4>4. CASE pc[p].role = "reference"
        <5>1. ran'["native"] = 1 /\ ran'["reference"] = 1
          BY <3>1, <4>1, <4>2, <4>4 DEF Executed, Roles
        <5> QED BY <4>2, <4>4, <5>1 DEF Executed
      <4> QED BY <4>1, <4>3, <4>4 DEF Roles
    <3>3. ASSUME NEW q \in Procs, q # p PROVE Stage(q)'
      <4>1. ~Owns(q) /\ pc'[q] = pc[q]
        BY <1>0, <2>1, <3>3 DEF Alone, Busy, Owns, Active, Still, Procs
      <4> QED BY <1>0, <4>1 DEF Stage, Owns, Active
    <3>4. Stage(p)'
      BY <2>1, <2>3, <3>2 DEF Stage, Executed
    <3>5. receipt.taken
      BY <1>0, <2>1 DEF Alone, Busy, Active
    <3> QED BY <2>1, <3>2, <3>3, <3>4, <3>5 DEF Stages
  <2> QED BY <1>0, <1>9, <2>2, <2>3, Shifts DEF Shift
<1>10. ASSUME NEW p \in Procs, LegEnds(p) PROVE Stages'
  <2>1. UNCHANGED <<ran, receipt>> /\ Still(p) /\ pc[p].at = "run" /\ pc'[p].role \in Roles
    BY <1>0, <1>10, LegShifts DEF LegEnds, Shift, PcType
  <2>2. Stage(p)'
    BY <1>0, <1>10, <2>1, LegShifts DEF Shift, Stage, Owns, Active, Executed, Roles
  <2> QED BY <2>1, <2>2, StagesFrom
<1>11. ASSUME NEW p \in Procs, Publish(p) PROVE Stages'
  <2>1. Still(p) /\ ran' = ran /\ (receipt.taken => receipt'.taken)
    BY <1>0, <1>11, Shifts DEF Shift, Publish
  <2>2. Stage(p)'
    BY <1>0, <1>11, <2>1, Shifts DEF Shift, Stage, Stages, Owns, Active, Executed
  <2> QED BY <2>1, <2>2, StagesFrom
<1>12. ASSUME NEW p \in Procs, Record(p) PROVE Stages'
  <2>1. Still(p) /\ ran' = ran /\ (receipt.taken => receipt'.taken)
    BY <1>0, <1>12, Shifts DEF Shift, Record
  <2>2. Stage(p)'
    BY <1>0, <1>12, <2>1, Shifts DEF Shift, Stage, Stages, Owns, Active, Executed
  <2> QED BY <2>1, <2>2, StagesFrom
<1>13. ASSUME NEW p \in Procs, Tell(p) PROVE Stages'
  <2>1. Still(p) /\ ran' = ran /\ (receipt.taken => receipt'.taken)
    BY <1>0, <1>13, Shifts DEF Shift, Tell
  <2>2. Stage(p)'
    BY <1>0, <1>13, <2>1, Shifts DEF Shift, Stage, Stages, Owns, Active, Executed
  <2> QED BY <2>1, <2>2, StagesFrom
<1>14. ASSUME NEW p \in Procs, Die(p) PROVE Stages'
  <2>1. Still(p) /\ ran' = ran /\ (receipt.taken => receipt'.taken)
    BY <1>0, <1>14, Shifts DEF Shift, Die
  <2>2. Stage(p)'
    BY <1>0, <1>14, <2>1, Shifts DEF Shift, Stage, Stages, Owns, Active, Executed
  <2> QED BY <2>1, <2>2, StagesFrom
<1>21. ASSUME NEW p \in Procs, WriteFails(p) PROVE Stages'
  <2>1. Still(p) /\ ran' = ran /\ (receipt.taken => receipt'.taken)
    BY <1>0, <1>21, WriteShifts DEF Shift, WriteFails, Fail
  <2>2. Stage(p)'
    BY <1>0, <1>21, <2>1, WriteShifts DEF Shift, Stage, Stages, Owns, Active, Executed
  <2> QED BY <2>1, <2>2, StagesFrom
<1>15. CASE CancelRead
  BY <1>0, <1>15, StagesKept DEF CancelRead
<1>16. CASE CancelWrite
  BY <1>0, <1>16, StagesKept DEF CancelWrite
<1>17. CASE CancelEnd
  BY <1>0, <1>17, StagesKept DEF CancelEnd
<1>18. CASE Move
  BY <1>0, <1>18, StagesKept DEF Move
<1>19. CASE Edit
  BY <1>0, <1>19, StagesKept DEF Edit
<1>20. CASE RunGate
  BY <1>0, <1>20, StagesKept DEF RunGate
<1> QED BY <1>1, <1>2, <1>3, <1>4, <1>5, <1>6, <1>7, <1>8, <1>9, <1>10, <1>11, <1>12, <1>13, <1>14, <1>15, <1>16, <1>17, <1>18, <1>19, <1>20, <1>21 DEF Next, Step, Others

LEMMA OnlyOwner ==
  ASSUME Inv, NEW p \in Procs, Busy(p), NEW q \in Procs, q # p
  PROVE  ~Owns(q)
BY InvFacts DEF Alone, Busy, Owns, Procs

(***************************************************************************)
(* The legs.                                                               *)
(***************************************************************************)
LEMMA LegKept ==
  ASSUME Inv, UNCHANGED <<leg, ran, pure, tree, manifest>>,
         \A q \in Procs : pc'[q].at = "run" => pc'[q] = pc[q]
  PROVE  \A r \in Roles : LegInv(r)'
BY InvFacts DEF LegInv, Bound, OnOriginal

LEMMA LegStep == Inv /\ [Next]_vars => \A r \in Roles : LegInv(r)'
<1> SUFFICES ASSUME Inv, [Next]_vars PROVE \A r \in Roles : LegInv(r)'
  OBVIOUS
<1>0. TypeOK /\ PcType /\ Alone /\ (\A p \in Procs : Stage(p)) /\ \A r \in Roles : LegInv(r)
  BY InvFacts
<1>1. CASE UNCHANGED vars
  BY <1>0, <1>1, LegKept DEF vars
<1>2. ASSUME NEW p \in Procs, Validate(p) PROVE \A r \in Roles : LegInv(r)'
  <2>1. \A q \in Procs : pc'[q].at = "run" => pc'[q] = pc[q]
    BY <1>0, <1>2, Shifts DEF Shift, Still
  <2>2. UNCHANGED <<leg, ran, pure, tree, manifest>>
    BY <1>2 DEF Validate, world, history
  <2> QED BY <2>1, <2>2, LegKept
<1>3. ASSUME NEW p \in Procs, Consume(p) PROVE \A r \in Roles : LegInv(r)'
  <2>1. \A q \in Procs : pc'[q].at = "run" => pc'[q] = pc[q]
    BY <1>0, <1>3, Shifts DEF Shift, Still
  <2>2. UNCHANGED <<leg, ran, pure, tree, manifest>>
    BY <1>3 DEF Consume, world, history
  <2> QED BY <2>1, <2>2, LegKept
<1>4. ASSUME NEW p \in Procs, WritePair(p) PROVE \A r \in Roles : LegInv(r)'
  <2>1. \A q \in Procs : pc'[q].at = "run" => pc'[q] = pc[q]
    BY <1>0, <1>4, Shifts DEF Shift, Still
  <2>2. UNCHANGED <<leg, ran, pure, tree, manifest>>
    BY <1>4 DEF WritePair, world, history
  <2> QED BY <2>1, <2>2, LegKept
<1>5. ASSUME NEW p \in Procs, Spawn(p) PROVE \A r \in Roles : LegInv(r)'
  <2>1. \A q \in Procs : pc'[q].at = "run" => pc'[q] = pc[q]
    BY <1>0, <1>5, SpawnShifts DEF Shift, Still, Spawn, Alone
  <2>2. UNCHANGED <<leg, ran, pure, tree, manifest>>
    BY <1>5 DEF Spawn, world, history
  <2> QED BY <2>1, <2>2, LegKept
<1>6. ASSUME NEW p \in Procs, Enter(p) PROVE \A r \in Roles : LegInv(r)'
  <2>1. \A q \in Procs : pc'[q].at = "run" => pc'[q] = pc[q]
    BY <1>0, <1>6, Shifts DEF Shift, Still
  <2>2. UNCHANGED <<leg, ran, pure, tree, manifest>>
    BY <1>6 DEF Enter, world, history
  <2> QED BY <2>1, <2>2, LegKept
<1>7. ASSUME NEW p \in Procs, Own(p) PROVE \A r \in Roles : LegInv(r)'
  <2>1. \A q \in Procs : pc'[q].at = "run" => pc'[q] = pc[q]
    BY <1>0, <1>7, Shifts DEF Shift, Still
  <2>2. UNCHANGED <<leg, ran, pure, tree, manifest>>
    BY <1>7 DEF Own, world, history
  <2> QED BY <2>1, <2>2, LegKept
<1>8. ASSUME NEW p \in Procs, Ready(p) PROVE \A r \in Roles : LegInv(r)'
  <2>1. \A q \in Procs : pc'[q].at = "run" => pc'[q] = pc[q]
    BY <1>0, <1>8, Shifts DEF Shift, Still
  <2>2. UNCHANGED <<leg, ran, pure, tree, manifest>>
    BY <1>8 DEF Ready, world, history
  <2> QED BY <2>1, <2>2, LegKept
<1>9. ASSUME NEW p \in Procs, Execute(p) PROVE \A r \in Roles : LegInv(r)'
  <2>0. PICK r0 \in Roles : pc[p].role = r0
    BY <1>0 DEF PcType
  <2>1. pc[p].at = "exec" /\ Still(p) /\ pc'[p].role = r0 /\ UNCHANGED <<tree, manifest>>
    BY <1>0, <1>9, <2>0, Shifts DEF Shift, Execute, world
  <2>2. CASE pc'[p].at = "over"
    <3>1. UNCHANGED <<leg, ran, pure>>
      BY <1>0, <1>9, <2>2 DEF Execute, Goto, PcType, history
    <3> QED BY <2>1, <2>2, <3>1, LegKept DEF Still
  <2>3. CASE pc'[p].at = "run"
    <3>1. /\ leg' = [leg EXCEPT ![r0] = [status |-> "RUNNING", row |-> "none", bound |-> OnOriginal(r0)]]
          /\ ran' = [ran EXCEPT ![r0] = @ + 1] /\ pure' = [pure EXCEPT ![r0] = OnOriginal(r0)]
      BY <1>0, <1>9, <2>0, <2>3 DEF Execute, Fail, Goto, PcType
    <3>2. /\ r0 \in Roles /\ leg'[r0].row = "none" /\ leg'[r0].bound = OnOriginal(r0)
          /\ pure'[r0] = OnOriginal(r0)
          /\ \A r \in Roles \ {r0} : leg'[r] = leg[r] /\ ran'[r] = ran[r] /\ pure'[r] = pure[r]
      BY <1>0, <3>1 DEF TypeOK, PcType
    <3>3. \A q \in Procs \ {p} : pc'[q].at # "run"
      BY <1>0, <2>1 DEF Alone, Busy, Active, Still
    <3>4. LegInv(r0)'
      BY <2>1, <3>2, <3>3 DEF LegInv, Bound, OnOriginal
    <3>5. ASSUME NEW r \in Roles, r # r0 PROVE LegInv(r)'
      BY <1>0, <2>1, <3>2, <3>3, <3>5 DEF LegInv
    <3> QED BY <3>4, <3>5
  <2> QED BY <1>0, <1>9, <2>2, <2>3, Shifts DEF Shift
<1>10. ASSUME NEW p \in Procs, LegEnds(p) PROVE \A r \in Roles : LegInv(r)'
  <2>0. PICK r0 \in Roles : pc[p].role = r0
    BY <1>0 DEF PcType
  <2>1. /\ pc[p].at = "run" /\ r0 \in Roles /\ pc'[p].at # "run" /\ Still(p)
        /\ UNCHANGED <<ran, pure, tree, manifest>>
    BY <1>0, <1>10, <2>0, LegShifts DEF LegEnds, Shift, PcType, world, history
  <2>2. \A q \in Procs : pc'[q].at # "run"
    BY <1>0, <2>1 DEF Alone, Busy, Active, Still
  <2>3. ran[r0] = 1 /\ leg[r0].row = "none" /\ (Bound(r0) => pure[r0])
    BY <1>0, <2>0, <2>1 DEF Stage, Executed, LegInv, Roles
  <2>4. /\ leg'[r0].row = "none" \/ leg'[r0].bound = Bound(r0)
        /\ \A r \in Roles \ {r0} : leg'[r] = leg[r]
    <3>1. CASE leg' = [leg EXCEPT ![r0].status = "DONE"]
      BY <1>0, <2>1, <2>3, <3>1 DEF TypeOK
    <3>2. CASE leg' = leg
      BY <2>3, <3>2
    <3>3. ASSUME NEW status, NEW row, leg' = [leg EXCEPT ![r0] =
                   [status |-> status, row |-> row, bound |-> Bound(r0)]]
          PROVE  leg'[r0].bound = Bound(r0) /\ \A r \in Roles \ {r0} : leg'[r] = leg[r]
      BY <1>0, <2>1, <3>3 DEF TypeOK
    <3> QED BY <1>10, <2>0, <3>1, <3>2, <3>3 DEF LegEnds
  <2>5. LegInv(r0)'
    BY <2>1, <2>2, <2>3, <2>4 DEF LegInv
  <2>6. ASSUME NEW r \in Roles, r # r0 PROVE LegInv(r)'
    BY <1>0, <2>1, <2>2, <2>4, <2>6 DEF LegInv
  <2> QED BY <2>5, <2>6
<1>11. ASSUME NEW p \in Procs, Publish(p) PROVE \A r \in Roles : LegInv(r)'
  <2>1. \A q \in Procs : pc'[q].at = "run" => pc'[q] = pc[q]
    BY <1>0, <1>11, Shifts DEF Shift, Still
  <2>2. UNCHANGED <<leg, ran, pure, tree, manifest>>
    BY <1>11 DEF Publish, world, history
  <2> QED BY <2>1, <2>2, LegKept
<1>12. ASSUME NEW p \in Procs, Record(p) PROVE \A r \in Roles : LegInv(r)'
  <2>1. \A q \in Procs : pc'[q].at = "run" => pc'[q] = pc[q]
    BY <1>0, <1>12, Shifts DEF Shift, Still
  <2>2. UNCHANGED <<leg, ran, pure, tree, manifest>>
    BY <1>12 DEF Record, world, history
  <2> QED BY <2>1, <2>2, LegKept
<1>13. ASSUME NEW p \in Procs, Tell(p) PROVE \A r \in Roles : LegInv(r)'
  <2>1. \A q \in Procs : pc'[q].at = "run" => pc'[q] = pc[q]
    BY <1>0, <1>13, Shifts DEF Shift, Still
  <2>2. UNCHANGED <<leg, ran, pure, tree, manifest>>
    BY <1>13 DEF Tell, world, history
  <2> QED BY <2>1, <2>2, LegKept
<1>14. ASSUME NEW p \in Procs, Die(p) PROVE \A r \in Roles : LegInv(r)'
  <2>1. \A q \in Procs : pc'[q].at = "run" => pc'[q] = pc[q]
    BY <1>0, <1>14, Shifts DEF Shift, Still
  <2>2. UNCHANGED <<leg, ran, pure, tree, manifest>>
    BY <1>14 DEF Die, world, history
  <2> QED BY <2>1, <2>2, LegKept
<1>21. ASSUME NEW p \in Procs, WriteFails(p) PROVE \A r \in Roles : LegInv(r)'
  <2>1. \A q \in Procs : pc'[q].at = "run" => pc'[q] = pc[q]
    BY <1>0, <1>21, WriteShifts DEF Shift, Still
  <2>2. UNCHANGED <<leg, ran, pure, tree, manifest>>
    BY <1>21 DEF WriteFails, Fail, world, history
  <2> QED BY <2>1, <2>2, LegKept
<1>15. CASE CancelRead
  BY <1>0, <1>15, LegKept DEF CancelRead, world, history
<1>16. CASE CancelWrite
  BY <1>0, <1>16, LegKept DEF CancelWrite, world, history
<1>17. CASE CancelEnd
  BY <1>0, <1>17, LegKept DEF CancelEnd, world, history
<1>18. CASE Move
  <2>1. \A r \in Roles : pure'[r] = (pure[r] /\ ~(r = "native" /\ Running(r)))
    BY <1>18 DEF Move
  <2>2. UNCHANGED <<pc, leg, ran, manifest>> /\ tree' = "moved"
    BY <1>18 DEF Move
  <2>3. ASSUME NEW r \in Roles, leg[r].row # "none" PROVE ~Running(r)
    BY <1>0, <2>3 DEF LegInv, Running
  <2> QED BY <1>0, <2>1, <2>2, <2>3 DEF LegInv, Bound, OnOriginal, Roles
<1>19. CASE Edit
  <2>1. \A r \in Roles : pure'[r] = (pure[r] /\ ~Running(r))
    BY <1>19 DEF Edit
  <2>2. UNCHANGED <<pc, leg, ran, tree>> /\ manifest' = "edited"
    BY <1>19 DEF Edit
  <2>3. ASSUME NEW r \in Roles, leg[r].row # "none" PROVE ~Running(r)
    BY <1>0, <2>3 DEF LegInv, Running
  <2> QED BY <1>0, <2>1, <2>2, <2>3 DEF LegInv, Bound
<1>20. CASE RunGate
  BY <1>0, <1>20, LegKept DEF RunGate, world, history
<1> QED BY <1>1, <1>2, <1>3, <1>4, <1>5, <1>6, <1>7, <1>8, <1>9, <1>10, <1>11, <1>12, <1>13, <1>14, <1>15, <1>16, <1>17, <1>18, <1>19, <1>20, <1>21 DEF Next, Step, Others

LEMMA TypeStep == Inv /\ [Next]_vars => TypeOK'
<1> SUFFICES ASSUME Inv, [Next]_vars PROVE TypeOK'
  OBVIOUS
<1> USE DEF TypeOK, PcType, Ats, Active, Terminal, Roles, world, history
<1>0. TypeOK /\ PcType /\ PcType' /\ \A p \in Procs : Stage(p)
  BY InvFacts, PcStep
<1>1. CASE UNCHANGED vars
  BY <1>0, <1>1 DEF vars
<1>2. ASSUME NEW p \in Procs, Validate(p) PROVE TypeOK'
  BY <1>0, <1>2 DEF Validate, Fails, Fail
<1>3. ASSUME NEW p \in Procs, Consume(p) PROVE TypeOK'
  <2>1. UNCHANGED <<leg, pair, fresh, tree, manifest, canceller, ran, pure, stopped>>
    BY <1>3 DEF Consume
  <2>2. rec' \in {rec, [rec EXCEPT !.status = "ERROR"]} /\ lock' \in {lock, p}
    BY <1>3 DEF Consume, Fail
  <2>3. receipt' \in {receipt, [receipt EXCEPT !.taken = TRUE]}
    BY <1>3 DEF Consume
  <2>4. rec' \in [status : Terminal \cup {"none", "RUNNING"}, cancel : BOOLEAN]
    BY <1>0, <2>2
  <2>5. receipt' \in [taken : BOOLEAN, started : BOOLEAN]
    BY <1>0, <2>3
  <2> QED BY <1>0, <2>1, <2>2, <2>4, <2>5
<1>4. ASSUME NEW p \in Procs, WritePair(p) PROVE TypeOK'
  BY <1>0, <1>4 DEF WritePair
<1>5. ASSUME NEW p \in Procs, Spawn(p) PROVE TypeOK'
  <2>1. UNCHANGED <<receipt, lock, leg, pair, fresh, tree, manifest, canceller, ran, pure, stopped>>
    BY <1>5 DEF Spawn
  <2>2. rec' \in {rec, [rec EXCEPT !.status = "ERROR"]}
    BY <1>5 DEF Spawn, Fail
  <2> QED BY <1>0, <2>1, <2>2
<1>6. ASSUME NEW p \in Procs, Enter(p) PROVE TypeOK'
  <2>1. UNCHANGED <<lock, leg, pair, fresh, tree, manifest, canceller, ran, pure, stopped>>
    BY <1>6 DEF Enter
  <2>2. rec' \in {rec, [rec EXCEPT !.status = "ERROR"]}
    BY <1>6 DEF Enter, Fail
  <2>3. receipt' \in {receipt, [receipt EXCEPT !.started = TRUE]}
    BY <1>6 DEF Enter
  <2>4. rec' \in [status : Terminal \cup {"none", "RUNNING"}, cancel : BOOLEAN]
    BY <1>0, <2>2
  <2>5. receipt' \in [taken : BOOLEAN, started : BOOLEAN]
    BY <1>0, <2>3
  <2> QED BY <1>0, <2>1, <2>4, <2>5
<1>7. ASSUME NEW p \in Procs, Own(p) PROVE TypeOK'
  BY <1>0, <1>7 DEF Own, Cancelled
<1>8. ASSUME NEW p \in Procs, Ready(p) PROVE TypeOK'
  BY <1>0, <1>8 DEF Ready, Cancelled, Fail
<1>9. ASSUME NEW p \in Procs, Execute(p) PROVE TypeOK'
  <2>0. PICK r \in Roles : pc[p].role = r
    BY <1>0
  <2>1. UNCHANGED <<receipt, lock, pair, fresh, tree, manifest, canceller, stopped>>
    BY <1>9 DEF Execute
  <2>2. CASE manifest # "launch"
    BY <1>0, <1>9, <2>1, <2>2 DEF Execute, Fail
  <2>3. CASE manifest = "launch"
    <3>1. /\ leg' = [leg EXCEPT ![r] = [status |-> "RUNNING", row |-> "none", bound |-> OnOriginal(r)]]
          /\ ran' = [ran EXCEPT ![r] = @ + 1] /\ pure' = [pure EXCEPT ![r] = OnOriginal(r)]
          /\ UNCHANGED rec
      BY <1>9, <2>0, <2>3 DEF Execute
    <3>2. ran[r] \in 0 .. 1
      BY InvFacts DEF Stages, Executed
    <3>3. ran' \in [Roles -> 0 .. 2] /\ pure' \in [Roles -> BOOLEAN]
      BY <1>0, <3>1, <3>2 DEF OnOriginal
    <3>4. leg' \in [Roles -> [status : {"none", "RUNNING", "DONE", "CANCELLED"},
                              row : {"none", "green", "red"}, bound : BOOLEAN]]
      BY <1>0, <3>1 DEF OnOriginal
    <3> QED BY <1>0, <2>1, <3>1, <3>3, <3>4
  <2> QED BY <2>2, <2>3
<1>10. ASSUME NEW p \in Procs, LegEnds(p) PROVE TypeOK'
  <2>0. PICK r \in Roles : pc[p].role = r
    BY <1>0
  <2>1. UNCHANGED <<receipt, lock, pair, fresh, tree, manifest, canceller, ran, pure, stopped>>
    BY <1>10 DEF LegEnds
  <2>2. rec' \in [status : Terminal \cup {"none", "RUNNING"}, cancel : BOOLEAN]
    BY <1>0, <1>10 DEF LegEnds, Cancelled, Fail
  <2>3. leg' \in [Roles -> [status : {"none", "RUNNING", "DONE", "CANCELLED"},
                            row : {"none", "green", "red"}, bound : BOOLEAN]]
    <3>1. CASE leg' = [leg EXCEPT ![r].status = "DONE"]
      BY <1>0, <3>1
    <3>2. ASSUME NEW exit \in {"green", "red"},
                 leg' = [leg EXCEPT ![r] =
                   [status |-> IF rec.cancel THEN "CANCELLED" ELSE "DONE",
                    row |-> IF rec.cancel /\ exit = "green" THEN "none" ELSE exit,
                    bound |-> Bound(r)]]
          PROVE  leg' \in [Roles -> [status : {"none", "RUNNING", "DONE", "CANCELLED"},
                                    row : {"none", "green", "red"}, bound : BOOLEAN]]
      BY <1>0, <3>2 DEF Bound, OnOriginal
    <3> QED BY <1>0, <1>10, <2>0, <3>1, <3>2 DEF LegEnds
  <2> QED BY <1>0, <2>1, <2>2, <2>3
<1>11. ASSUME NEW p \in Procs, Publish(p) PROVE TypeOK'
  BY <1>0, <1>11 DEF Publish, Verdict, MayPublish
<1>12. ASSUME NEW p \in Procs, Record(p) PROVE TypeOK'
  BY <1>0, <1>12 DEF Record
<1>13. ASSUME NEW p \in Procs, Tell(p) PROVE TypeOK'
  BY <1>0, <1>13 DEF Tell, Fail
<1>14. ASSUME NEW p \in Procs, Die(p) PROVE TypeOK'
  BY <1>0, <1>14 DEF Die
<1>21. ASSUME NEW p \in Procs, WriteFails(p) PROVE TypeOK'
  BY <1>0, <1>21 DEF WriteFails, Fail
<1>15. CASE CancelRead
  BY <1>0, <1>15 DEF CancelRead
<1>16. CASE CancelWrite
  BY <1>0, <1>16 DEF CancelWrite
<1>17. CASE CancelEnd
  BY <1>0, <1>17 DEF CancelEnd
<1>18. CASE Move
  BY <1>0, <1>18 DEF Move
<1>19. CASE Edit
  BY <1>0, <1>19 DEF Edit
<1>20. CASE RunGate
  BY <1>0, <1>20 DEF RunGate
<1> QED BY <1>1, <1>2, <1>3, <1>4, <1>5, <1>6, <1>7, <1>8, <1>9, <1>10, <1>11, <1>12, <1>13, <1>14, <1>15, <1>16, <1>17, <1>18, <1>19, <1>20, <1>21 DEF Next, Step, Others

(***************************************************************************)
(* The pair's row and record.                                              *)
(***************************************************************************)
LEMMA PairKept ==
  ASSUME Inv, UNCHANGED <<stopped, pair>>, receipt.taken => receipt'.taken,
         rec'.status = "DONE" => rec.status = "DONE",
         \A q \in Procs : Owns(q)' =>
            Owns(q) /\ (pc'[q].at = pc[q].at \/ pc[q].at \notin {"record", "print"})
  PROVE  PairInv'
BY InvFacts DEF PairInv

LEMMA PairStep == Inv /\ [Next]_vars => PairInv'
<1> SUFFICES ASSUME Inv, [Next]_vars PROVE PairInv'
  OBVIOUS
<1>0. TypeOK /\ PcType /\ Alone /\ PairInv
  BY InvFacts
<1>1. CASE UNCHANGED vars
  BY <1>0, <1>1, PairKept DEF vars, Owns
<1>2. ASSUME NEW p \in Procs, Validate(p) PROVE PairInv'
  <2>1. \A q \in Procs : Owns(q)' =>
           Owns(q) /\ (pc'[q].at = pc[q].at \/ pc[q].at \notin {"record", "print"})
    BY <1>0, <1>2, Shifts DEF Shift, Still, Owns, Active
  <2>2. /\ UNCHANGED <<stopped, pair>> /\ (receipt.taken => receipt'.taken)
        /\ (rec'.status = "DONE" => rec.status = "DONE")
    BY <1>0, <1>2 DEF TypeOK, Validate, world, history, Fails, Fail
  <2> QED BY <2>1, <2>2, PairKept
<1>3. ASSUME NEW p \in Procs, Consume(p) PROVE PairInv'
  <2>1. UNCHANGED <<stopped, pair>> /\ rec' = rec /\ (receipt.taken => receipt'.taken)
    BY <1>0, <1>3, ReceiptSteps DEF Consume, history, Fails, TypeOK
  <2>2. CASE ~receipt.taken
    BY <1>0, <2>1, <2>2 DEF PairInv
  <2>3. CASE receipt.taken
    <3>1. Still(p) /\ pc'[p].at = "over"
      BY <1>0, <1>3, <2>3, Shifts DEF Shift
    <3> QED BY <2>1, <3>1, PairKept DEF Still, Owns, Active
  <2> QED BY <2>2, <2>3
<1>4. ASSUME NEW p \in Procs, WritePair(p) PROVE PairInv'
  <2>1. \A q \in Procs : Owns(q)' =>
           Owns(q) /\ (pc'[q].at = pc[q].at \/ pc[q].at \notin {"record", "print"})
    BY <1>0, <1>4, Shifts, ReceiptSteps DEF Shift, Still, Owns, Active
  <2>2. /\ UNCHANGED <<stopped, pair>> /\ (receipt.taken => receipt'.taken)
        /\ (rec'.status = "DONE" => rec.status = "DONE")
    BY <1>0, <1>4, ReceiptSteps DEF TypeOK, WritePair, world, history
  <2> QED BY <2>1, <2>2, PairKept
<1>5. ASSUME NEW p \in Procs, Spawn(p) PROVE PairInv'
  <2>1. Owns(p) /\ pc[p].at = "spawn"
    BY <1>5 DEF Spawn, Owns, Active
  <2>2. pair = "none" /\ rec.status # "DONE" /\ ~stopped
    BY <1>0, <2>1 DEF PairInv, TypeOK
  <2>3. UNCHANGED <<stopped, pair>> /\ rec'.status # "DONE"
    BY <1>0, <1>5, <2>2 DEF Spawn, history, Fail, TypeOK
  <2> QED BY <2>2, <2>3 DEF PairInv
<1>6. ASSUME NEW p \in Procs, Enter(p) PROVE PairInv'
  <2>1. \A q \in Procs : Owns(q)' =>
           Owns(q) /\ (pc'[q].at = pc[q].at \/ pc[q].at \notin {"record", "print"})
    BY <1>0, <1>6, Shifts, ReceiptSteps DEF Shift, Still, Owns, Active
  <2>2. /\ UNCHANGED <<stopped, pair>> /\ (receipt.taken => receipt'.taken)
        /\ (rec'.status = "DONE" => rec.status = "DONE")
    BY <1>0, <1>6, ReceiptSteps DEF TypeOK, Enter, world, history, Fail
  <2> QED BY <2>1, <2>2, PairKept
<1>7. ASSUME NEW p \in Procs, Own(p) PROVE PairInv'
  <2>1. \A q \in Procs : Owns(q)' =>
           Owns(q) /\ (pc'[q].at = pc[q].at \/ pc[q].at \notin {"record", "print"})
    BY <1>0, <1>7, Shifts DEF Shift, Still, Owns, Active
  <2>2. /\ UNCHANGED <<stopped, pair>> /\ (receipt.taken => receipt'.taken)
        /\ (rec'.status = "DONE" => rec.status = "DONE")
    BY <1>0, <1>7 DEF TypeOK, Own, world, history, Cancelled
  <2> QED BY <2>1, <2>2, PairKept
<1>8. ASSUME NEW p \in Procs, Ready(p) PROVE PairInv'
  <2>1. \A q \in Procs : Owns(q)' =>
           Owns(q) /\ (pc'[q].at = pc[q].at \/ pc[q].at \notin {"record", "print"})
    BY <1>0, <1>8, Shifts DEF Shift, Still, Owns, Active
  <2>2. /\ UNCHANGED <<stopped, pair>> /\ (receipt.taken => receipt'.taken)
        /\ (rec'.status = "DONE" => rec.status = "DONE")
    BY <1>0, <1>8 DEF TypeOK, Ready, world, history, Cancelled, Fail
  <2> QED BY <2>1, <2>2, PairKept
<1>9. ASSUME NEW p \in Procs, Execute(p) PROVE PairInv'
  <2>1. \A q \in Procs : Owns(q)' =>
           Owns(q) /\ (pc'[q].at = pc[q].at \/ pc[q].at \notin {"record", "print"})
    BY <1>0, <1>9, Shifts DEF Shift, Still, Owns, Active
  <2>2. /\ UNCHANGED <<stopped, pair>> /\ (receipt.taken => receipt'.taken)
        /\ (rec'.status = "DONE" => rec.status = "DONE")
    BY <1>0, <1>9 DEF TypeOK, Execute, world, history, Fail
  <2> QED BY <2>1, <2>2, PairKept
<1>10. ASSUME NEW p \in Procs, LegEnds(p) PROVE PairInv'
  <2>1. \A q \in Procs : Owns(q)' =>
           Owns(q) /\ (pc'[q].at = pc[q].at \/ pc[q].at \notin {"record", "print"})
    BY <1>0, <1>10, LegShifts DEF Shift, Still, Owns, Active
  <2>2. /\ UNCHANGED <<stopped, pair>> /\ (receipt.taken => receipt'.taken)
        /\ (rec'.status = "DONE" => rec.status = "DONE")
    BY <1>0, <1>10 DEF TypeOK, LegEnds, world, history, Cancelled, Fail, Bound
  <2> QED BY <2>1, <2>2, PairKept
<1>11. ASSUME NEW p \in Procs, Publish(p) PROVE PairInv'
  <2>1. Busy(p) /\ Still(p) /\ pc[p].at = "publish" /\ pc'[p].at = "record"
    BY <1>0, <1>11, Shifts DEF Shift, Busy, Active
  <2>2. \A q \in Procs \ {p} : ~Owns(q)'
    BY <2>1, OnlyOwner DEF Still, Owns
  <2>3. receipt.taken /\ UNCHANGED receipt
    BY <1>0, <1>11, <2>1 DEF Alone, Publish
  <2>4. ~stopped' /\ UNCHANGED rec /\ rec.status # "DONE"
    <3>1. Owns(p)
      BY <2>1 DEF Owns, Busy
    <3>2. rec.status # "DONE" /\ ~stopped
      BY <1>0, <2>1, <3>1 DEF PairInv
    <3> QED BY <1>11, <3>2 DEF Publish, MayPublish
  <2> QED BY <2>1, <2>2, <2>3, <2>4 DEF PairInv
<1>12. ASSUME NEW p \in Procs, Record(p) PROVE PairInv'
  <2>1. Busy(p) /\ Still(p) /\ pc[p].at = "record" /\ pc'[p].at = "print"
    BY <1>0, <1>12, Shifts DEF Shift, Busy, Active
  <2>2. \A q \in Procs \ {p} : ~Owns(q)'
    BY <2>1, OnlyOwner DEF Still, Owns
  <2>3. receipt.taken /\ UNCHANGED receipt
    BY <1>0, <1>12, <2>1 DEF Alone, Record
  <2>4. UNCHANGED <<stopped, pair>>
    BY <1>12 DEF Record, history
  <2> QED BY <1>0, <2>1, <2>2, <2>3, <2>4 DEF PairInv
<1>13. ASSUME NEW p \in Procs, Tell(p) PROVE PairInv'
  <2>1. \A q \in Procs : Owns(q)' =>
           Owns(q) /\ (pc'[q].at = pc[q].at \/ pc[q].at \notin {"record", "print"})
    BY <1>0, <1>13, Shifts DEF Shift, Still, Owns, Active
  <2>2. /\ UNCHANGED <<stopped, pair>> /\ (receipt.taken => receipt'.taken)
        /\ (rec'.status = "DONE" => rec.status = "DONE")
    BY <1>0, <1>13 DEF TypeOK, Tell, world, history, Fail
  <2> QED BY <2>1, <2>2, PairKept
<1>14. ASSUME NEW p \in Procs, Die(p) PROVE PairInv'
  <2>1. \A q \in Procs : Owns(q)' =>
           Owns(q) /\ (pc'[q].at = pc[q].at \/ pc[q].at \notin {"record", "print"})
    BY <1>0, <1>14, Shifts DEF Shift, Still, Owns, Active
  <2>2. /\ UNCHANGED <<stopped, pair>> /\ (receipt.taken => receipt'.taken)
        /\ (rec'.status = "DONE" => rec.status = "DONE")
    BY <1>0, <1>14 DEF TypeOK, Die, world, history
  <2> QED BY <2>1, <2>2, PairKept
<1>21. ASSUME NEW p \in Procs, WriteFails(p) PROVE PairInv'
  <2>1. \A q \in Procs : Owns(q)' =>
           Owns(q) /\ (pc'[q].at = pc[q].at \/ pc[q].at \notin {"record", "print"})
    BY <1>0, <1>21, WriteShifts DEF Shift, Still, Owns, Active
  <2>2. /\ UNCHANGED <<stopped, pair>> /\ (receipt.taken => receipt'.taken)
        /\ (rec'.status = "DONE" => rec.status = "DONE")
    BY <1>0, <1>21 DEF TypeOK, WriteFails, Fail, world, history
  <2> QED BY <2>1, <2>2, PairKept
<1>15. CASE CancelRead
  BY <1>0, <1>15, PairKept DEF CancelRead, world, history, Owns, TypeOK, Terminal
<1>16. CASE CancelWrite
  BY <1>0, <1>16, PairKept DEF CancelWrite, world, history, Owns, TypeOK, Terminal
<1>17. CASE CancelEnd
  BY <1>0, <1>17, PairKept DEF CancelEnd, world, history, Owns, TypeOK, Terminal
<1>18. CASE Move
  BY <1>0, <1>18, PairKept DEF Move, world, history, Owns, TypeOK, Terminal
<1>19. CASE Edit
  BY <1>0, <1>19, PairKept DEF Edit, world, history, Owns, TypeOK, Terminal
<1>20. CASE RunGate
  BY <1>0, <1>20, PairKept DEF RunGate, world, history, Owns, TypeOK, Terminal
<1> QED BY <1>1, <1>2, <1>3, <1>4, <1>5, <1>6, <1>7, <1>8, <1>9, <1>10, <1>11, <1>12, <1>13, <1>14, <1>15, <1>16, <1>17, <1>18, <1>19, <1>20, <1>21 DEF Next, Step, Others

(***************************************************************************)
(* The theorems.                                                           *)
(***************************************************************************)
\* The invariant of the attempt is inductive: Init establishes it, every step keeps it.
THEOREM InvHolds == Spec => []Inv
<1>1. Init => Inv
  <2> SUFFICES ASSUME Init PROVE Inv
    OBVIOUS
  <2> USE RequestsAssumption DEF Init, Procs, Roles, NoLeg, Active
  <2>1. TypeOK
    <3>1. pc \in [Procs -> [at : Active \cup {"off", "enter", "valid", "over", "dead"}, role : Roles]]
      <4>1. \A q \in Procs : (IF q = Worker THEN "off" ELSE "enter") \in Active \cup {"off", "enter", "valid", "over", "dead"}
        OBVIOUS
      <4> QED BY <4>1, Zenon
    <3>2. leg \in [Roles -> [status : {"none", "RUNNING", "DONE", "CANCELLED"},
                             row : {"none", "green", "red"}, bound : BOOLEAN]]
      OBVIOUS
    <3>3. /\ receipt \in [taken : BOOLEAN, started : BOOLEAN] /\ lock \in Procs \cup {"free"}
          /\ rec \in [status : Terminal \cup {"none", "RUNNING"}, cancel : BOOLEAN]
      OBVIOUS
    <3>4. ran \in [Roles -> 0 .. 2] /\ pure \in [Roles -> BOOLEAN]
      OBVIOUS
    <3> QED BY <3>1, <3>2, <3>3, <3>4 DEF TypeOK
  <2>2. Alone
    BY DEF Alone, Busy
  <2>3. Stages
    BY DEF Stages, Stage, Owns, Executed
  <2>4. ASSUME NEW r \in Roles PROVE LegInv(r)
    BY DEF LegInv
  <2>5. PairInv
    BY DEF PairInv
  <2> QED BY <2>1, <2>2, <2>3, <2>4, <2>5 DEF Inv
<1>2. Inv /\ [Next]_vars => Inv'
  BY TypeStep, AloneStep, StagesStep, LegStep, PairStep DEF Inv
<1> QED BY <1>1, <1>2, PTL DEF Spec

\* Every variable of a pair stays in its type, for any number of requests.
THEOREM TypeCorrect == Spec => []TypeOK
<1>1. Inv => TypeOK
  BY DEF Inv
<1> QED BY <1>1, InvHolds, PTL

\* For any number of requests, and whoever cancels, edits or dies: a pass stands
\* on a crash only if both legs ran once, undisturbed and green.
THEOREM PassEarned == Spec => []PassIsEarned
<1>1. Inv => PassIsEarned
  <2> SUFFICES ASSUME Inv, Backed
               PROVE  ~stopped /\ \A r \in Roles : ran[r] = 1 /\ pure[r] /\ leg[r].row = "green"
    BY DEF PassIsEarned
  <2>1. Verified
    BY DEF Backed, Unsettled
  <2> QED BY <2>1, InvFacts DEF Verified, LegInv, PairInv
<1> QED BY <1>1, InvHolds, PTL

(***************************************************************************)
(* The refinement.                                                         *)
(***************************************************************************)
SomeOwner == \E p \in Procs : Owns(p)
Simulated == [Promise!Next]_(Promise!vars)

LEMMA PhaseIs ==
  /\ ~receipt.taken => Phase = "open"
  /\ receipt.taken /\ pair = "green" => Phase = "green"
  /\ receipt.taken /\ pair # "green" /\ SomeOwner => Phase = "taken"
  /\ receipt.taken /\ pair # "green" /\ ~SomeOwner => Phase = "spent"
BY DEF Phase, SomeOwner

LEMMA PhaseWillBe ==
  /\ ~receipt'.taken => Phase' = "open"
  /\ receipt'.taken /\ pair' = "green" => Phase' = "green"
  /\ receipt'.taken /\ pair' # "green" /\ SomeOwner' => Phase' = "taken"
  /\ receipt'.taken /\ pair' # "green" /\ ~SomeOwner' => Phase' = "spent"
BY DEF Phase, SomeOwner

LEMMA OnlyGreenBacks == Inv /\ Backed => receipt.taken /\ pair = "green"
BY InvFacts DEF Backed, Unsettled, Verified

LEMMA BackedIsBoolean == Backed \in BOOLEAN /\ Backed' \in BOOLEAN
<1>1. Backed \in BOOLEAN
  BY DEF Backed
<1>2. Backed' \in BOOLEAN
  BY DEF Backed
<1> QED BY <1>1, <1>2

LEMMA OnlyGreenWillBack == Inv' /\ Backed' => receipt'.taken /\ pair' = "green"
<1>1. (Inv /\ Backed => receipt.taken /\ pair = "green")'
  BY OnlyGreenBacks, PTL
<1> QED BY <1>1

\* A step that neither takes the attempt nor runs a leg nor settles may only end
\* the attempt, or change what readers make of it.
LEMMA QuietStep ==
  ASSUME Inv, Inv', UNCHANGED <<pair, ran>>, receipt'.taken = receipt.taken,
         SomeOwner' => SomeOwner
  PROVE  Simulated
<1>1. Backed' => receipt'.taken /\ pair' = "green"
  BY OnlyGreenWillBack
<1>2. CASE ~receipt.taken \/ (pair # "green" /\ ~SomeOwner)
  <2>1. Phase' = Phase /\ Backed = FALSE /\ Backed' = FALSE
    BY <1>1, <1>2, PhaseIs, PhaseWillBe, OnlyGreenBacks, BackedIsBoolean, InvFacts DEF PairInv
  <2> QED BY <2>1 DEF Simulated, Promise!vars
<1>3. CASE receipt.taken /\ pair = "green"
  <2>1. Phase = "green" /\ Phase' = "green"
    BY <1>3, PhaseIs, PhaseWillBe
  <2>2. Backed' \in BOOLEAN
    BY DEF Backed
  <2> QED BY <2>1, <2>2 DEF Simulated, Promise!Next, Promise!Judge
<1>4. CASE receipt.taken /\ pair # "green" /\ SomeOwner
  <2>1. Phase = "taken" /\ Phase' \in {"taken", "spent"} /\ Backed = FALSE /\ Backed' = FALSE
    BY <1>1, <1>4, PhaseIs, PhaseWillBe, OnlyGreenBacks, BackedIsBoolean
  <2> QED BY <2>1 DEF Simulated, Promise!Next, Promise!Spend, Promise!vars
<1> QED BY <1>2, <1>3, <1>4

LEMMA StepSimulates == Inv /\ Inv' /\ [Next]_vars => Simulated
<1> SUFFICES ASSUME Inv, Inv', [Next]_vars PROVE Simulated
  OBVIOUS
<1>0. TypeOK /\ PcType /\ Alone /\ PairInv /\ \A p \in Procs : Stage(p)
  BY InvFacts
<1>1. CASE UNCHANGED vars
  BY <1>0, <1>1, QuietStep DEF vars, SomeOwner, Owns
<1>2. ASSUME NEW p \in Procs, Validate(p) PROVE Simulated
  <2>1. SomeOwner' => SomeOwner
    BY <1>0, <1>2, Shifts DEF Shift, Still, SomeOwner, Owns, Active
  <2>2. UNCHANGED <<pair, ran>> /\ receipt'.taken = receipt.taken
    BY <1>0, <1>2 DEF Validate, history
  <2> QED BY <2>1, <2>2, QuietStep
<1>3. ASSUME NEW p \in Procs, Consume(p) PROVE Simulated
  <2>1. UNCHANGED <<pair, ran>> /\ Still(p)
    BY <1>0, <1>3, Shifts DEF Consume, history, Shift
  <2>2. CASE receipt.taken
    <3>1. receipt'.taken = receipt.taken /\ pc'[p].at = "over"
      BY <1>0, <1>3, <2>2, Shifts DEF Consume, Free, Shift
    <3>2. SomeOwner' => SomeOwner
      BY <2>1, <3>1 DEF SomeOwner, Owns, Active, Still
    <3> QED BY <2>1, <3>1, <3>2, QuietStep
  <2>3. CASE ~receipt.taken
    <3>1. receipt'.taken /\ pc'[p].at = "write" /\ pair # "green"
      BY <1>0, <1>3, <2>3, Shifts, ReceiptSteps DEF Shift, PairInv
    <3>2. SomeOwner'
      BY <3>1 DEF SomeOwner, Owns, Active
    <3>3. Phase = "open" /\ Phase' = "taken"
      BY <2>1, <2>3, <3>1, <3>2, PhaseIs, PhaseWillBe
    <3>4. Backed = FALSE /\ Backed' = FALSE
      BY <2>1, <3>1, OnlyGreenBacks, OnlyGreenWillBack, BackedIsBoolean
    <3> QED BY <2>1, <3>3, <3>4 DEF Simulated, Promise!Next, Promise!Take
  <2> QED BY <2>2, <2>3
<1>4. ASSUME NEW p \in Procs, WritePair(p) PROVE Simulated
  <2>1. SomeOwner' => SomeOwner
    BY <1>0, <1>4, Shifts, ReceiptSteps DEF Shift, Still, SomeOwner, Owns, Active
  <2>2. UNCHANGED <<pair, ran>> /\ receipt'.taken = receipt.taken
    BY <1>0, <1>4, ReceiptSteps DEF WritePair, history
  <2> QED BY <2>1, <2>2, QuietStep
<1>5. ASSUME NEW p \in Procs, Spawn(p) PROVE Simulated
  <2>1. SomeOwner
    BY <1>5 DEF SomeOwner, Owns, Active, Spawn
  <2>2. UNCHANGED <<pair, ran, receipt>>
    BY <1>5 DEF Spawn, history
  <2> QED BY <2>1, <2>2, QuietStep
<1>6. ASSUME NEW p \in Procs, Enter(p) PROVE Simulated
  <2>1. SomeOwner' => SomeOwner
    BY <1>0, <1>6, Shifts, ReceiptSteps DEF Shift, Still, SomeOwner, Owns, Active
  <2>2. UNCHANGED <<pair, ran>> /\ receipt'.taken = receipt.taken
    BY <1>0, <1>6, ReceiptSteps DEF Enter, history
  <2> QED BY <2>1, <2>2, QuietStep
<1>7. ASSUME NEW p \in Procs, Own(p) PROVE Simulated
  <2>1. SomeOwner' => SomeOwner
    BY <1>0, <1>7, Shifts DEF Shift, Still, SomeOwner, Owns, Active
  <2>2. UNCHANGED <<pair, ran>> /\ receipt'.taken = receipt.taken
    BY <1>0, <1>7 DEF Own, history
  <2> QED BY <2>1, <2>2, QuietStep
<1>8. ASSUME NEW p \in Procs, Ready(p) PROVE Simulated
  <2>1. SomeOwner' => SomeOwner
    BY <1>0, <1>8, Shifts DEF Shift, Still, SomeOwner, Owns, Active
  <2>2. UNCHANGED <<pair, ran>> /\ receipt'.taken = receipt.taken
    BY <1>0, <1>8 DEF Ready, history
  <2> QED BY <2>1, <2>2, QuietStep
<1>9. ASSUME NEW p \in Procs, Execute(p) PROVE Simulated
  <2>1. receipt.taken /\ UNCHANGED receipt /\ Owns(p) /\ Busy(p)
    BY <1>0, <1>9, Shifts DEF Alone, Busy, Owns, Active, Shift, Execute
  <2>2. pair = "none"
    BY <1>0, <1>9, <2>1, Shifts DEF PairInv, TypeOK, Shift, Execute
  <2>3. Phase = "taken" /\ Backed = FALSE
    BY <2>1, <2>2, PhaseIs, OnlyGreenBacks, BackedIsBoolean DEF SomeOwner
  <2>4. CASE pc'[p].at = "over"
    <3>1. UNCHANGED <<pair, ran>>
      BY <1>0, <1>9, <2>4 DEF Execute, Goto, PcType, history
    <3> QED BY <2>1, <3>1, QuietStep DEF SomeOwner
  <2>5. CASE pc'[p].at = "run"
    <3>0. PICK r \in Roles : pc[p].role = r
      BY <1>0 DEF PcType
    <3>1. ran' = [ran EXCEPT ![r] = @ + 1] /\ pair' = "none" /\ pc[p].at = "exec"
      BY <1>0, <1>9, <2>2, <2>5, <3>0 DEF Execute, Fail, Goto, PcType
    <3>2. ran[r] = 0 /\ (r = "reference" => ran["native"] = 1)
      BY <1>0, <2>1, <3>0, <3>1 DEF Stage, Executed, Roles
    <3>3. ran' = [ran EXCEPT ![r] = 1]
      BY <3>1, <3>2
    <3>4. SomeOwner'
      BY <2>5 DEF SomeOwner, Owns, Active
    <3>5. Phase' = "taken" /\ Backed' = FALSE
      BY <2>1, <3>1, <3>4, PhaseWillBe, OnlyGreenWillBack, BackedIsBoolean
    <3>6. Promise!Run(r)
      BY <2>3, <3>2, <3>3, <3>5 DEF Promise!Run
    <3> QED BY <3>6 DEF Simulated, Promise!Next, Roles
  <2> QED BY <1>0, <1>9, <2>4, <2>5, Shifts DEF Shift
<1>10. ASSUME NEW p \in Procs, LegEnds(p) PROVE Simulated
  <2>1. SomeOwner' => SomeOwner
    BY <1>0, <1>10, LegShifts DEF Shift, Still, SomeOwner, Owns, Active
  <2>2. UNCHANGED <<pair, ran>> /\ receipt' = receipt
    BY <1>0, <1>10 DEF LegEnds, history
  <2> QED BY <2>1, <2>2, QuietStep
<1>11. ASSUME NEW p \in Procs, Publish(p) PROVE Simulated
  <2>1. receipt.taken /\ UNCHANGED receipt /\ Owns(p) /\ Busy(p)
    BY <1>0, <1>11, Shifts DEF Alone, Busy, Owns, Active, Shift, Publish
  <2>2. pair = "none"
    BY <1>0, <1>11, <2>1, Shifts DEF PairInv, TypeOK, Shift, Publish
  <2>3. Phase = "taken" /\ Backed = FALSE
    BY <2>1, <2>2, PhaseIs, OnlyGreenBacks, BackedIsBoolean DEF SomeOwner
  <2>4. UNCHANGED <<ran, rec, leg, fresh, manifest>> /\ Executed(1, 1) /\ pc'[p].at = "record"
    BY <1>0, <1>11, Shifts DEF Publish, Stage, Shift, world
  <2>5. Backed' = FALSE
    <3>1. rec.status # "DONE"
      BY <1>0, <1>11, <2>1 DEF PairInv, Publish
    <3>2. ~Backed'
      BY <2>4, <3>1 DEF Backed, Unsettled, Verified
    <3> QED BY <3>2, BackedIsBoolean
  <2>6. CASE pair' = "green"
    <3>1. Phase' = "green"
      BY <2>1, <2>6, PhaseWillBe
    <3> QED BY <2>3, <2>4, <2>5, <3>1 DEF Executed, Simulated, Promise!Next, Promise!Settle
  <2>7. CASE pair' # "green"
    <3>1. SomeOwner'
      BY <2>4 DEF SomeOwner, Owns, Active
    <3>2. Phase' = "taken"
      BY <2>1, <2>7, <3>1, PhaseWillBe
    <3> QED BY <2>3, <2>4, <2>5, <3>2 DEF Simulated, Promise!vars
  <2> QED BY <2>6, <2>7
<1>12. ASSUME NEW p \in Procs, Record(p) PROVE Simulated
  <2>1. SomeOwner' => SomeOwner
    BY <1>0, <1>12, Shifts DEF Shift, Still, SomeOwner, Owns, Active
  <2>2. UNCHANGED <<pair, ran>> /\ receipt'.taken = receipt.taken
    BY <1>0, <1>12 DEF Record, history
  <2> QED BY <2>1, <2>2, QuietStep
<1>13. ASSUME NEW p \in Procs, Tell(p) PROVE Simulated
  <2>1. SomeOwner' => SomeOwner
    BY <1>0, <1>13, Shifts DEF Shift, Still, SomeOwner, Owns, Active
  <2>2. UNCHANGED <<pair, ran>> /\ receipt'.taken = receipt.taken
    BY <1>0, <1>13 DEF Tell, history
  <2> QED BY <2>1, <2>2, QuietStep
<1>14. ASSUME NEW p \in Procs, Die(p) PROVE Simulated
  <2>1. SomeOwner' => SomeOwner
    BY <1>0, <1>14, Shifts DEF Shift, Still, SomeOwner, Owns, Active
  <2>2. UNCHANGED <<pair, ran>> /\ receipt'.taken = receipt.taken
    BY <1>0, <1>14 DEF Die, history
  <2> QED BY <2>1, <2>2, QuietStep
<1>21. ASSUME NEW p \in Procs, WriteFails(p) PROVE Simulated
  <2>1. SomeOwner' => SomeOwner
    BY <1>0, <1>21, WriteShifts DEF Shift, Still, SomeOwner, Owns, Active
  <2>2. UNCHANGED <<pair, ran>> /\ receipt'.taken = receipt.taken
    BY <1>0, <1>21 DEF WriteFails, Fail, history
  <2> QED BY <2>1, <2>2, QuietStep
<1>15. CASE CancelRead
  BY <1>0, <1>15, QuietStep DEF CancelRead, world, history, SomeOwner, Owns
<1>16. CASE CancelWrite
  BY <1>0, <1>16, QuietStep DEF CancelWrite, world, history, SomeOwner, Owns
<1>17. CASE CancelEnd
  BY <1>0, <1>17, QuietStep DEF CancelEnd, world, history, SomeOwner, Owns
<1>18. CASE Move
  BY <1>0, <1>18, QuietStep DEF Move, world, history, SomeOwner, Owns
<1>19. CASE Edit
  BY <1>0, <1>19, QuietStep DEF Edit, world, history, SomeOwner, Owns
<1>20. CASE RunGate
  BY <1>0, <1>20, QuietStep DEF RunGate, world, history, SomeOwner, Owns
<1> QED BY <1>1, <1>2, <1>3, <1>4, <1>5, <1>6, <1>7, <1>8, <1>9, <1>10, <1>11, <1>12, <1>13, <1>14, <1>15, <1>16, <1>17, <1>18, <1>19, <1>20, <1>21 DEF Next, Step, Others

\* The requests for one crash implement OneAttempt, however many there are.
THEOREM KeepsThePromise == Spec => ImplementsOneAttempt
<1>1. Init => Promise!Init
  <2> SUFFICES ASSUME Init PROVE Promise!Init
    OBVIOUS
  <2>1. Phase = "open" /\ Backed = FALSE
    BY DEF Init, Phase, Backed, Verified, Unsettled
  <2> QED BY <2>1 DEF Init, Promise!Init, Roles
<1>2. Inv /\ Inv' /\ [Next]_vars => [Promise!Next]_(Promise!vars)
  BY StepSimulates DEF Simulated
<1> QED BY <1>1, <1>2, InvHolds, PTL DEF Spec, Promise!Spec, ImplementsOneAttempt

=============================================================================
