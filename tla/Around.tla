------------------------------- MODULE Around -------------------------------
(***************************************************************************)
(* What stands around a campaign: the compiler, which orders its nodes;    *)
(* the evidence of a forge that its nodes may cite; the recorder, which    *)
(* makes of its summary an outcome on file; and the index through which    *)
(* later sessions find what was recorded.  None of them writes what        *)
(* another one reads while it works: a behaviour is one of them.           *)
(***************************************************************************)
EXTENDS Schedule, Forge, Recording, RecallIndex

AroundParts == {"compile", "observe", "record", "index"}

VARIABLE active

vars == <<planVars, forgeVars, recordVars, indexVars, active>>

TypeOK == /\ PlanTypeOK /\ ForgeTypeOK /\ RecordTypeOK /\ IndexTypeOK
          /\ active \in AroundParts

Init == PlanInit /\ ForgeInit /\ RecordInit /\ IndexInit /\ active \in AroundParts

InCompile(A) == /\ active = "compile" /\ A
                /\ UNCHANGED <<forgeVars, recordVars, indexVars, active>>
InForge(A) == /\ active = "observe" /\ A
              /\ UNCHANGED <<planVars, recordVars, indexVars, active>>
InRecord(A) == /\ active = "record" /\ A
               /\ UNCHANGED <<planVars, forgeVars, indexVars, active>>
InIndex(A) == /\ active = "index" /\ A
              /\ UNCHANGED <<planVars, forgeVars, recordVars, active>>

Next == InCompile(PlanStep) \/ InForge(ForgeStep) \/ InRecord(RecordStep) \/ InIndex(IndexStep)

\* Safety only: whether an author writes, a forge answers or a gate ends is not
\* theirs to promise.
Spec == Init /\ [][Next]_vars
=============================================================================
