------------------------------- MODULE Calls -------------------------------
(***************************************************************************)
(* What the loops of a compiled graph share: how a call ends (spawn and    *)
(* affordable of compile-graph.py) and the campaign's INCOMPLETE.  Here    *)
(* any call may find the floor on tokens or the ceiling on calls reached;  *)
(* Campaign counts them.                                                   *)
(***************************************************************************)
EXTENDS Naturals

VARIABLES incomplete,  \* INCOMPLETE
          declined     \* DECLINED

callVars == <<incomplete, declined>>

CallsInit == incomplete = FALSE /\ declined = 0

\* m of some calls are declined: spawn answers null and says so.
Declines(m) == declined' = declined + m /\ incomplete' = (incomplete \/ m > 0)

\* affordable() finds the floor reached, before anybody is called.
Unaffordable == incomplete' = TRUE /\ UNCHANGED declined
=============================================================================
