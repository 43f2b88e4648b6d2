------------------------------ MODULE MCAround ------------------------------
(* Graphs of four nodes in two lanes, two commits on a forge, three executions
   of a gate with a prove: node and a cited step, and two searchers for TLC. *)
EXTENDS Around

CONSTANTS north, south, main, h1, h2, build, e1, e2, e3, c1, p1, p2

MCDeclared == <<"prove", "cites">>
=============================================================================
