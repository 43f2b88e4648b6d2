------------------------------ MODULE MCLoops ------------------------------
EXTENDS Loops

\* Both items belong to one class, or the second has none.
MCClassOf == [i \in Items |-> IF i = "plain" THEN NoClass ELSE "race"]
=============================================================================
