------------------------------ MODULE OnceOnly ------------------------------
(***************************************************************************)
(* What the once-only ledger promises of an effect that cannot be          *)
(* repeated, over the launches that might perform it: ledger.py's opening  *)
(* words, without files, keys and rows.                                    *)
(*                                                                         *)
(* A launch that begins after the effect became evident is barred from     *)
(* performing it, and so is one that resumes a launch that saw it complete. *)
(* Between an effect and its evidence another launch may begin unbarred:   *)
(* that window the ledger admits.                                          *)
(***************************************************************************)
CONSTANTS Runs, NoRun

VARIABLES
  begun,      \* the launches there were
  parent,     \* launch -> the one it resumes, or NoRun
  barred,     \* those that will not perform the effect
  performed,  \* those that have
  completed,  \* those whose agent came back from performing it
  evident     \* the effect is on record for every launch that follows

vars == <<begun, parent, barred, performed, completed, evident>>

Init == /\ begun = {} /\ parent = [r \in Runs |-> NoRun] /\ barred = {}
        /\ performed = {} /\ completed = {} /\ evident = FALSE

\* A launch, resuming s or no other one.
Begin(r, s) ==
  /\ r \notin begun /\ begun' = begun \cup {r} /\ parent' = [parent EXCEPT ![r] = s]
  /\ barred' \in {barred, barred \cup {r}}
  /\ evident \/ s \in completed => r \in barred'
  /\ UNCHANGED <<performed, completed, evident>>

Perform(r) ==
  /\ r \in begun \ (barred \cup performed)
  /\ performed' = performed \cup {r}
  /\ UNCHANGED <<begun, parent, barred, completed, evident>>

Complete(r) ==
  /\ r \in performed /\ completed' = completed \cup {r}
  /\ UNCHANGED <<begun, parent, barred, performed, evident>>

Settle ==
  /\ completed # {} /\ evident' = TRUE
  /\ UNCHANGED <<begun, parent, barred, performed, completed>>

Next == \/ \E r \in Runs : \/ \E s \in Runs \cup {NoRun} : Begin(r, s)
                           \/ Perform(r) \/ Complete(r)
        \/ Settle

Spec == Init /\ [][Next]_vars
=============================================================================
