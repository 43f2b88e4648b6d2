------------------------------- MODULE Ledger -------------------------------
(***************************************************************************)
(* The launches of one campaign with an irreversible node: the once-only   *)
(* ledger (ledger.py), the launcher that loads it and the receipts of the  *)
(* run it resumes (resume.py, replay_memo.py), the code compiled for the   *)
(* node (emit_node) and the recording of the run (record-run.py).  The     *)
(* workflow has no filesystem: an effect that landed is known to the next  *)
(* launch only through the row and the artifact written after the run.     *)
(*                                                                         *)
(* The node's prompt depends on what the nodes before it returned, so each *)
(* launch resolves it to one of Keys.  A crash may end any launch and any  *)
(* recording, launches may overlap, and a refused record may be repeated.  *)
(***************************************************************************)
EXTENDS Naturals

CONSTANTS Runs,      \* the launches
          Keys,      \* what ledgerKey may make of the resolved prompt
          NoRun, NoKey,
          MayFail    \* whether the append to the ledger may raise

ASSUME LedgerAssumption == NoRun \notin Runs /\ NoKey \notin Keys /\ MayFail \in BOOLEAN

VARIABLES
  ledger,    \* key -> the run whose result its last row has, NoRun without a row
  torn,      \* its last line is not JSON
  st,        \* run -> its step
  led,       \* run -> args._ledger, the ledger at its launch
  calls,     \* run -> args._ledgerCalls: the keys, each with the run whose result it is
  from,      \* run -> the run it resumes
  confirm,   \* run -> args.confirm names the node
  key,       \* run -> the node's ledgerKey
  landed,    \* runs whose agent performed the effect
  end,       \* run -> what became of the node
  known,     \* run -> the keys record-run has read
  history    \* run -> the effects its recorded artifact tells of

vars == <<ledger, torn, st, led, calls, from, confirm, key, landed, end, known,
          history>>
argVars == <<led, calls, from, confirm>>
fileVars == <<ledger, torn>>

Steps == {"unborn", "running", "flight", "ended", "appending", "filing", "refused",
          "recorded", "lost"}
Ends == {"none", "accepted", "untrusted", "dead", "LEDGER-CONFLICT", "REPLAYED",
         "CONFIRM-REQUIRED"}
Rows == [Keys -> Runs \cup {NoRun}]
Recorded(rows) == {k \in Keys : rows[k] # NoRun}

TypeOK ==
  /\ ledger \in Rows /\ torn \in BOOLEAN
  /\ st \in [Runs -> Steps] /\ led \in [Runs -> Rows]
  /\ calls \in [Runs -> SUBSET (Keys \X Runs)] /\ from \in [Runs -> Runs \cup {NoRun}]
  /\ confirm \in [Runs -> BOOLEAN] /\ key \in [Runs -> Keys \cup {NoKey}]
  /\ landed \in SUBSET Runs /\ end \in [Runs -> Ends]
  /\ known \in [Runs -> SUBSET Keys] /\ history \in [Runs -> SUBSET (Keys \X Runs)]

Init ==
  /\ ledger = [k \in Keys |-> NoRun] /\ torn = FALSE
  /\ st = [r \in Runs |-> "unborn"] /\ led = [r \in Runs |-> ledger]
  /\ calls = [r \in Runs |-> {}] /\ from = [r \in Runs |-> NoRun]
  /\ confirm = [r \in Runs |-> FALSE] /\ key = [r \in Runs |-> NoKey]
  /\ landed = {} /\ end = [r \in Runs |-> "none"]
  /\ known = [r \in Runs |-> {}] /\ history = [r \in Runs |-> {}]

At(r, step) == st[r] = step
To(r, step) == st' = [st EXCEPT ![r] = step]

(***************************************************************************)
(* The launch: ledger.py --load refuses a ledger it cannot read; a resume  *)
(* names a recorded run and carries its receipts, confirmation included.   *)
(***************************************************************************)
Receipts(s) == IF s = NoRun THEN {} ELSE history[s]

Launch(r, s) ==
  /\ At(r, "unborn") /\ To(r, "running")
  /\ ~torn /\ led' = [led EXCEPT ![r] = ledger]
  /\ s # NoRun => At(s, "recorded")
  /\ from' = [from EXCEPT ![r] = s] /\ calls' = [calls EXCEPT ![r] = Receipts(s)]
  /\ \E c \in BOOLEAN : confirm' = [confirm EXCEPT ![r] = c]
  /\ UNCHANGED <<fileVars, key, landed, end, known, history>>

(***************************************************************************)
(* The compiled node.                                                      *)
(***************************************************************************)
\* Another key was recorded for this node, or the resumed run tells of an
\* effect that the ledger does not know, or knows with another result.
Conflict(r, k) == \/ Recorded(led[r]) \ {k} # {}
                  \/ \E c \in calls[r] : c[1] # k \/ led[r][k] # c[2]

Stop(r, k, what) == /\ To(r, "ended") /\ end' = [end EXCEPT ![r] = what]
                    /\ key' = [key EXCEPT ![r] = k]

Reach(r, k) ==
  /\ At(r, "running")
  /\ CASE Conflict(r, k) -> Stop(r, k, "LEDGER-CONFLICT")
       [] ~Conflict(r, k) /\ k \in Recorded(led[r]) -> Stop(r, k, "REPLAYED")
       [] ~Conflict(r, k) /\ k \notin Recorded(led[r]) /\ ~confirm[r] ->
            Stop(r, k, "CONFIRM-REQUIRED")
       [] OTHER -> To(r, "flight") /\ key' = [key EXCEPT ![r] = k] /\ UNCHANGED end
  /\ UNCHANGED <<fileVars, argVars, landed, known, history>>

\* The agent performs the effect.
Land(r) ==
  /\ At(r, "flight") /\ r \notin landed
  /\ landed' = landed \cup {r}
  /\ UNCHANGED <<fileVars, argVars, st, key, end, known, history>>

\* It returns: the result is accepted and pushed to LEDGER_WRITES, or a guard
\* around the call (checkedBase, a remote snapshot) turns it into null, or the
\* agent has died, before or after the effect.
Return(r) ==
  /\ At(r, "flight")
  /\ \E what \in {"accepted", "untrusted", "dead"} :
       /\ what # "dead" => r \in landed
       /\ end' = [end EXCEPT ![r] = what]
  /\ To(r, "ended")
  /\ UNCHANGED <<fileVars, argVars, key, landed, known, history>>

\* The session ends with the run or its recording unfinished; an append that
\* is cut short leaves a line that is not JSON.
Crash(r) ==
  /\ st[r] \in {"running", "flight", "ended", "appending", "filing"}
  /\ To(r, "lost")
  /\ torn' \in {torn, torn \/ At(r, "appending")}
  /\ UNCHANGED <<ledger, argVars, key, landed, end, known, history>>

(***************************************************************************)
(* record-run.py: the ledger first, whatever becomes of the record.        *)
(***************************************************************************)
\* Variant: the summary lists a row for every spawn, whatever it returned.
RecordBeginAll(r) ==
  /\ st[r] \in {"ended", "refused"}
  /\ CASE key[r] = NoKey -> To(r, "filing") /\ UNCHANGED known
       [] key[r] # NoKey /\ torn -> To(r, "refused") /\ UNCHANGED known
       [] OTHER -> To(r, "appending") /\ known' = [known EXCEPT ![r] = Recorded(ledger)]
  /\ UNCHANGED <<fileVars, argVars, key, landed, end, history>>
\* An unreadable ledger ends record-run: read raises SystemExit.
RecordBegin(r) ==
  /\ st[r] \in {"ended", "refused"}
  /\ CASE end[r] # "accepted" -> To(r, "filing") /\ UNCHANGED known
       [] end[r] = "accepted" /\ torn -> To(r, "refused") /\ UNCHANGED known
       [] OTHER -> To(r, "appending") /\ known' = [known EXCEPT ![r] = Recorded(ledger)]
  /\ UNCHANGED <<fileVars, argVars, key, landed, end, history>>

\* A key that was known when the rows were read is not written again; the
\* launcher's map keeps the last row of a key.
Append(r) ==
  /\ At(r, "appending") /\ To(r, "filing")
  /\ \/ ledger' = IF key[r] \in known[r] THEN ledger ELSE [ledger EXCEPT ![key[r]] = r]
     \/ MayFail /\ UNCHANGED ledger
  /\ UNCHANGED <<torn, argVars, key, landed, end, known, history>>

\* What a resume is told: a result that was recorded or replayed, and a call
\* that came back although its result was not accepted.
Effect(r) == CASE end[r] \in {"accepted", "untrusted"} -> {<<key[r], r>>}
               [] end[r] = "REPLAYED" -> {<<key[r], led[r][key[r]]>>}
               [] OTHER -> {}
\* Variant: only an accepted result is history; a completed call is not.
ToldAccepted(r) == IF end[r] = "untrusted" THEN {} ELSE Effect(r)
\* build_memo: what the artifact of a run tells its resume about the node.
Told(r) == Effect(r)

\* The pins, the packet or the table may refuse the rest of the record.
File(r) ==
  /\ At(r, "filing")
  /\ \/ To(r, "refused") /\ UNCHANGED history
     \/ To(r, "recorded") /\ history' = [history EXCEPT ![r] = Told(r)]
  /\ UNCHANGED <<fileVars, argVars, key, landed, end, known>>

Next == \E r \in Runs :
          \/ \E s \in Runs \cup {NoRun} : Launch(r, s)
          \/ \E k \in Keys : Reach(r, k)
          \/ Land(r) \/ Return(r) \/ Crash(r)
          \/ RecordBegin(r) \/ Append(r) \/ File(r)

Spec == Init /\ [][Next]_vars

(***************************************************************************)
(* Properties.                                                             *)
(***************************************************************************)
\* The launches implement the once-only promise: whatever a launch was told, by
\* the ledger or by the run it resumes, bars it; what a recorded run saw complete
\* or the ledger holds -- even if the record itself was then refused -- is told.
Knows(r) == Recorded(led[r]) # {} \/ calls[r] # {}
Completed == {r \in Runs : end[r] \in {"accepted", "untrusted"}}

Promise == INSTANCE OnceOnly WITH
  begun <- {r \in Runs : st[r] # "unborn"}, parent <- from,
  barred <- {r \in Runs : Knows(r)}, performed <- landed,
  completed <- Completed, evident <- Recorded(ledger) # {}

ImplementsOnceOnly == Promise!Spec

\* A run that reports the node REPLAYED did not perform the effect, and hands
\* back the accepted result of a run that did, under the same prompt.
ReplayedWasDone ==
  \A r \in Runs : end[r] = "REPLAYED" =>
    /\ r \notin landed
    /\ \E q \in landed : q = led[r][key[r]] /\ key[q] = key[r] /\ end[q] = "accepted"
=============================================================================
