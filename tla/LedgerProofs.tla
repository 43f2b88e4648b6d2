---------------------------- MODULE LedgerProofs ----------------------------
(***************************************************************************)
(* Proofs about Ledger: its types, that what is replayed was done, and     *)
(* that the launches implement OnceOnly.                                   *)
(***************************************************************************)
EXTENDS Ledger, TLAPS

\* What a row says is true: that run performed the effect and was believed.
TrueRows(rows) ==
  \A k \in Keys : rows[k] # NoRun =>
    rows[k] \in landed /\ key[rows[k]] = k /\ end[rows[k]] = "accepted"

\* Where a run is says how far the node has come, and that a launch that knows
\* of the effect is on its way past it.
Progress(r) ==
  /\ st[r] = "unborn" => ~Knows(r)
  /\ st[r] \in {"unborn", "running", "flight"} => end[r] = "none"
  /\ st[r] \in {"unborn", "running"} => r \notin landed
  /\ st[r] = "flight" => key[r] \in Keys
  /\ st[r] = "flight" \/ r \in landed => ~Knows(r)
  /\ st[r] = "appending" => end[r] = "accepted"
  /\ st[r] = "recorded" /\ r \in Completed => history[r] # {}

Ending(r) ==
  /\ r \in Completed => r \in landed /\ key[r] \in Keys
  /\ end[r] = "REPLAYED" => key[r] \in Keys /\ led[r][key[r]] # NoRun

RowsInv == TrueRows(ledger) /\ \A r \in Runs : TrueRows(led[r])

Inv == TypeOK /\ RowsInv /\ \A r \in Runs : Progress(r) /\ Ending(r)

\* What a recorded run tells its resume names a launch that was in flight.
LEMMA ToldType == Inv => \A r \in Runs : Told(r) \in SUBSET (Keys \X Runs)
<1> SUFFICES ASSUME Inv, NEW r \in Runs PROVE Told(r) \in SUBSET (Keys \X Runs)
  OBVIOUS
<1>0. TypeOK /\ RowsInv /\ Progress(r) /\ Ending(r)
  BY DEF Inv
<1>1. CASE end[r] \in {"accepted", "untrusted"}
  <2>1. key[r] \in Keys
    BY <1>0, <1>1 DEF Ending, Completed
  <2> QED BY <1>1, <2>1 DEF Told, Effect
<1>2. CASE end[r] = "REPLAYED"
  <2>1. key[r] \in Keys /\ led[r][key[r]] # NoRun
    BY <1>0, <1>2 DEF Ending
  <2>2. led[r] \in Rows
    BY <1>0 DEF TypeOK
  <2>3. led[r][key[r]] \in Runs
    BY <2>1, <2>2 DEF Rows
  <2> QED BY <1>2, <2>1, <2>3 DEF Told, Effect
<1>3. CASE end[r] \notin {"accepted", "untrusted", "REPLAYED"}
  BY <1>3 DEF Told, Effect
<1> QED BY <1>1, <1>2, <1>3

LEMMA TypeInit == Init => TypeOK
<1> SUFFICES ASSUME Init PROVE TypeOK
  OBVIOUS
<1>1. ledger \in Rows /\ torn \in BOOLEAN
  BY DEF Init, Rows
<1>2. st \in [Runs -> Steps] /\ end \in [Runs -> Ends]
  BY DEF Init, Steps, Ends
<1>3. led \in [Runs -> Rows]
  BY <1>1 DEF Init
<1>4. calls \in [Runs -> SUBSET (Keys \X Runs)] /\ history \in [Runs -> SUBSET (Keys \X Runs)]
  BY DEF Init
<1>5. /\ from \in [Runs -> Runs \cup {NoRun}] /\ confirm \in [Runs -> BOOLEAN]
      /\ key \in [Runs -> Keys \cup {NoKey}] /\ landed \in SUBSET Runs
      /\ known \in [Runs -> SUBSET Keys]
  BY DEF Init
<1> QED BY <1>1, <1>2, <1>3, <1>4, <1>5 DEF TypeOK

LEMMA TypeStep == Inv /\ [Next]_vars => TypeOK'
<1> SUFFICES ASSUME Inv, [Next]_vars PROVE TypeOK'
  OBVIOUS
<1> USE DEF TypeOK
<1>0. TypeOK
  BY DEF Inv
<1>1. CASE UNCHANGED vars
  BY <1>0, <1>1 DEF vars
<1>2. ASSUME NEW r \in Runs, NEW s \in Runs \cup {NoRun}, Launch(r, s) PROVE TypeOK'
  <2>1. Receipts(s) \in SUBSET (Keys \X Runs)
    BY <1>0 DEF Receipts
  <2> QED BY <1>0, <1>2, <2>1 DEF Launch, At, To, Steps, Rows, fileVars
<1>3. ASSUME NEW r \in Runs, NEW k \in Keys, Reach(r, k) PROVE TypeOK'
  BY <1>0, <1>3 DEF Reach, Stop, At, To, Steps, Ends, fileVars, argVars
<1>4. ASSUME NEW r \in Runs, Land(r) PROVE TypeOK'
  BY <1>0, <1>4 DEF Land, At, fileVars, argVars
<1>5. ASSUME NEW r \in Runs, Return(r) PROVE TypeOK'
  BY <1>0, <1>5 DEF Return, At, To, Steps, Ends, fileVars, argVars
<1>6. ASSUME NEW r \in Runs, Crash(r) PROVE TypeOK'
  <2>1. torn' \in BOOLEAN
    BY <1>0, <1>6, Zenon DEF Crash
  <2> QED BY <1>0, <1>6, <2>1 DEF Crash, At, To, Steps, argVars
<1>7. ASSUME NEW r \in Runs, RecordBegin(r) PROVE TypeOK'
  BY <1>0, <1>7 DEF RecordBegin, To, Steps, Recorded, fileVars, argVars
<1>8. ASSUME NEW r \in Runs, Append(r) PROVE TypeOK'
  <2>1. ledger' \in Rows
    BY <1>0, <1>8 DEF Append, Rows
  <2> QED BY <1>0, <1>8, <2>1 DEF Append, At, To, Steps, argVars
<1>9. ASSUME NEW r \in Runs, File(r) PROVE TypeOK'
  <2>1. Told(r) \in SUBSET (Keys \X Runs)
    BY ToldType
  <2>2. history' \in [Runs -> SUBSET (Keys \X Runs)]
    BY <1>0, <1>9, <2>1 DEF File
  <2> QED BY <1>0, <1>9, <2>2 DEF File, At, To, Steps, fileVars, argVars
<1> QED BY <1>1, <1>2, <1>3, <1>4, <1>5, <1>6, <1>7, <1>8, <1>9 DEF Next

\* Rows that were true stay true: who landed stays landed, and neither the key
\* nor the end of a run that was believed changes any more.
LEMMA RowsStay ==
  ASSUME Inv, NEW rows, TrueRows(rows), rows \in Rows,
         landed \subseteq landed',
         \A q \in landed : end[q] = "accepted" => key'[q] = key[q] /\ end'[q] = end[q]
  PROVE  TrueRows(rows)'
BY DEF TrueRows

\* The rows stay true, and a launch is told rows that are true.
LEMMA RowsStep == Inv /\ [Next]_vars => RowsInv'
<1> SUFFICES ASSUME Inv, [Next]_vars PROVE RowsInv'
  OBVIOUS
<1>0. /\ TypeOK /\ RowsInv
      /\ \A r \in Runs : Progress(r) /\ Ending(r)
  BY DEF Inv
<1> DEFINE Kept == /\ landed \subseteq landed'
                   /\ \A q \in landed : end[q] = "accepted" => key'[q] = key[q] /\ end'[q] = end[q]
<1>a. ASSUME Kept, UNCHANGED <<ledger, led>> PROVE RowsInv'
  <2>1. TrueRows(ledger)'
    BY <1>0, <1>a DEF RowsInv, TrueRows
  <2>2. ASSUME NEW q \in Runs PROVE TrueRows(led[q])'
    BY <1>0, <1>a DEF RowsInv, TrueRows
  <2> QED BY <2>1, <2>2 DEF RowsInv
<1> HIDE DEF Kept
<1>1. CASE UNCHANGED vars
  BY <1>1, <1>a DEF vars, Kept
<1>2. ASSUME NEW r \in Runs, NEW s \in Runs \cup {NoRun}, Launch(r, s) PROVE RowsInv'
  <2>1. UNCHANGED <<ledger, landed, key, end>> /\ led' = [led EXCEPT ![r] = ledger]
    BY <1>2 DEF Launch, fileVars
  <2>2. TrueRows(ledger)'
    BY <1>0, <2>1 DEF RowsInv, TrueRows
  <2>3. ASSUME NEW q \in Runs PROVE TrueRows(led[q])'
    <3>1. led'[q] = ledger \/ led'[q] = led[q]
      BY <1>0, <2>1 DEF TypeOK
    <3> QED BY <1>0, <2>1, <3>1 DEF RowsInv, TrueRows
  <2> QED BY <2>2, <2>3 DEF RowsInv
<1>3. ASSUME NEW r \in Runs, NEW k \in Keys, Reach(r, k) PROVE RowsInv'
  <2>1. r \notin landed
    BY <1>0, <1>3 DEF Progress, Reach, At
  <2>2. Kept
    BY <1>0, <1>3, <2>1 DEF Kept, Reach, Stop, TypeOK
  <2> QED BY <1>3, <1>a, <2>2 DEF Reach, fileVars, argVars
<1>4. ASSUME NEW r \in Runs, Land(r) PROVE RowsInv'
  BY <1>4, <1>a DEF Land, fileVars, argVars, Kept
<1>5. ASSUME NEW r \in Runs, Return(r) PROVE RowsInv'
  <2>1. end[r] = "none"
    BY <1>0, <1>5 DEF Progress, Return, At
  <2>2. Kept
    BY <1>0, <1>5, <2>1 DEF Kept, Return, TypeOK
  <2> QED BY <1>5, <1>a, <2>2 DEF Return, fileVars, argVars
<1>6. ASSUME NEW r \in Runs, Crash(r) PROVE RowsInv'
  BY <1>6, <1>a DEF Crash, argVars, Kept
<1>7. ASSUME NEW r \in Runs, RecordBegin(r) PROVE RowsInv'
  BY <1>7, <1>a DEF RecordBegin, fileVars, argVars, Kept
<1>8. ASSUME NEW r \in Runs, Append(r) PROVE RowsInv'
  <2>1. end[r] = "accepted" /\ r \in landed /\ key[r] \in Keys
    BY <1>0, <1>8 DEF Progress, Ending, Completed, Append, At
  <2>2. ledger' = ledger \/ ledger' = [ledger EXCEPT ![key[r]] = r]
    BY <1>8 DEF Append
  <2>3. TrueRows(ledger)'
    BY <1>0, <1>8, <2>1, <2>2 DEF RowsInv, TrueRows, TypeOK, Rows, Append
  <2>4. ASSUME NEW q \in Runs PROVE TrueRows(led[q])'
    BY <1>0, <1>8 DEF RowsInv, TrueRows, Append, argVars
  <2> QED BY <2>3, <2>4 DEF RowsInv
<1>9. ASSUME NEW r \in Runs, File(r) PROVE RowsInv'
  BY <1>9, <1>a DEF File, fileVars, argVars, Kept
<1> QED BY <1>1, <1>2, <1>3, <1>4, <1>5, <1>6, <1>7, <1>8, <1>9 DEF Next

\* A launch goes on to its agent only when it knows of no effect.
LEMMA FlightIsIgnorant ==
  ASSUME Inv, NEW r \in Runs, NEW k \in Keys, ~Conflict(r, k), k \notin Recorded(led[r])
  PROVE  ~Knows(r)
<1>0. led[r] \in Rows /\ calls[r] \in SUBSET (Keys \X Runs)
  BY DEF Inv, TypeOK
<1>1. Recorded(led[r]) = {}
  BY DEF Conflict
<1>2. led[r][k] = NoRun
  BY <1>1 DEF Recorded
<1>3. \A c \in calls[r] : c[2] = NoRun
  BY <1>2 DEF Conflict
<1>4. calls[r] = {}
  BY <1>0, <1>3, LedgerAssumption
<1> QED BY <1>1, <1>4 DEF Knows

\* A step changes how far its own run has come, and no other's.
LEMMA OthersStay ==
  ASSUME Inv, NEW r \in Runs, NEW q \in Runs, q # r,
         st'[q] = st[q], end'[q] = end[q], key'[q] = key[q], led'[q] = led[q],
         calls'[q] = calls[q], history'[q] = history[q],
         q \in landed' <=> q \in landed
  PROVE  Progress(q)' /\ Ending(q)'
BY DEF Inv, Progress, Ending, Completed, Knows, Recorded

LEMMA ProgressStep ==
  ASSUME Inv, [Next]_vars
  PROVE  \A q \in Runs : Progress(q)' /\ Ending(q)'
<1> SUFFICES ASSUME NEW q \in Runs PROVE Progress(q)' /\ Ending(q)'
  OBVIOUS
<1>0. TypeOK /\ Progress(q) /\ Ending(q)
  BY DEF Inv
<1>t. TypeOK'
  BY TypeStep
<1> USE DEF At, To
<1>1. CASE UNCHANGED vars
  BY <1>0, <1>1 DEF vars, Progress, Ending, Completed, Knows, Recorded
<1>2. ASSUME NEW r \in Runs, NEW s \in Runs \cup {NoRun}, Launch(r, s)
      PROVE  Progress(q)' /\ Ending(q)'
  <2>1. CASE q = r
    <3>1. st[q] = "unborn" /\ st'[q] = "running" /\ UNCHANGED <<end, landed>>
      BY <1>0, <1>2, <2>1 DEF Launch, TypeOK
    <3> QED BY <1>0, <3>1 DEF Progress, Ending, Completed
  <2>2. CASE q # r
    BY <1>0, <1>2, <2>2, OthersStay DEF Launch, TypeOK
  <2> QED BY <2>1, <2>2
<1>3. ASSUME NEW r \in Runs, NEW k \in Keys, Reach(r, k) PROVE Progress(q)' /\ Ending(q)'
  <2>1. CASE q = r
    <3>1. st[q] = "running" /\ UNCHANGED <<landed, led, calls, history>>
      BY <1>3, <2>1 DEF Reach, argVars
    <3>2. ASSUME st'[q] = "ended", key'[q] = k,
                 \/ end'[q] \in {"LEDGER-CONFLICT", "CONFIRM-REQUIRED"}
                 \/ end'[q] = "REPLAYED" /\ k \in Recorded(led[q])
          PROVE  Progress(q)' /\ Ending(q)'
      BY <1>0, <3>1, <3>2 DEF Progress, Ending, Completed, Recorded
    <3>3. ASSUME st'[q] = "flight", key'[q] = k, end'[q] = end[q], ~Knows(q)
          PROVE  Progress(q)' /\ Ending(q)'
      BY <1>0, <3>1, <3>3 DEF Progress, Ending, Completed, Knows, Recorded
    <3>4. CASE Conflict(r, k)
      BY <1>0, <1>3, <2>1, <3>2, <3>4 DEF Reach, Stop, TypeOK
    <3>5. CASE ~Conflict(r, k) /\ k \in Recorded(led[r])
      BY <1>0, <1>3, <2>1, <3>2, <3>5 DEF Reach, Stop, TypeOK
    <3>6. CASE ~Conflict(r, k) /\ k \notin Recorded(led[r]) /\ ~confirm[r]
      BY <1>0, <1>3, <2>1, <3>2, <3>6 DEF Reach, Stop, TypeOK
    <3>7. CASE ~Conflict(r, k) /\ k \notin Recorded(led[r]) /\ confirm[r]
      <4>1. ~Knows(q)
        BY <2>1, <3>7, FlightIsIgnorant
      <4> QED BY <1>0, <1>3, <2>1, <3>3, <3>7, <4>1 DEF Reach, TypeOK
    <3> QED BY <1>0, <3>4, <3>5, <3>6, <3>7 DEF TypeOK
  <2>2. CASE q # r
    <3>1. st'[q] = st[q] /\ end'[q] = end[q] /\ key'[q] = key[q]
      BY <1>0, <1>3, <2>2 DEF Reach, Stop, TypeOK
    <3> QED BY <1>3, <2>2, <3>1, OthersStay DEF Reach, argVars
  <2> QED BY <2>1, <2>2
<1>4. ASSUME NEW r \in Runs, Land(r) PROVE Progress(q)' /\ Ending(q)'
  BY <1>0, <1>4 DEF Land, fileVars, argVars, Progress, Ending, Completed, Knows, Recorded
<1>5. ASSUME NEW r \in Runs, Return(r) PROVE Progress(q)' /\ Ending(q)'
  <2>1. CASE q = r
    <3>1. st[q] = "flight" /\ st'[q] = "ended" /\ UNCHANGED <<landed, led, calls, key, history>>
      BY <1>0, <1>5, <2>1 DEF Return, argVars, TypeOK
    <3>2. end'[q] \in {"accepted", "untrusted", "dead"} /\ (end'[q] # "dead" => q \in landed)
      BY <1>0, <1>5, <2>1 DEF Return, TypeOK
    <3> QED BY <1>0, <3>1, <3>2 DEF Progress, Ending, Completed, Knows, Recorded
  <2>2. CASE q # r
    BY <1>0, <1>5, <2>2, OthersStay DEF Return, TypeOK, argVars
  <2> QED BY <2>1, <2>2
<1>6. ASSUME NEW r \in Runs, Crash(r) PROVE Progress(q)' /\ Ending(q)'
  <2>1. CASE q = r
    <3>1. st'[q] = "lost" /\ UNCHANGED <<landed, led, calls, key, end, history>>
      BY <1>0, <1>6, <2>1 DEF Crash, argVars, TypeOK
    <3> QED BY <1>0, <3>1 DEF Progress, Ending, Completed, Knows, Recorded
  <2>2. CASE q # r
    BY <1>0, <1>6, <2>2, OthersStay DEF Crash, TypeOK, argVars
  <2> QED BY <2>1, <2>2
<1>7. ASSUME NEW r \in Runs, RecordBegin(r) PROVE Progress(q)' /\ Ending(q)'
  <2>1. CASE q = r
    <3>1. /\ st'[q] \in {"filing", "refused", "appending"}
          /\ st'[q] = "appending" => end[q] = "accepted"
          /\ UNCHANGED <<landed, led, calls, key, end, history>>
      BY <1>0, <1>7, <2>1 DEF RecordBegin, argVars, TypeOK
    <3> QED BY <1>0, <3>1 DEF Progress, Ending, Completed, Knows, Recorded
  <2>2. CASE q # r
    <3>1. st'[q] = st[q]
      BY <1>0, <1>7, <2>2 DEF RecordBegin, TypeOK
    <3> QED BY <1>7, <2>2, <3>1, OthersStay DEF RecordBegin, argVars
  <2> QED BY <2>1, <2>2
<1>8. ASSUME NEW r \in Runs, Append(r) PROVE Progress(q)' /\ Ending(q)'
  <2>1. CASE q = r
    <3>1. st'[q] = "filing" /\ UNCHANGED <<landed, led, calls, key, end, history>>
      BY <1>0, <1>8, <2>1 DEF Append, argVars, TypeOK
    <3> QED BY <1>0, <3>1 DEF Progress, Ending, Completed, Knows, Recorded
  <2>2. CASE q # r
    BY <1>0, <1>8, <2>2, OthersStay DEF Append, TypeOK, argVars
  <2> QED BY <2>1, <2>2
<1>9. ASSUME NEW r \in Runs, File(r) PROVE Progress(q)' /\ Ending(q)'
  <2>1. CASE q = r
    <3>1. UNCHANGED <<landed, led, calls, key, end>>
      BY <1>9 DEF File, argVars
    <3>2. CASE st'[q] = "refused"
      BY <1>0, <3>1, <3>2 DEF Progress, Ending, Completed, Knows, Recorded
    <3>3. CASE st'[q] = "recorded" /\ history'[q] = Told(q)
      <4>1. q \in Completed' => history'[q] # {}
        BY <3>1, <3>3 DEF Completed, Told, Effect
      <4> QED BY <1>0, <3>1, <3>3, <4>1 DEF Progress, Ending, Completed, Knows, Recorded
    <3> QED BY <1>0, <1>9, <2>1, <3>2, <3>3 DEF File, TypeOK
  <2>2. CASE q # r
    <3>1. st'[q] = st[q] /\ history'[q] = history[q]
      BY <1>0, <1>9, <2>2 DEF File, TypeOK
    <3> QED BY <1>9, <2>2, <3>1, OthersStay DEF File, argVars
  <2> QED BY <2>1, <2>2
<1> QED BY <1>1, <1>2, <1>3, <1>4, <1>5, <1>6, <1>7, <1>8, <1>9 DEF Next

\* The invariant of the launches is inductive: Init establishes it, every step keeps it.
THEOREM InvHolds == Spec => []Inv
<1>1. Init => Inv
  <2> SUFFICES ASSUME Init PROVE Inv
    OBVIOUS
  <2>1. TypeOK
    BY TypeInit
  <2>2. RowsInv
    BY DEF Init, RowsInv, TrueRows
  <2>3. ASSUME NEW r \in Runs PROVE Progress(r) /\ Ending(r)
    BY DEF Init, Progress, Ending, Completed, Knows, Recorded
  <2> QED BY <2>1, <2>2, <2>3 DEF Inv
<1>2. Inv /\ [Next]_vars => Inv'
  BY TypeStep, RowsStep, ProgressStep DEF Inv
<1> QED BY <1>1, <1>2, PTL DEF Spec

\* Every variable of the launches stays in its type.
THEOREM TypeCorrect == Spec => []TypeOK
<1>1. Inv => TypeOK
  BY DEF Inv
<1> QED BY <1>1, InvHolds, PTL

\* Whatever launches there are and whenever they crash or overlap, a replayed
\* node's result is that of a run that performed the effect under that prompt.
THEOREM ReplayIsSound == Spec => []ReplayedWasDone
<1>1. Inv => ReplayedWasDone
  <2> SUFFICES ASSUME Inv, NEW r \in Runs, end[r] = "REPLAYED"
               PROVE  /\ r \notin landed
                      /\ \E q \in landed : q = led[r][key[r]] /\ key[q] = key[r] /\ end[q] = "accepted"
    BY DEF ReplayedWasDone
  <2>1. key[r] \in Keys /\ led[r][key[r]] # NoRun
    BY DEF Inv, Ending
  <2>2. Knows(r)
    BY <2>1 DEF Knows, Recorded
  <2>3. r \notin landed
    BY <2>2 DEF Inv, Progress
  <2>4. TrueRows(led[r])
    BY DEF Inv, RowsInv
  <2> QED BY <2>1, <2>3, <2>4 DEF TrueRows
<1> QED BY <1>1, InvHolds, PTL

(***************************************************************************)
(* The refinement.                                                         *)
(***************************************************************************)
Begun == {r \in Runs : st[r] # "unborn"}
Barred == {r \in Runs : Knows(r)}
Evident == Recorded(ledger) # {}

\* What the promise sees of the ledger's state.
Seen == <<Begun, from, Barred, landed, Completed, Evident>>

LEMMA SameSeen ==
  ASSUME TypeOK, UNCHANGED <<ledger, from, landed, end, led, calls>>,
         \A q \in Runs : st'[q] = "unborn" <=> st[q] = "unborn"
  PROVE  UNCHANGED Seen
<1>1. Begun' = Begun
  BY DEF Begun
<1>2. Barred' = Barred /\ Completed' = Completed /\ Evident' = Evident
  BY DEF Barred, Completed, Evident, Knows, Recorded
<1> QED BY <1>1, <1>2 DEF Seen

LEMMA LaunchBegins ==
  ASSUME Inv, NEW r \in Runs, NEW s \in Runs \cup {NoRun}, Launch(r, s)
  PROVE  Promise!Begin(r, s)
<1> USE DEF At, To
<1>0. TypeOK /\ Progress(r) /\ (s \in Runs => Progress(s))
  BY DEF Inv
<1>1. r \notin Begun /\ Begun' = Begun \cup {r}
  BY <1>0 DEF Begun, Launch, TypeOK
<1>2. /\ from' = [from EXCEPT ![r] = s]
      /\ UNCHANGED <<landed, Completed, Evident>>
  BY DEF Launch, fileVars, Completed, Evident, Recorded
<1>3. \A q \in Runs \ {r} : Knows(q)' <=> Knows(q)
  BY <1>0 DEF Launch, TypeOK, Knows, Recorded
<1>4. Barred' \in {Barred, Barred \cup {r}}
  <2>1. CASE Knows(r)'
    BY <1>3, <2>1 DEF Barred
  <2>2. CASE ~Knows(r)'
    <3>1. ~Knows(r)
      BY <1>0 DEF Progress, Launch
    <3> QED BY <1>3, <2>2, <3>1 DEF Barred
  <2> QED BY <2>1, <2>2
<1>5. ASSUME Evident \/ s \in Completed PROVE r \in Barred'
  <2>1. led'[r] = ledger /\ calls'[r] = Receipts(s)
    BY <1>0 DEF Launch, TypeOK
  <2>2. Knows(r)'
    <3>1. CASE Evident
      BY <2>1, <3>1 DEF Evident, Knows, Recorded
    <3>2. CASE s \in Completed
      <4>1. s \in Runs /\ s # NoRun /\ history[s] # {}
        BY <1>0, <3>2, LedgerAssumption DEF Completed, Launch, Progress
      <4> QED BY <2>1, <4>1 DEF Receipts, Knows
    <3> QED BY <1>5, <3>1, <3>2
  <2> QED BY <2>2 DEF Barred
<1> QED BY <1>1, <1>2, <1>4, <1>5 DEF Promise!Begin, Begun, Barred, Evident

LEMMA StepSimulates == Inv /\ [Next]_vars => [Promise!Next]_(Promise!vars)
<1> SUFFICES ASSUME Inv, [Next]_vars PROVE [Promise!Next]_(Promise!vars)
  OBVIOUS
<1> USE DEF At, To
<1>0. TypeOK /\ \A r \in Runs : Progress(r) /\ Ending(r)
  BY DEF Inv
<1>s. UNCHANGED Seen => UNCHANGED Promise!vars
  BY DEF Seen, Begun, Barred, Evident, Promise!vars
<1>1. CASE UNCHANGED vars
  <2>1. UNCHANGED Seen
    BY <1>0, <1>1, SameSeen DEF vars
  <2> QED BY <1>s, <2>1
<1>2. ASSUME NEW r \in Runs, NEW s \in Runs \cup {NoRun}, Launch(r, s)
      PROVE  Promise!Next
  BY <1>2, LaunchBegins DEF Promise!Next
<1>3. ASSUME NEW r \in Runs, NEW k \in Keys, Reach(r, k) PROVE UNCHANGED Promise!vars
  <2>1. UNCHANGED <<ledger, from, landed, led, calls>> /\ st[r] = "running"
    BY <1>3 DEF Reach, fileVars, argVars
  <2>2. \A q \in Runs : st'[q] = "unborn" <=> st[q] = "unborn"
    BY <1>0, <1>3 DEF Reach, Stop, TypeOK
  <2>3. /\ end[r] = "none" /\ end'[r] \notin {"accepted", "untrusted"}
        /\ \A q \in Runs \ {r} : end'[q] = end[q]
    BY <1>0, <1>3 DEF Reach, Stop, TypeOK, Progress
  <2>4. Completed' = Completed
    BY <2>3 DEF Completed
  <2>5. UNCHANGED Seen
    BY <2>1, <2>2, <2>4 DEF Seen, Begun, Barred, Evident, Knows, Recorded
  <2> QED BY <1>s, <2>5
<1>4. ASSUME NEW r \in Runs, Land(r) PROVE Promise!Next
  <2>1. r \in Begun \ (Barred \cup landed) /\ landed' = landed \cup {r}
    BY <1>0, <1>4 DEF Land, Begun, Barred, Progress
  <2>2. UNCHANGED <<Begun, from, Barred, Completed, Evident>>
    BY <1>4 DEF Land, fileVars, argVars, Begun, Barred, Completed, Evident, Knows, Recorded
  <2> QED BY <2>1, <2>2 DEF Promise!Next, Promise!Perform, Begun, Barred, Evident
<1>5. ASSUME NEW r \in Runs, Return(r) PROVE [Promise!Next]_(Promise!vars)
  <2>1. /\ UNCHANGED <<ledger, from, landed, led, calls>> /\ end[r] = "none"
        /\ \A q \in Runs \ {r} : end'[q] = end[q]
        /\ \A q \in Runs : st'[q] = "unborn" <=> st[q] = "unborn"
    BY <1>0, <1>5 DEF Return, TypeOK, argVars, fileVars, Progress
  <2>2. UNCHANGED <<Begun, from, Barred, landed, Evident>>
    BY <2>1 DEF Begun, Barred, Evident, Knows, Recorded
  <2>3. CASE end'[r] = "dead"
    <3>1. Completed' = Completed
      BY <2>1, <2>3 DEF Completed
    <3> QED BY <1>s, <2>2, <3>1 DEF Seen
  <2>4. CASE end'[r] \in {"accepted", "untrusted"}
    <3>1. r \in landed /\ Completed' = Completed \cup {r}
      BY <1>0, <1>5, <2>1, <2>4 DEF Return, Completed, TypeOK
    <3> QED BY <2>2, <3>1 DEF Promise!Next, Promise!Complete, Begun, Barred, Evident
  <2> QED BY <1>0, <1>5, <2>3, <2>4 DEF Return, TypeOK
<1>6. ASSUME NEW r \in Runs, Crash(r) PROVE UNCHANGED Promise!vars
  <2>1. UNCHANGED Seen
    BY <1>0, <1>6, SameSeen DEF Crash, argVars, TypeOK
  <2> QED BY <1>s, <2>1
<1>7. ASSUME NEW r \in Runs, RecordBegin(r) PROVE UNCHANGED Promise!vars
  <2>1. UNCHANGED <<ledger, from, landed, led, calls, end>>
    BY <1>7 DEF RecordBegin, fileVars, argVars
  <2>2. \A q \in Runs : st'[q] = "unborn" <=> st[q] = "unborn"
    BY <1>0, <1>7 DEF RecordBegin, TypeOK
  <2>3. UNCHANGED Seen
    BY <1>0, <2>1, <2>2, SameSeen
  <2> QED BY <1>s, <2>3
<1>8. ASSUME NEW r \in Runs, Append(r) PROVE [Promise!Next]_(Promise!vars)
  <2>1. r \in Completed /\ key[r] \in Keys
    BY <1>0, <1>8 DEF Append, Progress, Ending, Completed
  <2>2. /\ UNCHANGED <<from, landed, led, calls, end>>
        /\ \A q \in Runs : st'[q] = "unborn" <=> st[q] = "unborn"
    BY <1>0, <1>8 DEF Append, argVars, TypeOK
  <2>3. UNCHANGED <<Begun, from, Barred, landed, Completed>>
    BY <2>2 DEF Begun, Barred, Completed, Knows, Recorded
  <2>4. CASE ledger' = ledger
    <3>1. UNCHANGED Seen
      BY <1>0, <2>2, <2>4, SameSeen
    <3> QED BY <1>s, <3>1
  <2>5. CASE ledger' = [ledger EXCEPT ![key[r]] = r]
    <3>1. Evident'
      BY <1>0, <2>1, <2>5, LedgerAssumption DEF Evident, Recorded, TypeOK, Rows
    <3> QED BY <2>1, <2>3, <3>1 DEF Promise!Next, Promise!Settle, Begun, Barred, Evident
  <2> QED BY <1>8, <2>4, <2>5 DEF Append
<1>9. ASSUME NEW r \in Runs, File(r) PROVE UNCHANGED Promise!vars
  <2>1. UNCHANGED Seen
    BY <1>0, <1>9, SameSeen DEF File, fileVars, argVars, TypeOK
  <2> QED BY <1>s, <2>1
<1> QED BY <1>1, <1>2, <1>3, <1>4, <1>5, <1>6, <1>7, <1>8, <1>9 DEF Next

\* The launches implement OnceOnly, for any number of launches and of prompts.
THEOREM KeepsThePromise == Spec => ImplementsOnceOnly
<1>1. Init => Promise!Init
  BY DEF Init, Promise!Init, Knows, Completed, Recorded
<1>2. Inv /\ [Next]_vars => [Promise!Next]_(Promise!vars)
  BY StepSimulates
<1> QED BY <1>1, <1>2, InvHolds, PTL DEF Spec, Promise!Spec, ImplementsOnceOnly

=============================================================================
