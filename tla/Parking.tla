------------------------------ MODULE Parking ------------------------------
(***************************************************************************)
(* Parked waits: record-run.py raises a blocked node and writes a file for *)
(* its wait, wake-check.sh goes through the files, raises what is ready or *)
(* expired and writes the time of the check back.  Both write in place: a  *)
(* file is emptied, then filled, and whoever is killed in between leaves   *)
(* it empty.  No file is ever removed.                                     *)
(***************************************************************************)
EXTENDS Naturals, Sequences, Inbox

CONSTANTS Waits,    \* the waits of one campaign, in the order of their files
          Records   \* bound: how many runs with one of these waits are recorded
Parks == {Waits[k] : k \in DOMAIN Waits}
ASSUME ParkingAssumption ==
  /\ Waits \in Seq(Parks) /\ Records \in Nat \ {0}
  /\ {"wake-ready", "wake-expired"} \X Parks \subseteq Items

VARIABLES
  file,    \* wait -> its file: "none", "empty", "due" or "checked" not long ago
  world,   \* wait -> does its condition hold ("clear"), has its deadline passed
  record,  \* the recorder: what it is at, and the wait
  runs,    \* how many runs were recorded
  poll,    \* the poller: what it is at
  place,   \* the file it is at
  killed   \* history: somebody was killed, and perhaps between emptying a file and filling it

parkVars == <<file, world, record, runs, poll, place, killed>>

Contents == {"due", "checked"}
Parked(w) == file[w] \in Contents

ParkTypeOK ==
  /\ file \in [Parks -> Contents \cup {"none", "empty"}]
  /\ world \in [Parks -> {"waits", "clear", "late"}] /\ runs \in 1 .. Records
  /\ record.at \in {"idle", "empty", "fill"} /\ record.wait \in Parks
  /\ poll \in {"off", "file", "raising", "reread", "empty", "fill"}
  /\ place \in 1 .. Len(Waits) + 1 /\ killed \in {"nobody", "elsewhere", "between"}

ParkIdle ==
  /\ world = [w \in Parks |-> "waits"]
  /\ record = [at |-> "idle", wait |-> Waits[1]] /\ runs = 1
  /\ poll = "off" /\ place = 1 /\ killed = "nobody"

\* A first run has parked some of the waits.
ParkInit == ParkIdle /\ file \in [Parks -> {"none", "due"}]
ParkAbsent == ParkIdle /\ file = [w \in Parks |-> "none"]

(***************************************************************************)
(* record-run.py                                                           *)
(***************************************************************************)
recorderKeeps == <<world, poll, place>>
RecordGoto(a) == record' = [at |-> a, wait |-> IF a = "idle" THEN Waits[1] ELSE record.wait]

\* The node's own row is an add like any other and of no consequence here; but an
\* inbox that fails takes the waits with it, and nothing is parked.
RecordBlocked ==
  /\ record.at = "idle" /\ runs < Records /\ runs' = runs + 1
  /\ \/ \E w \in Parks : record' = [at |-> "empty", wait |-> w]
     \/ UNCHANGED record
  /\ UNCHANGED <<file, killed, recorderKeeps, inboxVars>>

RecordEmpties ==
  /\ record.at = "empty" /\ RecordGoto("fill")
  /\ file' = [file EXCEPT ![record.wait] = "empty"]
  /\ UNCHANGED <<runs, killed, recorderKeeps, inboxVars>>

RecordFills ==
  /\ record.at = "fill" /\ RecordGoto("idle")
  /\ file' = [file EXCEPT ![record.wait] = "due"]
  /\ UNCHANGED <<runs, killed, recorderKeeps, inboxVars>>

\* Bound: one death.
Dies(between) == killed = "nobody" /\ killed' = IF between THEN "between" ELSE "elsewhere"

RecorderDies ==
  /\ record.at \in {"empty", "fill"} /\ RecordGoto("idle") /\ Dies(record.at = "fill")
  /\ UNCHANGED <<file, runs, recorderKeeps, inboxVars>>

Recording == RecordEmpties \/ RecordFills

(***************************************************************************)
(* wake-check.sh                                                           *)
(***************************************************************************)
pollerKeeps == <<world, record, runs>>
Here == Waits[place]

StartPoll ==
  /\ poll = "off" /\ poll' = "file"
  /\ UNCHANGED <<file, place, killed, pollerKeeps, inboxVars>>

EndPoll == poll' = "off" /\ place' = 1

\* Variant: a file that is not due ends the poll.
EndHere == EndPoll
NextFile == poll' = "file" /\ place' = place + 1

Expired == Parked(Here) /\ world[Here] = "late"
NotDue == world[Here] # "late" /\ file[Here] = "checked"
Checked == world[Here] # "late" /\ file[Here] = "due"

\* A file that is missing is no file; an empty one is malformed and ends the poll.
LookAt ==
  /\ poll = "file"
  /\ \/ place > Len(Waits) /\ EndPoll /\ UNCHANGED inboxVars
     \/ /\ place <= Len(Waits)
        /\ \/ file[Here] = "none" /\ poll' = "file" /\ place' = place + 1 /\ UNCHANGED inboxVars
           \/ file[Here] = "empty" /\ EndPoll /\ UNCHANGED inboxVars
           \/ Expired /\ poll' = "raising" /\ Raise("runner", <<"wake-expired", Here>>) /\ UNCHANGED place
           \/ NotDue /\ NextFile /\ UNCHANGED inboxVars
           \/ /\ Checked /\ world[Here] = "clear"
              /\ poll' = "raising" /\ Raise("runner", <<"wake-ready", Here>>) /\ UNCHANGED place
           \/ Checked /\ world[Here] # "clear" /\ poll' = "reread" /\ UNCHANGED <<place, inboxVars>>
  /\ UNCHANGED <<file, killed, pollerKeeps>>

\* Whether the inbox took it or not: an expired wait is left as it is.
PollRaised ==
  /\ poll = "raising" /\ ~Raising("runner")
  /\ IF adding["runner"].id[1] = "wake-expired" THEN NextFile ELSE poll' = "reread" /\ UNCHANGED place
  /\ Returned("runner") /\ UNCHANGED <<file, killed, pollerKeeps, open, person>>

Reread ==
  /\ poll = "reread"
  /\ IF Parked(Here) THEN poll' = "empty" /\ UNCHANGED place ELSE NextFile
  /\ UNCHANGED <<file, killed, pollerKeeps, inboxVars>>

PollEmpties ==
  /\ poll = "empty" /\ poll' = "fill" /\ file' = [file EXCEPT ![Here] = "empty"]
  /\ UNCHANGED <<place, killed, pollerKeeps, inboxVars>>

\* lastChecked is now.
PollFills ==
  /\ poll = "fill" /\ NextFile /\ file' = [file EXCEPT ![Here] = "checked"]
  /\ UNCHANGED <<killed, pollerKeeps, inboxVars>>

PollerDies ==
  /\ poll \in {"file", "reread", "empty", "fill"} /\ EndPoll
  /\ Dies(poll = "fill")
  /\ UNCHANGED <<file, pollerKeeps, inboxVars>>

Polling == StartPoll \/ LookAt \/ PollRaised \/ Reread \/ PollEmpties \/ PollFills

(***************************************************************************)
(* The world: conditions clear, deadlines pass, checks become due again.   *)
(***************************************************************************)
Changes(w) ==
  /\ \/ world[w] = "waits" /\ world' = [world EXCEPT ![w] = "clear"]
     \/ world[w] # "late" /\ world' = [world EXCEPT ![w] = "late"]
  /\ UNCHANGED <<file, record, runs, poll, place, killed, inboxVars>>

Due(w) ==
  /\ file[w] = "checked" /\ file' = [file EXCEPT ![w] = "due"]
  /\ UNCHANGED <<world, record, runs, poll, place, killed, inboxVars>>

ParkStep == \/ RecordBlocked \/ Recording \/ RecorderDies \/ Polling \/ PollerDies
            \/ (\E w \in Parks : Changes(w) \/ Due(w))

(***************************************************************************)
(* Properties.                                                             *)
(***************************************************************************)
Woken(w) == \E kind \in {"wake-ready", "wake-expired"} : <<kind, w>> \in open

\* "Nothing is waiting silently": a parked wait whose condition holds, or whose
\* deadline has passed, comes to the inbox, unless the inbox failed or somebody was
\* killed while a wait's file was empty.
ParkedIsWoken ==
  \A w \in Parks :
    (Parked(w) /\ world[w] # "waits")
      ~> (Woken(w) \/ killed = "between" \/ adding["runner"].at = "failed")
=============================================================================
