------------------------------ MODULE Watchdog ------------------------------
(***************************************************************************)
(* watchdog.py: an observer outside the run.  A poll looks at the box,     *)
(* reads the journal, then the clock, then the transcripts of the agents   *)
(* that have no result, raises what it finds, and looks at the age of the  *)
(* journal last.  The run goes on writing between these steps.             *)
(***************************************************************************)
EXTENDS Integers, Inbox

CONSTANTS Agents,
          BoxItem,    \* the box is unhealthy
          QuietMin,   \* --quiet-min
          MaxTime     \* bound: the time
WatchItems == ({"agent-killed", "agent-stalled"} \X Agents) \cup {BoxItem}
ASSUME WatchdogAssumption ==
  /\ WatchItems \subseteq Items
  /\ QuietMin \in Nat \ {0} /\ MaxTime \in Nat

VARIABLES
  journal,  \* agent -> its newest row
  written,  \* when the journal was written last
  now,      \* the time
  watch,    \* where the observer is; "0" to "2" are its exit codes
  health,   \* exitCode of the box's health
  states,   \* states, of this poll
  clock,    \* clock, of this poll
  toLook,   \* agents whose transcripts are still to be looked at
  alerts,   \* alerts # []
  live,     \* live
  missed    \* history: an alert could not be raised

watchVars == <<journal, written, now, watch, health, states, clock, toLook, alerts, live, missed>>
pollVars == <<health, states, clock, toLook, alerts, live>>

Rows == {"none", "started", "result", "failed"}
WatchEnded == {"0", "1", "2"}

WatchTypeOK ==
  /\ journal \in [Agents -> Rows] /\ written \in 0 .. MaxTime /\ now \in 0 .. MaxTime
  /\ watch \in WatchEnded \cup {"sleep", "box", "read", "clock", "look", "raising", "age"}
  /\ health \in 0 .. 2 /\ states \in [Agents -> Rows] /\ clock \in 0 .. MaxTime
  /\ toLook \subseteq Agents /\ alerts \in BOOLEAN /\ live \in BOOLEAN /\ missed \in BOOLEAN

NoRows == [a \in Agents |-> "none"]

WatchInit ==
  /\ journal = NoRows /\ written = 0 /\ now = 0 /\ watch = "sleep"
  /\ health = 0 /\ states = NoRows /\ clock = 0 /\ toLook = {}
  /\ alerts = FALSE /\ live = FALSE /\ missed = FALSE

(***************************************************************************)
(* The run.  A failed agent may be started again.                          *)
(***************************************************************************)
Write(a, row) ==
  /\ journal[a] \in (IF row = "started" THEN {"none", "failed"} ELSE {"started"})
  /\ journal' = [journal EXCEPT ![a] = row] /\ written' = now
  /\ UNCHANGED <<now, watch, pollVars, missed, inboxVars>>

\* Time passes, but not between the reading of the journal and of the clock: the
\* observer is not suspended there for as long as --quiet-min.
Tick ==
  /\ watch # "clock" /\ now < MaxTime /\ now' = now + 1
  /\ UNCHANGED <<journal, written, watch, pollVars, missed, inboxVars>>

(***************************************************************************)
(* One poll.                                                               *)
(***************************************************************************)
Exits(code) == watch' = code

\* main: sleep, then inspect; the box comes first.
Box ==
  /\ watch = "sleep"
  /\ \E h \in 0 .. 2 :
       /\ health' = h
       /\ IF h > 0 THEN watch' = "box" /\ Raise("runner", BoxItem)
                   ELSE watch' = "read" /\ UNCHANGED inboxVars
  /\ UNCHANGED <<journal, written, now, states, clock, toLook, alerts, live, missed>>

\* A failing inbox ends the observer.
BoxRaised ==
  /\ watch = "box" /\ ~Raising("runner")
  /\ watch' = IF adding["runner"].at = "done" THEN "read" ELSE "2"
  /\ missed' = (adding["runner"].at = "failed")
  /\ UNCHANGED <<journal, written, now, pollVars, inboxVars>>

\* A row that is half written, here or in a transcript, ends it too.
ReadJournal ==
  /\ watch = "read"
  /\ \/ states' = journal /\ watch' = "clock"
     \/ Exits("2") /\ UNCHANGED states
  /\ UNCHANGED <<journal, written, now, health, clock, toLook, alerts, live, missed, inboxVars>>

ReadClock ==
  /\ watch = "clock" /\ clock' = now /\ watch' = "look"
  /\ toLook' = {a \in Agents : states[a] \in {"started", "failed"}}
  /\ alerts' = FALSE /\ live' = FALSE
  /\ UNCHANGED <<journal, written, now, health, states, missed, inboxVars>>

Look(a) ==
  /\ watch = "look" /\ a \in toLook /\ toLook' = toLook \ {a}
  /\ live' = (live \/ states[a] = "started")
  /\ \/ Exits("2") /\ UNCHANGED <<alerts, inboxVars>>
     \/ /\ states[a] = "started" /\ UNCHANGED <<watch, alerts, inboxVars>>
     \/ /\ watch' = "raising" /\ alerts' = TRUE /\ Raise("runner", <<IF states[a] = "failed" THEN "agent-killed" ELSE "agent-stalled", a>>)
  /\ UNCHANGED <<journal, written, now, health, states, clock, missed>>

AgentRaised ==
  /\ watch = "raising" /\ ~Raising("runner")
  /\ watch' = IF adding["runner"].at = "done" THEN "look" ELSE "2"
  /\ missed' = (adding["runner"].at = "failed")
  /\ UNCHANGED <<journal, written, now, pollVars, inboxVars>>

\* Variant: the age of the journal is not looked at.
OldAlways == TRUE
Old == clock - written >= QuietMin

Age ==
  /\ watch = "look" /\ toLook = {}
  /\ watch' = CASE health = 2 -> "2"
                [] health < 2 /\ (alerts \/ health = 1) -> "1"
                [] health = 0 /\ ~alerts /\ ~live /\ Old -> "0"
                [] OTHER -> "sleep"
  /\ health' = 0 /\ states' = NoRows /\ clock' = 0 /\ live' = FALSE /\ alerts' = FALSE
  /\ UNCHANGED <<journal, written, now, toLook, missed, inboxVars>>

WatchStep == \/ \E a \in Agents, row \in Rows \ {"none"} : Write(a, row)
             \/ Tick \/ Box \/ BoxRaised \/ ReadJournal \/ ReadClock
             \/ (\E a \in Agents : Look(a)) \/ AgentRaised \/ Age

(***************************************************************************)
(* Properties.                                                             *)
(***************************************************************************)
\* "no live agents; journal quiet": when the observer leaves with code 0, no agent
\* is at work and none has failed, also not since it read the journal.
QuietIsOver ==
  [][watch' = "0" /\ watch # "0" =>
       \A a \in Agents : journal'[a] \notin {"started", "failed"}]_<<watch, journal>>

\* It leaves with code 1 over an unhealthy box or a failed or stalled agent, and
\* then the last thing it raised has been there for a person to see.
AlertIsTold ==
  watch = "1" => ~missed /\ shown["runner"] /\ adding["runner"].at = "done"
=============================================================================
