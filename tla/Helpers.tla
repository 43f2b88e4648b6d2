------------------------------ MODULE Helpers ------------------------------
(***************************************************************************)
(* The scripts around the gates: the outer loop, the observer of a         *)
(* Workflow run and the parked waits of recorded campaigns, which work     *)
(* while nobody watches and tell a person through the inbox; the daemons   *)
(* that answer prompts; the baseline that the gates are given; and the     *)
(* gate of compaction.  They share nothing but the file of the inbox, and  *)
(* no item of it: a behaviour is one of them, in an instance of the inbox  *)
(* of its own.                                                             *)
(***************************************************************************)
EXTENDS OuterLoop, Watchdog, Parking, PromptRecall, SessionBaseline, CompactGate

Parts == {"loop", "watch", "park", "recall", "baseline", "compact"}

VARIABLE active

vars == <<inboxVars, loopVars, watchVars, parkVars, recallVars, baselineVars, compactVars, active>>

TypeOK == /\ InboxTypeOK /\ LoopTypeOK /\ WatchTypeOK /\ ParkTypeOK
          /\ RecallTypeOK /\ BaselineTypeOK /\ CompactTypeOK /\ active \in Parts

Init ==
  /\ InboxInit /\ WatchInit /\ RecallInit /\ BaselineInit /\ active \in Parts
  /\ IF active = "loop" THEN LoopInit ELSE LoopAbsent
  /\ IF active = "park" THEN ParkInit ELSE ParkAbsent
  /\ IF active = "compact" THEN CompactInit ELSE CompactAbsent

InLoop(A) == /\ active = "loop" /\ A
             /\ UNCHANGED <<watchVars, parkVars, recallVars, baselineVars, compactVars, active>>
InWatch(A) == /\ active = "watch" /\ A
              /\ UNCHANGED <<loopVars, parkVars, recallVars, baselineVars, compactVars, active>>
InPark(A) == /\ active = "park" /\ A
             /\ UNCHANGED <<loopVars, watchVars, recallVars, baselineVars, compactVars, active>>
InInbox(A) == /\ A
              /\ UNCHANGED <<loopVars, watchVars, parkVars, recallVars, baselineVars, compactVars, active>>
InRecall(A) == /\ active = "recall" /\ A
               /\ UNCHANGED <<inboxVars, loopVars, watchVars, parkVars, baselineVars, compactVars, active>>
InBaseline(A) == /\ active = "baseline" /\ A
                 /\ UNCHANGED <<inboxVars, loopVars, watchVars, parkVars, recallVars, compactVars, active>>
InCompact(A) == /\ active = "compact" /\ A
                /\ UNCHANGED <<inboxVars, loopVars, watchVars, parkVars, recallVars, baselineVars, active>>

Next ==
  \/ InLoop(LoopStep) \/ InWatch(WatchStep) \/ InPark(ParkStep)
  \/ InInbox(IF active = "park" THEN Add("runner") \/ ResolveAtOnce ELSE InboxStep)
  \/ InRecall(RecallStep) \/ InBaseline(BaselineStep) \/ InCompact(CompactStep)

\* Scripts that were started go on; the poller is started again and again, and
\* time passes until a check is due; prompts come, locks age, and a daemon that
\* nobody asks ends.  Nothing is promised about people, deaths, or conditions.
Spec ==
  /\ Init /\ [][Next]_vars
  /\ WF_vars(InInbox(Add("runner")))
  /\ WF_vars(InPark(Polling)) /\ WF_vars(InPark(Recording))
  /\ \A w \in Parks : WF_vars(InPark(Due(w)))
  /\ WF_vars(InRecall(LockAges))
  /\ \A c \in Clients : WF_vars(InRecall(Prompt(c) \/ Client(c)))
  /\ \A d \in Daemons : WF_vars(InRecall(Daemon(d) \/ Unasked(d)))

\* "every event that needs a person appends a row here": whoever raised an item
\* and was not told that the inbox failed, the item has been open since, so that a
\* person could see it; and a loop that gives up and an observer that leaves over
\* an alert have raised theirs.
NothingIsSilent ==
  /\ \A w \in Writers : adding[w].at = "done" => shown[w]
  /\ GiveUpIsTold /\ AlertIsTold

\* While prompts come, there is again and again a daemon that the next one finds:
\* neither an endpoint whose daemon is gone, nor a lock that its killed owner left,
\* nor an old daemon that removes a new one's endpoint keeps them cold for ever.
WarmAgain == active = "recall" => []<>Serving(endpoint)
=============================================================================
