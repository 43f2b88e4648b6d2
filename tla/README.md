# TLA+ models of the fluxpoint plugins

The repository holds two plugins for coding agents. *fluxpoint* makes "done" a
matter of a harness that a hook runs, keeps what a session learned across
compactions, and runs long gates detached from the session, with attested
verdicts. *substrate* lints documents. Most of fluxpoint is scripts that start,
look at files another process may be writing, decide, write and end; what is
hard is the order in which several of them do that, and what happens when one is
killed in between. Paths below are relative to `plugins/fluxpoint/scripts/`.

## Inventory

| Part | State | Operations | Hard | Correct when |
|---|---|---|---|---|
| Detached runs: `background.py`, `process_tree.py`, `longrun.py`, `attest.py` run/await/cancel | a record per run under a file lock, the command's process group, a row of `attest.jsonl` | run, detach, worker, cancel, await | worker and cancellers race on record and group; kills at any step; numbers reused; failing writes | CANCELLED and completed only when nothing is left; one owner; verdict, row and requests agree |
| Stop gate: `dod-gate.sh`, `gate-tree.py`, `verify-changed.sh`, `lib.sh` | `last-harness`; per session `.dirty .blocks .base .passed .yielded` | mark an edit, judge a stop, block, yield, reuse a verdict | tree moves under the harness; the hook is killed; stale verdicts; sessions share a checkout | no unjudged code passes, no stale PASS, bounded blocking |
| Compaction gate: `precompact.sh`, `inject-state.sh` | per session `.cwin .cblock .nodecision .compacted` | refuse, allow, seed, report | writes that fail, pruning, a baseline moved by the Stop gate | refused once and never twice, and the loss is told |
| Session baseline: `session-baseline.py`, `lib.sh` | `.base`, `.base.reflog-count`, git's reflog | read, set on PASS | commits, checkouts, resets, rebases, merges and fetches in any order | every commit of the session is judged |
| Graph compiler: `compile-graph.py` validate, execution_stages | none | accept or refuse a graph, put its nodes in stages | edges, lanes, loops, verifiers and guards that are each in order | an accepted graph runs in the order it declares, nothing irreversible unguarded |
| Graph runtime: the script `compile-graph.py` emits, `graph-replay.js` | locals of one script, the shared tree | launch lanes, spawn, check, panel, halt, replay a prefix | lanes and calls in any order, dead agents, two budgets, a tree that moves | the outcome says what happened; a node runs after what it needs |
| Graph loops: `emit_repeat`, `emit_repair` | rounds, items, classes, slices | find, vote, patch, check, integrate | dead finders, lost votes, recurring classes, reviews that reopen slices | what is called dry, judged or reviewed was |
| Irreversible ledger and resume: `ledger.py`, `resume.py`, `replay_memo.py`, `record-run.py` | `irreversible.jsonl`, run artifacts | load, replay, perform, append, resume | crash between effect and row, unlocked append, overlapping launches | what is on record is not done again |
| Fault pairs: `fault_attempts.py`, `fault_policy.py` | a receipt, the pair's record, two legs | consume, run both legs, publish, cancel | requests race, any process dies, tree and manifest move | one attempt; a red is never erased |
| Recording and citations: `record-run.py`, `attest.py` verify_claims | the log of executions, the run's summary | derive, cross-check, file the row | executions end while their citations are checked | COMPLETE stands on an execution per declared verification |
| Forge evidence: `forge_evidence.py`, `attest.py` ci | a pointer row of `attest.jsonl` | observe, record, cite | pages shift while rows are posted, check runs complete and the branch moves | a green pointer or citation was green when it was looked at |
| Recall index: `recall.py`, `memory.py` | two slots of three files, a lock each | build, search, search in a hook | readers without the lock, builders killed half way, sources that change | an answer is of one compilation, and fresh or said to lag |
| Inbox: `inbox.py` | `inbox.jsonl` | add, resolve | unlocked read and append | an open item is there and is not lost |
| Outer loop: `templates/loop.sh`, `loop-metric.py` | STOP file, the metric's history | iterate, measure, judge, give up | the history outlives the session, the agents may redefine the metric | it stops, and says why |
| Watchdog: `watchdog.py`, `box-health.py` | alerts raised, the journal's age | poll, alert, leave | the run writes while it is read | it leaves no agent alone, nor silently |
| Parked waits: `record-run.py`, `wake-check.sh` | a file per wait | park, poll, wake | two writers in place, deaths in between | a wait that is ripe wakes somebody |
| Prompt recall daemon: `prompt-recall-daemon.py`, `-client.mjs` | an endpoint file and a lock | serve, start, expire | daemons replacing each other, killed starters | clients find a live one again and again |
| Repair proofs, evidence table, guards, metrics, migrations, native adapters, *substrate* | files | one-shot | none, or a service's | matters of text, scores or counts |

How they meet: an agent runtime calls the hooks (SessionStart: `inject-state.sh`;
PostToolUse: `verify-changed.sh`, `exec-attest.sh`; Stop: `dod-gate.sh`;
PreCompact: `precompact.sh`), one after the other in a session, without order
between sessions. They share `.claude/fluxpoint`. A green Stop gate moves the
baseline that the compaction gate measures work with; SessionStart prunes the
markers of both. A campaign is a compiled graph run by the runtime's Workflow tool:
the launcher gives it ledger, receipts and captured prefix, its executors cite
executions of gates, which are detached runs or fault pairs, and `record-run.py`
makes of its summary a ledger row, wait files, inbox items and an Evidence row. A
citation may also name a pointer to what a forge answered, and what is recorded is
compiled into the index that later prompts recall from.
Outer loop, watchdog and poller work while nobody watches, and reach a person
through the inbox only.

PROJECT.json lists every part, modelled or not, with the reason.

## Modules

| Module | What it is |
|---|---|
| `Background` | a detached run: starter, worker, process group, cancellers, awaiters |
| `StopGate` | sessions that edit, commit and stop, and the Stop hook |
| `CompactGate` | one session, SessionStart and the PreCompact hook |
| `Campaign` | one launch of a compiled graph with lanes |
| `Calls`, `Discovery`, `Repair`, `Loops` | what loops share; loop-until-dry; paired repair; one campaign with both |
| `Ledger` | the launches of one campaign with an irreversible node |
| `OnceOnly` | what the ledger promises; `Ledger` implements it |
| `FaultPairs` | the one rerun of a crash |
| `OneAttempt` | what a fault pair promises; `FaultPairs` implements it |
| `Recording` | from a campaign's summary and its citations to the outcome on file |
| `Schedule` | which graphs are accepted, and in which stages they run |
| `Forge` | an observation of a forge, its pointer and the pointer's citation |
| `RecallIndex` | builders and readers of the recall index |
| `Around` | composes these four |
| `Inbox`, `OuterLoop`, `Watchdog`, `Parking`, `PromptRecall`, `SessionBaseline` | one script each, or two that share a file |
| `Helpers` | composes these six and `CompactGate` |
| `BackgroundProofs`, `StopGateProofs`, `CampaignProofs`, `LoopsProofs`, `LedgerProofs`, `FaultPairsProofs`, `AroundProofs`, `HelpersProofs` | theorems |
| `MC...` | the values TLC uses |

An operator whose comment starts with *Variant* is not part of the model: it is
the definition after it with one plausible bug, kept to see that the properties
notice (PROJECT.json, "mutants": each property has one that breaks it).

### Background

`rec` is the record on disk and `lock` its flock, where it is held over more than
one step; every other locked section is one action. `spc` and `wpc` are the next
steps of starter and worker, `cpc` and `apc` of each call of `cancel` and `wait`,
whose `crec` and `arec` are the copies of the record those functions go on using
after they have read it. `group` is the set of live processes with the number of
the command's group, so that a number reused after the group has ended (`Alien`)
is in it too. `row` is the exit in the attestation row.

The worker's steps follow `run_command`: spawn (`WorkerSpawn`), record the group
(`WorkerRecord`), then read the record, terminate when a cancellation is
requested, poll the leader, take the members' picture and look for what the
leader left behind. `finish` or `fail` closes it; `publish` of `_execute` appends
the row inside the record's critical section, which is why it holds `lock`. The line
it prints after that (`tell`) can fail too, and `fail` then writes over the DONE.
`MayFail` lets spawns, writes and cleanups raise, `MayCrash` kills starter and
worker between any two steps, `MayReuse` gives the numbers of dead processes to
others. A canceller follows `cancel` line by line: a terminal record is believed
only if nothing is left of its run, a living owner is asked and given time, a dead
one's tree is taken over after its ownership is proved.

Abstractions: the deadlines of `cancel` and `wait` may pass at any time after one
poll, and a `wait` that runs out is one that is called again. The 60 seconds in
which a record without a pid counts as alive are either answer. A process that
leaves the group with `setsid`, Windows job objects, the readiness pattern of
`wait` and a keyboard interrupt are not modelled. One cancel call may be repeated
any number of times (`CancelAgain`).

### StopGate

The code in the working tree is one of `Contents`; the hash of `gate-tree.py` is
the pair of HEAD and that code. A verdict key is a hash with the harness
invocation. The harness takes time (`GateLaunch`, `GateRun`, `GateHash`, then
green or red) and can leave other code behind; its exit, the hygiene scan and the
distill check are nondeterministic, because the gate's promise may not depend on
them. Every step of the gate after the first can be the last one (`GateKilled`).
A shell edit leaves no marker, one of the write tools does.
SessionStart deletes every marker in the state directory that is three days old, whosever
it is, each by its own age (`Cleared`): `SessionStart` is the start of a session of the
instance, between its prompts, `OtherStarts` that of any other, at any step of anybody's
gate. Only the first sets its own baseline anew; a session whose baseline somebody else
pruned finds it again when it stops (`based`), from the commits it has made since. How old
a marker is is left open: any set of those that are there may be too old. `forgotten` is
history: how often markers of a session were pruned.

Abstractions: history is one line, so `session-baseline.py` keeps the recorded
baseline; only the newest evidence row's outcome is kept; edits to documents, for
which the gate is not armed, are no change of code. Between the two hashes of one
run, a second writer that puts the old bytes back is not seen: that is a limit of
the code, and with more than one session in the instance the model shows it.

### CompactGate

The durable surfaces (Decisions and Notes, the memory store, the task board) are
one value, as the two hashes are always compared together. SessionStart and the
PreCompact hook are one action each, or one per outcome (`Refuse`, `FailOpen`,
`Allow`): a session's hooks do not overlap. Each write to the state directory can fail
by itself (removing a marker succeeds). `SessionStart` is this session's start, which
prunes, seeds the snapshot where there is none and reports; `OtherStarts` is any other
session's, which prunes this one's markers and seeds nothing for it. `refusals`,
`forgotten` (prunes of the refusal's marker in this window), `window`, `spoiled` and
`lost` are history: what the properties compare the markers with. `window` is what the
surfaces were when the window began, and nothing once somebody else has pruned the
snapshot: "no baseline means no verdict", until this session starts again.

### Campaign

The script is one thread: an action is the code between two awaits. `pc` and
`stage` are where the scheduler is, `st` where each node is, `call` where each of
its workers is: asked, refused by the ceiling, declined by the floor, in flight,
captured, answered, dead or thrown. `tree` is what the sentinel reads; `base`,
`baseline` and `read` are the launcher's reading and the checkpoints' readings.
`prefix` is how many captured calls of the resumed run are still in order. A sentinel's
call can answer, be dead, or throw: inside a node `runGraphNode` makes a `NODE-ERROR` of
that (`CheckThrows`), while at the start, at a fork or at the end nothing catches it and the
script is aborted without an outcome (`SentinelThrows`), which is the one exception
`CampaignEnds` makes.

Abstractions: a graph is given by the module's constants, and only the shapes it
can tell apart are there (single, fan-out, gate, panel, parked, irreversible; `Listed` are
the nodes whose `after` is a list, a fan-out may have nothing to fan out over and is then
filed as skipped). A
call costs one of `Spends`. Reduce and judge nodes, worktrees, and the memo of
single calls are left out.

### Discovery, Repair, Loops

`Discovery` is `emit_repeat`: a round sends the finders out, waits for those that
come back, and ends the sweep or judges the fresh items by a panel, one step per
finder and per item. `Repair` is `emit_repair`: patch and check every pending slice
in parallel, merge what passed, review the whole, and reopen every slice when the
review fails. `Calls` holds what both write and the campaign's end reads,
`INCOMPLETE` and `DECLINED`; `Loops` runs first one and then the other and files
the outcome. What the witnesses of a patch establish is one choice of proved,
refuted or unproven. How many tokens are left is left to `Campaign`: here every
call may be declined.

### Ledger and OnceOnly

A launch loads the ledger (`led`), takes the effects its predecessor's artifact tells
of (`calls`), resolves its prompt to one of `Keys`, and stops at a conflict, replays,
asks for confirmation, or performs the effect (`landed`). Recording is three steps
that a crash can separate: read the known keys, append, file the rest, which may be
refused. A cut append leaves `torn`, at which every later load and record refuses.
`OnceOnly` has no files, keys or rows: a launch is barred when the effect is evident,
or when the launch it resumes saw it complete. Between an effect and its evidence
another launch may begin unbarred; that window `ledger.py:20-24` admits, and
`OnceOnly` has it too.

### FaultPairs and OneAttempt

`pc` is where each request and the detached worker are, with the leg they are at;
`receipt`, `rec`, `leg` and `pair` are the records and rows. `Unsettled` and
`Verified` are what `unclosed_reds` and `verify_pair` read. Requests race for the
receipt under its lock, a canceller reads the record in one step and asks in another,
the tree moves, the manifest is edited, a later run of the gate may be recorded, the
writes of the receipt, the records, the log and the row may fail (`WriteFails`; that of the
worker's pid fails with the worker already running, `Spawn`), and
every process may die at any step. A tree that moves does not come back: a move
undone within one leg is invisible to the code. `OneAttempt` is open, taken, then
green or spent; the legs run once, in order, while it is taken.

### Recording

One gate, its executions (started before or in this run, clean or dirty, green, red,
cancelled, paired with an earlier red), and a list of declared verifications, each a
`prove:` node or a cited step. The log is read once, the records of the executions at
every citation, and executions go on ending in between. What executors claim is any
execution id, exit code and commit. Rows a forge or a reused green stands behind, and the
fresh green of a forge that may settle a red (`attest.py:1390-1413`), are left out of
`Unclosed`: `Forge` has the forge's part.

### Schedule

An author declares a node at a time; `Accepts` is what `validate` asks of it and of
those before it, `Coherent` what it asks of the whole, `Stages` what
`execution_stages` returns. A node is a role, a lane, its `after`, the node `of` that
it verifies, checks or reduces, the branch it pushes to and whether a memo may answer
for it. A plan is a sequence of stages, each either one body per lane or one node by
itself. A fixer is emitted inside its checker's loop (`Host`). `validate` collects its
findings and refuses at the end; here the first one does.

Left out: the contracts of prompts and results, sizes and budgets, decisions, memory
and integration nodes, worktrees and deployments, which add refusals and no order. A
graph has at most one repair loop, whose integration nodes (a merge and its review, emitted
in the checker's place and bound to it by `:944-960`) are left out. An `after` that is
a list of one name is taken like the bare name: `:628` then asks more of the node
than `Modern` does, so that `Accepts` lets a few graphs more through than the code, in the
same stages, and what is shown of all of these holds of the code's.

### Forge

`observe` in the steps between which the forge may change: the target, each page of
statuses and of check runs, the target again. `seen` is what the pages
showed. What was posted is never taken back: a status is appended, a check run begins
pending and completes in place. A page holds one row, so that every place where a
page can end is met. `stood`, what was posted on the commit when the listing began,
is history. The first observation with a verdict becomes the pointer, a later one is
the check of its citation, and nothing happens after that. Who is logged in, restarted
pipelines, the pins of the manifest and a local green the pointer may need first are
left out: each only refuses.

### RecallIndex

What a slot is compiled from has a version, the fingerprint is that version, and a
file is the generation it was written with: the fingerprint and the version that was
read. A process builds, searches (and may build for it) or searches for a hook, which
never builds. Its steps are the file reads and writes in the order of the code; only
builders hold the lock. Any process may be killed at any step. A search that
finds the index stale may build for itself again and again, where the code builds once and
then gives up. Vectors, the ranking and
files that do not parse are left out; two changes of the sources that cancel each other
are not told apart by the code either. `since`, what was filed when the question was
asked, is history.

### Around

None of the four writes what another one reads while it works, so a behaviour is one of
them (`active`), as in `Helpers`.

### Inbox, the scripts that use it, and Helpers

`Inbox` has `add` and `resolve` in two steps each, for two writers and a person; of
the file only the items its newest rows leave open are kept. `OuterLoop` is `loop.sh`
with `loop-metric.py`: what the metric is and what it measures may change at every
agent's turn, and a history may be there from an earlier session. `Watchdog` is one
poll in steps (box, journal, clock, transcripts, age) beside a run that goes on
writing; time does not pass between the reading of the journal and of the clock, as
the observer is not suspended there for `--quiet-min`. `Parking` has the recorder and
the poller, each emptying and then filling a wait's file; one of them may be killed
once. Of a wait's file the run to resume is left out; a poll may visit a file that
was written after the poll began, which the code's expanded list does not, but then
the next poll does. `PromptRecall` has clients that look up, ask, lock, start and
release, and daemons that publish, end and remove; a daemon's name is used again only
when nobody knows it. `SessionBaseline` has git's commands on a graph of commits and
its reflog, and what the script reads of both; a missing `.base` and a reflog git has
expired are left out.

`Helpers` composes the six and `CompactGate`, which shares nothing with them. Some share
the inbox's file and no item in it, so a behaviour is one of them (`active`) with an inbox
of its own; that keeps one state space per script and loses no interleaving that changes an
item. In the part of the
waits, which has two writers of its own, `resolve` is one step.

## Runs

| Run | Instance | Shows |
|---|---|---|
| `background_safety` | two processes, one canceller and one awaiter, crashes and failures | what is published, awaited and left of a run agree |
| `background_race` | one process, two cancellers (symmetric), crashes | a cancelled run has no green row, DONE stays DONE |
| `background_live` | two processes, one canceller, crashes, reused numbers | requests settle, cancel returns, what was cancelled stays down |
| `stop_safety` | three contents, one of them without a harness, two invocations, one block | no killed run read as PASS, verdicts answer for their tree and invocation only |
| `stop_prunes` | two contents (symmetric), one commit, one block, one prune of any markers | no cached PASS without a verified tree, a commit hides nothing |
| `stop_live` | two contents, two blocks, one prune of any markers | a session does stop, blocking is bounded |
| `campaign_lanes` | six nodes: a parked step, two lanes with a panel, a fan-out of two and a gate, a join, an irreversible node; two trees, three tokens, six calls | the outcome is true, the order and both budgets are kept, the campaign ends |
| `ledger_launches` | three launches, two prompts | replayed means done; `OnceOnly` |
| `loops` | two finders, three items of one class or none, a panel of two, three rounds; two slices, five rounds | dry, judged, reframed and reviewed mean it; both loops end |
| `fault_pairs` | two requests and a worker | a pass is earned; `OneAttempt`; pairs end |
| `around` | graphs of up to four nodes in two lanes, with two named predecessors in all; two commits, one context, three posted rows; three executions, a `prove:` node and a cited step; two searchers, one change of the stores or of the notes | plans are sound, COMPLETE is proven, greens stood, answers are whole |
| `helpers` | three iterations and a window of two; one agent; two waits; two daemons and two clients; four commits and four reflog entries; two notes and no surface, every failure and pruning | nothing is silent, plateaus are real, the observer leaves nobody, waits wake, prompts find a daemon, commits are judged; compaction is refused once, never twice, and its loss told |

Why these bounds are enough to be of interest. Two processes are a leader and a
descendant that outlives it, and a third would be another descendant; one
canceller and one awaiter meet the worker at every pair of steps, and two
cancellers meet each other. Three contents are the inherited, a verified and an
unjudged code. One commit separates HEAD from the baseline and the tree from
HEAD. A limit of two blocks has a first, a last and a refused one. One prune
falls before, between or after the blocks, and takes any of the markers. Two notes let a
surface change and change back. Two lanes with a join and a fan-out have a halt in
one while calls of the other are out, and the tokens run out in both; that graph makes up to seven calls, one more than
the ceiling. Three launches
are a chain of two resumes, or two that overlap and one that follows. A panel of two is heard in
full, by one or not at all. Three rounds are
two dry ones after one with a find, five repair rounds the third narrow patch of a
class, a review that fails and a patch after it. Two requests race for the receipt,
and a third finds what the second found (the theorems have any number). Three
executions are one red, the one that settles it, and one that ends while citations
are checked; two declarations compete for them. Four nodes are a builder, its gate, an
effect and one more, or a builder in each lane and what joins or verifies them; two
predecessors are a join, or a chain of three. Three rows on a page each are two that
were there and one that shifts them, and two commits let the branch move away and back.
Two searchers are one that builds and one that reads, or two that build in turn, and one
change falls before, between or after the fingerprint and the sources. Two waits are one whose file breaks
and one after it; two daemons an old one that ends and a new one. Four commits with
four reflog entries hold a commit, a checkout away, a commit there and a merge back.

What an instance leaves off (reused numbers in `background_safety`, failing writes in
`background_race` and `background_live`) is there so that the run fits; the theorems
have no such limit. `DoneStays` and `CancelledIsNotGreen` are claimed without both: with an unrelated process in
the group, `cancel` reopens a DONE record, as `has_owned_tree` tells it to.

Deadlock is not checked where runs end: `Background`, `Campaign`, `Loops`, `Ledger`,
`FaultPairs` and the parts of `Around` and `Helpers`. The stop gate never stops.

### Fairness

`Background`: weak fairness of starter and worker and of each cancel call that has
begun, since each is a process the system schedules; strong fairness of
`CancelDeadline`, since the loop tests the clock again and again and the clock
does reach three seconds. Nobody is obliged to call cancel, to crash, to fork or
to end a command, and an awaiter may wait for ever.
`StopGate`: a hook that was started runs on, and an agent whose stop was blocked
asks to stop again. Nothing obliges it to repair the tree, and the runtime's kill
is never relied on.
Markers are pruned `MaxPrunes` times at most: each prune takes a marker three days old, and
a gate whose counter somebody deletes between any two of its blocks for ever would block for
ever. `BlocksBounded` counts the prunes for the same reason.
`Campaign` and `Loops`: the script runs what it can, and the runtime answers every
call, be it with a death or an error. Neither nodes that are parked nor the tree are
promised anything.
`FaultPairs`: a request or worker that is alive goes on; a leg's command ends, as
the worker waits for it without a limit of its own. Nobody is obliged to cancel.
`Helpers`: the runner's `add`, the recorder and the poller go on, a check becomes due
again (time passes), a lock gets old, prompts come again and again and their clients
run on, daemons run on and one that nobody asks ends. Nothing is promised about
people, deaths, conditions or deadlines. `OnceOnly`, `Ledger` and `Around` state
safety only.

## What is proved

For every value of the constants, by `tlapm` with Z3, Zenon and LS4:

* `BackgroundProofs!TypeCorrect`: `Spec => []TypeOK`.
* `SafetyCorrect`: `Spec => []SafetyInv`, the inductive invariant, the conjunction
  of `TypeOK`; `TreeInv` (what lives in the group was started by the run, or is
  `Alien`); `WorkerInv` (what is started and recorded at each of the worker's
  steps, and when it holds the lock); `RecordInv` (CANCELLED was asked for, and
  the drain was observed unless the group was never recorded); and `CancelInv` for
  each canceller: what its stale copy still says truly, that it has taken over
  only from a dead worker, and that it closes only what is drained. None of the
  properties is inductive by itself: that CANCELLED means drained depends on what
  the writer of the record established several steps earlier, on a copy.
* `CancelledDrained`, `OwnerFirst`: `CancelledIsDrained` and `OwnerKillsFirst`
  follow from it, and `CancelledStaysUndone`, an action property. `StaysDown`:
  `CancelledStaysDown`. A cancelled run was asked for and is drained; `RequestStays` shows
  that no later writer withdraws the request, nor does the record a late starter or worker
  writes over it, and `DrainStays` that then nothing of the run comes to life: whatever
  launches reads the request first, and a group that is drained has nobody left to fork.
* `RecordTrue`: `RecordIsTrue`, from
  `TruthInv`. It adds to `SafetyInv` what the worker knows when it publishes, and that
  the row says it before the record does (`PublishInv`), and what the copy an awaiter
  has read still says truly (`AwaitInv`). A request on record, or a worker that is gone,
  settles that nothing of the run starts again (`Settled`).
* `CancelledNotGreen`: `CancelledIsNotGreen`, under `~MayReuse /\ ~MayFail`, from
  `RowInv` with `TruthInv` and `DoneInv`. `RowInv` follows a passing row from the worker's
  `publish` to its end: it is minted under the lock for a run that nobody has asked to stop,
  and the record that then attests it says DONE, which by `DoneInv` no canceller's stale copy
  replaces. A worker killed between the two leaves the row, which `await` does not trust (`attested`).
* `DoneIsKept`: `DoneStays`, under `~MayReuse /\ ~MayFail`. A canceller that overrules
  the record was heard by a worker that then could not publish a DONE, or came when
  there was none to publish (`DoneInv`). The two hypotheses are the code's own
  exceptions: a number that came to life again, or a record that could not be
  written, lets `cancel` reopen a DONE.
* `StopGateProofs!BlockLimit`: `BlocksBounded`, from the invariant that the history
  counter is at most the one on disk and the limit once more for each prune, and the one
  on disk at most the limit. It holds for
  any number of sessions, contents and invocations and any limit.
* `CacheCorrect` and `ReuseCorrect`: `GreenIsVerified` and `ReusedIsVerified`, from
  `VerdictInv`. A key is cached two steps after the tree was judged, so the
  invariant follows a run: while the harness runs, the first hash is that of the
  tree it began on or unknown; once the second hash was compared with it, a run
  that is not red has verified the tree it will cache, and the invocation cannot
  change before it does.
* `NoEscape`: `CommitIsNoEscape`, from `BaseInv` (the baseline is what HEAD held at
  the session's start or when the baseline was moved). `TypeCorrect`: `TypeOK`.
* `KilledNotPassed`: `KilledIsNotPassed` for one session in the checkout (`Alone`),
  any contents and any limit. `PassInv` says that while PASS is on file
  the run that began last has ended and was not killed. A second session breaks it, as the code does.
* `CampaignProofs!PlanKept`: `PlanIsKept` for any graph. `StagesKeepOrder` shows, of the
  stages the scheduler computes, that whatever a node names in `after` is in an earlier
  stage, lane by lane; `OrderInv` adds where the scheduler is, what each node that has
  begun waits for, and that a call which is out belongs to a node that runs. For the
  budget, `BudgetInv` says that the calls made are finitely many, as many as were
  counted, and that each that is out has its floor reserved; it rests on `FreshInv`, that
  no call of a node is asked for twice.
* `OutcomeTrue`: `OutcomeIsTrue`, from `OrderInv` and `OutcomeInv`: a loss is on one
  of the lists before its node ends (`LossInv`), the tree read at a checkpoint is the
  launcher's until somebody says otherwise (`TreeInv`), and the outcome is computed
  from those lists (`EndInv`).
* `CampaignProofs!TypeCorrect`: `TypeOK`; that a reservation is never below nothing needs
  `BudgetInv`.
* `LoopsProofs!LoopsCorrect`: the inductive `LoopsInv` of both loops and the turn
  between them. It ties the counters the script keeps to what happened: declined calls
  (`CallsInv`), dry rounds and new items (`RoundsInv`), verdicts and panels
  (`JudgedInv`), what a class has survived (`ClassInv`), which of the script's lists
  hold the same slices (`ListInv`), what ends a loop early (`CutInv`), and whose patch
  is in the tree (`PatchInv`). `TypeCorrect`, `SweepExhausts`, `PanelHonest`,
  `ReframeDue` and `OutcomeTrue` follow.
* `LedgerProofs!ReplayIsSound` and `TypeCorrect`, from `Inv`: every row, on disk or in
  a launch's copy, names a run that performed the effect under that key and was
  believed (`TrueRows`), and where a run is says what it can know and can have done
  (`Progress`, `Ending`). `KeepsThePromise` is the refinement: `LaunchBegins` shows
  that a launch after a row, or after a completed run it resumes, begins barred;
  `FlightIsIgnorant` that the compiled node lets no barred launch through; every other
  step is a step of `OnceOnly` or changes nothing it sees.
* `FaultPairsProofs!PassEarned`, `TypeCorrect` and `KeepsThePromise`, from `Inv`: one
  process has the attempt (`Alone`), how often the legs ran follows from where it is
  (`Stages`), a row bound to the crash's tree is of an undisturbed leg (`LegInv`),
  and the pair's row and its DONE come from the owner's last steps (`PairInv`). None
  is inductive alone: a leg is counted once only because there is one owner, and that
  a green row is earned rests on the count. For the refinement, `QuietStep` covers all
  steps but taking the attempt, running a leg and publishing.

* `AroundProofs!CompleteProven`: `CompleteIsProven`, from `RecordInv`. The check looks
  at one citation after the other while runs end beside it: an execution that was good
  enough to cite stays so (`Firm`, `EndKeepsFirm`), and each step leaves as many
  distinct firm ones as it has checked (`StandOn`).
* `AnswerWhole`: `AnswerIsWhole`, from `IndexInv`: who holds the lock (`LockInv`), that the
  files of a slot are of one compilation except inside it (`FilesInv`), and what each
  process knows at each step about its copies (`TaskInv`). That versions only grow lets
  every conjunct about a process be kept by the steps of the others (`TaskKept`).
* `GreenHolds`: `GreenStands`, from `ForgeInv`. A page is listed while rows are added in
  front, so `ListingInv` says that a row which stood when the listing began was seen or is
  behind the last page (`Covered`): rows are shifted to later pages and never back. The
  argument needs only that a full listing ended; the observer's refusal of duplicates is
  a second line of defence.
* `PlanSound`: `PlanIsSound`. `StagesLaid` shows that the compiler's plan has every node
  once and in the graph's own order (`Laid`): one spot ahead of another, or two lanes of
  one stage. `EdgeKept` takes an edge to spots in order, `AncestorsBefore` a chain of
  them; `OrderStands` and `EffectStands` are the parts of the property, for graphs of any
  size. `PlanInv` says that every graph on the way is well made.
* `HelpersProofs!Bounded`: `NeverBlocksTwice`, from the invariant that each
  refusal of the window has left its marker, which is there or was pruned.
* `FlushFirst` and `LossTold`: `UnflushedIsRefused` and `LossIsTold`, from
  `WindowInv`: the marker is there exactly while the window has been refused, and until a
  write has failed the snapshot is the one of the window's begin, or gone with it, and the
  record of the last compaction says what it discarded, through restarts and prunings.
* `MadeJudged`: `MadeIsJudged`, from `BaselineInv`. The commits are a graph in which each
  comes after all that it descends from (`GraphInv`), and what was made here since the last
  pass is what the reflog's entries since then call created (`ReflogInv`). The base is taken
  before the oldest of these that is still in HEAD's history, so that none of them is an
  ancestor of it; that holds for histories of any length.
* `PlateauReal`: `PlateauIsReal`, from `PlateauInv`: once the old history is erased the file
  is this session's, that is the values since the metric was last redefined (`Mirrors`), and
  a plateau was the last thing found in it. `LatestIsMirrored` shows that the file's values
  are then those the property speaks of.
* `LeavesWhenOver`: `QuietIsOver`, from `PollInv`: what the poll has read of the journal is
  so unless it was written since, which makes it too young to be left; and whoever was at
  work or had failed is still to be looked at, or has been.
* `NothingSilent`: `NothingIsSilent`, from `TellInv`. Whoever raises an item that is open,
  or has raised it, was there when it was open (`RaisedInv`), whoever else raises and
  resolves it; and what the loop, the observer and the poller go on to do says which row
  they have raised (`CallerInv`).

Induction is done by the least counterexample: a set of naturals that is not empty has
a least member (`Least`, proved from the well-foundedness of `<`), and what holds at 0
and is handed on holds up to `n` (`UpTo`). That a recursive function satisfies its
equation (`ScanDefined`, `StagesDefined`, `AncestorsDefined`) is proved in the same way,
by building the function up to `n`.

The assumptions are the modules' named `ASSUME`s; TLC evaluates them. The proofs added
one, `ForgeAssumption` (some commit, a bound on posts that is a number), one conjunct
of `GraphAssumption` (what is a gate, a panel or irreversible is a node) and one of
`LoopAssumption` (a spent budget and a plateau are two items, as `loop.sh` gives them two
ids).

Only model-checked: everything about liveness (it needs fairness and ENABLED, which
the prover does not have). Every safety property that a run checks is also a
theorem. `Parking` and `PromptRecall` promise liveness only, so of them what is proved is
what the poller tells the inbox.
No run checks types: those of `Background`, `StopGate`, `Campaign`, `Loops`, `Ledger` and
`FaultPairs` are theorems, and what the proofs about `Around` and `Helpers` need of theirs
is part of the invariants (`IndexTyped`, `LoopTyped` and so on). The other properties of `StopGate` are proved for any
number of sessions, where the runs have one.

## Disagreements between code and documentation

Seen in the models; none is hidden by them, and a property that holds only with an
exception names the exception in its comment.

Detached runs:
* A worker killed between spawning and recording its group (`background.py:212`)
  leaves a command no cancel can find; `longrun.md:102` says a cancelled command is
  gone.
* `cancel` decides on a record it has read before (`background.py:385`), so that an
  ERROR published since is replaced by CANCELLED, against `background.py:393-394`.
* `process_tree.py:331` signals the worker's group by number after its leader may
  have been reaped; `process_tree.py:1` says "never identify an old tree by PID
  alone".

Gates:
* A fail-open stop moves the baseline over unjudged code (`dod-gate.sh:243`), against
  `dod-gate.sh:20-21` and `lib.sh:365-366`; so does the start of a session whose
  baseline was pruned (`inject-state.sh:26`), against `inject-state.sh:71-73`.
* A stop may be let through although no block came before it (`dod-gate.sh:236`),
  against the README's and `dod-gate.sh:3-4`'s "consecutive".
* A timeout is recorded as FAIL (`dod-gate.sh:252`), against `dod-gate.sh:132-133`.
* Two sessions in one checkout share `last-harness` (`dod-gate.sh:235`). One's
  PASS can replace the other's RUNNING, and if that other is then killed, PASS is
  read as current, against `dod-gate.sh:112`. `stop_safety` with a second session
  violates `KilledIsNotPassed`.
* `precompact.sh:50` measures the window's work by the session's baseline, which a
  green Stop gate moves to HEAD (or SessionStart, where it was pruned); a window that
  committed and passed is compacted without the refusal `precompact.sh:11-13` promises.
* A `.cblock` older than three days is pruned by any session's SessionStart
  (`inject-state.sh:27`), so an attempt refused days ago is refused again, against
  `precompact.sh:17-18`, "Two consecutive attempts can never both block". `NeverBlocksTwice`
  allows one more refusal for each such prune, and no other.
* The same prune can take the `.blocks` of a session that is at work (`inject-state.sh:26`),
  which is then blocked as often again, and the `.cwin` of another session, which then has
  no window to measure by: its compaction goes through unrefused until its own next start.
* `session-baseline.py:51-58`: a history that begins in this checkout (an orphan
  branch's first commit) has no parent, so the base stays the old one, is no ancestor,
  and the gates are given HEAD: that commit and all made on top of it go unjudged,
  against the comment at `:43-46`. `MadeIsJudged` excepts it. Reverts, applied mails
  and what a rebase squashes are not recognised at all (`:41`); `inject-state.sh:26`
  prunes `.base` and leaves `.base.reflog-count`.

Campaigns:
* A panel that did not vote in full leaves its item in and the campaign COMPLETE
  (`Campaign!CompleteIsVerified` does not hold), against `compile-graph.py:3442`. A
  node whose worker died in a round with a declined call is filed as skipped
  (`DeathIsNoDecline` does not hold), against `compile-graph.py:3539`.
* In the loops, whether a dead round is called declined is decided by the campaign's
  counter, not the round's; a repair round's workers write one abort reason and the
  last of them wins.
* A panel may judge an irreversible node: nothing in `compile-graph.py` refuses the two
  together, and its votes are asked for side by side. `EffectAlone` is therefore about
  the call that has the effect; of all the node's calls it is false.
* A run that is resumed twice forgets an untrusted effect of the first: the second
  resume is told only of what the first one's artifact holds, against
  `replay_memo.py:889-890`. An unreadable ledger ends `record-run.py` by `SystemExit`
  before any row is filed (`ledger.py` read), against `record-run.py:446`.
* A pair that has been published DONE turns ERROR when its last line cannot be
  printed, and its green row is void; so does a cancellation that was decided on a
  record read before.
* `attest.py`'s `_check_cited` does not use the head its docstring speaks of, and a
  `prove:` node without a result gets no check (the campaign is INCOMPLETE all the
  same, by `emit_node`). A blocking verdict is refiled as INCOMPLETE when the
  cross-check throws, against `SKILL.md:463`. A
  verified pair joins the support of every later citation, so that a second node on
  the same tree is STALE.

Compiler, counterexamples (`Overlooked` and `EffectIsGuarded` in `Schedule` name their
exceptions):
* `compile-graph.py:3898` looks at `after` only: a `reduce` in one lane whose `from` is in
  another lane of the batch runs beside its source, against `:4128` ("the same edge wearing
  different clothes"). So does a node that honors a decision of another lane, against
  `:1715-1716` ("a decision this node cannot see cannot bind it").
* A node declared between a repair fixer and its checker that consumes the fixer's result is
  emitted before the fixer; and across lanes neither what a fixer is `after`, nor what is
  `after` a fixer, makes a barrier.
* In a graph without lanes, an irreversible node whose `after` does not reach its guard is
  accepted with a guard that has `replay: 'tree'`, against `:1015` ("guards must execute in
  the current launch").
* `cex.py` (read, not modelled) `:1585`: a retired counterexample that is found again is swallowed, while `:1611`
  says to ingest it again. Ingests and pins read the state and append without a lock: an
  overlapping ingest undoes a pin, against `:746-748`, and two pins can name one test,
  against `:1705`.

Helpers:
* A manifest that is refused at the start leaves the old metric history in place
  (`loop-metric.py:34`, "Never reuse an earlier session"); `PlateauIsReal` excepts it.
  A STOP during the last iteration or before the start is ignored. The id of a spent
  budget is the same for all loops of a checkout.
* Wait files are written in place; a writer killed in between leaves an empty one, at
  which `wake-check.sh` ends on every poll, so that the waits behind it starve
  (`ParkedIsWoken` excepts it), against `SKILL.md:314`. They are never removed, and the
  poller's write-back can undo the recorder's new run. An expired wait is raised
  without evaluating its check. When the inbox fails, or a record is refused early, no
  wait file is written.
* An item raised again while a person resolves it is closed with it (`inbox.py:84`):
  `NothingIsSilent` promises whoever raises an item that it was open at some time since,
  and no more.
* A watchdog that meets a half-written row ends with code 2, and any alert ends it.
* An ending daemon that has read the endpoint as its own removes a newer daemon's; the
  newer one then serves nobody until it is idle. Two clients that find the same old
  lock both remove one, and two daemons start.

## Plan

1. Proofs: the types of `Helpers` and `Around` in whole, and the inductive part of
   the liveness properties (that a file of `Parking` is empty only while its writer lives or
   was killed; that a lock of `PromptRecall` has an owner or gets old).
2. `RunPromise`, the abstract run (asked for, running, done, cancelled, lost; a
   cancelled run has nothing running) with `Background` shown to implement it.
3. Reduce and judge nodes and worktrees in `Campaign`; the rerun of a deployed lane in
   `FaultPairs`; the evidence table's lock and the ingests of `cex.py`.

## Not modelled

Text, scores and counts (guards, the recall ranking, metrics, ratchets), the Windows
branches, the runtime's own journal formats, adapters that only start the scripts, and
*substrate*, whose linters are functions of the files they read. Repair proofs, the memo
and the artifact checks compare content a model would have as one equal or unequal value.
Of `compile-graph.py`, the refusals that are about a node's own fields and the prompts it
writes are left out: modelled are the order it gives the nodes and the script it emits,
from the lines that emit it. `memory.py` reads and writes its store under a lock, one call
after the other.
