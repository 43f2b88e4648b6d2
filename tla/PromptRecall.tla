---------------------------- MODULE PromptRecall ----------------------------
(***************************************************************************)
(* prompt-recall-client.mjs and prompt-recall-daemon.py: a prompt's hook   *)
(* asks the daemon that the endpoint file names, starts one when none      *)
(* answers, or asks cold.  Daemons end when nobody asks, clients may be    *)
(* killed, and nobody holds a lock over more than its own start.           *)
(***************************************************************************)
EXTENDS Naturals

CONSTANTS Daemons, Clients,
          NoFile,
          MaxKills  \* bound: clients that are killed and daemons that never start
ASSUME RecallAssumption == NoFile \notin Daemons \cup Clients /\ MaxKills \in Nat

VARIABLES
  daemon,    \* where each daemon is
  endpoint,  \* the daemon (its token, its port) that the endpoint file names
  starting,  \* the .starting file: its owner, "left" by a killed one, "old" after 15 s
  client,    \* where each client is
  existing,  \* client -> the endpoint it has asked first
  kills

recallVars == <<daemon, endpoint, starting, client, existing, kills>>

RecallTypeOK ==
  /\ daemon \in [Daemons -> {"none", "starting", "serving", "ending", "unlink"}]
  /\ endpoint \in Daemons \cup {NoFile}
  /\ starting \in Clients \cup {NoFile, "left", "old"}
  /\ client \in [Clients -> {"idle", "look", "ask", "stat", "unlink", "lock", "spawn", "wait", "release"}]
  /\ existing \in [Clients -> Daemons \cup {NoFile}] /\ kills \in 0 .. MaxKills

RecallInit ==
  /\ daemon = [d \in Daemons |-> "none"] /\ endpoint = NoFile /\ starting = NoFile
  /\ client = [c \in Clients |-> "idle"] /\ existing = [c \in Clients |-> NoFile] /\ kills = 0

Serving(d) == d \in Daemons /\ daemon[d] = "serving"

(***************************************************************************)
(* A client: warm, then cold.                                              *)
(***************************************************************************)
ClientGoto(c, at) == client' = [client EXCEPT ![c] = at]
Leaves(c) == ClientGoto(c, "idle") /\ existing' = [existing EXCEPT ![c] = NoFile]

Prompt(c) ==
  /\ client[c] = "idle" /\ ClientGoto(c, "look")
  /\ UNCHANGED <<daemon, endpoint, starting, existing, kills>>

LookUp(c) ==
  /\ client[c] = "look" /\ existing' = [existing EXCEPT ![c] = endpoint]
  /\ ClientGoto(c, IF endpoint = NoFile THEN "stat" ELSE "ask")
  /\ UNCHANGED <<daemon, endpoint, starting, kills>>

\* A living daemon may be too slow; whoever else has its port now has not its token.
Ask(c) ==
  /\ client[c] = "ask"
  /\ \/ Serving(existing[c]) /\ Leaves(c)
     \/ ClientGoto(c, "stat") /\ UNCHANGED existing
  /\ UNCHANGED <<daemon, endpoint, starting, kills>>

\* Variant: no lock is ever too old.
AgedNever == FALSE
Aged == starting = "old"

StatLock(c) ==
  /\ client[c] = "stat" /\ ClientGoto(c, IF Aged THEN "unlink" ELSE "lock")
  /\ UNCHANGED <<daemon, endpoint, starting, existing, kills>>

\* By now it may be somebody else's new one.
UnlinkLock(c) ==
  /\ client[c] = "unlink" /\ ClientGoto(c, "lock") /\ starting' = NoFile
  /\ UNCHANGED <<daemon, endpoint, existing, kills>>

TakeLock(c) ==
  /\ client[c] = "lock"
  /\ IF starting = NoFile THEN starting' = c /\ ClientGoto(c, "spawn")
                          ELSE ClientGoto(c, "wait") /\ UNCHANGED starting
  /\ UNCHANGED <<daemon, endpoint, existing, kills>>

\* Bound: a daemon's name is free when nobody knows it any more.
Free == {d \in Daemons : daemon[d] = "none" /\ endpoint # d /\ \A c \in Clients : existing[c] # d}

Spawn(c) ==
  /\ client[c] = "spawn" /\ ClientGoto(c, "wait")
  /\ \/ \E d \in Free : daemon' = [daemon EXCEPT ![d] = "starting"]
     \/ Free = {} /\ UNCHANGED daemon
  /\ UNCHANGED <<endpoint, starting, existing, kills>>

\* For a second, an endpoint that is not the one it has asked; its answer, or none.
Wait(c) ==
  /\ client[c] = "wait" /\ ClientGoto(c, "release")
  /\ UNCHANGED <<daemon, endpoint, starting, existing, kills>>

\* The lock goes only if it is its own; what has no answer is asked cold.
Release(c) ==
  /\ client[c] = "release" /\ Leaves(c)
  /\ starting' = IF starting = c THEN NoFile ELSE starting
  /\ UNCHANGED <<daemon, endpoint, kills>>

Killed == kills < MaxKills /\ kills' = kills + 1

ClientKilled(c) ==
  /\ client[c] # "idle" /\ Killed /\ Leaves(c)
  /\ starting' = IF starting = c THEN "left" ELSE starting
  /\ UNCHANGED <<daemon, endpoint>>

\* No client lives for 15 seconds.
LockAges ==
  /\ starting = "left" /\ starting' = "old"
  /\ UNCHANGED <<daemon, endpoint, client, existing, kills>>

Client(c) == \/ LookUp(c) \/ Ask(c) \/ StatLock(c) \/ UnlinkLock(c) \/ TakeLock(c)
             \/ Spawn(c) \/ Wait(c) \/ Release(c)

(***************************************************************************)
(* A daemon.                                                               *)
(***************************************************************************)
DaemonGoto(d, at) == daemon' = [daemon EXCEPT ![d] = at]

Publish(d) ==
  /\ daemon[d] = "starting" /\ DaemonGoto(d, "serving") /\ endpoint' = d
  /\ UNCHANGED <<starting, client, existing, kills>>

NeverStarts(d) ==
  /\ daemon[d] = "starting" /\ Killed /\ DaemonGoto(d, "none")
  /\ UNCHANGED <<endpoint, starting, client, existing>>

Idle(d) ==
  /\ daemon[d] = "serving" /\ DaemonGoto(d, "ending")
  /\ UNCHANGED <<endpoint, starting, client, existing, kills>>

\* Nobody asks a daemon that no endpoint names.
Unasked(d) == endpoint # d /\ Idle(d)

\* A query that takes five seconds ends it at once; its endpoint stays.
Quits(d) ==
  /\ daemon[d] = "serving" /\ DaemonGoto(d, "none")
  /\ UNCHANGED <<endpoint, starting, client, existing, kills>>

ReadOwn(d) ==
  /\ daemon[d] = "ending" /\ DaemonGoto(d, IF endpoint = d THEN "unlink" ELSE "none")
  /\ UNCHANGED <<endpoint, starting, client, existing, kills>>

\* Whatever endpoint is there now.
UnlinkEndpoint(d) ==
  /\ daemon[d] = "unlink" /\ DaemonGoto(d, "none") /\ endpoint' = NoFile
  /\ UNCHANGED <<starting, client, existing, kills>>

Daemon(d) == Publish(d) \/ ReadOwn(d) \/ UnlinkEndpoint(d)

RecallStep == \/ \E c \in Clients : Prompt(c) \/ Client(c) \/ ClientKilled(c)
              \/ \E d \in Daemons : Daemon(d) \/ NeverStarts(d) \/ Idle(d) \/ Quits(d)
              \/ LockAges
=============================================================================
