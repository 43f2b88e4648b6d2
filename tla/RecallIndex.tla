---------------------------- MODULE RecallIndex ----------------------------
(***************************************************************************)
(* The recall index (recall.py): build compiles the stores of a repository *)
(* into one slot and the notes of its owner into a slot that checkouts     *)
(* share, three files each, under a lock; a search reads the six files     *)
(* without one.                                                            *)
(*                                                                         *)
(* What a slot is compiled from has a version, and its fingerprint is that *)
(* version.  The generation of a compilation is the fingerprint with what  *)
(* was read; a file is its generation, whose size and time meta.json has.  *)
(* Vectors, ranking and a file that does not parse are left out.           *)
(***************************************************************************)
EXTENDS Naturals, FiniteSets

CONSTANTS Searchers, Nobody,
          MaxVersion    \* bound: changes of the stores and of the notes, together
ASSUME RecallIndexAssumption == Nobody \notin Searchers /\ MaxVersion \in Nat

Slots == {"stores", "notes"}
Versions == 0 .. MaxVersion
Generation == [fp : Versions, content : Versions]
Absent == [fp |-> MaxVersion + 1, content |-> MaxVersion + 1]
VARIABLES
  version,  \* slot -> the version of what it is compiled from
  files,    \* slot -> the generations of its graph.json, lex.json and meta.json
  lock,     \* slot -> who builds it
  task      \* process -> what it is at

indexVars == <<version, files, lock, task>>

NoTask == [op |-> "none", at |-> "idle", slot |-> "stores", seen |-> Absent, fp |-> 0, content |-> 0,
           got |-> [s \in Slots |-> [graph |-> Absent, lex |-> Absent]],
           lags |-> FALSE, again |-> FALSE, since |-> [s \in Slots |-> 0]]

Steps == {"idle", "meta", "compare", "lock", "fingerprint", "sources", "graph", "lex", "publish",
          "readGraph", "readLex", "readMeta", "answer"}

IndexTypeOK ==
  /\ version \in [Slots -> Versions] /\ lock \in [Slots -> Searchers \cup {Nobody}]
  /\ files \in [Slots -> [graph : Generation \cup {Absent}, lex : Generation \cup {Absent},
                         meta : Generation \cup {Absent}]]
  /\ \A p \in Searchers : /\ task[p].op \in {"none", "build", "search", "hook"} /\ task[p].at \in Steps
                          /\ task[p].slot \in Slots /\ {task[p].fp, task[p].content} \subseteq Versions
                          /\ task[p].seen \in Generation \cup {Absent} /\ task[p].since \in [Slots -> Versions]

IndexInit ==
  /\ version = [s \in Slots |-> 0] /\ lock = [s \in Slots |-> Nobody]
  /\ files = [s \in Slots |-> [graph |-> Absent, lex |-> Absent, meta |-> Absent]]
  /\ task = [p \in Searchers |-> NoTask]

Does(p, t) == task' = [task EXCEPT ![p] = t]
At(p, a) == task[p].at = a
Move(p, a) == Does(p, [task[p] EXCEPT !.at = a])

\* A lesson is filed, a run recorded, a note written.
Change(s) == /\ version["stores"] + version["notes"] < MaxVersion /\ version' = [version EXCEPT ![s] = @ + 1]
             /\ UNCHANGED <<files, lock, task>>

Begin(p) ==
  /\ At(p, "idle")
  /\ \E op \in {"build", "search", "hook"} :
       Does(p, IF op = "build" THEN [NoTask EXCEPT !.op = op, !.at = "lock"]
               ELSE [NoTask EXCEPT !.op = op, !.since = version, !.at = "meta"])
  /\ UNCHANGED <<version, files, lock>>

(***************************************************************************)
(* is_stale: the fingerprint that meta.json carries against that of the    *)
(* sources, the files against those it names; first the stores, then the   *)
(* notes.                                                                  *)
(***************************************************************************)
Stale(s, meta) == meta.fp # version[s] \/ {files[s].graph, files[s].lex} # {meta}

ReadMetaFile(p) ==
  /\ At(p, "meta")
  /\ Does(p, [task[p] EXCEPT !.seen = files[task[p].slot].meta, !.at = "compare"])
  /\ UNCHANGED <<version, files, lock>>

Compare(p) ==
  LET t == [task[p] EXCEPT !.seen = Absent] read == [t EXCEPT !.slot = "stores", !.at = "readGraph"]
  IN /\ At(p, "compare")
     /\ Does(p, IF Stale(t.slot, task[p].seen)
                THEN IF t.op = "search" THEN [t EXCEPT !.slot = "stores", !.at = "lock"]
                     ELSE [read EXCEPT !.lags = TRUE, !.since = NoTask.since]
                ELSE IF t.slot = "stores" THEN [t EXCEPT !.slot = "notes", !.at = "meta"]
                ELSE read)
     /\ UNCHANGED <<version, files, lock>>

(***************************************************************************)
(* build: the fingerprint is taken before the sources are read; each file  *)
(* is replaced at once, meta.json last.  Notes that are not stale stay.    *)
(***************************************************************************)
TakeLock(p) ==
  LET s == task[p].slot
  IN /\ At(p, "lock") /\ lock[s] = Nobody /\ lock' = [lock EXCEPT ![s] = p]
     /\ Move(p, "fingerprint") /\ UNCHANGED <<version, files>>

\* The slot is done: the notes come after the stores, then what the build was for.
\* A second build for one search leaves the search no right to a third.
Release(p) ==
  LET t == [task[p] EXCEPT !.fp = 0, !.content = 0]
  IN /\ lock' = [lock EXCEPT ![t.slot] = Nobody]
     /\ Does(p, IF t.slot = "stores" THEN [t EXCEPT !.slot = "notes", !.at = "lock"]
                ELSE IF t.op = "build" THEN NoTask
                ELSE IF t.again THEN [t EXCEPT !.slot = "stores", !.op = "hook", !.at = "meta"]
                ELSE [t EXCEPT !.slot = "stores", !.at = "readGraph"])

Fingerprint(p) ==
  LET t == task[p]
  IN /\ At(p, "fingerprint")
     /\ IF t.slot = "notes" /\ ~Stale("notes", files["notes"].meta)
        THEN Release(p)
        ELSE Does(p, [t EXCEPT !.fp = version[t.slot], !.at = "sources"]) /\ UNCHANGED lock
     /\ UNCHANGED <<version, files>>

ReadSources(p) ==
  /\ At(p, "sources")
  /\ Does(p, [task[p] EXCEPT !.content = version[task[p].slot], !.at = "graph"])
  /\ UNCHANGED <<version, files, lock>>

\* Variant: the fingerprint is taken when the files are written.
BuiltLate(p) == [fp |-> version[task[p].slot], content |-> task[p].content]
Built(p) == [fp |-> task[p].fp, content |-> task[p].content]

WriteGraph(p) ==
  /\ At(p, "graph") /\ files' = [files EXCEPT ![task[p].slot].graph = Built(p)]
  /\ Move(p, "lex") /\ UNCHANGED <<version, lock>>

WriteLex(p) ==
  /\ At(p, "lex") /\ files' = [files EXCEPT ![task[p].slot].lex = Built(p)]
  /\ Move(p, "publish") /\ UNCHANGED <<version, lock>>

Publish(p) ==
  LET s == task[p].slot
  IN /\ At(p, "publish")
     /\ files' = [files EXCEPT ![s].meta = Built(p)]
     /\ Release(p) /\ UNCHANGED version

(***************************************************************************)
(* ensure_index and _shared_index: the files one by one, and whether they  *)
(* are of one generation.                                                  *)
(***************************************************************************)
\* No answer: the caller is told that a rebuild is pending.
Nothing(p) == Does(p, NoTask)

ReadGraph(p) ==
  LET t == task[p]
  IN /\ At(p, "readGraph")
     /\ Does(p, [t EXCEPT !.got[t.slot].graph = files[t.slot].graph, !.at = "readLex"])
     /\ UNCHANGED <<version, files, lock>>

\* A hook has nothing to do with a file that is missing, nor with the notes'; a
\* search builds the stores' again.
ReadLex(p) ==
  LET t == task[p] lex == files[t.slot].lex
  IN /\ At(p, "readLex")
     /\ IF Absent \notin {t.got[t.slot].graph, lex}
        THEN Does(p, [t EXCEPT !.got[t.slot].lex = lex, !.at = "readMeta"])
        ELSE IF t.op = "search" /\ t.slot = "stores"
        THEN Does(p, [t EXCEPT !.got = NoTask.got, !.at = "lock"])
        ELSE Nothing(p)
     /\ UNCHANGED <<version, files, lock>>

OneGeneration(g, meta) == g.graph = g.lex /\ g.graph = meta

ReadMeta(p) ==
  LET t == task[p]
  IN /\ At(p, "readMeta")
     /\ IF OneGeneration(t.got[t.slot], files[t.slot].meta)
        THEN Does(p, IF t.slot = "stores" THEN [t EXCEPT !.slot = "notes", !.at = "readGraph"]
                     ELSE [t EXCEPT !.at = "answer"])
        ELSE IF t.op = "search" /\ t.slot = "stores"
        THEN Does(p, [t EXCEPT !.again = TRUE, !.got = NoTask.got, !.at = "lock"])
        ELSE Nothing(p)
     /\ UNCHANGED <<version, files, lock>>

Answer(p) == At(p, "answer") /\ Nothing(p) /\ UNCHANGED <<version, files, lock>>

\* The system frees the lock of a process that is killed.
Die(p) ==
  /\ ~At(p, "idle") /\ Nothing(p)
  /\ lock' = [s \in Slots |-> IF lock[s] = p THEN Nobody ELSE lock[s]]
  /\ UNCHANGED <<version, files>>

IndexStep ==
  \/ \E s \in Slots : Change(s)
  \/ \E p \in Searchers :
       \/ Begin(p) \/ ReadMetaFile(p) \/ Compare(p) \/ TakeLock(p) \/ Fingerprint(p) \/ ReadSources(p)
       \/ WriteGraph(p) \/ WriteLex(p) \/ Publish(p) \/ ReadGraph(p) \/ ReadLex(p) \/ ReadMeta(p)
       \/ Answer(p) \/ Die(p)

(***************************************************************************)
(* Properties.                                                             *)
(***************************************************************************)
\* "Fresh graph+lex where allowed, stale-but-named where not": whoever builds, dies
\* half way or files something meanwhile, an answer rests on a graph and a lexicon
\* of one compilation, and unless it says that the index lags, on everything that
\* was filed and written when the question was asked.
AnswerIsWhole ==
  \A p \in Searchers : At(p, "answer") =>
    \A s \in Slots : LET g == task[p].got[s]
                     IN /\ g.graph = g.lex
                        /\ ~task[p].lags => g.graph.content >= task[p].since[s]
=============================================================================
