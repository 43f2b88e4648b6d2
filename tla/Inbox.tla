------------------------------- MODULE Inbox -------------------------------
(***************************************************************************)
(* inbox.py: an append-only file, no lock.  add reads the rows, and        *)
(* appends one unless the item is open; resolve copies the newest row of   *)
(* the item and appends it as resolved.  Of the file only the newest row   *)
(* of every item counts: the items it leaves open are all that is kept.    *)
(*                                                                         *)
(* One runner of the system raises items ("runner"), another one may raise *)
(* the same ones ("other"), and a person resolves what is there.           *)
(***************************************************************************)
EXTENDS Naturals

CONSTANTS Items, NoItem
ASSUME InboxAssumption == NoItem \notin Items

Writers == {"runner", "other"}

VARIABLES
  open,    \* open_items: those whose newest row is not resolved
  adding,  \* writer -> the add it is in, or has ended
  person,  \* the item a resolve has read the rows of
  shown    \* history: writer -> its item was open at some time since it raised it

inboxVars == <<open, adding, person, shown>>

NoAdd == [id |-> NoItem, at |-> "none"]

InboxTypeOK ==
  /\ open \subseteq Items
  /\ adding \in [Writers -> [id : Items \cup {NoItem},
                             at : {"none", "read", "append", "done", "failed"}]]
  /\ person \in Items \cup {NoItem} /\ shown \in [Writers -> BOOLEAN]

InboxInit ==
  /\ open = {} /\ adding = [w \in Writers |-> NoAdd] /\ person = NoItem
  /\ shown = [w \in Writers |-> FALSE]

\* The call of add.
Raise(w, i) ==
  /\ adding' = [adding EXCEPT ![w] = [id |-> i, at |-> "read"]]
  /\ shown' = [shown EXCEPT ![w] = i \in open]
  /\ UNCHANGED <<open, person>>

Raising(w) == adding[w].at \in {"read", "append"}

\* The caller has the answer; nothing is kept of the call.
Returned(w) == adding' = [adding EXCEPT ![w] = NoAdd] /\ shown' = [shown EXCEPT ![w] = FALSE]

\* Variant: an item that somebody else is raising is as good as open.
OpenOrComing(i) == i \in open \/ \A w \in Writers : adding[w].id = i
AlreadyOpen(i) == i \in open

ReadRows(w) ==
  /\ adding[w].at = "read"
  /\ adding' = [adding EXCEPT ![w].at = IF AlreadyOpen(adding[w].id) THEN "done" ELSE "append"]
  /\ UNCHANGED <<open, person, shown>>

AppendRow(w) ==
  LET i == adding[w].id IN
  /\ adding[w].at = "append"
  /\ open' = open \cup {i}
  /\ adding' = [adding EXCEPT ![w].at = "done"]
  /\ shown' = [v \in Writers |-> shown[v] \/ adding[v].id = i]
  /\ UNCHANGED person

\* The file cannot be read or written; most callers go on.
AddFails(w) ==
  /\ Raising(w) /\ adding' = [adding EXCEPT ![w].at = "failed"]
  /\ UNCHANGED <<open, person, shown>>

\* Another runner, at the same time and about the same thing.
OtherRaises ==
  /\ Raising("runner") /\ adding["other"].at = "none"
  /\ Raise("other", adding["runner"].id)

ReadToResolve ==
  /\ person = NoItem
  /\ person' \in open
  /\ UNCHANGED <<open, adding, shown>>

Resolve ==
  /\ person # NoItem
  /\ open' = open \ {person} /\ person' = NoItem
  /\ UNCHANGED <<adding, shown>>

\* Bound: a resolve in one step, where there is nobody to come in between.
ResolveAtOnce == \E i \in open : open' = open \ {i} /\ UNCHANGED <<adding, person, shown>>

Add(w) == ReadRows(w) \/ AppendRow(w) \/ AddFails(w)
InboxStep == (\E w \in Writers : Add(w)) \/ OtherRaises \/ ReadToResolve \/ Resolve

Told(w, i) == adding[w] = [id |-> i, at |-> "done"] /\ shown[w]
NotTold(w, i) == adding[w] = [id |-> i, at |-> "failed"]
=============================================================================
