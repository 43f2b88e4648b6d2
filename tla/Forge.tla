------------------------------- MODULE Forge -------------------------------
(***************************************************************************)
(* Evidence read from a forge (forge_evidence.py): observe lists what was  *)
(* posted on the commit a pull request or ref names, page by page, newest  *)
(* first; attest.py records a green or red pointer to it, and checks the   *)
(* citation of the pointer by observing again.                             *)
(*                                                                         *)
(* Meanwhile anyone posts commit statuses, check runs begin and complete,  *)
(* and the target moves and comes back.  A page holds one row.  Pipelines, *)
(* identities, and the files a green must cover are left out: they only    *)
(* refuse, as every answer of the forge may.                               *)
(***************************************************************************)
EXTENDS Naturals, Sequences, FiniteSets, SequencesExt

CONSTANTS Heads,      \* commits
          Contexts,   \* the names the manifest requires
          MaxPosts    \* bound: rows that are posted
ASSUME ForgeAssumption == Heads # {} /\ MaxPosts \in Nat

Kinds == {"status", "check"}
PostStates == {"pending", "success", "failure"}
\* A row is pinned if the manifest names who posted it.
Post == [name : Contexts, state : PostStates, pinned : BOOLEAN]

VARIABLES
  posts,    \* commit -> kind -> its rows, the oldest first
  tip,      \* the commit the target names
  observer, \* the observation under way
  pointer,  \* the row of attest.jsonl
  cited     \* the status of its citation

forgeVars == <<posts, tip, observer, pointer, cited>>

Idle == [at |-> "idle", sha |-> "none", page |-> 1, total |-> 0, seen |-> <<>>,
         verdict |-> "none", stood |-> <<>>]
NoPointer == [sha |-> "none", exit |-> "none"]

ForgeTypeOK ==
  /\ posts \in [Heads -> [Kinds -> Seq(Post)]] /\ tip \in Heads
  /\ observer.at \in {"idle", "statuses", "checks", "confirm"}
  /\ observer.verdict \in {"none", "green", "red"}
  /\ observer.sha \in Heads \cup {"none"} /\ observer.total \in 0 .. MaxPosts
  /\ observer.page \in 1 .. 2 * MaxPosts + 1
  /\ \A k \in DOMAIN observer.seen : observer.seen[k].kind \in Kinds /\ observer.seen[k].row \in Post
  /\ pointer \in [sha : Heads \cup {"none"}, exit : {"none", "green", "red"}]
  /\ cited \in {"none", "ATTESTED", "MISMATCH"}

ForgeInit ==
  /\ posts = [c \in Heads |-> [k \in Kinds |-> <<>>]]
  /\ tip = CHOOSE c \in Heads : TRUE
  /\ observer = Idle /\ pointer = NoPointer /\ cited = "none"

(***************************************************************************)
(* The forge.  A status is never changed; a check run is posted pending    *)
(* and completes in place.                                                 *)
(***************************************************************************)
Posted == MapThenSumSet(LAMBDA p : Len(posts[p[1]][p[2]]), Heads \X Kinds)

PostRow(c, k) ==
  /\ Posted < MaxPosts /\ cited = "none"
  /\ \E row \in Post :
       /\ IF k = "check" THEN row.state = "pending" ELSE row.pinned \/ row.state # "pending"
       /\ posts' = [posts EXCEPT ![c][k] = Append(@, row)]
  /\ UNCHANGED <<tip, observer, pointer, cited>>

CompleteRun(c) ==
  /\ cited = "none"
  /\ \E i \in DOMAIN posts[c]["check"], s \in {"success", "failure"} :
       /\ posts[c]["check"][i].state = "pending"
       /\ posts' = [posts EXCEPT ![c]["check"][i].state = s]
  /\ UNCHANGED <<tip, observer, pointer, cited>>

MoveTip == cited = "none" /\ tip' \in Heads \ {tip} /\ UNCHANGED <<posts, observer, pointer, cited>>

(***************************************************************************)
(* observe.                                                                *)
(***************************************************************************)
\* An observation that is refused, or has no verdict: attest_ci records nothing
\* (and looks again while it waits), a citation does not stand.
Refused == observer' = Idle /\ cited' = IF pointer = NoPointer THEN "none" ELSE "MISMATCH"

ReadTarget ==
  /\ observer.at = "idle" /\ cited = "none"
  /\ observer' = [Idle EXCEPT !.at = "statuses", !.sha = tip, !.stood = posts[tip]]
  /\ UNCHANGED <<posts, tip, pointer, cited>>

Listing(k) == posts[observer.sha][k]
\* The row on the page that is asked for, as an item of the listing.
Item(k) == LET i == Len(Listing(k)) + 1 - observer.page
           IN [kind |-> k, id |-> i, row |-> Listing(k)[i]]
OnPage(k) == observer.page <= Len(Listing(k))
Turned == [observer EXCEPT !.page = @ + 1]

ListStatuses ==
  /\ observer.at = "statuses"
  /\ observer' = IF OnPage("status") THEN [Turned EXCEPT !.seen = Append(@, Item("status"))]
                 ELSE [observer EXCEPT !.at = "checks", !.page = 1]
  /\ UNCHANGED <<posts, tip, pointer, cited>>

\* Check runs come with their number, which must not change between two pages.
Expected == IF observer.page = 1 THEN Len(Listing("check")) ELSE observer.total
\* Variant: a page that is not the last one is taken for the last.
EnoughSoon(n) == n + 1 >= Expected
Enough(n) == n >= Expected

(***************************************************************************)
(* contexts and verdict, when the last page is there.                      *)
(***************************************************************************)
\* "duplicate GitHub row across pages"
Duplicate(seen) == \E k, l \in DOMAIN seen :
  k # l /\ seen[k].kind = seen[l].kind /\ seen[k].id = seen[l].id

Pinned(seen, name) == {i \in ToSet(seen) : i.row.pinned /\ i.row.name = name}
Newest(seen, name) ==
  {i \in Pinned(seen, name) : \A j \in Pinned(seen, name) : j.kind = i.kind => j.id <= i.id}

\* A failure of anyone stands; a success takes a pinned identity whose last word, in
\* each kind it spoke in, is success.
ContextState(seen, name) ==
  IF \E i \in ToSet(seen) : i.row.name = name /\ i.row.state = "failure" THEN "failure"
  ELSE IF Newest(seen, name) # {} /\ \A i \in Newest(seen, name) : i.row.state = "success" THEN "success"
  ELSE "pending"

Verdict(seen) ==
  LET states == {ContextState(seen, n) : n \in Contexts}
  IN IF "failure" \in states THEN "red" ELSE IF "pending" \in states THEN "none" ELSE "green"

\* Without a verdict the target is read in vain.
Examined(seen) ==
  IF Duplicate(seen) \/ Verdict(seen) = "none" THEN Refused
  ELSE /\ observer' = [Idle EXCEPT !.at = "confirm", !.sha = observer.sha, !.stood = observer.stood,
                                   !.verdict = Verdict(seen)]
       /\ UNCHANGED cited

ListChecks ==
  LET seen == IF OnPage("check") THEN Append(observer.seen, Item("check")) ELSE observer.seen
  IN /\ observer.at = "checks" /\ UNCHANGED <<posts, tip, pointer>>
     /\ IF Len(Listing("check")) # Expected THEN Refused
        ELSE IF Enough(observer.page) THEN Examined(seen)
        ELSE observer' = [Turned EXCEPT !.total = Expected, !.seen = seen] /\ UNCHANGED cited

\* The target is read again; then attest_ci appends its row, or _check_cited
\* compares what it read with the row that is cited.
Confirm ==
  /\ observer.at = "confirm"
  /\ IF tip # observer.sha THEN Refused /\ UNCHANGED pointer
     ELSE /\ observer' = Idle
          /\ IF pointer = NoPointer
             THEN pointer' = [sha |-> tip, exit |-> observer.verdict] /\ UNCHANGED cited
             ELSE /\ cited' = IF pointer = [sha |-> tip, exit |-> observer.verdict] THEN "ATTESTED" ELSE "MISMATCH"
                  /\ UNCHANGED pointer
  /\ UNCHANGED <<posts, tip>>

Fails == observer.at # "idle" /\ Refused /\ UNCHANGED <<posts, tip, pointer>>

ForgeStep ==
  \/ \E c \in Heads : CompleteRun(c) \/ \E k \in Kinds : PostRow(c, k)
  \/ MoveTip \/ ReadTarget \/ ListStatuses \/ ListChecks \/ Confirm \/ Fails

(***************************************************************************)
(* Properties.                                                             *)
(***************************************************************************)
\* No one's failure stood on the commit when its listing began, and whoever is
\* pinned for a name has success as the last word, or had it after that.
Clear(stood, now) ==
  \A n \in Contexts :
    /\ \A k \in Kinds, i \in 1 .. MaxPosts :
         i \in DOMAIN stood[k] /\ stood[k][i].name = n => stood[k][i].state # "failure"
    /\ \E k \in Kinds : \E i \in DOMAIN now[k] :
         now[k][i].name = n /\ now[k][i].pinned /\ now[k][i].state = "success"
    /\ \A k \in Kinds : \A i \in DOMAIN stood[k] :
         stood[k][i].name = n /\ stood[k][i].pinned =>
           \E j \in i .. Len(now[k]) :
             now[k][j].name = n /\ now[k][j].pinned /\ now[k][j].state = "success"

\* "API failures and incomplete/malformed listings are undecided, never green",
\* "Every citation re-reads all of its facts": a green pointer is recorded, and a
\* citation of it stands, only on what was clear when that very observation began,
\* whatever is posted, completes or moves while the pages are turned.
GreenStands ==
  [][/\ pointer'.exit = "green"
     /\ pointer' # pointer \/ (cited' = "ATTESTED" /\ cited # "ATTESTED")
     => Clear(observer.stood, posts[observer.sha])]_forgeVars
=============================================================================
