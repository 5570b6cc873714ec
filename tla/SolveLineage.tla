----------------------------- MODULE SolveLineage -----------------------------
(* What a finished solve does to the results before it.  Jobs of one solve id  *)
(* are a lineage; when one of them reports its result, the less converged      *)
(* results of the lineage go, and the saved groups that held them move to the  *)
(* new one.  The owner edits groups and deletes jobs meanwhile.                *)
(*                                                                             *)
(* A handler is a sequence of database and storage calls, each an action: the  *)
(* API may die between any two.  How a job gets as far as its terminal report  *)
(* is CompareQueue's subject: here its upload, the checks of its report and    *)
(* the first save are one action.  All jobs and groups have one owner; jobs    *)
(* are push/fold solves, the only ones a group takes.                          *)
EXTENDS Integers, FiniteSets

CONSTANTS
  Jobs,       \* rows of the EngineCompareJobs table
  Ids,        \* solve ids
  Keys,       \* solve keys
  None,       \* a null SolveId, SolveKey or JobId
  Groups,     \* solve groups, of one member each
  Requests,   \* requests the API serves at a time: with one, none overlap
  MaxIters,   \* bound: iterations a result reaches
  MaxEdits,   \* bound: saves of a group
  MaxFaults   \* bound: deaths of the API

ASSUME BoundsAssumption == MaxIters \in Nat \ {0} /\ MaxEdits \in Nat /\ MaxFaults \in Nat
ASSUME NullAssumption == None \notin Ids \cup Keys \cup Jobs \cup Groups
ASSUME JobsAssumption == IsFiniteSet(Jobs)

NoIters == 0

VARIABLES
  row,      \* the EngineCompareJobs table; a row that is gone keeps its lineage, for the record
  blob,     \* the jobs whose result is in storage
  slot,     \* the SolveGroupMembers table: the member of each group
  call,     \* what the API serves
  asked,    \* history: the jobs whose owner has asked to delete them
  faults    \* deaths so far

vars == <<row, blob, slot, call, asked, faults>>

Results == {"Done", "Cancelled"}
Rows == [status: Results \cup {"open", "Failed", "gone"}, id: Ids \cup {None}, key: Keys \cup {None},
         iters: 0..MaxIters, stored: BOOLEAN, order: 0..Cardinality(Jobs), told: BOOLEAN]
Open == [status |-> "open", id |-> None, key |-> None, iters |-> NoIters, stored |-> FALSE,
         order |-> 0, told |-> FALSE]

\* An edit replaces a group's member by another row, of another number.
Members == [job: Jobs \cup {None}, edit: 0..MaxEdits]
Empty == [job |-> None, edit |-> 0]

Calls == [at: {"free", "supersede", "slots", "repoint", "blobs", "remove", "members"},
          job: Jobs \cup {None}, new: Rows, old: SUBSET Jobs, todo: SUBSET Jobs,
          held: SUBSET (Groups \X (0..MaxEdits)), group: Groups \cup {None}]
Free == [at |-> "free", job |-> None, new |-> Open, old |-> {}, todo |-> {}, held |-> {},
         group |-> None]

Init == /\ row = [j \in Jobs |-> Open]
        /\ blob = {}
        /\ slot = [g \in Groups |-> Empty]
        /\ call = [r \in Requests |-> Free]
        /\ asked = {}
        /\ faults = 0

Present(j) == row[j].status # "gone"
Goes(r, c) == call' = [call EXCEPT ![r] = c]

-----------------------------------------------------------------------------
(* The terminal report.                                                        *)

\* What a watcher reports: a result, with the identity its artifact carries if
\* that could be read, or the end of a job that has none.
Identified(s, id, key, iters) == [status |-> s, id |-> id, key |-> key, iters |-> iters, stored |-> TRUE,
                                  order |-> 0, told |-> TRUE]
Ended(s, stored) == [Open EXCEPT !.status = s, !.stored = stored]
WithIdentity ==
  {Identified(s, i, k, n) : s \in Results, i \in Ids, k \in Keys \cup {None}, n \in 1..MaxIters}
Endings == WithIdentity \cup {Ended(s, TRUE) : s \in Results}
                        \cup {Ended(s, FALSE) : s \in {"Cancelled", "Failed"}}

\* Mutation: every row counts.
FinishedAll == Jobs
Finished == {j \in Jobs : row[j].order > 0}

Supersedes(new) == new.id # None /\ new.iters # NoIters /\ new.status \in Results /\ new.stored

Report(r, j, ending) ==
  LET new == [ending EXCEPT !.order = Cardinality(Finished) + 1] IN
  /\ call[r] = Free /\ row[j].status = "open"
  /\ row' = [row EXCEPT ![j] = new]
  /\ blob' = IF new.stored THEN blob \cup {j} ELSE blob
  /\ Goes(r, IF Supersedes(new) THEN [Free EXCEPT !.at = "supersede", !.job = j, !.new = new] ELSE Free)
  /\ UNCHANGED <<slot, asked, faults>>

SameSpot(new, old) == old.id = new.id /\ (old.key = None \/ new.key = None \/ old.key = new.key)
\* Mutations: ties stay; the iterations are not compared.
ReplacesBelow(new, old) ==
  SameSpot(new, old) /\ old.iters # NoIters /\ old.iters < new.iters /\ old.status \in Results
ReplacesAny(new, old) == SameSpot(new, old) /\ old.status \in Results
\* The rows a result replaces: those of its lineage that got no further.
Replaces(new, old) ==
  SameSpot(new, old) /\ old.iters # NoIters /\ old.iters <= new.iters /\ old.status \in Results

SupersedeRead(r) ==
  LET c == call[r]  old == {j \in Jobs \ {c.job} : Replaces(c.new, row[j])} IN
  /\ c.at = "supersede"
  /\ Goes(r, IF old = {} THEN Free ELSE [c EXCEPT !.at = "slots", !.old = old, !.todo = old])
  /\ UNCHANGED <<row, blob, slot, asked, faults>>

\* Mutation: the slots are left to the job side's cascade.
HeldByNone(old) == {}
HeldBy(old) == {<<g, slot[g].edit>> : g \in {h \in Groups : slot[h].job \in old}}

SlotsRead(r) ==
  LET c == call[r]  held == HeldBy(c.old) IN
  /\ c.at = "slots"
  /\ Goes(r, [c EXCEPT !.at = IF held = {} THEN "blobs" ELSE "repoint", !.held = held])
  /\ UNCHANGED <<row, blob, slot, asked, faults>>

\* The members are moved by one save, which fails if one of them, or the row
\* they move to, has gone.
Repoint(r) ==
  LET c == call[r] IN
  /\ c.at = "repoint"
  /\ IF Present(c.job) /\ \A m \in c.held : slot[m[1]].job # None /\ slot[m[1]].edit = m[2]
       THEN /\ slot' = [g \in Groups |-> IF \E m \in c.held : m[1] = g
                                           THEN [slot[g] EXCEPT !.job = c.job] ELSE slot[g]]
            /\ Goes(r, [c EXCEPT !.at = "blobs"])
       ELSE Goes(r, Free) /\ UNCHANGED slot
  /\ UNCHANGED <<row, blob, asked, faults>>

\* Mutation: only a job that is Done has blobs.
PathsDone(j) == IF row[j].status = "Done" THEN {j} ELSE {}
\* The blobs a row points at.
Paths(j) == IF row[j].stored THEN {j} ELSE {}

\* The old rows' blobs, one row after another ...
DropBlobs(r) ==
  LET c == call[r] IN
  /\ c.at = "blobs"
  /\ \E j \in c.todo : /\ blob' = blob \ Paths(j)
                       /\ Goes(r, [c EXCEPT !.at = IF c.todo = {j} THEN "remove" ELSE @,
                                            !.todo = @ \ {j}])
  /\ UNCHANGED <<row, slot, asked, faults>>

\* ... then the rows, by one save, which takes the members that still hold them
\* along, and fails if a row has gone before.
Remove(r) ==
  LET old == call[r].old IN
  /\ call[r].at = "remove"
  /\ IF \A j \in old : Present(j)
       THEN /\ row' = [j \in Jobs |-> IF j \in old THEN [row[j] EXCEPT !.status = "gone"] ELSE row[j]]
            /\ slot' = [g \in Groups |-> IF slot[g].job \in old THEN [slot[g] EXCEPT !.job = None]
                                         ELSE slot[g]]
       ELSE UNCHANGED <<row, slot>>
  /\ Goes(r, Free)
  /\ UNCHANGED <<blob, asked, faults>>

-----------------------------------------------------------------------------
(* The owner.                                                                  *)

\* Delete: the same two steps for one finished job.
Delete(r, j) ==
  /\ call[r] = Free /\ row[j].status \in Results \cup {"Failed"}
  /\ asked' = asked \cup {j}
  /\ Goes(r, [Free EXCEPT !.at = "blobs", !.old = {j}, !.todo = {j}])
  /\ UNCHANGED <<row, blob, slot, faults>>

\* Create and Update of a group: its solve is looked up.  One page edits one
\* group at a time.  (Emptying a group stands for deleting it.)
EditRead(r, g, j) ==
  /\ call[r] = Free /\ slot[g].edit < MaxEdits /\ \A q \in Requests : call[q].group # g
  /\ j # None => Present(j)
  /\ Goes(r, [Free EXCEPT !.at = "members", !.group = g, !.job = j,
                          !.held = IF slot[g].job = None THEN {} ELSE {<<g, slot[g].edit>>}])
  /\ UNCHANGED <<row, blob, slot, asked, faults>>

\* The member it had is replaced, by one save that fails if that member or the
\* new one's job has gone.
EditSave(r) ==
  LET c == call[r] IN
  /\ c.at = "members"
  /\ IF (c.held # {} => slot[c.group].job # None) /\ (c.job # None => Present(c.job))
       THEN slot' = [slot EXCEPT ![c.group].job = c.job, ![c.group].edit = @ + 1]
       ELSE UNCHANGED slot
  /\ Goes(r, Free)
  /\ UNCHANGED <<row, blob, asked, faults>>

\* Identity: a page that opened a result fills in what its row lacks; nothing
\* is superseded.
Identity(j, id, key, iters) ==
  /\ row[j].stored /\ row[j].status \in Results
  /\ row' = [row EXCEPT ![j].id = IF @ = None THEN id ELSE @,
                        ![j].key = IF @ = None THEN key ELSE @,
                        ![j].iters = IF @ = NoIters THEN iters ELSE @]
  /\ row' # row
  /\ UNCHANGED <<blob, slot, call, asked, faults>>

\* The API dies serving a request.
Abort(r) ==
  /\ faults < MaxFaults /\ call[r] # Free
  /\ Goes(r, Free)
  /\ faults' = faults + 1
  /\ UNCHANGED <<row, blob, slot, asked>>

-----------------------------------------------------------------------------
Serve(r) == SupersedeRead(r) \/ SlotsRead(r) \/ Repoint(r) \/ DropBlobs(r) \/ Remove(r)
            \/ EditSave(r) \/ Abort(r)

Next == \/ \E r \in Requests :
             \/ Serve(r)
             \/ \E j \in Jobs : Delete(r, j) \/ \E ending \in Endings : Report(r, j, ending)
             \/ \E g \in Groups, j \in Jobs \cup {None} : EditRead(r, g, j)
        \/ \E j \in Jobs, id \in Ids, key \in Keys \cup {None}, iters \in 1..MaxIters :
             Identity(j, id, key, iters)

Spec == Init /\ [][Next]_vars

-----------------------------------------------------------------------------
(* Properties.                                                                 *)

\* Every variable keeps its type.
TypeOK == /\ row \in [Jobs -> Rows]
          /\ blob \subseteq Jobs
          /\ slot \in [Groups -> Members]
          /\ call \in [Requests -> Calls]
          /\ asked \subseteq Jobs
          /\ faults \in 0..MaxFaults

\* The groups follow the lineage.  A result is deleted from storage only when no
\* group holds it any more, wherever the API died before, and a member is never
\* lost to a newer result of its solve but moves to it.  Only the owner's deletion
\* of that very job, or an edit, empties a group.
GroupsFollow ==
  [][/\ \A j \in blob \ blob' : j \in asked \/ \A g \in Groups : slot[g].job # j
     /\ \A g \in Groups : slot[g].job # None /\ slot'[g].job = None =>
          slot[g].job \in asked \/ slot'[g].edit # slot[g].edit]_vars

\* A result that was superseded has a successor of its solve, at least as far
\* converged and stored, unless the owner has asked to delete the successor.
LineageKept ==
  \A j \in {i \in Jobs \ asked : ~Present(i)} :
    \E k \in Jobs \ {j} : /\ row[k].id = row[j].id /\ row[k].iters >= row[j].iters
                          /\ k \in asked \/ (Present(k) /\ k \in blob)

\* A lineage only moves forward: once a report has been served, no older result
\* stands beside it that got no further, of those both reported with their
\* identities, unless the API died before the old one was removed.
LineageForward ==
  faults = 0 /\ (\A r \in Requests : call[r] = Free) =>
    \A old, new \in Jobs :
      /\ Supersedes(row[new]) /\ row[new].told
      /\ row[old].told /\ row[old].status \in Results /\ row[old].order < row[new].order
      /\ SameSpot(row[new], row[old])
      => row[old].iters > row[new].iters

\* A row that is gone leaves nothing in storage, although the API may die
\* between the two deletions: the blobs go first.
NoBlobLeft == \A j \in blob : Present(j)

\* A report and a deletion leave nothing behind: no older result that got no
\* further, no blob without its row.
NothingBehind == LineageForward /\ NoBlobLeft
=============================================================================
