-------------------------- MODULE SolveLineageProofs --------------------------
(* For any number of jobs, groups, iterations, edits and faults: the types of  *)
(* SolveLineage and that no row leaves its result in storage behind, whatever  *)
(* the requests that overlap; and, of requests served one at a time, that a    *)
(* lineage is kept, moves forward and takes the groups with it.                *)
EXTENDS SolveLineage, FiniteSetTheorems, TLAPS

-----------------------------------------------------------------------------
(* The inductive invariant.                                                    *)

Busy == {"slots", "repoint", "blobs", "remove"}

\* A row is open, as it was made, or finished; what a row that has gone held is
\* out of storage.
RowsSound == \A j \in Jobs :
  /\ row[j].status = "open" => row[j] = Open
  /\ row[j].status # "open" => row[j].order > 0
  /\ row[j].order <= Cardinality(Finished)
  /\ j \in blob => row[j].stored /\ Present(j)
  /\ j \in asked => row[j].status # "open"
  /\ row[j].told => row[j].id # None /\ row[j].iters # NoIters

\* A deletion is of finished jobs, and at their rows their blobs have gone.
CallsSound == \A r \in Requests :
  /\ call[r].at \in Busy => \A j \in call[r].old : row[j].status # "open"
  /\ call[r].at = "blobs" => call[r].todo \subseteq call[r].old
  /\ call[r].at \in {"slots", "repoint"} => call[r].todo = call[r].old
  /\ call[r].at \in {"blobs", "remove"} =>
       \A j \in call[r].old : (call[r].at = "blobs" /\ j \in call[r].todo) \/ j \notin blob
  /\ call[r].at \in {"blobs", "remove"} /\ call[r].job = None => call[r].old \subseteq asked
  /\ call[r].at \in {"supersede", "slots", "repoint"} => call[r].job # None

\* One page edits a group at a time, which may still be edited.
EditsApart == \A r \in Requests :
  /\ call[r].at = "members" => call[r].group \in Groups /\ slot[call[r].group].edit < MaxEdits
  /\ call[r].at # "members" => call[r].group = None
  /\ \A q \in Requests \ {r} : call[q].group = call[r].group => call[r].group = None

TypeInv == TypeOK /\ RowsSound /\ CallsSound /\ EditsApart

Replacing(r) == call[r].at \in Busy \cup {"supersede"} /\ call[r].job # None

\* One request at a time, the result that is replacing others stays what it was
\* reported as,
NewStays == \A r \in Requests : LET c == call[r] IN
  Replacing(r) =>
    /\ Supersedes(c.new) /\ c.job \in blob
    /\ row[c.job].status \in Results /\ row[c.job].id = c.new.id /\ row[c.job].iters = c.new.iters
    /\ c.new.key \in {None, row[c.job].key}

\* those it replaces are the ones it must,
OldStay == \A r \in Requests : LET c == call[r] IN
  Replacing(r) /\ c.at # "supersede" =>
    /\ c.job \notin c.old
    /\ \A j \in c.old : /\ row[j].status \in Results /\ row[j].id = c.new.id
                        /\ row[j].iters # NoIters /\ row[j].iters <= c.new.iters
    /\ \A j \in Jobs \ {c.job} : row[j].told /\ Replaces(c.new, row[j]) => j \in c.old

\* and the groups that hold these are known, then moved.
GroupsMove == \A r \in Requests : LET c == call[r] IN
  /\ c.at = "repoint" =>
       /\ \A g \in Groups : slot[g].job \in c.old => <<g, slot[g].edit>> \in c.held
       /\ \A m \in c.held : slot[m[1]].job # None /\ slot[m[1]].edit = m[2]
  /\ Replacing(r) /\ c.at \in {"blobs", "remove"} => \A g \in Groups : slot[g].job \notin c.old

\* What was superseded had an identity.
GoneKnown == \A j \in Jobs \ asked : ~Present(j) => row[j].id # None /\ row[j].iters # NoIters

\* Beside a result whose report is served no older one stands that got no further.
Stands(old, new) == /\ row[old].told /\ row[old].status \in Results
                    /\ row[old].order < row[new].order /\ SameSpot(row[new], row[old])
Forward(new) == Supersedes(row[new]) /\ row[new].told =>
                  \A old \in Jobs : Stands(old, new) => row[old].iters > row[new].iters
Served == faults = 0 =>
  \A new \in Jobs : (\A r \in Requests : Replacing(r) => call[r].job # new) => Forward(new)

SerialInv == /\ TypeInv /\ NewStays /\ OldStay /\ GroupsMove /\ GoneKnown
             /\ LineageKept /\ Served

-----------------------------------------------------------------------------
(* The types, and what needs no more than them.                                *)

\* What a request becomes.
LEMMA GoesTo ==
  ASSUME call \in [Requests -> Calls], NEW r \in Requests, NEW c \in Calls, Goes(r, c)
  PROVE  /\ call' \in [Requests -> Calls] /\ call'[r] = c
         /\ \A q \in Requests \ {r} : call'[q] = call[q]
  BY DEF Goes

LEMMA Constants ==
  /\ MaxIters \in Nat /\ MaxEdits \in Nat /\ MaxFaults \in Nat /\ IsFiniteSet(Jobs)
  /\ Cardinality(Jobs) \in Nat /\ Open \in Rows /\ Free \in Calls /\ Empty \in Members
  <1>1. /\ MaxIters \in Nat /\ MaxEdits \in Nat /\ MaxFaults \in Nat /\ IsFiniteSet(Jobs)
        /\ Cardinality(Jobs) \in Nat
    BY BoundsAssumption, JobsAssumption, FS_CardinalityType
  <1>2. Open \in Rows /\ Empty \in Members
    BY <1>1 DEF Open, Rows, NoIters, Empty, Members
  <1>3. Free \in Calls
    BY <1>2 DEF Free, Calls
  <1> QED
    BY <1>1, <1>2, <1>3

\* What a watcher reports is a finished row; with iterations it has an identity.
LEMMA EndingType ==
  ASSUME NEW e \in Endings
  PROVE  /\ e \in Rows /\ e.status \in Results \cup {"Failed"}
         /\ e.told => e.id # None /\ e.iters # NoIters
         /\ ~e.told => e.id = None
  <1>1. Open \in Rows /\ MaxIters \in Nat /\ 0 \in 0..Cardinality(Jobs)
    BY Constants
  <1>2. ASSUME NEW s \in Results, NEW i \in Ids, NEW k \in Keys \cup {None}, NEW n \in 1..MaxIters,
               e = Identified(s, i, k, n)
        PROVE  /\ e \in Rows /\ e.status \in Results /\ e.told /\ e.id # None /\ e.iters # NoIters
    <2>1. n \in 0..MaxIters /\ n # 0
      BY <1>1
    <2> QED
      BY <1>1, <1>2, <2>1, NullAssumption DEF Identified, Rows, NoIters
  <1>3. ASSUME NEW s \in Results \cup {"Failed"}, NEW b \in BOOLEAN, e = Ended(s, b)
        PROVE  e \in Rows /\ e.status = s /\ ~e.told /\ e.id = None
    <2>1. e = [status |-> s, id |-> None, key |-> None, iters |-> NoIters, stored |-> b,
               order |-> 0, told |-> FALSE]
      BY <1>3 DEF Ended, Open
    <2> QED
      BY <1>1, <2>1 DEF Rows, NoIters
  <1>4. {"Cancelled", "Failed"} \subseteq Results \cup {"Failed"}
    BY DEF Results
  <1>5. \/ \E s \in Results, i \in Ids, k \in Keys \cup {None}, n \in 1..MaxIters :
               e = Identified(s, i, k, n)
        \/ \E s \in Results \cup {"Failed"}, b \in BOOLEAN : e = Ended(s, b)
    <2>1. e \in WithIdentity => \E s \in Results, i \in Ids, k \in Keys \cup {None}, n \in 1..MaxIters :
                                   e = Identified(s, i, k, n)
      BY DEF WithIdentity
    <2>2. e \in Endings \ WithIdentity => \E s \in Results \cup {"Failed"}, b \in BOOLEAN : e = Ended(s, b)
      BY <1>4 DEF Endings
    <2> QED
      BY <2>1, <2>2
  <1> QED
    BY <1>2, <1>3, <1>5

\* The finished jobs are counted.
LEMMA Counted ==
  ASSUME TypeOK
  PROVE  /\ IsFiniteSet(Finished) /\ Cardinality(Finished) \in Nat
         /\ \A j \in Jobs \ Finished : /\ Cardinality(Finished \cup {j}) = Cardinality(Finished) + 1
                                       /\ Cardinality(Finished) + 1 <= Cardinality(Jobs)
  <1>1. Finished \in SUBSET Jobs /\ IsFiniteSet(Finished) /\ Cardinality(Finished) \in Nat
    BY Constants, FS_Subset, FS_CardinalityType DEF Finished
  <1>2. ASSUME NEW j \in Jobs \ Finished
        PROVE  /\ Cardinality(Finished \cup {j}) = Cardinality(Finished) + 1
               /\ Cardinality(Finished) + 1 <= Cardinality(Jobs)
    <2>1. Cardinality(Finished \cup {j}) = Cardinality(Finished) + 1
      BY <1>1, FS_AddElement
    <2>2. Finished \cup {j} \in SUBSET Jobs
      BY <1>1
    <2>3. Cardinality(Finished \cup {j}) <= Cardinality(Jobs)
      BY <2>2, Constants, FS_Subset
    <2> QED
      BY <2>1, <2>3
  <1> QED
    BY <1>1, <1>2

\* Rows that keep their places leave the count alone.
LEMMA SameCount ==
  ASSUME \A j \in Jobs : row'[j].order = row[j].order
  PROVE  Finished' = Finished
  BY DEF Finished

\* A job reports: its row is the last to finish.
LEMMA Reported ==
  ASSUME TypeInv, NEW r \in Requests, NEW j \in Jobs, NEW e \in Endings, Report(r, j, e)
  PROVE  LET new == [e EXCEPT !.order = Cardinality(Finished) + 1] IN
         /\ new \in Rows /\ row' \in [Jobs -> Rows] /\ row'[j] = new
         /\ new.status \in Results \cup {"Failed"} /\ new.order = Cardinality(Finished) + 1
         /\ new.told => new.id # None /\ new.iters # NoIters
         /\ ~new.told => new.id = None
         /\ \A i \in Jobs \ {j} : row'[i] = row[i]
         /\ row[j] = Open /\ j \notin blob /\ j \notin asked
         /\ Cardinality(Finished)' = Cardinality(Finished) + 1
  <1> DEFINE new == [e EXCEPT !.order = Cardinality(Finished) + 1]
  <1>1. e \in Rows /\ row \in [Jobs -> Rows] /\ row[j] = Open /\ j \notin blob /\ j \notin asked
    BY EndingType DEF TypeInv, TypeOK, RowsSound, Report, Open
  <1>2. j \in Jobs \ Finished
    BY <1>1 DEF Finished, Open
  <1>3. /\ Cardinality(Finished) \in Nat /\ Cardinality(Finished \cup {j}) = Cardinality(Finished) + 1
        /\ Cardinality(Finished) + 1 \in 0..Cardinality(Jobs) /\ Cardinality(Finished) + 1 > 0
    BY <1>2, Counted, Constants DEF TypeInv
  <1>4. new \in Rows /\ new.order = Cardinality(Finished) + 1
    BY <1>1, <1>3 DEF Rows
  <1>5. new.status = e.status /\ new.told = e.told /\ new.id = e.id /\ new.iters = e.iters
    BY <1>1 DEF Rows
  <1>6. row' = [row EXCEPT ![j] = new]
    BY DEF Report
  <1> HIDE DEF new
  <1>7. row' \in [Jobs -> Rows] /\ row'[j] = new /\ \A i \in Jobs \ {j} : row'[i] = row[i]
    BY <1>1, <1>4, <1>6
  <1>8. Finished' = Finished \cup {j}
    BY <1>3, <1>4, <1>7 DEF Finished
  <1>9. /\ new.status \in Results \cup {"Failed"} /\ (~new.told => new.id = None)
        /\ new.told => new.id # None /\ new.iters # NoIters
    BY <1>5, EndingType
  <1> QED
    BY <1>1, <1>3, <1>4, <1>7, <1>8, <1>9 DEF new

\* What the other requests are at stays sound when rows only fill in and results
\* only appear in rows that were open.
LEMMA TypeReport ==
  ASSUME TypeInv, NEW r \in Requests, NEW j \in Jobs, NEW e \in Endings, Report(r, j, e)
  PROVE  TypeInv'
  <1> DEFINE new == [e EXCEPT !.order = Cardinality(Finished) + 1]
             c == IF Supersedes(new) THEN [Free EXCEPT !.at = "supersede", !.job = j, !.new = new] ELSE Free
  <1>1. /\ new \in Rows /\ row' \in [Jobs -> Rows] /\ row'[j] = new
        /\ new.status \in Results \cup {"Failed"} /\ new.order = Cardinality(Finished) + 1
        /\ new.told => new.id # None /\ new.iters # NoIters
        /\ \A i \in Jobs \ {j} : row'[i] = row[i]
        /\ row[j] = Open /\ j \notin blob /\ j \notin asked
        /\ Cardinality(Finished)' = Cardinality(Finished) + 1 /\ Cardinality(Finished) \in Nat
    BY Reported, Counted DEF TypeInv
  <1>2. /\ Goes(r, c) /\ call[r] = Free /\ slot' = slot /\ asked' = asked /\ faults' = faults
        /\ blob' = IF new.stored THEN blob \cup {j} ELSE blob
    BY DEF Report
  <1> HIDE DEF new
  <1>3. c \in Calls /\ c.at \in {"supersede", "free"} /\ (c.at = "supersede" => c.job # None) /\ c.group = None
    BY <1>1, Constants, NullAssumption DEF Calls, Free
  <1> HIDE DEF c
  <1>4. call' \in [Requests -> Calls] /\ call'[r] = c /\ \A q \in Requests \ {r} : call'[q] = call[q]
    BY <1>2, <1>3, GoesTo DEF TypeInv, TypeOK
  <1>5. TypeOK'
    BY <1>1, <1>2, <1>4 DEF TypeInv, TypeOK
  <1>6. RowsSound'
    <2>1. \A i \in Jobs \ {j} : row[i].order \in 0..Cardinality(Jobs)
      BY DEF TypeInv, TypeOK, Rows
    <2>2. new.status # "open" /\ new.status # "gone"
      BY <1>1 DEF Results
    <2> QED
      BY <1>1, <1>2, <2>1, <2>2, Constants DEF TypeInv, RowsSound, Present
  <1>7. CallsSound'
    <2>1. \A i \in Jobs : row[i].status # "open" => i # j /\ row'[i].status # "open"
      BY <1>1 DEF Open
    <2>2. \A q \in Requests \ {r} : call[q].old \subseteq Jobs
      BY DEF TypeInv, TypeOK, Calls
    <2>3. \A i \in Jobs : row[i].status # "open" /\ i \notin blob => i \notin blob'
      BY <1>2, <2>1
    <2> QED
      BY <1>2, <1>3, <1>4, <2>1, <2>2, <2>3 DEF TypeInv, CallsSound, Busy
  <1>8. EditsApart'
    BY <1>2, <1>3, <1>4 DEF TypeInv, EditsApart
  <1> QED
    BY <1>5, <1>6, <1>7, <1>8 DEF TypeInv

\* Rows and results stay, and the request goes on or ends.
LEMMA TypeCalls ==
  ASSUME TypeInv, NEW r \in Requests, NEW c \in Calls, Goes(r, c), c.at # "members",
         UNCHANGED <<row, blob, asked>>, slot' \in [Groups -> Members],
         \A g \in Groups : slot'[g].edit = slot[g].edit,
         faults' \in 0..MaxFaults,
         c = Free \/ (c.old = call[r].old /\ c.job = call[r].job /\ c.group = call[r].group
                      /\ c.todo = call[r].todo /\ call[r].at \in {"slots", "repoint"}
                      /\ c.at \in {"slots", "repoint", "blobs"})
  PROVE  TypeInv'
  <1>1. call' \in [Requests -> Calls] /\ call'[r] = c /\ \A q \in Requests \ {r} : call'[q] = call[q]
    BY GoesTo DEF TypeInv, TypeOK
  <1>2. TypeOK'
    BY <1>1 DEF TypeInv, TypeOK
  <1>3. RowsSound'
    <2>1. Finished' = Finished
      BY SameCount
    <2> QED
      BY <2>1 DEF TypeInv, RowsSound, Present
  <1>4. c.at \in Busy => call[r].at \in Busy /\ c.old = call[r].old
    BY DEF Busy, Free
  <1>5. CallsSound'
    BY <1>1, <1>4, NullAssumption DEF TypeInv, CallsSound, Free, Busy
  <1>6. EditsApart'
    BY <1>1 DEF TypeInv, EditsApart, Free
  <1> QED
    BY <1>2, <1>3, <1>5, <1>6 DEF TypeInv

LEMMA TypeSupersedeRead ==
  ASSUME TypeInv, NEW r \in Requests, SupersedeRead(r)
  PROVE  TypeInv'
  <1> DEFINE old == {j \in Jobs \ {call[r].job} : Replaces(call[r].new, row[j])}
             c == IF old = {} THEN Free ELSE [call[r] EXCEPT !.at = "slots", !.old = old, !.todo = old]
  <1>1. Goes(r, c) /\ call[r].at = "supersede" /\ UNCHANGED <<row, blob, slot, asked, faults>>
    BY DEF SupersedeRead
  <1>2. call[r] \in Calls /\ old \in SUBSET Jobs
    BY DEF TypeInv, TypeOK
  <1>3. \A j \in old : row[j].status # "open"
    BY DEF Replaces, Results
  <1> HIDE DEF old
  <1>4. /\ c \in Calls /\ c.group = None /\ c.at \in {"slots", "free"}
        /\ c.at = "slots" => c.job # None /\ c.todo = c.old /\ c.old = old
    BY <1>1, <1>2, Constants DEF TypeInv, CallsSound, EditsApart, Calls, Free
  <1> HIDE DEF c
  <1>5. call' \in [Requests -> Calls] /\ call'[r] = c /\ \A q \in Requests \ {r} : call'[q] = call[q]
    BY <1>1, <1>4, GoesTo DEF TypeInv, TypeOK
  <1>6. TypeOK'
    BY <1>1, <1>5 DEF TypeInv, TypeOK
  <1>7. RowsSound'
    BY <1>1, SameCount DEF TypeInv, RowsSound, Present
  <1>8. CallsSound'
    BY <1>1, <1>3, <1>4, <1>5 DEF TypeInv, CallsSound, Busy
  <1>9. EditsApart'
    BY <1>1, <1>4, <1>5 DEF TypeInv, EditsApart
  <1> QED
    BY <1>6, <1>7, <1>8, <1>9 DEF TypeInv

LEMMA TypeSlotsRead ==
  ASSUME TypeInv, NEW r \in Requests, SlotsRead(r)
  PROVE  TypeInv'
  <1> DEFINE held == HeldBy(call[r].old)
             c == [call[r] EXCEPT !.at = IF held = {} THEN "blobs" ELSE "repoint", !.held = held]
  <1>1. Goes(r, c) /\ call[r].at = "slots" /\ UNCHANGED <<row, blob, slot, asked, faults>>
    BY DEF SlotsRead
  <1>2. call[r] \in Calls /\ held \in SUBSET (Groups \X (0..MaxEdits))
    BY DEF TypeInv, TypeOK, HeldBy, Members
  <1> HIDE DEF held
  <1>3. /\ c \in Calls /\ c.at \in {"blobs", "repoint"} /\ c.old = call[r].old /\ c.job = call[r].job
        /\ c.todo = call[r].todo /\ c.group = call[r].group
    BY <1>2 DEF Calls
  <1> HIDE DEF c
  <1> QED
    BY <1>1, <1>3, TypeCalls DEF TypeInv, TypeOK

LEMMA TypeRepoint ==
  ASSUME TypeInv, NEW r \in Requests, Repoint(r)
  PROVE  TypeInv'
  <1>1. call[r] \in Calls /\ call[r].at = "repoint" /\ UNCHANGED <<row, blob, asked, faults>>
    BY DEF Repoint, TypeInv, TypeOK
  <1>2. CASE slot' = slot /\ Goes(r, Free)
    BY <1>1, <1>2, Constants, TypeCalls DEF TypeInv, TypeOK, Free
  <1>3. CASE /\ slot' = [g \in Groups |-> IF \E m \in call[r].held : m[1] = g
                                            THEN [slot[g] EXCEPT !.job = call[r].job] ELSE slot[g]]
             /\ Goes(r, [call[r] EXCEPT !.at = "blobs"])
    <2> DEFINE c == [call[r] EXCEPT !.at = "blobs"]
    <2>1. /\ c \in Calls /\ c.at = "blobs" /\ c.old = call[r].old /\ c.job = call[r].job
          /\ c.todo = call[r].todo /\ c.group = call[r].group
      BY <1>1 DEF Calls
    <2>2. call[r].job \in Jobs \cup {None} /\ \A g \in Groups : slot[g] \in Members
      BY <1>1 DEF TypeInv, TypeOK, Calls
    <2>3. \A g \in Groups : /\ [slot[g] EXCEPT !.job = call[r].job] \in Members
                            /\ [slot[g] EXCEPT !.job = call[r].job].edit = slot[g].edit
      BY <2>2 DEF Members
    <2>4. slot' \in [Groups -> Members] /\ \A g \in Groups : slot'[g].edit = slot[g].edit
      BY <1>3, <2>2, <2>3
    <2> HIDE DEF c
    <2> QED
      BY <1>1, <1>3, <2>1, <2>4, TypeCalls DEF TypeInv, TypeOK, c
  <1> QED
    BY <1>2, <1>3 DEF Repoint

LEMMA TypeDropBlobs ==
  ASSUME TypeInv, NEW r \in Requests, DropBlobs(r)
  PROVE  TypeInv'
  <1>1. call[r] \in Calls /\ call[r].at = "blobs" /\ UNCHANGED <<row, slot, asked, faults>>
    BY DEF DropBlobs, TypeInv, TypeOK
  <1>2. PICK j \in call[r].todo :
          /\ blob' = blob \ Paths(j)
          /\ Goes(r, [call[r] EXCEPT !.at = IF call[r].todo = {j} THEN "remove" ELSE @, !.todo = @ \ {j}])
    BY DEF DropBlobs
  <1> DEFINE c == [call[r] EXCEPT !.at = IF call[r].todo = {j} THEN "remove" ELSE @, !.todo = @ \ {j}]
  <1>3. call[r].todo \subseteq call[r].old /\ call[r].old \subseteq Jobs
    BY <1>1 DEF TypeInv, CallsSound, Calls
  <1>4. /\ c \in Calls /\ c.at = (IF call[r].todo = {j} THEN "remove" ELSE "blobs") /\ c.old = call[r].old
        /\ c.job = call[r].job /\ c.todo = call[r].todo \ {j} /\ c.group = call[r].group
    BY <1>1 DEF Calls
  <1>5. Goes(r, c)
    BY <1>2
  <1> HIDE DEF c
  <1>6. call' \in [Requests -> Calls] /\ call'[r] = c /\ \A q \in Requests \ {r} : call'[q] = call[q]
    BY <1>4, <1>5, GoesTo DEF TypeInv, TypeOK
  <1>7. blob' \subseteq blob /\ j \notin blob'
    BY <1>2, <1>3 DEF Paths, TypeInv, RowsSound
  <1>8. TypeOK'
    BY <1>1, <1>6, <1>7 DEF TypeInv, TypeOK
  <1>9. RowsSound'
    BY <1>1, <1>7, SameCount DEF TypeInv, RowsSound, Present
  <1>10. CallsSound'
    <2>1. ASSUME NEW q \in Requests \ {r} PROVE CallsSound!(q)'
      BY <1>1, <1>6, <1>7, <2>1 DEF TypeInv, CallsSound
    <2>2. CallsSound!(r)'
      BY <1>1, <1>3, <1>4, <1>6, <1>7 DEF TypeInv, CallsSound, Busy
    <2> QED
      BY <2>1, <2>2 DEF CallsSound
  <1>11. EditsApart'
    BY <1>1, <1>4, <1>6 DEF TypeInv, EditsApart
  <1> QED
    BY <1>8, <1>9, <1>10, <1>11 DEF TypeInv

\* The rows that go.
LEMMA Gone ==
  ASSUME TypeInv, NEW old \in SUBSET Jobs,
         row' = [j \in Jobs |-> IF j \in old THEN [row[j] EXCEPT !.status = "gone"] ELSE row[j]]
  PROVE  /\ row' \in [Jobs -> Rows]
         /\ \A j \in old : row'[j].status = "gone"
         /\ \A j \in Jobs : /\ j \notin old => row'[j] = row[j]
                            /\ row'[j].id = row[j].id /\ row'[j].key = row[j].key
                            /\ row'[j].iters = row[j].iters /\ row'[j].order = row[j].order
                            /\ row'[j].stored = row[j].stored /\ row'[j].told = row[j].told
  <1>1. \A j \in Jobs : row[j] \in Rows
    BY DEF TypeInv, TypeOK
  <1>2. \A j \in Jobs : LET n == [row[j] EXCEPT !.status = "gone"] IN
          /\ n \in Rows /\ n.status = "gone"
          /\ n.id = row[j].id /\ n.key = row[j].key /\ n.iters = row[j].iters
          /\ n.order = row[j].order /\ n.stored = row[j].stored /\ n.told = row[j].told
    BY <1>1 DEF Rows
  <1> QED
    BY <1>1, <1>2

LEMMA TypeRemove ==
  ASSUME TypeInv, NEW r \in Requests, Remove(r)
  PROVE  TypeInv'
  <1>1. /\ call[r] \in Calls /\ call[r].at = "remove" /\ Goes(r, Free)
        /\ UNCHANGED <<blob, asked, faults>>
    BY DEF Remove, TypeInv, TypeOK
  <1>2. CASE UNCHANGED <<row, slot>>
    BY <1>1, <1>2, Constants, TypeCalls DEF TypeInv, TypeOK, Free
  <1>3. CASE /\ row' = [j \in Jobs |-> IF j \in call[r].old THEN [row[j] EXCEPT !.status = "gone"] ELSE row[j]]
             /\ slot' = [g \in Groups |-> IF slot[g].job \in call[r].old THEN [slot[g] EXCEPT !.job = None]
                                          ELSE slot[g]]
    <2> DEFINE old == call[r].old
    <2>1. old \in SUBSET Jobs /\ \A j \in old : row[j].status # "open" /\ j \notin blob
      BY <1>1 DEF Calls, TypeInv, CallsSound, Busy
    <2> HIDE DEF old
    <2>2. row' = [j \in Jobs |-> IF j \in old THEN [row[j] EXCEPT !.status = "gone"] ELSE row[j]]
      BY <1>3 DEF old
    <2>3. /\ row' \in [Jobs -> Rows]
          /\ \A j \in old : row'[j].status = "gone"
          /\ \A j \in Jobs : /\ j \notin old => row'[j] = row[j]
                             /\ row'[j].id = row[j].id /\ row'[j].iters = row[j].iters
                             /\ row'[j].order = row[j].order
                             /\ row'[j].stored = row[j].stored /\ row'[j].told = row[j].told
      BY <2>1, <2>2, Gone
    <2>4. slot' \in [Groups -> Members] /\ \A g \in Groups : slot'[g].edit = slot[g].edit
      <3>1. \A g \in Groups : slot[g] \in Members
        BY DEF TypeInv, TypeOK
      <3>2. \A g \in Groups : LET n == [slot[g] EXCEPT !.job = None] IN n \in Members /\ n.edit = slot[g].edit
        BY <3>1 DEF Members
      <3> QED
        BY <1>3, <3>1, <3>2
    <2>5. call' \in [Requests -> Calls] /\ call'[r] = Free /\ \A q \in Requests \ {r} : call'[q] = call[q]
      BY <1>1, Constants, GoesTo DEF TypeInv, TypeOK
    <2>6. TypeOK'
      BY <1>1, <2>3, <2>4, <2>5 DEF TypeInv, TypeOK
    <2>7. RowsSound'
      <3>1. Finished' = Finished
        BY <2>3, SameCount
      <3>2. ASSUME NEW j \in Jobs \ old PROVE RowsSound!(j)'
        BY <1>1, <2>3, <3>1, <3>2 DEF TypeInv, RowsSound, Present
      <3>3. ASSUME NEW j \in old PROVE RowsSound!(j)'
        BY <1>1, <2>1, <2>3, <3>1, <3>3 DEF TypeInv, RowsSound, Present
      <3> QED
        BY <3>2, <3>3 DEF RowsSound
    <2>8. CallsSound'
      <3>1. \A j \in Jobs : row[j].status # "open" => row'[j].status # "open"
        BY <2>1, <2>3
      <3>2. \A q \in Requests : call[q].old \subseteq Jobs
        BY DEF TypeInv, TypeOK, Calls
      <3> QED
        BY <1>1, <2>5, <3>1, <3>2 DEF TypeInv, CallsSound, Busy, Free
    <2>9. EditsApart'
      BY <2>4, <2>5 DEF TypeInv, EditsApart, Free
    <2> QED
      BY <2>6, <2>7, <2>8, <2>9 DEF TypeInv
  <1> QED
    BY <1>2, <1>3 DEF Remove

LEMMA TypeDelete ==
  ASSUME TypeInv, NEW r \in Requests, NEW j \in Jobs, Delete(r, j)
  PROVE  TypeInv'
  <1> DEFINE c == [Free EXCEPT !.at = "blobs", !.old = {j}, !.todo = {j}]
  <1>1. Goes(r, c) /\ row[j].status # "open" /\ asked' = asked \cup {j} /\ UNCHANGED <<row, blob, slot, faults>>
    BY DEF Delete, Results
  <1>2. c \in Calls /\ c.at = "blobs" /\ c.old = {j} /\ c.todo = {j} /\ c.job = None /\ c.group = None
    BY Constants DEF Calls, Free
  <1> HIDE DEF c
  <1>3. call' \in [Requests -> Calls] /\ call'[r] = c /\ \A q \in Requests \ {r} : call'[q] = call[q]
    BY <1>1, <1>2, GoesTo DEF TypeInv, TypeOK
  <1>4. TypeOK'
    BY <1>1, <1>3 DEF TypeInv, TypeOK
  <1>5. RowsSound'
    BY <1>1, SameCount DEF TypeInv, RowsSound, Present
  <1>6. CallsSound'
    BY <1>1, <1>2, <1>3 DEF TypeInv, CallsSound, Busy
  <1>7. EditsApart'
    BY <1>1, <1>2, <1>3 DEF TypeInv, EditsApart
  <1> QED
    BY <1>4, <1>5, <1>6, <1>7 DEF TypeInv

LEMMA TypeEditRead ==
  ASSUME TypeInv, NEW r \in Requests, NEW g \in Groups, NEW j \in Jobs \cup {None}, EditRead(r, g, j)
  PROVE  TypeInv'
  <1> DEFINE held == IF slot[g].job = None THEN {} ELSE {<<g, slot[g].edit>>}
             c == [Free EXCEPT !.at = "members", !.group = g, !.job = j, !.held = held]
  <1>1. /\ Goes(r, c) /\ slot[g].edit < MaxEdits /\ UNCHANGED <<row, blob, slot, asked, faults>>
        /\ \A q \in Requests : call[q].group # g
    BY DEF EditRead
  <1>2. held \in SUBSET (Groups \X (0..MaxEdits))
    BY DEF TypeInv, TypeOK, Members
  <1> HIDE DEF held
  <1>3. c \in Calls /\ c.at = "members" /\ c.group = g
    BY <1>2, Constants DEF Calls, Free
  <1> HIDE DEF c
  <1>4. call' \in [Requests -> Calls] /\ call'[r] = c /\ \A q \in Requests \ {r} : call'[q] = call[q]
    BY <1>1, <1>3, GoesTo DEF TypeInv, TypeOK
  <1>5. TypeOK'
    BY <1>1, <1>4 DEF TypeInv, TypeOK
  <1>6. RowsSound'
    BY <1>1, SameCount DEF TypeInv, RowsSound, Present
  <1>7. CallsSound'
    BY <1>1, <1>3, <1>4 DEF TypeInv, CallsSound, Busy
  <1>8. EditsApart'
    BY <1>1, <1>3, <1>4 DEF TypeInv, EditsApart
  <1> QED
    BY <1>5, <1>6, <1>7, <1>8 DEF TypeInv

LEMMA TypeEditSave ==
  ASSUME TypeInv, NEW r \in Requests, EditSave(r)
  PROVE  TypeInv'
  <1> DEFINE c == call[r]
  <1>1. /\ Goes(r, Free) /\ c \in Calls /\ c.at = "members" /\ c.group \in Groups
        /\ slot[c.group] \in Members /\ slot[c.group].edit < MaxEdits
        /\ UNCHANGED <<row, blob, asked, faults>>
    BY DEF EditSave, TypeInv, TypeOK, EditsApart
  <1>2. CASE slot' = slot
    BY <1>1, <1>2, Constants, TypeCalls DEF TypeInv, TypeOK, Free
  <1>3. CASE slot' = [slot EXCEPT ![c.group].job = c.job, ![c.group].edit = @ + 1]
    <2>1. c.job \in Jobs \cup {None} /\ slot[c.group].edit + 1 \in 0..MaxEdits
      BY <1>1, Constants DEF Calls, Members
    <2>2. /\ slot' \in [Groups -> Members]
          /\ \A g \in Groups \ {c.group} : slot'[g] = slot[g]
      <3> DEFINE s == [slot EXCEPT ![c.group].job = c.job]
      <3>1. s \in [Groups -> Members] /\ s[c.group].edit = slot[c.group].edit
            /\ \A g \in Groups \ {c.group} : s[g] = slot[g]
        BY <1>1, <2>1 DEF TypeInv, TypeOK, Members
      <3>2. slot' = [s EXCEPT ![c.group].edit = s[c.group].edit + 1]
        BY <1>3
      <3> HIDE DEF s, c
      <3> QED
        BY <1>1, <2>1, <3>1, <3>2 DEF Members
    <2>3. call' \in [Requests -> Calls] /\ call'[r] = Free /\ \A q \in Requests \ {r} : call'[q] = call[q]
      BY <1>1, Constants, GoesTo DEF TypeInv, TypeOK
    <2>4. TypeOK'
      BY <1>1, <2>2, <2>3 DEF TypeInv, TypeOK
    <2>5. RowsSound'
      BY <1>1, SameCount DEF TypeInv, RowsSound, Present
    <2>6. CallsSound'
      BY <1>1, <2>3 DEF TypeInv, CallsSound, Busy, Free
    <2>7. EditsApart'
      <3>1. \A q \in Requests \ {r} : call[q].at = "members" => call[q].group \in Groups \ {c.group}
        BY <1>1, NullAssumption DEF TypeInv, EditsApart
      <3> QED
        BY <1>1, <2>2, <2>3, <3>1 DEF TypeInv, EditsApart, Free
    <2> QED
      BY <2>4, <2>5, <2>6, <2>7 DEF TypeInv
  <1> QED
    BY <1>2, <1>3 DEF EditSave

\* A row that is filled in keeps what it had.
LEMMA Filled ==
  ASSUME TypeInv, NEW j \in Jobs, NEW id \in Ids, NEW key \in Keys \cup {None}, NEW iters \in 1..MaxIters,
         Identity(j, id, key, iters)
  PROVE  /\ row' \in [Jobs -> Rows] /\ row[j].status \in Results
         /\ \A i \in Jobs \ {j} : row'[i] = row[i]
         /\ \A i \in Jobs : /\ row'[i].status = row[i].status /\ row'[i].order = row[i].order
                            /\ row'[i].stored = row[i].stored /\ row'[i].told = row[i].told
                            /\ row[i].id # None => row'[i].id = row[i].id
                            /\ row[i].key # None => row'[i].key = row[i].key
                            /\ row[i].iters # NoIters => row'[i].iters = row[i].iters
  <1> DEFINE a == [row[j] EXCEPT !.id = IF @ = None THEN id ELSE @]
             b == [a EXCEPT !.key = IF @ = None THEN key ELSE @]
             n == [b EXCEPT !.iters = IF @ = NoIters THEN iters ELSE @]
  <1>1. row[j] \in Rows /\ iters \in 0..MaxIters
    BY Constants DEF TypeInv, TypeOK
  <1>2. /\ a \in Rows /\ a.status = row[j].status /\ a.order = row[j].order /\ a.stored = row[j].stored
        /\ a.told = row[j].told /\ (row[j].id # None => a.id = row[j].id) /\ a.key = row[j].key
        /\ a.iters = row[j].iters
    BY <1>1 DEF Rows
  <1> HIDE DEF a
  <1>3. /\ b \in Rows /\ b.status = a.status /\ b.order = a.order /\ b.stored = a.stored
        /\ b.told = a.told /\ b.id = a.id /\ (a.key # None => b.key = a.key) /\ b.iters = a.iters
    BY <1>2 DEF Rows
  <1> HIDE DEF b
  <1>4. /\ n \in Rows /\ n.status = b.status /\ n.order = b.order /\ n.stored = b.stored
        /\ n.told = b.told /\ n.id = b.id /\ n.key = b.key /\ (b.iters # NoIters => n.iters = b.iters)
    BY <1>1, <1>3 DEF Rows
  <1>5. row' = [row EXCEPT ![j] = n]
    BY <1>1 DEF Identity, a, b, TypeInv, TypeOK
  <1> HIDE DEF n
  <1>6. row' \in [Jobs -> Rows] /\ row'[j] = n /\ \A i \in Jobs \ {j} : row'[i] = row[i]
    BY <1>4, <1>5 DEF TypeInv, TypeOK
  <1>7. row[j].status \in Results
    BY DEF Identity
  <1> QED
    BY <1>2, <1>3, <1>4, <1>6, <1>7

LEMMA TypeIdentity ==
  ASSUME TypeInv, NEW j \in Jobs, NEW id \in Ids, NEW key \in Keys \cup {None}, NEW iters \in 1..MaxIters,
         Identity(j, id, key, iters)
  PROVE  TypeInv'
  <1>1. /\ row' \in [Jobs -> Rows] /\ row[j].status \in Results
        /\ \A i \in Jobs \ {j} : row'[i] = row[i]
        /\ \A i \in Jobs : /\ row'[i].status = row[i].status /\ row'[i].order = row[i].order
                           /\ row'[i].stored = row[i].stored /\ row'[i].told = row[i].told
                           /\ row[i].id # None => row'[i].id = row[i].id
                           /\ row[i].iters # NoIters => row'[i].iters = row[i].iters
    BY Filled
  <1>2. UNCHANGED <<blob, slot, call, asked, faults>>
    BY DEF Identity
  <1>3. TypeOK'
    BY <1>1, <1>2 DEF TypeInv, TypeOK
  <1>4. RowsSound'
    <2>1. Finished' = Finished
      BY <1>1, SameCount
    <2>2. \A i \in Jobs : row[i].status = "open" => row'[i] = row[i]
      BY <1>1 DEF Results
    <2> QED
      BY <1>1, <1>2, <2>1, <2>2 DEF TypeInv, RowsSound, Present
  <1>5. CallsSound' /\ EditsApart'
    <2>1. \A q \in Requests : call[q].old \subseteq Jobs
      BY DEF TypeInv, TypeOK, Calls
    <2> QED
      BY <1>1, <1>2, <2>1 DEF TypeInv, CallsSound, EditsApart
  <1> QED
    BY <1>3, <1>4, <1>5 DEF TypeInv

LEMMA TypeAbort ==
  ASSUME TypeInv, NEW r \in Requests, Abort(r)
  PROVE  TypeInv'
  <1>1. faults' \in 0..MaxFaults /\ Goes(r, Free) /\ UNCHANGED <<row, blob, slot, asked>>
    BY Constants DEF TypeInv, TypeOK, Abort
  <1> QED
    BY <1>1, Constants, TypeCalls DEF TypeInv, TypeOK, Free

\* What a step is.
LEMMA Steps ==
  ASSUME Next
  PROVE  \/ \E r \in Requests :
              \/ SupersedeRead(r) \/ SlotsRead(r) \/ Repoint(r) \/ DropBlobs(r) \/ Remove(r)
              \/ EditSave(r) \/ Abort(r)
              \/ \E j \in Jobs : Delete(r, j)
              \/ \E j \in Jobs, e \in Endings : Report(r, j, e)
              \/ \E g \in Groups, j \in Jobs \cup {None} : EditRead(r, g, j)
         \/ \E j \in Jobs, id \in Ids, key \in Keys \cup {None}, iters \in 1..MaxIters :
              Identity(j, id, key, iters)
  BY DEF Next, Serve

LEMMA TypeInitially == Init => TypeInv
  <1> SUFFICES ASSUME Init PROVE TypeInv
    OBVIOUS
  <1>1. TypeOK
    BY Constants DEF Init, TypeOK
  <1>2. RowsSound
    BY <1>1, Counted DEF Init, RowsSound, Open
  <1>3. CallsSound /\ EditsApart
    BY DEF Init, CallsSound, EditsApart, Free, Busy
  <1> QED
    BY <1>1, <1>2, <1>3 DEF TypeInv

LEMMA TypeInductive == TypeInv /\ [Next]_vars => TypeInv'
  <1> SUFFICES ASSUME TypeInv, [Next]_vars PROVE TypeInv'
    OBVIOUS
  <1>1. CASE Next
    BY <1>1, Steps, TypeReport, TypeSupersedeRead, TypeSlotsRead, TypeRepoint, TypeDropBlobs, TypeRemove,
       TypeDelete, TypeEditRead, TypeEditSave, TypeIdentity, TypeAbort
  <1>2. CASE UNCHANGED vars
    BY <1>2, SameCount DEF vars, TypeInv, TypeOK, RowsSound, CallsSound, EditsApart, Present
  <1> QED
    BY <1>1, <1>2

\* Every variable keeps its type, whatever the requests that overlap; no row is
\* counted twice among the finished ones.
THEOREM LineageTypeCorrect == Spec => []TypeOK
  <1>1. TypeInv => TypeOK
    BY DEF TypeInv
  <1> QED
    BY <1>1, TypeInitially, TypeInductive, PTL DEF Spec

\* A row that is gone leaves nothing in storage: Report and Delete drop the blobs
\* before the rows, and nothing stores into a row that has finished.
THEOREM NothingStored == Spec => []NoBlobLeft
  <1>1. TypeInv => NoBlobLeft
    BY DEF TypeInv, TypeOK, RowsSound, NoBlobLeft
  <1> QED
    BY <1>1, TypeInitially, TypeInductive, PTL DEF Spec

-----------------------------------------------------------------------------
(* One request at a time.                                                      *)

\* Two reports of a lineage that overlap and tie may each take the other for the
\* one that is replaced; requests that do not overlap are what these claims are of.
OneAtATime == \A p, q \in Requests : p = q

LEMMA OnlyCall ==
  ASSUME TypeInv, OneAtATime, NEW r \in Requests, NEW c \in Calls, Goes(r, c)
  PROVE  \A q \in Requests : q = r /\ call'[q] = c
  BY GoesTo DEF TypeInv, TypeOK, OneAtATime

\* The part of the invariant that only a request in progress is bound by.
Serving == NewStays /\ OldStay /\ GroupsMove

\* A request that has ended, and one that edits a group, is not bound by it; nor
\* is one that has yet to look for what it replaces, or that deletes one job.
LEMMA NotServing ==
  ASSUME \A q \in Requests : call'[q].at \in {"free", "members"} \/ (call'[q].at = "blobs" /\ call'[q].job = None)
  PROVE  Serving' /\ \A q \in Requests : ~Replacing(q)'
  BY DEF Serving, NewStays, OldStay, GroupsMove, Replacing, Busy

\* What a result replaces, of those reported with their identities, is every
\* older one of its spot that got no further.
LEMMA Behind ==
  ASSUME TypeInv, NEW new \in Rows, NEW j \in Jobs, NEW old \in Jobs, Stands(old, j),
         Supersedes(new), row[j].id = new.id, row[j].iters = new.iters,
         new.key \in {None, row[j].key}, ~(row[old].iters > row[j].iters)
  PROVE  old # j /\ row[old].told /\ Replaces(new, row[old])
  <1>1. row[old] \in Rows /\ row[j] \in Rows /\ MaxIters \in Nat
    BY Constants DEF TypeInv, TypeOK
  <1>2. row[old].iters \in Nat /\ row[j].iters \in Nat /\ row[old].order \in Int /\ row[j].order \in Int
    BY <1>1, Constants DEF Rows
  <1>3. row[old].iters # NoIters /\ row[old].told
    BY DEF Stands, TypeInv, RowsSound
  <1>4. SameSpot(new, row[old])
    BY DEF Stands, SameSpot
  <1> QED
    BY <1>2, <1>3, <1>4 DEF Stands, Replaces

\* What is replaced hands its part to the result that replaces it.
LEMMA HandedOn ==
  ASSUME TypeInv, NewStays, OldStay, NEW r \in Requests, Replacing(r), call[r].at # "supersede",
         NEW j \in Jobs, NEW k \in call[r].old, row[k].id = row[j].id, row[k].iters >= row[j].iters
  PROVE  LET n == call[r].job IN
         /\ n \in Jobs \ call[r].old /\ row[n].id = row[j].id /\ row[n].iters >= row[j].iters
         /\ Present(n) /\ n \in blob
  <1> DEFINE n == call[r].job
  <1>1. n \in Jobs /\ n \notin call[r].old /\ k \in Jobs
    BY DEF TypeInv, TypeOK, Calls, Replacing, OldStay
  <1>2. /\ n \in blob /\ row[n].status \in Results /\ row[n].id = row[k].id
        /\ row[k].iters <= row[n].iters
    BY DEF NewStays, OldStay
  <1>3. row[n] \in Rows /\ row[k] \in Rows /\ row[j] \in Rows
    BY <1>1 DEF TypeInv, TypeOK
  <1>4. row[n].iters \in Nat /\ row[k].iters \in Nat /\ row[j].iters \in Nat
    BY <1>3, Constants DEF Rows
  <1> QED
    BY <1>1, <1>2, <1>4 DEF Present, Results

\* Rows, results and deletions that stay keep a lineage as it is.
LEMMA KeptSame ==
  ASSUME UNCHANGED <<row, blob, asked>>
  PROVE  LineageKept' = LineageKept /\ GoneKnown' = GoneKnown
  BY DEF LineageKept, GoneKnown, Present

\* So does a request that goes on, or ends with nothing to replace.
LEMMA ServedSame ==
  ASSUME UNCHANGED <<row, faults>>, Served,
         \A q \in Requests : Replacing(q) => Replacing(q)' /\ call'[q].job = call[q].job
  PROVE  Served'
  BY DEF Served, Forward, Stands

LEMMA SerialReport ==
  ASSUME SerialInv, OneAtATime, NEW r \in Requests, NEW j \in Jobs, NEW e \in Endings, Report(r, j, e)
  PROVE  (Serving /\ GoneKnown /\ LineageKept /\ Served)'
  <1> DEFINE new == [e EXCEPT !.order = Cardinality(Finished) + 1]
             c == IF Supersedes(new) THEN [Free EXCEPT !.at = "supersede", !.job = j, !.new = new] ELSE Free
  <1>1. /\ new \in Rows /\ row' \in [Jobs -> Rows] /\ row'[j] = new
        /\ new.status \in Results \cup {"Failed"} /\ new.order = Cardinality(Finished) + 1
        /\ \A i \in Jobs \ {j} : row'[i] = row[i]
        /\ row[j] = Open /\ j \notin blob /\ j \notin asked /\ Cardinality(Finished) \in Nat
    BY Reported, Counted DEF SerialInv, TypeInv
  <1>2. /\ Goes(r, c) /\ call[r] = Free /\ slot' = slot /\ asked' = asked /\ faults' = faults
        /\ blob' = IF new.stored THEN blob \cup {j} ELSE blob
    BY DEF Report
  <1> HIDE DEF new
  <1>3. c \in Calls /\ IF Supersedes(new) THEN c.at = "supersede" /\ c.job = j /\ c.new = new ELSE c = Free
    BY <1>1, Constants DEF Calls, Free
  <1> HIDE DEF c
  <1>4. \A q \in Requests : q = r /\ call'[q] = c
    BY <1>2, <1>3, OnlyCall DEF SerialInv
  <1>5. Serving'
    <2>1. CASE Supersedes(new)
      BY <1>1, <1>2, <1>3, <1>4, <2>1 DEF Serving, NewStays, OldStay, GroupsMove, Replacing, Busy, Supersedes
    <2>2. CASE ~Supersedes(new)
      BY <1>3, <1>4, <2>2, NotServing DEF Free
    <2> QED
      BY <2>1, <2>2
  <1>6. GoneKnown'
    BY <1>1, <1>2 DEF SerialInv, GoneKnown, Present, Results
  <1>7. LineageKept'
    BY <1>1, <1>2 DEF SerialInv, LineageKept, Present, Results
  <1>8. Served'
    <2> SUFFICES ASSUME faults = 0, NEW n \in Jobs, \A q \in Requests : Replacing(q)' => call'[q].job # n,
                        Supersedes(row'[n]), row'[n].told, NEW old \in Jobs,
                        Stands(old, n)'
                 PROVE  row'[old].iters > row'[n].iters
      BY <1>2 DEF Served, Forward
    <2>1. n # j
      BY <1>1, <1>3, <1>4, NullAssumption DEF Replacing, Busy
    <2>2. old # j
      <3>1. row[n].order <= Cardinality(Finished) /\ row[n].order \in Int
        BY Constants DEF SerialInv, TypeInv, TypeOK, Rows, RowsSound
      <3> QED
        BY <1>1, <2>1, <3>1 DEF Stands
    <2>3. Stands(old, n) /\ Supersedes(row[n]) /\ row[n].told
      BY <1>1, <2>1, <2>2 DEF Stands
    <2>4. \A q \in Requests : ~Replacing(q)
      BY <1>2, <1>4 DEF Replacing, Free
    <2> QED
      BY <1>1, <2>1, <2>2, <2>3, <2>4 DEF SerialInv, Served, Forward
  <1> QED
    BY <1>5, <1>6, <1>7, <1>8

LEMMA SerialSupersedeRead ==
  ASSUME SerialInv, OneAtATime, NEW r \in Requests, SupersedeRead(r)
  PROVE  (Serving /\ GoneKnown /\ LineageKept /\ Served)'
  <1> DEFINE old == {j \in Jobs \ {call[r].job} : Replaces(call[r].new, row[j])}
             c == IF old = {} THEN Free ELSE [call[r] EXCEPT !.at = "slots", !.old = old, !.todo = old]
  <1>1. Goes(r, c) /\ call[r].at = "supersede" /\ UNCHANGED <<row, blob, slot, asked, faults>>
    BY DEF SupersedeRead
  <1>2. call[r] \in Calls /\ old \in SUBSET Jobs /\ Replacing(r) /\ call[r].job \in Jobs
    BY <1>1 DEF SerialInv, TypeInv, TypeOK, CallsSound, Replacing, Calls
  <1>3. /\ call[r].job \notin old
        /\ \A j \in Jobs : j \in old <=> j # call[r].job /\ Replaces(call[r].new, row[j])
    OBVIOUS
  <1>4. /\ Supersedes(call[r].new) /\ call[r].job \in blob
        /\ row[call[r].job].status \in Results /\ row[call[r].job].id = call[r].new.id
        /\ row[call[r].job].iters = call[r].new.iters
        /\ call[r].new.key \in {None, row[call[r].job].key}
    BY <1>2 DEF SerialInv, NewStays
  <1> HIDE DEF old
  <1>5. /\ c \in Calls /\ (old = {} => c = Free)
        /\ old # {} => c.at = "slots" /\ c.job = call[r].job /\ c.new = call[r].new /\ c.old = old
    BY <1>2, Constants DEF Calls
  <1> HIDE DEF c
  <1>6. \A q \in Requests : q = r /\ call'[q] = c
    BY <1>1, <1>5, OnlyCall DEF SerialInv
  <1>7. CASE old # {}
    <2>1. NewStays'
      BY <1>1, <1>4, <1>5, <1>6, <1>7 DEF NewStays
    <2>2. OldStay'
      <3>1. \A j \in old : /\ row[j].status \in Results /\ row[j].id = c.new.id
                           /\ row[j].iters # NoIters /\ row[j].iters <= c.new.iters
        BY <1>2, <1>3, <1>5, <1>7 DEF Replaces, SameSpot
      <3> QED
        BY <1>1, <1>3, <1>5, <1>6, <1>7, <3>1 DEF OldStay
    <2>3. GroupsMove'
      BY <1>5, <1>6, <1>7 DEF GroupsMove
    <2>4. Served'
      BY <1>1, <1>2, <1>5, <1>6, <1>7, ServedSame DEF SerialInv, Replacing, Busy
    <2> QED
      BY <1>1, <2>1, <2>2, <2>3, <2>4, KeptSame DEF SerialInv, Serving
  <1>8. CASE old = {}
    <2>1. Serving'
      BY <1>5, <1>6, <1>8, NotServing DEF Free
    <2>2. Forward(call[r].job)
      BY <1>2, <1>3, <1>4, <1>8, Behind DEF Forward, SerialInv, Calls
    <2>3. \A n \in Jobs : faults = 0 => Forward(n)
      BY <1>6, <2>2 DEF SerialInv, Served
    <2>4. Served'
      BY <1>1, <2>3 DEF Served, Forward, Stands
    <2> QED
      BY <1>1, <2>1, <2>4, KeptSame DEF SerialInv
  <1> QED
    BY <1>7, <1>8

LEMMA SerialSlotsRead ==
  ASSUME SerialInv, OneAtATime, NEW r \in Requests, SlotsRead(r)
  PROVE  (Serving /\ GoneKnown /\ LineageKept /\ Served)'
  <1> DEFINE held == HeldBy(call[r].old)
             c == [call[r] EXCEPT !.at = IF held = {} THEN "blobs" ELSE "repoint", !.held = held]
  <1>1. Goes(r, c) /\ call[r].at = "slots" /\ UNCHANGED <<row, blob, slot, asked, faults>>
    BY DEF SlotsRead
  <1>2. call[r] \in Calls /\ held \in SUBSET (Groups \X (0..MaxEdits)) /\ Replacing(r)
    BY <1>1 DEF SerialInv, TypeInv, TypeOK, HeldBy, Members, CallsSound, Replacing, Busy
  <1>3. /\ \A g \in Groups : slot[g].job \in call[r].old => <<g, slot[g].edit>> \in held
        /\ \A m \in held : slot[m[1]].job \in call[r].old /\ slot[m[1]].edit = m[2]
    BY DEF HeldBy
  <1> HIDE DEF held
  <1>4. /\ c \in Calls /\ c.at = (IF held = {} THEN "blobs" ELSE "repoint") /\ c.held = held
        /\ c.old = call[r].old /\ c.job = call[r].job /\ c.new = call[r].new
    BY <1>2 DEF Calls
  <1> HIDE DEF c
  <1>5. \A q \in Requests : q = r /\ call'[q] = c
    BY <1>1, <1>4, OnlyCall DEF SerialInv
  <1>6. NewStays' /\ OldStay'
    BY <1>1, <1>2, <1>4, <1>5 DEF SerialInv, NewStays, OldStay
  <1>7. GroupsMove'
    <2>1. None \notin call[r].old
      BY <1>2, NullAssumption DEF Calls
    <2> QED
      BY <1>1, <1>3, <1>4, <1>5, <2>1 DEF GroupsMove
  <1>8. Served'
    BY <1>1, <1>2, <1>4, <1>5, ServedSame DEF SerialInv, Replacing, Busy
  <1> QED
    BY <1>1, <1>6, <1>7, <1>8, KeptSame DEF SerialInv, Serving

LEMMA SerialRepoint ==
  ASSUME SerialInv, OneAtATime, NEW r \in Requests, Repoint(r)
  PROVE  /\ (Serving /\ GoneKnown /\ LineageKept /\ Served)'
         /\ \A g \in Groups : slot[g].job # None => slot'[g].job # None
  <1> DEFINE c == [call[r] EXCEPT !.at = "blobs"]
             old == call[r].old
  <1>1. call[r] \in Calls /\ call[r].at = "repoint" /\ UNCHANGED <<row, blob, asked, faults>>
    BY DEF Repoint, SerialInv, TypeInv, TypeOK
  <1>2. Replacing(r) /\ call[r].job \in Jobs /\ Present(call[r].job) /\ call[r].job \notin old
    BY <1>1 DEF SerialInv, TypeInv, CallsSound, Replacing, Busy, Calls, NewStays, OldStay, Present, Results
  <1>3. /\ \A g \in Groups : slot[g].job \in old => <<g, slot[g].edit>> \in call[r].held
        /\ \A m \in call[r].held : slot[m[1]].job # None /\ slot[m[1]].edit = m[2]
    BY <1>1 DEF SerialInv, GroupsMove
  <1>4. /\ slot' = [g \in Groups |-> IF \E m \in call[r].held : m[1] = g
                                       THEN [slot[g] EXCEPT !.job = call[r].job] ELSE slot[g]]
        /\ Goes(r, c)
    BY <1>2, <1>3 DEF Repoint
  <1>5. /\ c \in Calls /\ c.at = "blobs" /\ c.old = old /\ c.job = call[r].job /\ c.new = call[r].new
    BY <1>1 DEF Calls
  <1>6. \A g \in Groups : slot'[g].job # slot[g].job => slot'[g].job = call[r].job
    <2>1. \A g \in Groups : slot[g] \in Members
      BY DEF SerialInv, TypeInv, TypeOK
    <2>2. \A g \in Groups : [slot[g] EXCEPT !.job = call[r].job].job = call[r].job
      BY <2>1 DEF Members
    <2> QED
      BY <1>4, <2>2
  <1>7. \A g \in Groups : slot[g].job \in old => slot'[g].job = call[r].job
    <2>1. \A g \in Groups : slot[g] \in Members
      BY DEF SerialInv, TypeInv, TypeOK
    <2>2. \A g \in Groups : [slot[g] EXCEPT !.job = call[r].job].job = call[r].job
      BY <2>1 DEF Members
    <2>3. \A g \in Groups : slot[g].job \in old => \E m \in call[r].held : m[1] = g
      BY <1>3
    <2> QED
      BY <1>4, <2>2, <2>3
  <1>8. Goes(r, c)
    BY <1>4
  <1> HIDE DEF c, old
  <1>9. \A q \in Requests : q = r /\ call'[q] = c
    BY <1>8, <1>5, OnlyCall DEF SerialInv
  <1>10. NewStays' /\ OldStay'
    BY <1>1, <1>2, <1>5, <1>9 DEF SerialInv, NewStays, OldStay, old
  <1>11. GroupsMove'
    BY <1>2, <1>5, <1>6, <1>7, <1>9 DEF GroupsMove
  <1>12. Served'
    BY <1>1, <1>2, <1>5, <1>9, ServedSame DEF SerialInv, Replacing, Busy
  <1>13. \A g \in Groups : slot[g].job # None => slot'[g].job # None
    BY <1>2, <1>6, NullAssumption
  <1> QED
    BY <1>1, <1>10, <1>11, <1>12, <1>13, KeptSame DEF SerialInv, Serving

\* A result that was dropped is one the owner has asked to delete, or is replaced
\* and no group holds it.
LEMMA Dropped ==
  ASSUME SerialInv, NEW r \in Requests, DropBlobs(r)
  PROVE  /\ blob' \subseteq blob
         /\ \A j \in blob \ blob' : /\ j \in call[r].old
                                    /\ j \in asked \/ (Replacing(r) /\ \A g \in Groups : slot[g].job # j)
  <1>1. PICK j \in call[r].todo : blob' = blob \ Paths(j)
    BY DEF DropBlobs
  <1>2. call[r].at = "blobs" /\ call[r].todo \subseteq call[r].old
    BY DEF DropBlobs, SerialInv, TypeInv, CallsSound
  <1>3. call[r].job = None => call[r].old \subseteq asked
    BY <1>2 DEF SerialInv, TypeInv, CallsSound
  <1>4. call[r].job # None => Replacing(r) /\ \A g \in Groups : slot[g].job \notin call[r].old
    BY <1>2 DEF SerialInv, GroupsMove, Replacing, Busy
  <1> QED
    BY <1>1, <1>2, <1>3, <1>4 DEF Paths

LEMMA SerialDropBlobs ==
  ASSUME SerialInv, OneAtATime, NEW r \in Requests, DropBlobs(r)
  PROVE  (Serving /\ GoneKnown /\ LineageKept /\ Served)'
  <1>1. call[r] \in Calls /\ call[r].at = "blobs" /\ UNCHANGED <<row, slot, asked, faults>>
    BY DEF DropBlobs, SerialInv, TypeInv, TypeOK
  <1>2. PICK j \in call[r].todo :
          Goes(r, [call[r] EXCEPT !.at = IF call[r].todo = {j} THEN "remove" ELSE @, !.todo = @ \ {j}])
    BY DEF DropBlobs
  <1> DEFINE c == [call[r] EXCEPT !.at = IF call[r].todo = {j} THEN "remove" ELSE @, !.todo = @ \ {j}]
  <1>3. /\ c \in Calls /\ c.at \in {"blobs", "remove"} /\ c.old = call[r].old
        /\ c.job = call[r].job /\ c.new = call[r].new
    BY <1>1 DEF Calls
  <1>4. Goes(r, c)
    BY <1>2
  <1> HIDE DEF c
  <1>5. \A q \in Requests : q = r /\ call'[q] = c
    BY <1>3, <1>4, OnlyCall DEF SerialInv
  <1>6. /\ blob' \subseteq blob
        /\ \A i \in blob \ blob' : i \in call[r].old /\ (i \in asked \/ Replacing(r))
    BY Dropped
  <1>7. Replacing(r)' <=> Replacing(r)
    BY <1>1, <1>3, <1>5 DEF Replacing, Busy
  <1>8. NewStays' /\ OldStay'
    BY <1>1, <1>3, <1>5, <1>6, <1>7 DEF SerialInv, NewStays, OldStay
  <1>9. GroupsMove'
    BY <1>1, <1>3, <1>5, <1>7 DEF SerialInv, GroupsMove
  <1>10. GoneKnown'
    BY <1>1 DEF SerialInv, GoneKnown, Present
  <1>11. LineageKept'
    <2> SUFFICES ASSUME NEW i \in Jobs \ asked, ~Present(i)
                 PROVE  \E k \in Jobs \ {i} : /\ row[k].id = row[i].id /\ row[k].iters >= row[i].iters
                                              /\ k \in asked \/ (Present(k) /\ k \in blob')
      BY <1>1 DEF LineageKept, Present
    <2>1. PICK k \in Jobs \ {i} : /\ row[k].id = row[i].id /\ row[k].iters >= row[i].iters
                                  /\ k \in asked \/ (Present(k) /\ k \in blob)
      BY DEF SerialInv, LineageKept
    <2>2. CASE k \in asked \/ k \in blob'
      BY <2>1, <2>2
    <2>3. CASE k \notin asked /\ k \notin blob'
      <3>1. k \in call[r].old /\ Replacing(r)
        BY <1>6, <2>1, <2>3
      <3>2. LET n == call[r].job IN
            /\ n \in Jobs \ call[r].old /\ row[n].id = row[i].id /\ row[n].iters >= row[i].iters
            /\ Present(n) /\ n \in blob
        BY <1>1, <2>1, <3>1, HandedOn DEF SerialInv
      <3> QED
        BY <1>6, <3>2
    <2> QED
      BY <2>2, <2>3
  <1>12. Served'
    BY <1>1, <1>3, <1>5, <1>7, ServedSame DEF SerialInv
  <1> QED
    BY <1>8, <1>9, <1>10, <1>11, <1>12 DEF Serving

\* The rows go, of the results whose blobs have gone.
LEMMA SerialRemove ==
  ASSUME SerialInv, OneAtATime, NEW r \in Requests, Remove(r)
  PROVE  /\ (Serving /\ GoneKnown /\ LineageKept /\ Served)'
         /\ \A g \in Groups : slot[g].job # None /\ slot'[g].job = None => slot[g].job \in asked
  <1> DEFINE old == call[r].old
             new == call[r].job
  <1>1. /\ call[r] \in Calls /\ call[r].at = "remove" /\ Goes(r, Free)
        /\ UNCHANGED <<blob, asked, faults>>
    BY DEF Remove, SerialInv, TypeInv, TypeOK
  <1>2. \A q \in Requests : q = r /\ call'[q] = Free
    BY <1>1, Constants, OnlyCall DEF SerialInv
  <1>3. Serving'
    BY <1>2, NotServing DEF Free
  <1>4. old \in SUBSET Jobs /\ (\A j \in old : j \notin blob) /\ (new = None => old \subseteq asked)
    BY <1>1 DEF Calls, SerialInv, TypeInv, CallsSound
  <1>5. new # None => Replacing(r) /\ new \in Jobs
    BY <1>1 DEF Replacing, Busy, Calls
  <1>6. Replacing(r) =>
          /\ Supersedes(call[r].new) /\ row[new].id = call[r].new.id /\ row[new].iters = call[r].new.iters
          /\ call[r].new.key \in {None, row[new].key}
          /\ new \notin old /\ new \in blob /\ row[new].status \in Results
          /\ \A j \in old : row[j].status \in Results /\ row[j].id = call[r].new.id /\ row[j].iters # NoIters
          /\ \A j \in Jobs \ {new} : row[j].told /\ Replaces(call[r].new, row[j]) => j \in old
          /\ \A g \in Groups : slot[g].job \notin old
    BY <1>1 DEF SerialInv, NewStays, OldStay, GroupsMove
  \* Beside no result that stays stands one that is not about to go.
  <1>7. ASSUME faults = 0, NEW n \in Jobs, Supersedes(row[n]), row[n].told,
               NEW o \in Jobs, Stands(o, n), Replacing(r) => o \notin old
        PROVE  row[o].iters > row[n].iters
    <2>1. CASE Replacing(r) /\ n = new
      <3>1. call[r].new \in Rows
        BY <1>1 DEF Calls
      <3> QED
        BY <1>6, <1>7, <2>1, <3>1, Behind DEF SerialInv
    <2>2. CASE ~(Replacing(r) /\ n = new)
      <3>1. \A q \in Requests : Replacing(q) => call[q].job # n
        BY <1>2, <2>2
      <3> QED
        BY <1>7, <3>1 DEF SerialInv, Served, Forward
    <2> QED
      BY <2>1, <2>2
  <1>8. CASE UNCHANGED <<row, slot>> /\ \E j \in old : ~Present(j)
    <2>1. ~Replacing(r)
      BY <1>6, <1>8 DEF Present, Results
    <2>2. Served'
      BY <1>1, <1>7, <1>8, <2>1 DEF Served, Forward, Stands
    <2> QED
      BY <1>1, <1>3, <1>8, <2>2, KeptSame DEF SerialInv
  <1>9. CASE /\ row' = [j \in Jobs |-> IF j \in old THEN [row[j] EXCEPT !.status = "gone"] ELSE row[j]]
             /\ slot' = [g \in Groups |-> IF slot[g].job \in old THEN [slot[g] EXCEPT !.job = None]
                                          ELSE slot[g]]
    <2> HIDE DEF old, new
    <2>1. /\ row' \in [Jobs -> Rows]
          /\ \A j \in old : row'[j].status = "gone"
          /\ \A j \in Jobs : /\ j \notin old => row'[j] = row[j]
                             /\ row'[j].id = row[j].id /\ row'[j].key = row[j].key
                             /\ row'[j].iters = row[j].iters /\ row'[j].order = row[j].order
                             /\ row'[j].stored = row[j].stored /\ row'[j].told = row[j].told
      BY <1>4, <1>9, Gone DEF SerialInv
    <2>2. GoneKnown'
      <3> SUFFICES ASSUME NEW j \in Jobs \ asked, row'[j].status = "gone"
                   PROVE  row[j].id # None /\ row[j].iters # NoIters
        BY <1>1, <2>1 DEF GoneKnown, Present
      <3>1. CASE j \in old
        BY <1>4, <1>5, <1>6, <3>1 DEF Supersedes
      <3>2. CASE j \notin old
        BY <2>1, <3>2 DEF SerialInv, GoneKnown, Present
      <3> QED
        BY <3>1, <3>2
    <2>3. LineageKept'
      <3> SUFFICES ASSUME NEW i \in Jobs \ asked, row'[i].status = "gone"
                   PROVE  \E k \in Jobs \ {i} : /\ row[k].id = row[i].id /\ row[k].iters >= row[i].iters
                                                /\ k \in asked \/ (row'[k].status # "gone" /\ k \in blob)
        BY <1>1, <2>1 DEF LineageKept, Present
      <3>1. CASE i \in old
        <4>1. Replacing(r) /\ call[r].at # "supersede" /\ row[i].iters \in Nat
          BY <1>1, <1>4, <1>5, <3>1, Constants DEF SerialInv, TypeInv, TypeOK, Rows
        <4>2. row[i].iters >= row[i].iters
          BY <4>1
        <4>3. /\ new \in Jobs \ old /\ row[new].id = row[i].id /\ row[new].iters >= row[i].iters
              /\ Present(new) /\ new \in blob
          BY <3>1, <4>1, <4>2, HandedOn DEF SerialInv, new, old
        <4> QED
          BY <2>1, <3>1, <4>3 DEF Present
      <3>2. CASE i \notin old
        <4>1. PICK k \in Jobs \ {i} : /\ row[k].id = row[i].id /\ row[k].iters >= row[i].iters
                                      /\ k \in asked \/ (Present(k) /\ k \in blob)
          BY <2>1, <3>2 DEF SerialInv, LineageKept, Present
        <4> QED
          BY <1>4, <2>1, <4>1 DEF Present
      <3> QED
        BY <3>1, <3>2
    <2>4. Served'
      <3> SUFFICES ASSUME faults = 0, NEW n \in Jobs, Supersedes(row'[n]), row'[n].told,
                          NEW o \in Jobs, Stands(o, n)'
                   PROVE  row'[o].iters > row'[n].iters
        BY <1>1 DEF Served, Forward
      <3>1. n \notin old /\ o \notin old
        BY <2>1 DEF Supersedes, Stands, Results
      <3>2. row'[n] = row[n] /\ row'[o] = row[o]
        BY <2>1, <3>1
      <3> QED
        BY <1>7, <3>1, <3>2 DEF Stands
    <2>5. \A g \in Groups : slot[g].job # None /\ slot'[g].job = None => slot[g].job \in asked
      BY <1>4, <1>5, <1>6, <1>9
    <2> QED
      BY <1>3, <2>2, <2>3, <2>4, <2>5
  <1> QED
    BY <1>8, <1>9 DEF Remove

LEMMA SerialDelete ==
  ASSUME SerialInv, OneAtATime, NEW r \in Requests, NEW j \in Jobs, Delete(r, j)
  PROVE  (Serving /\ GoneKnown /\ LineageKept /\ Served)'
  <1> DEFINE c == [Free EXCEPT !.at = "blobs", !.old = {j}, !.todo = {j}]
  <1>1. Goes(r, c) /\ call[r] = Free /\ asked' = asked \cup {j} /\ UNCHANGED <<row, blob, slot, faults>>
    BY DEF Delete
  <1>2. c \in Calls /\ c.at = "blobs" /\ c.job = None
    BY Constants DEF Calls, Free
  <1> HIDE DEF c
  <1>3. \A q \in Requests : q = r /\ call'[q] = c
    BY <1>1, <1>2, OnlyCall DEF SerialInv
  <1>4. Serving'
    BY <1>2, <1>3, NotServing
  <1>5. GoneKnown' /\ LineageKept'
    BY <1>1 DEF SerialInv, GoneKnown, LineageKept, Present
  <1>6. Served'
    BY <1>1, <1>3, ServedSame DEF SerialInv, Replacing, Busy, Free
  <1> QED
    BY <1>4, <1>5, <1>6

LEMMA SerialEdits ==
  ASSUME SerialInv, OneAtATime, NEW r \in Requests,
         EditSave(r) \/ \E g \in Groups, j \in Jobs \cup {None} : EditRead(r, g, j)
  PROVE  (Serving /\ GoneKnown /\ LineageKept /\ Served)'
  <1>1. UNCHANGED <<row, blob, asked, faults>> /\ call[r].at \in {"free", "members"}
    <2>1. CASE EditSave(r)
      BY <2>1 DEF EditSave
    <2>2. ASSUME NEW g \in Groups, NEW j \in Jobs \cup {None}, EditRead(r, g, j)
          PROVE  UNCHANGED <<row, blob, asked, faults>> /\ call[r] = Free
      BY <2>2 DEF EditRead
    <2> QED
      BY <2>1, <2>2 DEF Free
  <1>2. ~Replacing(r)
    BY <1>1 DEF Replacing, Busy
  <1>3. \A q \in Requests : q = r /\ call'[q].at \in {"free", "members"}
    <2>1. CASE EditSave(r)
      BY <2>1, Constants, OnlyCall DEF SerialInv, EditSave, Free
    <2>2. ASSUME NEW g \in Groups, NEW j \in Jobs \cup {None}, EditRead(r, g, j)
          PROVE  \A q \in Requests : q = r /\ call'[q].at \in {"free", "members"}
      <3> DEFINE held == IF slot[g].job = None THEN {} ELSE {<<g, slot[g].edit>>}
                 c == [Free EXCEPT !.at = "members", !.group = g, !.job = j, !.held = held]
      <3>1. Goes(r, c)
        BY <2>2 DEF EditRead
      <3>2. held \in SUBSET (Groups \X (0..MaxEdits))
        BY DEF SerialInv, TypeInv, TypeOK, Members
      <3> HIDE DEF held
      <3>3. c \in Calls /\ c.at = "members"
        BY <3>2, Constants DEF Calls, Free
      <3> HIDE DEF c
      <3> QED
        BY <3>1, <3>3, OnlyCall DEF SerialInv
    <2> QED
      BY <2>1, <2>2
  <1>4. Serving'
    BY <1>3, NotServing
  <1>5. Served'
    BY <1>1, <1>2, <1>3, ServedSame DEF SerialInv
  <1> QED
    BY <1>1, <1>4, <1>5, KeptSame DEF SerialInv

\* A row that is filled in is not taken from its lineage: what it lacked was null.
LEMMA SerialIdentity ==
  ASSUME SerialInv, NEW j \in Jobs, NEW id \in Ids, NEW key \in Keys \cup {None}, NEW iters \in 1..MaxIters,
         Identity(j, id, key, iters)
  PROVE  (Serving /\ GoneKnown /\ LineageKept /\ Served)'
  <1>1. /\ row[j].status \in Results
        /\ \A i \in Jobs \ {j} : row'[i] = row[i]
        /\ \A i \in Jobs : /\ row'[i].status = row[i].status /\ row'[i].order = row[i].order
                           /\ row'[i].stored = row[i].stored /\ row'[i].told = row[i].told
                           /\ row[i].id # None => row'[i].id = row[i].id
                           /\ row[i].key # None => row'[i].key = row[i].key
                           /\ row[i].iters # NoIters => row'[i].iters = row[i].iters
    BY Filled DEF SerialInv
  <1>2. UNCHANGED <<blob, slot, call, asked, faults>>
    BY DEF Identity
  <1>3. \A i \in Jobs : row[i].told => row'[i].id = row[i].id /\ row'[i].iters = row[i].iters
    BY <1>1 DEF SerialInv, TypeInv, RowsSound
  <1>4. \A q \in Requests : call[q] \in Calls /\ call[q].old \subseteq Jobs
    BY DEF SerialInv, TypeInv, TypeOK, Calls
  <1>5. \A q \in Requests : Replacing(q)' <=> Replacing(q)
    BY <1>2 DEF Replacing
  <1>6. \A q \in Requests : Replacing(q) => call[q].job \in Jobs /\ row'[call[q].job].id = row[call[q].job].id
                                            /\ row'[call[q].job].iters = row[call[q].job].iters
    BY <1>1, <1>4 DEF SerialInv, NewStays, Supersedes, Replacing, Calls
  <1>7. NewStays'
    BY <1>1, <1>2, <1>5, <1>6 DEF SerialInv, NewStays
  <1>8. OldStay'
    <2> SUFFICES ASSUME NEW q \in Requests, Replacing(q), call[q].at # "supersede"
                 PROVE  /\ call[q].job \notin call[q].old
                        /\ \A i \in call[q].old : /\ row'[i].status \in Results /\ row'[i].id = call[q].new.id
                                                  /\ row'[i].iters # NoIters /\ row'[i].iters <= call[q].new.iters
                        /\ \A i \in Jobs \ {call[q].job} :
                             row'[i].told /\ Replaces(call[q].new, row'[i]) => i \in call[q].old
      BY <1>2, <1>5 DEF OldStay
    <2>1. Supersedes(call[q].new)
      BY DEF SerialInv, NewStays
    <2>2. call[q].job \notin call[q].old
      BY DEF SerialInv, OldStay
    <2>3. \A i \in call[q].old : /\ row'[i].status \in Results /\ row'[i].id = call[q].new.id
                                 /\ row'[i].iters # NoIters /\ row'[i].iters <= call[q].new.iters
      BY <1>1, <1>4, <2>1 DEF SerialInv, OldStay, Supersedes
    <2>4. ASSUME NEW i \in Jobs \ {call[q].job}, row'[i].told, Replaces(call[q].new, row'[i])
          PROVE  i \in call[q].old
      <3>1. row[i].told /\ Replaces(call[q].new, row[i])
        BY <1>1, <1>3, <2>4 DEF Replaces, SameSpot
      <3> QED
        BY <3>1 DEF SerialInv, OldStay
    <2> QED
      BY <2>2, <2>3, <2>4
  <1>9. GroupsMove'
    BY <1>2, <1>5 DEF SerialInv, GroupsMove
  <1>10. \A i \in Jobs \ asked : ~Present(i) => i # j /\ row'[i] = row[i]
    BY <1>1 DEF Present, Results
  <1>11. GoneKnown'
    BY <1>1, <1>2, <1>10 DEF SerialInv, GoneKnown, Present
  <1>12. LineageKept'
    <2> SUFFICES ASSUME NEW i \in Jobs \ asked, ~Present(i)
                 PROVE  \E k \in Jobs \ {i} : /\ row'[k].id = row[i].id /\ row'[k].iters >= row[i].iters
                                              /\ k \in asked \/ (Present(k) /\ k \in blob)
      BY <1>1, <1>2, <1>10 DEF LineageKept, Present
    <2>1. PICK k \in Jobs \ {i} : /\ row[k].id = row[i].id /\ row[k].iters >= row[i].iters
                                  /\ k \in asked \/ (Present(k) /\ k \in blob)
      BY DEF SerialInv, LineageKept
    <2>2. row[i].id # None /\ row[i].iters # NoIters /\ row[i].iters \in Nat /\ row[k].iters \in Nat
      BY Constants DEF SerialInv, GoneKnown, TypeInv, TypeOK, Rows
    <2>3. row[k].id # None /\ row[k].iters # NoIters
      BY <2>1, <2>2 DEF NoIters
    <2> QED
      BY <1>1, <2>1, <2>3
  <1>13. Served'
    <2> SUFFICES ASSUME faults = 0, NEW n \in Jobs, \A q \in Requests : Replacing(q) => call[q].job # n,
                        Supersedes(row'[n]), row'[n].told, NEW o \in Jobs, Stands(o, n)'
                 PROVE  row'[o].iters > row'[n].iters
      BY <1>2, <1>5 DEF Served, Forward
    <2>1. row[n].told /\ row[o].told
      BY <1>1 DEF Stands
    <2>2. Supersedes(row[n])
      BY <1>1, <1>3, <2>1 DEF Supersedes
    <2>3. Stands(o, n)
      BY <1>1, <1>3, <2>1 DEF Stands, SameSpot
    <2> QED
      BY <1>3, <2>1, <2>2, <2>3 DEF SerialInv, Served, Forward
  <1> QED
    BY <1>7, <1>8, <1>9, <1>11, <1>12, <1>13 DEF Serving

LEMMA SerialAbort ==
  ASSUME SerialInv, OneAtATime, NEW r \in Requests, Abort(r)
  PROVE  (Serving /\ GoneKnown /\ LineageKept /\ Served)'
  <1>1. Goes(r, Free) /\ faults' = faults + 1 /\ faults \in Nat /\ UNCHANGED <<row, blob, slot, asked>>
    BY Constants DEF Abort, SerialInv, TypeInv, TypeOK
  <1>2. \A q \in Requests : call'[q] = Free
    BY <1>1, Constants, OnlyCall DEF SerialInv
  <1>3. Serving'
    BY <1>2, NotServing DEF Free
  <1>4. Served'
    BY <1>1 DEF Served
  <1> QED
    BY <1>1, <1>3, <1>4, KeptSame DEF SerialInv

LEMMA SerialInitially == Init => SerialInv
  <1> SUFFICES ASSUME Init PROVE SerialInv
    OBVIOUS
  <1>1. NewStays /\ OldStay /\ GroupsMove
    BY DEF Init, NewStays, OldStay, GroupsMove, Replacing, Busy, Free
  <1>2. GoneKnown /\ LineageKept /\ Served
    BY DEF Init, GoneKnown, LineageKept, Present, Open, Served, Forward, Supersedes
  <1> QED
    BY <1>1, <1>2, TypeInitially DEF SerialInv

LEMMA SerialInductive == OneAtATime /\ SerialInv /\ [Next]_vars => SerialInv'
  <1> SUFFICES ASSUME OneAtATime, SerialInv, [Next]_vars PROVE SerialInv'
    OBVIOUS
  <1>1. TypeInv'
    BY TypeInductive DEF SerialInv
  <1>2. CASE Next
    <2>1. (Serving /\ GoneKnown /\ LineageKept /\ Served)'
      BY <1>2, Steps, SerialReport, SerialSupersedeRead, SerialSlotsRead, SerialRepoint, SerialDropBlobs,
         SerialRemove, SerialDelete, SerialEdits, SerialIdentity, SerialAbort
    <2> QED
      BY <1>1, <2>1 DEF SerialInv, Serving
  <1>3. CASE UNCHANGED vars
    <2>1. NewStays' /\ OldStay' /\ GroupsMove'
      BY <1>3 DEF vars, SerialInv, NewStays, OldStay, GroupsMove, Replacing
    <2>2. Served'
      BY <1>3, ServedSame DEF vars, SerialInv, Replacing
    <2> QED
      BY <1>1, <1>3, <2>1, <2>2, KeptSame DEF vars, SerialInv
  <1> QED
    BY <1>2, <1>3

\* What a newer result replaced is never without a successor of its solve, stored
\* and at least as far converged, however often the successors are replaced in
\* turn; with requests served one at a time.
THEOREM LineageIsKept == ASSUME OneAtATime PROVE Spec => []LineageKept
  <1>1. SerialInv => LineageKept
    BY DEF SerialInv
  <1> QED
    BY <1>1, SerialInitially, SerialInductive, PTL DEF Spec

\* Once a report is served, nothing older that got no further stands beside it,
\* and no blob is left without its row; with requests served one at a time.
THEOREM NothingLeftBehind == ASSUME OneAtATime PROVE Spec => []NothingBehind
  <1>1. SerialInv => NothingBehind
    <2> SUFFICES ASSUME SerialInv PROVE LineageForward /\ NoBlobLeft
      BY DEF NothingBehind
    <2>1. NoBlobLeft
      BY DEF SerialInv, TypeInv, TypeOK, RowsSound, NoBlobLeft
    <2>2. LineageForward
      <3> SUFFICES ASSUME faults = 0, \A r \in Requests : call[r] = Free,
                          NEW old \in Jobs, NEW new \in Jobs, Supersedes(row[new]), row[new].told,
                          Stands(old, new)
                   PROVE  row[old].iters > row[new].iters
        BY DEF LineageForward, Stands
      <3>1. \A r \in Requests : ~Replacing(r)
        BY DEF Replacing, Busy, Free
      <3> QED
        BY <3>1 DEF SerialInv, Served, Forward
    <2> QED
      BY <2>1, <2>2
  <1> QED
    BY <1>1, SerialInitially, SerialInductive, PTL DEF Spec

\* No step drops a result that a group holds, or empties a group, but by the
\* owner's deletion of that job or an edit; with requests served one at a time.
THEOREM GroupsAreMoved == ASSUME OneAtATime PROVE Spec => GroupsFollow
  <1> DEFINE Follow == /\ \A j \in blob \ blob' : j \in asked \/ \A g \in Groups : slot[g].job # j
                       /\ \A g \in Groups : slot[g].job # None /\ slot'[g].job = None =>
                            slot[g].job \in asked \/ slot'[g].edit # slot[g].edit
  <1>1. ASSUME SerialInv, [Next]_vars, OneAtATime PROVE Follow
    <2>1. ASSUME NEW r \in Requests, DropBlobs(r) PROVE Follow
      BY <1>1, <2>1, Dropped DEF DropBlobs
    <2>2. ASSUME NEW r \in Requests, Repoint(r) PROVE Follow
      BY <1>1, <2>2, SerialRepoint DEF Repoint
    <2>3. ASSUME NEW r \in Requests, Remove(r) PROVE Follow
      BY <1>1, <2>3, SerialRemove DEF Remove
    <2>4. ASSUME NEW r \in Requests, EditSave(r) PROVE Follow
      <3>1. blob' = blob
        BY <2>4 DEF EditSave
      <3>2. CASE slot' = slot
        BY <3>1, <3>2
      <3>3. CASE slot' = [slot EXCEPT ![call[r].group].job = call[r].job, ![call[r].group].edit = @ + 1]
        <4> DEFINE g == call[r].group
                   s == [slot EXCEPT ![g].job = call[r].job]
        <4>1. slot[g] \in Members /\ g \in Groups /\ slot \in [Groups -> Members]
          BY <1>1, <2>4 DEF SerialInv, TypeInv, TypeOK, EditsApart, EditSave
        <4>2. s \in [Groups -> [job: {call[r].job} \cup Jobs \cup {None}, edit: 0..MaxEdits]]
              /\ s[g].edit = slot[g].edit /\ \A h \in Groups \ {g} : s[h] = slot[h]
          BY <4>1 DEF Members
        <4>3. slot' = [s EXCEPT ![g].edit = s[g].edit + 1]
          BY <3>3
        <4> HIDE DEF s, g
        <4>4. slot'[g].edit = s[g].edit + 1 /\ \A h \in Groups \ {g} : slot'[h] = slot[h]
          BY <4>1, <4>2, <4>3
        <4>5. s[g].edit + 1 # slot[g].edit
          BY <4>1, <4>2, Constants DEF Members
        <4> QED
          BY <3>1, <4>1, <4>4, <4>5
      <3> QED
        BY <2>4, <3>2, <3>3 DEF EditSave
    <2>5. ASSUME NEW r \in Requests, SupersedeRead(r) \/ SlotsRead(r) \/ Abort(r) PROVE Follow
      BY <2>5 DEF SupersedeRead, SlotsRead, Abort
    <2>6. ASSUME NEW r \in Requests, NEW j \in Jobs, NEW e \in Endings, Report(r, j, e) PROVE Follow
      <3>1. slot' = slot /\ blob \ blob' = {}
        BY <2>6 DEF Report
      <3> QED
        BY <3>1
    <2>7. ASSUME NEW r \in Requests, NEW j \in Jobs, Delete(r, j) PROVE Follow
      BY <2>7 DEF Delete
    <2>8. ASSUME NEW r \in Requests, NEW g \in Groups, NEW j \in Jobs \cup {None}, EditRead(r, g, j) PROVE Follow
      BY <2>8 DEF EditRead
    <2>9. ASSUME NEW j \in Jobs, NEW id \in Ids, NEW key \in Keys \cup {None}, NEW iters \in 1..MaxIters,
                 Identity(j, id, key, iters)
          PROVE  Follow
      BY <2>9 DEF Identity
    <2>10. CASE UNCHANGED vars
      BY <2>10 DEF vars
    <2> HIDE DEF Follow
    <2> QED
      BY <1>1, <2>1, <2>2, <2>3, <2>4, <2>5, <2>6, <2>7, <2>8, <2>9, <2>10, Steps
  <1>2. OneAtATime /\ SerialInv /\ [Next]_vars => [Follow]_vars
    BY <1>1
  <1> QED
    BY <1>2, SerialInitially, SerialInductive, PTL DEF Spec, GroupsFollow
=============================================================================
