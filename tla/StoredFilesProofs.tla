--------------------------- MODULE StoredFilesProofs ---------------------------
(* Four things.  For any number of requests and streets, any dequeue limit,    *)
(* and any number of faults, evictions and restarts: the types of NodeRequests, *)
(* that its manifest never names a bundle that is not in storage, that it      *)
(* drops no street, and that a request leaves the watched prefix only when     *)
(* served.  For any number of teams, iterations, processes and faults: the     *)
(* types of SolveRun, that a refused run has touched nothing, that a team      *)
(* answers one baseline, and that no run shortens what an earlier one saved.   *)
(* For any number of boards, any budget and any number of faults: the types of *)
(* BoardLibrary, that the saves keep within their budget, and that at rest the *)
(* index, the manifests and the disk agree on what no fault has touched.       *)
(* And that what the parts of StoredFiles promise by themselves they promise   *)
(* together: a behaviour of the composition is one of each part, so the        *)
(* theorems about the parts hold of it, for every value of the constants.      *)
EXTENDS StoredFiles, FiniteInduction

-----------------------------------------------------------------------------
(* The inductive invariant of the node requests: what is true of the manifest  *)
(* has to be true of the copy of it that the watcher carries and publishes.    *)

AtWork == {"resolve", "extract", "publish"}

\* A message that can come again has deliveries left, and one that was never
\* sent has had none: its dequeue count stays within its type.
Deliverable ==
  \A i \in Requests :
    /\ message[i].at \in {"visible", "hidden"} => message[i].count < MaxDequeue
    /\ request[i].at = "none" => message[i] = [at |-> "none", count |-> 0]

\* The copy names only bundles that are there.
ReadTruthful == \A s \in Streets : watcher.read[s] = "extracted" => s \in bundle

\* The copy that will be published has every street the manifest has.
ReadKeeps ==
  watcher.pc \in AtWork /\ Without({"reread"}) =>
    \A s \in Streets : manifest[s] = "extracted" => watcher.read[s] = "extracted"

\* The faults that end in the archive without a street.
Unserved == {"misread", "giveup", "upload", "reread"}

\* On its way to the archive a group's streets are pending or there already.
GroupServed ==
  Without(Unserved) =>
    \A i \in watcher.hand : LET s == request[i].street IN
      /\ watcher.pc = "resolve" => s \in watcher.pending \/ manifest[s] = "extracted"
      /\ watcher.pc = "extract" => s \in watcher.pending \/ watcher.read[s] = "extracted"
      /\ watcher.pc = "publish" => watcher.read[s] = "extracted"
      /\ watcher.pc = "archive" => manifest[s] = "extracted"

Inv == /\ TypeOK /\ Deliverable /\ ManifestTruthful /\ ReadTruthful /\ ReadKeeps /\ GroupServed
       /\ ArchivedWasServed

-----------------------------------------------------------------------------
(* The types.                                                                  *)

\* The records a process starts from, and what a group leaves behind.
LEMMA FreshTypes ==
  /\ Nothing \in [Streets -> Entries]
  /\ \A push \in BOOLEAN : Fresh(push) \in Processes
  /\ Started \subseteq Processes
  /\ watcher \in Processes => Loop \in Processes
  <1>1. Nothing \in [Streets -> Entries]
    BY DEF Nothing, Entries
  <1>2. \A push \in BOOLEAN : Fresh(push) \in Processes
    BY <1>1 DEF Fresh, Processes
  <1>3. Started \subseteq Processes
    BY <1>2 DEF Started
  <1>4. watcher \in Processes => Loop \in Processes
    BY <1>1 DEF Loop, Processes
  <1> QED
    BY <1>1, <1>2, <1>3, <1>4

\* A fault is counted, and its kind is remembered if it is a grave one.
LEMMA FaultType ==
  ASSUME TypeOK, NEW kind, Fault(kind)
  PROVE  budget' \in [faults: 0..MaxFaults, kinds: SUBSET Grave, evictions: 0..MaxEvictions]
  <1>1. /\ budget.faults \in Nat /\ budget.faults < MaxFaults /\ MaxFaults \in Nat
        /\ budget.kinds \cup ({kind} \cap Grave) \in SUBSET Grave /\ budget.evictions \in 0..MaxEvictions
    BY BoundsAssumption DEF TypeOK, Fault
  <1>2. budget.faults + 1 \in 0..MaxFaults
    BY <1>1
  <1>3. budget' = [faults |-> budget.faults + 1, kinds |-> budget.kinds \cup ({kind} \cap Grave),
                   evictions |-> budget.evictions]
    BY DEF TypeOK, Fault
  <1> QED
    BY <1>1, <1>2, <1>3

\* Every step keeps the types.
LEMMA TypeInductive == TypeOK /\ Deliverable /\ [Next]_vars => TypeOK'
  <1> SUFFICES ASSUME TypeOK, Deliverable, [Next]_vars PROVE TypeOK'
    OBVIOUS
  <1> USE BoundsAssumption, FreshTypes
  <1>1. ASSUME NEW i \in Requests, Post(i) PROVE TypeOK'
    <2>1. request' \in [Requests -> RequestRows]
      BY ZenonT(60), <1>1 DEF Post, TypeOK, RequestRows
    <2>2. message' \in [Requests -> Messages]
      BY <1>1 DEF Post, TypeOK, Messages
    <2>3. budget' \in [faults: 0..MaxFaults, kinds: SUBSET Grave, evictions: 0..MaxEvictions]
      BY <1>1, FaultType DEF Post, NoFault, TypeOK
    <2> QED BY <1>1, <2>1, <2>2, <2>3 DEF Post, TypeOK
  <1>2. ASSUME NEW i \in Requests, Reappear(i) PROVE TypeOK'
    BY <1>2 DEF Reappear, TypeOK, Messages
  <1>3. CASE Midnight
    <2>1. request' \in [Requests -> RequestRows]
      BY ZenonT(60), <1>3 DEF Midnight, TypeOK, RequestRows, Exists
    <2> QED BY <1>3, <2>1, FaultType DEF Midnight, TypeOK
  <1>4. ASSUME NEW i \in Requests, Receive(i) PROVE TypeOK'
    <2>1. message' \in [Requests -> Messages]
      <3>1. /\ message[i].count < MaxDequeue /\ message[i].count \in Nat /\ MaxDequeue \in Nat
            /\ \E at \in {"parked", "hidden"} :
                 message' = [message EXCEPT ![i] = [at |-> at, count |-> message[i].count + 1]]
        BY <1>4 DEF Receive, TypeOK, Messages, Deliverable
      <3>2. \A at \in {"parked", "hidden"} : [at |-> at, count |-> message[i].count + 1] \in Messages
        BY <3>1 DEF Messages
      <3> QED BY <3>1, <3>2 DEF TypeOK
    <2>2. watcher' \in Processes
      <3>1. CASE UNCHANGED watcher
        BY <3>1 DEF TypeOK
      <3>2. ASSUME NEW pc \in {"delete", "group"}, NEW seen \in SUBSET Requests,
                   watcher' = [watcher EXCEPT !.via = "push", !.hand = {i}, !.pc = pc, !.seen = seen]
            PROVE  watcher' \in Processes
        BY <3>2 DEF TypeOK, Processes
      <3>3. watcher.seen \cup {i} \in SUBSET Requests /\ watcher.seen \in SUBSET Requests
        BY DEF TypeOK, Processes
      <3> QED BY <1>4, <3>1, <3>2, <3>3 DEF Receive
    <2> QED BY <1>4, <2>1, <2>2 DEF Receive, TypeOK
  <1>5. CASE DrainEnds
    BY <1>5, FaultType DEF DrainEnds, NoFault, Then, TypeOK, Processes
  <1>6. CASE Reconcile
    BY <1>6 DEF Reconcile, Listed, Unseen, TypeOK, Processes
  <1>7. CASE SkipReconcile
    BY <1>7 DEF SkipReconcile, Then, TypeOK, Processes
  <1>8. ASSUME NEW i \in Requests, Misread(i) PROVE TypeOK'
    <2>1. request' \in [Requests -> RequestRows]
      BY <1>8 DEF Misread, TypeOK, RequestRows
    <2>2. watcher' \in Processes
      BY <1>8 DEF Misread, TypeOK, Processes
    <2> QED BY <1>8, <2>1, <2>2, FaultType DEF Misread, TypeOK
  <1>9. CASE GroupRead
    <2> DEFINE pending == Pending(manifest)
               read == IF cfr THEN manifest
                       ELSE [s \in Streets |-> IF s \in pending THEN "resolving" ELSE manifest[s]]
    <2>1. pending \subseteq Streets /\ read \in [Streets -> Entries]
      BY DEF TypeOK, Pending, Processes, RequestRows, Entries
    <2>2. manifest' \in [Streets -> Entries]
      BY <1>9, <2>1 DEF GroupRead, TypeOK
    <2>3. watcher' \in Processes
      <3>1. watcher' = [watcher EXCEPT !.read = read, !.pending = pending,
                          !.pc = IF pending = {} THEN "archive" ELSE IF cfr THEN "extract" ELSE "resolve"]
        BY <1>9 DEF GroupRead
      <3> HIDE DEF pending, read
      <3> QED BY <2>1, <3>1 DEF TypeOK, Processes
    <2>4. budget' \in [faults: 0..MaxFaults, kinds: SUBSET Grave, evictions: 0..MaxEvictions]
      BY <1>9, FaultType DEF GroupRead, NoFault, TypeOK
    <2>5. UNCHANGED <<request, message, bundle, cfr>>
      BY <1>9 DEF GroupRead
    <2> QED BY <2>2, <2>3, <2>4, <2>5 DEF TypeOK
  <1>10. CASE GroupGivesUp
    BY <1>10, FaultType DEF GroupGivesUp, Then, TypeOK, Processes
  <1>11. CASE GroupFails
    BY <1>11, FaultType DEF GroupFails, TypeOK
  <1>12. CASE Resolve
    <2>1. watcher' \in Processes /\ manifest' \in [Streets -> Entries]
      <3>1. watcher.read \in [Streets -> Entries] /\ manifest \in [Streets -> Entries]
        BY DEF TypeOK, Processes
      <3>2. \E m \in [Streets -> Entries] : watcher' = [watcher EXCEPT !.pc = "extract", !.read = m]
        BY <1>12, <3>1 DEF Resolve
      <3>3. watcher' \in Processes
        <4>1. watcher \in Processes
          BY DEF TypeOK
        <4>2. PICK m \in [Streets -> Entries] : watcher' = [watcher EXCEPT !.pc = "extract", !.read = m]
          BY <3>2
        <4> QED BY ONLY <4>1, <4>2 DEF Processes
      <3> QED BY <1>12, <3>1, <3>3 DEF Resolve
    <2>2. budget' \in [faults: 0..MaxFaults, kinds: SUBSET Grave, evictions: 0..MaxEvictions]
      BY <1>12, FaultType DEF Resolve, NoFault, TypeOK
    <2> QED BY <1>12, <2>1, <2>2 DEF Resolve, TypeOK
  <1>13. CASE Extract
    <2>1. PICK ok \in SUBSET watcher.pending :
            /\ IF ok = watcher.pending THEN NoFault ELSE Fault("upload")
            /\ bundle' = bundle \cup ok
            /\ watcher' = [watcher EXCEPT !.pc = "publish", !.read = Marked(@, ok)]
      BY <1>13 DEF Extract
    <2>2. watcher' \in Processes
      BY <2>1 DEF TypeOK, Processes, Marked, Entries
    <2>3. bundle' \subseteq Streets
      BY <2>1 DEF TypeOK, Processes
    <2>4. budget' \in [faults: 0..MaxFaults, kinds: SUBSET Grave, evictions: 0..MaxEvictions]
      BY <2>1, FaultType DEF NoFault, TypeOK
    <2> QED BY <1>13, <2>2, <2>3, <2>4 DEF Extract, TypeOK
  <1>14. CASE Publish
    <2>1. watcher' \in Processes /\ manifest' \in [Streets -> Entries]
      BY <1>14 DEF Publish, Then, TypeOK, Processes
    <2>2. budget' \in [faults: 0..MaxFaults, kinds: SUBSET Grave, evictions: 0..MaxEvictions]
      BY <1>14, FaultType DEF Publish, NoFault, TypeOK
    <2> QED BY <1>14, <2>1, <2>2 DEF Publish, TypeOK
  <1>15. CASE Archive
    <2>1. request' \in [Requests -> RequestRows]
      BY <1>15 DEF Archive, TypeOK, RequestRows
    <2>2. watcher' \in Processes
      BY <1>15 DEF Archive, AfterArchive, Loop, Nothing, Entries, TypeOK, Processes
    <2>3. budget' \in [faults: 0..MaxFaults, kinds: SUBSET Grave, evictions: 0..MaxEvictions]
      BY <1>15, FaultType DEF Archive, NoFault, TypeOK
    <2> QED BY <1>15, <2>1, <2>2, <2>3 DEF Archive, TypeOK
  <1>16. CASE Delete
    BY <1>16 DEF Delete, TypeOK, Messages
  <1>17. CASE Evict
    <2>1. budget' \in [faults: 0..MaxFaults, kinds: SUBSET Grave, evictions: 0..MaxEvictions]
      <3>1. budget.evictions + 1 \in 0..MaxEvictions /\ budget' = [budget EXCEPT !.evictions = @ + 1]
        BY <1>17 DEF Evict, TypeOK
      <3> QED BY <3>1 DEF TypeOK
    <2> QED BY <1>17, <2>1 DEF Evict, TypeOK
  <1>18. CASE Crash
    <2>1. watcher' \in Processes
      BY <1>18 DEF Crash, TypeOK, Processes, Fresh, Nothing, Entries
    <2> QED BY <1>18, <2>1, FaultType DEF Crash, TypeOK
  <1>19. CASE Restart
    BY <1>19 DEF Restart, TypeOK
  <1>20. CASE UNCHANGED vars
    BY <1>20 DEF vars, TypeOK
  <1> QED
    BY <1>1, <1>2, <1>3, <1>4, <1>5, <1>6, <1>7, <1>8, <1>9, <1>10, <1>11, <1>12, <1>13, <1>14,
       <1>15, <1>16, <1>17, <1>18, <1>19, <1>20 DEF Next, Work, Trouble

\* The board starts with nothing asked, an empty manifest and a watcher at its drain.
LEMMA InitInv == Init => Inv
  <1> SUFFICES ASSUME Init PROVE Inv
    OBVIOUS
  <1> USE BoundsAssumption, FreshTypes
  <1>1. TypeOK
    <2>1. request \in [Requests -> RequestRows] /\ message \in [Requests -> Messages]
      <3>1. \A r \in [at: {"none"}, street: Streets, today: {TRUE}] : r \in RequestRows
        BY DEF RequestRows
      <3>2. [at |-> "none", count |-> 0] \in Messages
        BY DEF Messages
      <3> QED BY <3>1, <3>2 DEF Init
    <2>2. budget \in [faults: 0..MaxFaults, kinds: SUBSET Grave, evictions: 0..MaxEvictions]
      BY DEF Init
    <2> QED BY <2>1, <2>2 DEF Init, TypeOK
  <1>2. watcher.pc = "drain" /\ watcher.read = Nothing /\ watcher.hand = {}
    BY DEF Init, Started, Fresh
  <1> QED
    BY <1>1, <1>2 DEF Init, Inv, Deliverable, ManifestTruthful, ReadTruthful, ReadKeeps, GroupServed,
       ArchivedWasServed, Nothing, AtWork

-----------------------------------------------------------------------------
(* The steps.                                                                  *)

\* A message is parked with its last delivery.
LEMMA DeliverableInductive == TypeOK /\ Deliverable /\ [Next]_vars => Deliverable'
  <1> SUFFICES ASSUME TypeOK, Deliverable, [Next]_vars PROVE Deliverable'
    OBVIOUS
  <1> USE BoundsAssumption
  <1>1. ASSUME NEW i \in Requests, Post(i) PROVE Deliverable'
    BY <1>1 DEF Post, TypeOK, Deliverable
  <1>2. ASSUME NEW i \in Requests, Reappear(i) PROVE Deliverable'
    BY <1>2 DEF Reappear, TypeOK, Deliverable, Messages
  <1>3. CASE Midnight
    BY <1>3 DEF Midnight, TypeOK, Deliverable, RequestRows
  <1>4. ASSUME NEW i \in Requests, Receive(i) PROVE Deliverable'
    BY <1>4 DEF Receive, Poison, TypeOK, Deliverable, Messages
  <1>5. ASSUME NEW i \in Requests, Misread(i) PROVE Deliverable'
    BY <1>5 DEF Misread, TypeOK, Deliverable
  <1>6. CASE Archive
    BY <1>6 DEF Archive, TypeOK, Deliverable, RequestRows
  <1>7. CASE Delete
    BY <1>7 DEF Delete, TypeOK, Deliverable, Messages
  <1>8. CASE UNCHANGED <<request, message>>
    BY <1>8 DEF Deliverable
  <1> QED
    BY <1>1, <1>2, <1>3, <1>4, <1>5, <1>6, <1>7, <1>8
    DEF Next, Work, Trouble, vars, DrainEnds, Reconcile, SkipReconcile, GroupRead, GroupGivesUp,
        GroupFails, Resolve, Extract, Publish, Evict, Crash, Restart

\* Once a grave fault has happened it has happened.
LEMMA KindsGrow ==
  ASSUME TypeOK, [Next]_vars, NEW S, Without(S)'
  PROVE  Without(S)
  <1>1. UNCHANGED budget \/ Evict \/ \E kind : Fault(kind)
    BY DEF Next, Work, Trouble, vars, Post, Reappear, Midnight, Receive, DrainEnds, Reconcile,
       SkipReconcile, Misread, GroupRead, GroupGivesUp, GroupFails, Resolve, Extract, Publish, Archive,
       Delete, Crash, Restart, NoFault
  <1>2. budget.kinds \subseteq budget'.kinds
    BY <1>1 DEF Evict, Fault, TypeOK
  <1> QED
    BY <1>2 DEF Without

\* The manifest, its bundles and the copy in work are the business of four steps
\* of the watcher; the others leave the copy, or drop it with the group.
LEMMA Elsewhere ==
  ASSUME TypeOK, [Next]_vars, ~GroupRead, ~Resolve, ~Extract, ~Publish
  PROVE  /\ UNCHANGED <<manifest, bundle>>
         /\ watcher'.read \in {watcher.read, Nothing}
         /\ watcher'.pc \notin AtWork \/ UNCHANGED watcher
  <1> DEFINE Goal == /\ UNCHANGED <<manifest, bundle>>
                     /\ watcher'.read \in {watcher.read, Nothing}
                     /\ watcher'.pc \notin AtWork \/ UNCHANGED watcher
  <1>a. watcher \in Processes
    BY DEF TypeOK
  <1> SUFFICES Goal
    OBVIOUS
  <1> HIDE DEF Goal
  <1> USE DEF AtWork
  <1>1. ASSUME NEW i \in Requests, Post(i) \/ Reappear(i) PROVE Goal
    BY <1>1 DEF Post, Reappear, Goal
  <1>2. CASE Midnight \/ Evict
    BY <1>2 DEF Midnight, Evict, Goal
  <1>3. ASSUME NEW i \in Requests, Receive(i) PROVE Goal
    BY <1>3, <1>a DEF Receive, Goal, Processes
  <1>4. CASE DrainEnds \/ SkipReconcile \/ GroupGivesUp
    BY <1>4, <1>a DEF DrainEnds, SkipReconcile, GroupGivesUp, Then, Goal, Processes
  <1>5. CASE Reconcile
    BY <1>5, <1>a DEF Reconcile, Goal, Processes
  <1>6. ASSUME NEW i \in Requests, Misread(i) PROVE Goal
    BY <1>6, <1>a DEF Misread, Loop, Goal, Processes
  <1>7. CASE GroupFails \/ Delete
    BY <1>7, <1>a DEF GroupFails, Delete, Loop, Goal, Processes
  <1>8. CASE Archive
    BY <1>8, <1>a DEF Archive, AfterArchive, Loop, Goal, Processes
  <1>9. CASE Crash
    BY <1>9 DEF Crash, Fresh, Goal
  <1>10. CASE Restart
    BY <1>10 DEF Restart, Started, Fresh, Goal
  <1>11. CASE UNCHANGED vars
    BY <1>11 DEF vars, Goal
  <1> QED
    BY <1>1, <1>2, <1>3, <1>4, <1>5, <1>6, <1>7, <1>8, <1>9, <1>10, <1>11 DEF Next, Work, Trouble

\* A manifest, or a copy of it, that names what is not there would have to be
\* read from one that does, or be entered before the upload.
LEMMA TruthInductive ==
  TypeOK /\ ManifestTruthful /\ ReadTruthful /\ [Next]_vars => ManifestTruthful' /\ ReadTruthful'
  <1> SUFFICES ASSUME TypeOK, ManifestTruthful, ReadTruthful, [Next]_vars
               PROVE  ManifestTruthful' /\ ReadTruthful'
    OBVIOUS
  <1> USE DEF ManifestTruthful, ReadTruthful
  <1>a. watcher \in Processes
    BY DEF TypeOK
  <1>1. CASE UNCHANGED <<manifest, bundle>> /\ watcher'.read \in {watcher.read, Nothing}
    BY <1>1 DEF Nothing
  <1>2. CASE GroupRead
    <2> DEFINE pending == Pending(manifest)
               read == IF cfr THEN manifest
                       ELSE [s \in Streets |-> IF s \in pending THEN "resolving" ELSE manifest[s]]
    <2>1. manifest' \in {read, manifest} /\ watcher'.read = read /\ UNCHANGED bundle
      BY <1>2, <1>a DEF GroupRead, Processes
    <2>2. \A s \in Streets : read[s] = "extracted" => manifest[s] = "extracted"
      OBVIOUS
    <2> QED BY <2>1, <2>2
  <1>3. CASE Resolve
    <2>1. /\ manifest' \in {manifest, Nothing} /\ UNCHANGED bundle
          /\ watcher'.read \in {manifest, Nothing, watcher.read}
      BY <1>3, <1>a DEF Resolve, Processes
    <2> QED BY <2>1 DEF Nothing
  <1>4. CASE Extract
    <2>1. PICK ok \in SUBSET watcher.pending :
            /\ bundle' = bundle \cup ok
            /\ watcher' = [watcher EXCEPT !.pc = "publish", !.read = Marked(@, ok)]
      BY <1>4 DEF Extract
    <2>2. watcher'.read = Marked(watcher.read, ok) /\ UNCHANGED manifest
      BY <1>4, <1>a, <2>1 DEF Extract, Processes
    <2> QED BY <2>1, <2>2 DEF Marked
  <1>5. CASE Publish
    <2>1. manifest' \in {manifest, watcher.read} /\ UNCHANGED bundle /\ watcher'.read = watcher.read
      BY <1>5, <1>a DEF Publish, Then, Processes
    <2> QED BY <2>1
  <1>6. CASE ~GroupRead /\ ~Resolve /\ ~Extract /\ ~Publish
    BY <1>6, <1>1, Elsewhere
  <1> QED
    BY <1>2, <1>3, <1>4, <1>5, <1>6

\* The copy that will be published keeps up with the manifest, from the read on.
LEMMA KeepsInductive == TypeOK /\ ReadKeeps /\ [Next]_vars => ReadKeeps'
  <1> SUFFICES ASSUME TypeOK, ReadKeeps, [Next]_vars, Without({"reread"})', watcher'.pc \in AtWork,
                      NEW s \in Streets, manifest'[s] = "extracted"
               PROVE  watcher'.read[s] = "extracted"
    BY DEF ReadKeeps
  <1>a. Without({"reread"}) /\ watcher \in Processes
    BY KindsGrow DEF TypeOK
  <1>1. CASE GroupRead
    <2> DEFINE pending == Pending(manifest)
               read == IF cfr THEN manifest
                       ELSE [x \in Streets |-> IF x \in pending THEN "resolving" ELSE manifest[x]]
    <2>1. manifest' \in {read, manifest} /\ watcher'.read = read
      BY <1>1, <1>a DEF GroupRead, Processes
    <2>2. manifest[s] = "extracted" => s \notin pending
      BY DEF Pending
    <2> QED BY <2>1, <2>2
  <1>2. CASE Resolve
    <2>1. ~Fault("reread")
      BY DEF Fault, Without, Grave, TypeOK
    <2>2. UNCHANGED manifest /\ watcher'.read = manifest
      BY <1>2, <1>a, <2>1 DEF Resolve, Processes
    <2> QED BY <2>2
  <1>3. CASE Extract
    <2>1. PICK ok \in SUBSET watcher.pending :
            watcher' = [watcher EXCEPT !.pc = "publish", !.read = Marked(@, ok)]
      BY <1>3 DEF Extract
    <2>2. watcher'.read = Marked(watcher.read, ok) /\ UNCHANGED manifest /\ watcher.pc \in AtWork
      BY <1>3, <1>a, <2>1 DEF Extract, Processes, AtWork
    <2>3. watcher.read[s] = "extracted"
      BY <1>a, <2>2 DEF ReadKeeps
    <2> QED BY <2>2, <2>3 DEF Marked
  <1>4. CASE Publish
    BY <1>4, <1>a DEF Publish, Then, Processes, AtWork
  <1>5. CASE ~GroupRead /\ ~Resolve /\ ~Extract /\ ~Publish
    <2>1. UNCHANGED <<manifest, watcher>>
      BY <1>5, Elsewhere
    <2> QED BY <1>a, <2>1 DEF ReadKeeps
  <1> QED
    BY <1>1, <1>2, <1>3, <1>4, <1>5

\* A grave fault is remembered.
LEMMA FaultRemembered ==
  ASSUME TypeOK, NEW kind \in Grave, Fault(kind), NEW S, kind \in S
  PROVE  ~Without(S)'
  <1>1. kind \in budget'.kinds
    BY DEF Fault, TypeOK
  <1> QED
    BY <1>1 DEF Without

\* The manifest loses a street only to a merge that could not read it.
LEMMA StreetKept ==
  ASSUME TypeOK, ReadKeeps, [Next]_vars, Without({"reread"})',
         NEW s \in Streets, manifest[s] = "extracted"
  PROVE  manifest'[s] = "extracted"
  <1>a. Without({"reread"}) /\ watcher \in Processes
    BY KindsGrow DEF TypeOK
  <1>1. CASE GroupRead
    <2> DEFINE read == IF cfr THEN manifest
                       ELSE [x \in Streets |-> IF x \in Pending(manifest) THEN "resolving" ELSE manifest[x]]
    <2>1. manifest' \in {read, manifest}
      BY <1>1 DEF GroupRead
    <2>2. s \notin Pending(manifest)
      BY DEF Pending
    <2> QED BY <2>1, <2>2
  <1>2. CASE Resolve
    <2>1. ~Fault("reread")
      BY FaultRemembered DEF Grave
    <2> QED BY <1>2, <2>1 DEF Resolve
  <1>3. CASE Extract
    BY <1>3 DEF Extract
  <1>4. CASE Publish
    <2>1. watcher.read[s] = "extracted"
      BY <1>4, <1>a DEF Publish, ReadKeeps, AtWork
    <2> QED BY <1>4, <2>1 DEF Publish
  <1>5. CASE ~GroupRead /\ ~Resolve /\ ~Extract /\ ~Publish
    BY <1>5, Elsewhere
  <1> QED
    BY <1>1, <1>2, <1>3, <1>4, <1>5

\* A request is for one street for ever, and reaches the archive as one of the
\* group in work.
LEMMA RowsKept ==
  ASSUME TypeOK, [Next]_vars, NEW i \in Requests
  PROVE  /\ request'[i].street = request[i].street
         /\ \/ request'[i].at = "archived" => request[i].at = "archived"
            \/ Archive /\ i \in watcher.hand
            \/ Fault("misread")
  <1>1. ASSUME NEW k \in Requests, Post(k)
        PROVE  request'[i].street = request[i].street /\ (request'[i].at = "archived" => request[i].at = "archived")
    BY <1>1 DEF Post, TypeOK, RequestRows
  <1>2. CASE Midnight
    BY <1>2 DEF Midnight, TypeOK, RequestRows
  <1>3. ASSUME NEW k \in Requests, Misread(k)
        PROVE  request'[i].street = request[i].street /\ Fault("misread")
    BY <1>3 DEF Misread, TypeOK, RequestRows
  <1>4. CASE Archive
    <2>1. request'[i].street = request[i].street
      BY <1>4 DEF Archive, TypeOK, RequestRows
    <2>2. i \in watcher.hand \/ request'[i] = request[i]
      BY <1>4 DEF Archive, TypeOK
    <2> QED BY <1>4, <2>1, <2>2
  <1>5. CASE UNCHANGED request
    BY <1>5
  <1> QED
    BY <1>1, <1>2, <1>3, <1>4, <1>5
    DEF Next, Work, Trouble, vars, Reappear, Receive, DrainEnds, Reconcile, SkipReconcile, GroupRead,
        GroupGivesUp, GroupFails, Resolve, Extract, Publish, Delete, Evict, Crash, Restart

\* From the read on, each step hands to the next what makes the group's streets
\* published when it comes to the archive.
LEMMA ServedInductive == TypeOK /\ TypeOK' /\ GroupServed /\ [Next]_vars => GroupServed'
  <1> SUFFICES ASSUME TypeOK, TypeOK', GroupServed, [Next]_vars, Without(Unserved)', NEW i \in watcher'.hand
               PROVE  LET s == request'[i].street IN
                        /\ watcher'.pc = "resolve" => s \in watcher'.pending \/ manifest'[s] = "extracted"
                        /\ watcher'.pc = "extract" => s \in watcher'.pending \/ watcher'.read[s] = "extracted"
                        /\ watcher'.pc = "publish" => watcher'.read[s] = "extracted"
                        /\ watcher'.pc = "archive" => manifest'[s] = "extracted"
    BY DEF GroupServed
  <1> DEFINE s == request'[i].street
             Goal == /\ watcher'.pc = "resolve" => s \in watcher'.pending \/ manifest'[s] = "extracted"
                     /\ watcher'.pc = "extract" => s \in watcher'.pending \/ watcher'.read[s] = "extracted"
                     /\ watcher'.pc = "publish" => watcher'.read[s] = "extracted"
                     /\ watcher'.pc = "archive" => manifest'[s] = "extracted"
  <1> SUFFICES Goal
    OBVIOUS
  <1>a. Without(Unserved) /\ watcher \in Processes
    BY KindsGrow DEF TypeOK
  <1>b. ~Fault("misread") /\ ~Fault("giveup") /\ ~Fault("upload") /\ ~Fault("reread")
    BY FaultRemembered DEF Grave, Unserved
  <1>c. i \in Requests /\ s = request[i].street /\ s \in Streets
    <2>1. i \in Requests
      BY DEF TypeOK, Processes
    <2> QED BY <2>1, RowsKept DEF TypeOK, RequestRows
  <1> HIDE DEF Goal, s
  <1>1. CASE GroupRead
    <2> DEFINE read == IF cfr THEN manifest
                       ELSE [x \in Streets |-> IF x \in Pending(manifest) THEN "resolving" ELSE manifest[x]]
    <2>1. /\ manifest' = read
          /\ watcher' = [watcher EXCEPT !.read = read, !.pending = Pending(manifest),
                           !.pc = IF Pending(manifest) = {} THEN "archive"
                                  ELSE IF cfr THEN "extract" ELSE "resolve"]
      BY <1>1, <1>b DEF GroupRead
    <2>2. i \in watcher.hand
      BY <1>a, <2>1 DEF Processes
    <2>3. s \in Pending(manifest) \/ manifest[s] = "extracted"
      BY <1>c, <2>2 DEF Pending
    <2>4. s \notin Pending(manifest) => read[s] = manifest[s]
      BY <1>c
    <2>5. watcher'.pending = Pending(manifest) /\ watcher'.read = read
      BY <1>a, <2>1 DEF Processes
    <2>6. watcher'.pc = IF Pending(manifest) = {} THEN "archive" ELSE IF cfr THEN "extract" ELSE "resolve"
      BY <1>a, <2>1 DEF Processes
    <2> HIDE DEF read
    <2> QED BY <2>1, <2>3, <2>4, <2>5, <2>6 DEF Goal
  <1>2. CASE Resolve
    <2>1. watcher' = [watcher EXCEPT !.pc = "extract", !.read = manifest] /\ watcher.pc = "resolve"
      BY <1>2, <1>b DEF Resolve
    <2>2. /\ i \in watcher.hand /\ watcher'.pc = "extract" /\ watcher'.read = manifest
          /\ watcher'.pending = watcher.pending
      BY <1>a, <2>1 DEF Processes
    <2> QED BY <1>a, <1>c, <2>1, <2>2 DEF GroupServed, Goal
  <1>3. CASE Extract
    <2>1. watcher' = [watcher EXCEPT !.pc = "publish", !.read = Marked(@, watcher.pending)]
          /\ watcher.pc = "extract"
      BY <1>3, <1>b DEF Extract
    <2>2. /\ i \in watcher.hand /\ watcher'.pc = "publish"
          /\ watcher'.read = Marked(watcher.read, watcher.pending)
      BY <1>a, <2>1 DEF Processes
    <2>3. s \in watcher.pending \/ watcher.read[s] = "extracted"
      BY <1>a, <1>c, <2>1, <2>2 DEF GroupServed
    <2> QED BY <1>c, <2>2, <2>3 DEF Marked, Goal
  <1>4. CASE Publish
    <2>1. manifest' = watcher.read /\ watcher.pc = "publish" /\ watcher' = [watcher EXCEPT !.pc = "archive"]
      BY <1>4, <1>b DEF Publish, Then
    <2>2. i \in watcher.hand /\ watcher'.pc = "archive"
      BY <1>a, <2>1 DEF Processes
    <2> QED BY <1>a, <1>c, <2>1, <2>2 DEF GroupServed, Goal
  <1>5. CASE UNCHANGED <<watcher, manifest>>
    BY <1>a, <1>c, <1>5 DEF GroupServed, Goal
  <1>6. CASE watcher'.pc \notin AtWork \cup {"archive"}
    BY <1>6 DEF AtWork, Goal
  <1>7. CASE ~GroupRead /\ ~Resolve /\ ~Extract /\ ~Publish
    <2>1. UNCHANGED manifest /\ (watcher'.pc \notin AtWork \/ UNCHANGED watcher)
      BY <1>7, Elsewhere
    <2>2. watcher'.pc = "archive" => UNCHANGED watcher
      <3>1. ASSUME NEW k \in Requests, Receive(k) PROVE watcher'.pc # "archive" \/ UNCHANGED watcher
        BY <3>1, <1>a DEF Receive, Processes
      <3>2. CASE DrainEnds \/ SkipReconcile \/ Reconcile
        BY <3>2, <1>a DEF DrainEnds, SkipReconcile, Reconcile, Then, Processes
      <3>3. ~GroupGivesUp /\ \A k \in Requests : ~Misread(k)
        BY <1>b DEF GroupGivesUp, Misread
      <3>4. CASE GroupFails \/ Delete \/ Archive
        BY <3>4, <1>a DEF GroupFails, Delete, Archive, AfterArchive, Loop, Processes
      <3>5. CASE Crash \/ Restart
        BY <3>5 DEF Crash, Restart, Started, Fresh
      <3>6. CASE UNCHANGED watcher
        BY <3>6
      <3> QED
        BY <1>7, <3>1, <3>2, <3>3, <3>4, <3>5, <3>6
        DEF Next, Work, Trouble, vars, Post, Reappear, Midnight, Evict
    <2> QED BY <1>5, <1>6, <2>1, <2>2
  <1> QED
    BY <1>1, <1>2, <1>3, <1>4, <1>7

\* A request comes to the archive from a group whose streets are published.
LEMMA ArchiveInductive ==
  TypeOK /\ ReadKeeps /\ GroupServed /\ ArchivedWasServed /\ [Next]_vars => ArchivedWasServed'
  <1> SUFFICES ASSUME TypeOK, ReadKeeps, GroupServed, ArchivedWasServed, [Next]_vars, Without(Unserved)',
                      NEW i \in Requests, request'[i].at = "archived"
               PROVE  manifest'[request'[i].street] = "extracted"
    BY DEF ArchivedWasServed, Unserved
  <1>a. Without(Unserved) /\ watcher \in Processes
    BY KindsGrow DEF TypeOK
  <1>b. ~Fault("misread") /\ Without({"reread"})'
    BY FaultRemembered DEF Grave, Unserved, Without
  <1>1. request'[i].street = request[i].street /\ request[i].street \in Streets
    BY RowsKept DEF TypeOK, RequestRows
  <1>2. request[i].at = "archived" \/ (Archive /\ i \in watcher.hand)
    BY <1>b, RowsKept
  <1>3. manifest[request[i].street] = "extracted"
    BY <1>a, <1>2 DEF ArchivedWasServed, GroupServed, Unserved, Archive
  <1> QED
    BY <1>b, <1>1, <1>3, StreetKept

-----------------------------------------------------------------------------
(* The theorems.                                                               *)

\* Every step keeps the invariant.
LEMMA StepInv == Inv /\ [Next]_vars => Inv'
  BY TypeInductive, DeliverableInductive, TruthInductive, KeepsInductive, ServedInductive, ArchiveInductive
  DEF Inv

LEMMA Invariance == Spec => []Inv
  BY InitInv, StepInv, PTL DEF Spec

\* Every variable of NodeRequests keeps its type.
THEOREM NodeTypeCorrect == Spec => []TypeOK
  BY Invariance, PTL DEF Inv

\* What the manifest calls extracted is in storage, whatever uploads fail, and
\* however often the process dies between a bundle and the manifest.
THEOREM ManifestIsTruthful == Spec => []ManifestTruthful
  BY Invariance, PTL DEF Inv

\* A request is taken out of the watched prefix only when its street is
\* published, unless a failure was taken for an answer.
THEOREM ArchivedOnlyWhenServed == Spec => []ArchivedWasServed
  BY Invariance, PTL DEF Inv

\* No step takes a street out of the library, but for a merge into a manifest
\* that could not be read.
THEOREM StreetsAreKept == Spec => StreetsKept
  <1>1. Inv /\ [Next]_vars
          => [Without({"reread"})' => \A s \in Streets : manifest[s] = "extracted" => manifest'[s] = "extracted"]_vars
    BY StreetKept DEF Inv
  <1> QED
    BY <1>1, Invariance, PTL DEF Spec, StreetsKept

-----------------------------------------------------------------------------
(* The inductive invariant of a solve run.                                     *)

InPhase1 == {"base", "interlock", "phase1", "savebase"}
Writing == {"open", "write", "remove", "rename"}
InPhase2 == {"phase2", "save", "export"} \cup Writing

\* Only a team has a first phase, and only a team writes another solve's file.
OfTeams ==
  /\ run.pc \in InPhase1 => Team(run.config)
  /\ run.pc \in Writing => run.writes = run.config.solve \/ (run.writes = Baseline /\ Team(run.config))

\* Up to the interlock a run has only read.
Untouched == run.pc \in {"own", "base", "interlock", "refused"} => file = run.found

\* What has not been trained has been trained against nothing.
NoneAgainstNone ==
  /\ \A s \in Solves : \A f \in {file[s], tmp[s]} : f.iters = 0 => f.trained = {}
  /\ run.solver.iters = 0 => run.solver.trained = {}

\* The files of a team, the one being written included, and the solver the
\* process holds: up to the end of phase 1 it answers the baseline of its
\* checkpoint, and the interlock has seen to it that this is where phase 1 is
\* to end; from then on it answers phase 1's.
FilesAgainstOne ==
  \A t \in Teams \ moved : \A f \in {file[t], tmp[t], artifact[t]} : f.trained \subseteq {f.base}

SolverAgainstOne ==
  /\ run.pc = "own" => run.solver = NoSolver
  /\ run.pc \in {"own"} \cup InPhase1 => run.resumed \/ run.solver.iters = 0
  /\ run.pc \in InPhase1 /\ run.config.solve \notin moved => run.solver.trained \subseteq {run.extras}
  /\ run.pc = "interlock" => run.before = run.baseline
  /\ run.pc \in {"phase1", "savebase"} /\ run.solver.iters > 0 => run.extras = BaseEnd(run.config, run.before)
  /\ run.pc \in InPhase2 /\ Team(run.config) /\ run.config.solve \notin moved =>
       run.solver.trained \subseteq {run.baseline}

\* A checkpoint is whole, and the temporary file is when it is to take its place.
WholeFiles ==
  /\ \A s \in Solves : file[s].is # "half"
  /\ run.pc \in {"remove", "rename"} => tmp[run.writes] = ToWrite
  /\ run.pc = "rename" => file[run.writes].is = "none"

\* Unless it starts over, a run has at least what is on disk: of its own solve
\* once it has read it, and of the baseline.
AtMost(f, n) == f.is = "none" \/ (f.is = "ours" /\ f.iters <= n)
Continues ==
  run.config.resume # "never" =>
    /\ run.pc \in InPhase1 \cup InPhase2 /\ ~run.rebased => AtMost(file[run.config.solve], run.solver.iters)
    /\ run.pc \in (InPhase1 \ {"base"}) \cup InPhase2 /\ Team(run.config) => AtMost(file[Baseline], run.baseline)

\* What each solve was saved with is in place.
AllInPlace == \A s \in Solves : InPlace(s)

SolveInv == /\ SolveTypeOK /\ OfTeams /\ Untouched /\ NoneAgainstNone /\ FilesAgainstOne
            /\ SolverAgainstOne /\ WholeFiles /\ Continues /\ AllInPlace

-----------------------------------------------------------------------------
(* The types.                                                                  *)

\* What no process leaves behind, and what a process starts from.
LEMMA RunTypes ==
  /\ \A is \in {"none", "half", "foreign", "ours"} : FileOf(is) \in Files
  /\ file \in [Solves -> Files] => \A c \in Configs : NewRun(c) \in Runs
  /\ NoRun \in Runs /\ NoRun.pc = "idle" /\ NoRun.solver = NoSolver
  <1> USE ItersAssumption
  <1>1. \A is \in {"none", "half", "foreign", "ours"} : FileOf(is) \in Files
    BY DEF FileOf, Files, Iters
  <1>2. NoSolver \in [iters: Iters, trained: SUBSET Iters] /\ 0 \in Iters
    BY DEF NoSolver, Iters
  <1>3. ASSUME NEW c \in Configs, NEW found \in [Solves -> Files]
        PROVE  [NewRun(c) EXCEPT !.pc = "idle", !.found = found] \in Runs
    <2>1. c.solve \in Solves
      BY DEF Configs
    <2> QED BY <1>2, <1>3, <2>1 DEF NewRun, Runs
  <1>4. \E c \in Configs : ~Team(c)
    <2> DEFINE c == [solve |-> Baseline, iterations |-> 1, baseline |-> 1, resume |-> "auto",
                     rebase |-> FALSE, sliced |-> FALSE]
    <2>1. c \in Configs /\ ~Team(c)
      BY DEF Configs, Team, Solves
    <2> QED BY <2>1
  <1>5. (CHOOSE c \in Configs : ~Team(c)) \in Configs
    BY <1>4
  <1>6. NoRun \in Runs /\ NoRun.pc = "idle" /\ NoRun.solver = NoSolver
    <2> DEFINE d == CHOOSE c \in Configs : ~Team(c)
               none == [s \in Solves |-> FileOf("none")]
    <2>1. d \in Configs /\ none \in [Solves -> Files]
      BY <1>1, <1>5
    <2>2. NoRun = [NewRun(d) EXCEPT !.pc = "idle", !.found = none]
      BY DEF NoRun
    <2> HIDE DEF d, none
    <2> QED BY <1>3, <2>1, <2>2 DEF NewRun
  <1>7. ASSUME file \in [Solves -> Files], NEW c \in Configs PROVE NewRun(c) \in Runs
    <2>1. c.solve \in Solves
      BY DEF Configs
    <2> QED BY <1>2, <1>7, <2>1 DEF NewRun, Runs
  <1> QED
    BY <1>1, <1>6, <1>7

\* A step to another program counter alone.
LEMMA GotoType ==
  ASSUME run \in Runs, NEW pc \in InPhase1 \cup InPhase2 \cup {"refused"}, Goto(pc)
  PROVE  run' \in Runs
  BY DEF Goto, Runs, InPhase1, InPhase2, Writing

\* What a run is about to write is a checkpoint, and what it is about to stamp a
\* number of iterations.
LEMMA ToWriteType ==
  ASSUME run \in Runs
  PROVE  ToWrite \in Files /\ StampedBase(run) \in Iters
  <1> USE ItersAssumption
  <1>1. /\ run.solver.iters \in Iters /\ run.solver.trained \in SUBSET Iters /\ run.baseline \in Iters
        /\ run.extras \in Iters /\ 0 \in Iters
    BY DEF Runs, Iters
  <1>2. StampedBase(run) \in Iters
    BY <1>1 DEF StampedBase
  <1> QED
    BY <1>1, <1>2 DEF ToWrite, Files

\* A slice ends where its phase does.
LEMMA SliceType ==
  ASSUME NEW c \in Configs, NEW done \in Iters, NEW end \in 1..MaxIters, done < end,
         NEW n \in SliceSizes(c, end - done)
  PROVE  done + n \in Iters /\ n > 0 /\ done + n <= end
  BY ItersAssumption DEF SliceSizes, Iters

LEMMA FaultTypes ==
  ASSUME SolveTypeOK, SolveFault
  PROVE  spent' \in [runs: 0..MaxRuns, faults: 0..SolveMaxFaults]
  <1>1. spent.faults + 1 \in 0..SolveMaxFaults
    BY ItersAssumption DEF SolveTypeOK, SolveFault
  <1> QED
    BY <1>1 DEF SolveTypeOK, SolveFault

\* Every step keeps the types.
LEMMA SolveTypeInductive == SolveTypeOK /\ OfTeams /\ [SolveNext]_solveVars => SolveTypeOK'
  <1> SUFFICES ASSUME SolveTypeOK, OfTeams, [SolveNext]_solveVars PROVE SolveTypeOK'
    OBVIOUS
  <1> USE RunTypes
  <1>a. run \in Runs /\ file \in [Solves -> Files] /\ run.config \in Configs /\ run.config.solve \in Solves
    BY DEF SolveTypeOK, Runs, Configs
  <1>b. \A s \in Solves : /\ file[s].iters \in Iters /\ file[s].base \in Iters
                          /\ file[s].trained \in SUBSET Iters
    BY <1>a DEF Files
  <1>c. SolveTypeOK' <=> /\ file' \in [Solves -> Files] /\ tmp' \in [Solves -> Files]
                         /\ artifact' \in [Solves -> Files] /\ run' \in Runs /\ moved' \subseteq Teams
                         /\ due' \in [Solves -> Iters] /\ torn' \subseteq Solves
                         /\ spent' \in [runs: 0..MaxRuns, faults: 0..SolveMaxFaults]
    BY DEF SolveTypeOK
  <1>1. ASSUME NEW c \in Configs, SolveStart(c) PROVE SolveTypeOK'
    <2>1. spent' \in [runs: 0..MaxRuns, faults: 0..SolveMaxFaults]
      <3>1. spent.runs + 1 \in 0..MaxRuns
        BY <1>1, ItersAssumption DEF SolveStart, SolveTypeOK
      <3> QED BY <1>1, <3>1 DEF SolveStart, SolveTypeOK
    <2>2. run' \in Runs
      BY <1>1, <1>a DEF SolveStart
    <2> QED BY <1>1, <2>1, <2>2 DEF SolveStart, FilesKept, history, SolveTypeOK
  <1>2. CASE StopFile
    <2>1. run' \in Runs
      BY <1>2, <1>a DEF StopFile, Runs
    <2> QED BY <1>2, <2>1 DEF StopFile, FilesKept, history, SolveTypeOK
  <1>3. CASE ReadOwn
    <2>1. run' \in Runs
      <3>1. CASE Goto("refused")
        BY <1>a, <3>1, GotoType
      <3>2. ASSUME NEW next \in {"base", "phase2"},
                   run' = [run EXCEPT !.pc = next, !.resumed = TRUE, !.extras = file[run.config.solve].base,
                             !.solver = [iters |-> file[run.config.solve].iters,
                                         trained |-> file[run.config.solve].trained]]
            PROVE  run' \in Runs
        BY <1>a, <1>b, <3>2 DEF Runs
      <3>3. ASSUME NEW next \in {"base", "phase2"}, run' = [run EXCEPT !.pc = next]
            PROVE  run' \in Runs
        BY <1>a, <3>3 DEF Runs
      <3> QED BY <1>3, <3>1, <3>2, <3>3 DEF ReadOwn
    <2> QED BY <1>3, <2>1 DEF ReadOwn, FilesKept, history, SolveTypeOK
  <1>4. CASE ReadBase
    <2>1. run' \in Runs
      <3>1. CASE Goto("refused")
        BY <1>a, <3>1, GotoType
      <3>2. ASSUME NEW n \in Iters, run' = [run EXCEPT !.pc = "interlock", !.baseline = n, !.before = n]
            PROVE  run' \in Runs
        BY <1>a, <3>2 DEF Runs
      <3>3. Baseline \in Solves /\ 0 \in Iters
        BY ItersAssumption DEF Solves, Iters
      <3> QED BY <1>4, <1>b, <3>1, <3>2, <3>3 DEF ReadBase
    <2> QED BY <1>4, <2>1 DEF ReadBase, FilesKept, history, SolveTypeOK
  <1>5. CASE Interlock
    <2>1. run' \in Runs
      <3>1. CASE Goto("refused") \/ Goto("phase1")
        BY <1>a, <3>1, GotoType DEF InPhase1
      <3>2. CASE run' = [run EXCEPT !.pc = "phase1", !.solver = NoSolver, !.resumed = FALSE, !.rebased = TRUE]
        <4>1. NoSolver \in [iters: Iters, trained: SUBSET Iters]
          BY ItersAssumption DEF NoSolver, Iters
        <4> QED BY <1>a, <3>2, <4>1 DEF Runs
      <3> QED BY <1>5, <3>1, <3>2 DEF Interlock
    <2> QED BY <1>5, <2>1 DEF Interlock, FilesKept, history, SolveTypeOK
  <1>6. CASE Phase1Slice
    <2>1. run' \in Runs
      <3>1. PICK n \in SliceSizes(run.config, run.config.baseline - run.baseline), late \in BOOLEAN :
              run' = [run EXCEPT !.baseline = @ + n, !.cancelled = run.stop,
                        !.pc = IF run.stop \/ late THEN "savebase" ELSE "phase1"]
        BY <1>6, <1>a DEF Phase1Slice, Configs
      <3>2. run.config.baseline \in 1..MaxIters /\ run.baseline \in Iters /\ run.stop \in BOOLEAN
        BY <1>a DEF Runs, Configs
      <3>3. run.baseline + n \in Iters
        BY <1>6, <1>a, <3>2, SliceType DEF Phase1Slice
      <3> QED BY <1>a, <3>1, <3>2, <3>3 DEF Runs
    <2> QED BY <1>6, <2>1 DEF Phase1Slice, FilesKept, history, SolveTypeOK
  <1>7. CASE Phase1Done \/ Phase2Done
    <2>1. run' \in Runs
      BY <1>7, <1>a, GotoType DEF Phase1Done, Phase2Done, InPhase1, InPhase2
    <2> QED BY <1>7, <2>1 DEF Phase1Done, Phase2Done, FilesKept, history, SolveTypeOK
  <1>8. CASE SaveBase
    <2>1. run' \in Runs
      <3>1. Baseline \in Solves
        BY DEF Solves
      <3> QED BY <1>8, <1>a, <3>1 DEF SaveBase, Runs
    <2>2. moved' \subseteq Teams
      BY <1>8, <1>a DEF SaveBase, SolveTypeOK, OfTeams, InPhase1, Team, Solves
    <2> QED BY <1>8, <2>1, <2>2 DEF SaveBase, SolveTypeOK
  <1>9. CASE Phase2Slice
    <2>1. run' \in Runs
      <3>1. PICK n \in SliceSizes(run.config, run.config.iterations - run.solver.iters),
                 pc \in {"save", "phase2"} :
              run' = [run EXCEPT !.solver = Trained(@, n, run), !.cancelled = run.stop, !.pc = pc]
        BY <1>9 DEF Phase2Slice
      <3>2. /\ run.config.iterations \in 1..MaxIters /\ run.solver.iters \in Iters /\ run.stop \in BOOLEAN
            /\ run.baseline \in Iters /\ run.solver.trained \in SUBSET Iters
        BY <1>a DEF Runs, Configs
      <3>3. run.solver.iters + n \in Iters
        BY <1>9, <1>a, <3>2, SliceType DEF Phase2Slice, Phase2Over, Iters
      <3>4. Trained(run.solver, n, run) \in [iters: Iters, trained: SUBSET Iters]
        BY <3>2, <3>3 DEF Trained
      <3> QED BY <1>a, <3>1, <3>2, <3>4 DEF Runs
    <2> QED BY <1>9, <2>1 DEF Phase2Slice, FilesKept, history, SolveTypeOK
  <1>10. CASE Save
    <2>1. run' \in Runs
      BY <1>10, <1>a DEF Save, Runs
    <2> QED BY <1>10, <2>1 DEF Save, FilesKept, history, SolveTypeOK
  <1>11. CASE WriteOpen
    <2>1. run' \in Runs
      BY <1>11, <1>a, GotoType DEF WriteOpen, InPhase2, Writing
    <2> QED BY <1>11, <2>1 DEF WriteOpen, history, SolveTypeOK
  <1>12. CASE Write
    <2>1. run' \in Runs
      BY <1>12, <1>a, GotoType DEF Write, InPhase2, Writing
    <2> QED BY <1>12, <1>a, <2>1, ToWriteType, FaultTypes DEF Write, history, SolveTypeOK
  <1>13. CASE Remove
    <2>1. run' \in Runs
      BY <1>13, <1>a, GotoType DEF Remove, InPhase2, Writing
    <2> QED BY <1>13, <2>1 DEF Remove, history, SolveTypeOK
  <1>14. CASE Rename
    <2>1. run' \in Runs
      BY <1>14, <1>a, GotoType DEF Rename, InPhase2, Writing
    <2>2. run.writes \in Solves
      BY <1>a DEF Runs
    <2>3. tmp[run.writes] \in Files /\ tmp[run.writes].iters \in Iters /\ FileOf("none") \in Files
      BY <2>2 DEF SolveTypeOK, Files
    <2>4. due' \in [Solves -> Iters] /\ torn' \subseteq Solves
      BY <1>14, <2>2, <2>3 DEF Rename, SolveTypeOK
    <2>5. file' \in [Solves -> Files] /\ tmp' \in [Solves -> Files]
      BY <1>14, <2>2, <2>3 DEF Rename, SolveTypeOK
    <2> QED BY <1>14, <2>1, <2>4, <2>5, FaultTypes DEF Rename, SolveTypeOK
  <1>15. CASE Export
    <2>1. [is |-> "ours", iters |-> run.solver.iters, base |-> StampedBase(run), trained |-> run.solver.trained] \in Files
      BY <1>a, ToWriteType DEF Runs, Files
    <2> QED BY <1>15, <2>1 DEF Export, history, SolveTypeOK
  <1>16. CASE Killed
    <2>1. torn' \subseteq Solves
      BY <1>16, <1>a DEF Killed, SolveTypeOK, Runs
    <2> QED BY <1>16, <2>1, FaultTypes DEF Killed, SolveTypeOK
  <1>17. CASE UNCHANGED solveVars
    BY <1>17 DEF solveVars, SolveTypeOK
  <1> QED
    BY <1>1, <1>2, <1>3, <1>4, <1>5, <1>6, <1>7, <1>8, <1>9, <1>10, <1>11, <1>12, <1>13, <1>14,
       <1>15, <1>16, <1>17 DEF SolveNext

-----------------------------------------------------------------------------
(* The steps.                                                                  *)

\* The directory starts with nothing of ours in it, and no process.
LEMMA SolveInitInv == SolveInit => SolveInv
  <1> SUFFICES ASSUME SolveInit PROVE SolveInv
    OBVIOUS
  <1> USE RunTypes
  <1>1. SolveTypeOK
    BY ItersAssumption DEF SolveInit, SolveTypeOK, Iters
  <1>2. run.pc = "idle" /\ run.solver = NoSolver
    BY DEF SolveInit
  <1>3. \A s \in Solves : file[s] \in {FileOf("none"), FileOf("foreign")} /\ tmp[s] = FileOf("none")
                          /\ artifact[s] = FileOf("none")
    BY DEF SolveInit
  <1>4. FilesAgainstOne /\ NoneAgainstNone /\ WholeFiles
    BY <1>2, <1>3 DEF FilesAgainstOne, NoneAgainstNone, WholeFiles, FileOf, NoSolver, Solves
  <1>5. OfTeams /\ Untouched /\ SolverAgainstOne /\ Continues
    BY <1>2 DEF OfTeams, Untouched, SolverAgainstOne, Continues, InPhase1, InPhase2, Writing
  <1>6. AllInPlace
    BY DEF SolveInit, AllInPlace, InPlace
  <1> QED
    BY <1>1, <1>4, <1>5, <1>6 DEF SolveInv

\* The phases of a run, and whose files it writes, follow from its configuration.
LEMMA OfTeamsInductive == SolveTypeOK /\ OfTeams /\ [SolveNext]_solveVars => OfTeams'
  <1> SUFFICES ASSUME SolveTypeOK, OfTeams, [SolveNext]_solveVars PROVE OfTeams'
    OBVIOUS
  <1> USE DEF OfTeams, InPhase1, Writing
  <1>a. run \in Runs
    BY DEF SolveTypeOK
  <1>1. ASSUME NEW c \in Configs, SolveStart(c) PROVE OfTeams'
    BY <1>1 DEF SolveStart, NewRun
  <1>2. CASE StopFile \/ ReadBase
    BY <1>2, <1>a DEF StopFile, ReadBase, Goto, Runs
  <1>3. CASE ReadOwn
    <2>1. /\ run'.config = run.config
          /\ run'.pc \in {"refused", IF Team(run.config) THEN "base" ELSE "phase2"}
      BY ZenonT(60), <1>3, <1>a DEF ReadOwn, Goto, Runs
    <2> QED BY <2>1
  <1>4. CASE Interlock \/ Phase1Slice \/ Phase1Done
    BY ZenonT(60), <1>4, <1>a DEF Interlock, Phase1Slice, Phase1Done, Goto, Runs
  <1>5. CASE SaveBase
    BY <1>5, <1>a DEF SaveBase, Runs
  <1>6. CASE Phase2Slice \/ Phase2Done
    BY <1>6, <1>a DEF Phase2Slice, Phase2Done, Goto, Runs
  <1>7. CASE Save
    BY <1>7, <1>a DEF Save, Runs
  <1>8. CASE WriteOpen \/ Write \/ Remove \/ Rename
    BY <1>8, <1>a, RunTypes DEF WriteOpen, Write, Remove, Rename, Goto, Runs
  <1>9. CASE Export \/ Killed
    BY <1>9, RunTypes DEF Export, Killed
  <1>10. CASE UNCHANGED solveVars
    BY <1>10 DEF solveVars
  <1> QED
    BY <1>1, <1>2, <1>3, <1>4, <1>5, <1>6, <1>7, <1>8, <1>9, <1>10 DEF SolveNext

\* Nothing is written before the interlock.
LEMMA UntouchedInductive == SolveTypeOK /\ Untouched /\ [SolveNext]_solveVars => Untouched'
  <1> SUFFICES ASSUME SolveTypeOK, Untouched, [SolveNext]_solveVars PROVE Untouched'
    OBVIOUS
  <1> USE DEF Untouched
  <1>a. run \in Runs
    BY DEF SolveTypeOK
  <1>1. ASSUME NEW c \in Configs, SolveStart(c) PROVE Untouched'
    BY <1>1 DEF SolveStart, NewRun, FilesKept
  <1>2. CASE StopFile \/ ReadOwn \/ ReadBase \/ Interlock
    BY ZenonT(60), <1>2, <1>a DEF StopFile, ReadOwn, ReadBase, Interlock, Goto, FilesKept, Runs
  <1>3. CASE Phase1Slice \/ Phase1Done \/ SaveBase
    BY <1>3, <1>a DEF Phase1Slice, Phase1Done, SaveBase, Goto, FilesKept, Runs
  <1>4. CASE Phase2Slice \/ Phase2Done \/ Save
    BY <1>4, <1>a DEF Phase2Slice, Phase2Done, Save, Goto, FilesKept, Runs
  <1>5. CASE WriteOpen \/ Write \/ Remove \/ Rename
    BY <1>5, <1>a, RunTypes DEF WriteOpen, Write, Remove, Rename, Goto, Runs
  <1>6. CASE Export \/ Killed
    BY <1>6, RunTypes DEF Export, Killed
  <1>7. CASE UNCHANGED solveVars
    BY <1>7 DEF solveVars
  <1> QED
    BY <1>1, <1>2, <1>3, <1>4, <1>5, <1>6, <1>7 DEF SolveNext

\* Whatever is written is written whole, and under its own name last.
LEMMA WholeInductive == SolveTypeOK /\ WholeFiles /\ [SolveNext]_solveVars => WholeFiles'
  <1> SUFFICES ASSUME SolveTypeOK, WholeFiles, [SolveNext]_solveVars PROVE WholeFiles'
    OBVIOUS
  <1> USE DEF WholeFiles
  <1>a. run \in Runs /\ run.writes \in Solves /\ file \in [Solves -> Files] /\ tmp \in [Solves -> Files]
    BY DEF SolveTypeOK, Runs
  <1>1. CASE WriteOpen
    BY <1>1, <1>a DEF WriteOpen, Goto, Runs
  <1>2. CASE Write
    <2>1. CASE UNCHANGED <<file, tmp>> /\ run' = NoRun
      BY <2>1, RunTypes
    <2>2. CASE tmp' = [tmp EXCEPT ![run.writes] = ToWrite] /\ Goto("remove")
      <3>1. ToWrite' = ToWrite /\ run'.writes = run.writes /\ run'.pc = "remove"
        BY <1>a, <2>2 DEF ToWrite, StampedBase, Team, Goto, Runs
      <3> QED BY <1>2, <1>a, <2>2, <3>1 DEF Write
    <2> QED BY <1>2, <2>1, <2>2 DEF Write
  <1>3. CASE Remove
    <2>1. ToWrite' = ToWrite /\ run'.writes = run.writes /\ run'.pc = "rename"
      BY <1>a, <1>3 DEF Remove, ToWrite, StampedBase, Team, Goto, Runs
    <2> QED BY <1>3, <1>a, <2>1 DEF Remove, FileOf
  <1>4. CASE Rename
    <2>1. run'.pc \in {"idle", "export", "phase2"}
      BY <1>4, <1>a, RunTypes DEF Rename, Goto, Runs
    <2>2. ToWrite.is = "ours"
      BY DEF ToWrite
    <2> QED BY <1>4, <1>a, <2>1, <2>2 DEF Rename
  <1>5. CASE StopFile
    <2>1. ToWrite' = ToWrite /\ run'.writes = run.writes /\ run'.pc = run.pc
      BY <1>a, <1>5 DEF StopFile, ToWrite, StampedBase, Team, Runs
    <2> QED BY <1>5, <2>1 DEF StopFile, FilesKept
  <1>6. ASSUME NEW c \in Configs, SolveStart(c) PROVE WholeFiles'
    BY <1>6 DEF SolveStart, NewRun, FilesKept
  <1>7. CASE ReadOwn \/ ReadBase \/ Interlock \/ Phase1Slice \/ Phase1Done
    BY ZenonT(60), <1>7, <1>a DEF ReadOwn, ReadBase, Interlock, Phase1Slice, Phase1Done, Goto, FilesKept, Runs
  <1>8. CASE SaveBase \/ Phase2Slice \/ Phase2Done \/ Save
    BY ZenonT(60), <1>8, <1>a DEF SaveBase, Phase2Slice, Phase2Done, Save, Goto, FilesKept, Runs
  <1>9. CASE Export \/ Killed
    BY <1>9, RunTypes DEF Export, Killed, FilesKept
  <1>10. CASE UNCHANGED solveVars
    BY <1>10 DEF solveVars, ToWrite, StampedBase
  <1> QED
    BY <1>1, <1>2, <1>3, <1>4, <1>5, <1>6, <1>7, <1>8, <1>9, <1>10 DEF SolveNext

\* A solver that has not trained is one that has nothing to answer.
LEMMA NoneInductive == SolveTypeOK /\ NoneAgainstNone /\ [SolveNext]_solveVars => NoneAgainstNone'
  <1> SUFFICES ASSUME SolveTypeOK, NoneAgainstNone, [SolveNext]_solveVars PROVE NoneAgainstNone'
    OBVIOUS
  <1> USE DEF NoneAgainstNone
  <1>a. /\ run \in Runs /\ run.writes \in Solves /\ run.config.solve \in Solves
        /\ file \in [Solves -> Files] /\ tmp \in [Solves -> Files]
    BY DEF SolveTypeOK, Runs, Configs
  <1>b. ToWrite.iters = 0 => ToWrite.trained = {}
    BY DEF ToWrite
  <1>1. CASE WriteOpen
    BY <1>1, <1>a DEF WriteOpen, Goto, FileOf, Runs
  <1>2. CASE Write
    <2>1. run'.solver.iters = 0 => run'.solver.trained = {}
      BY <1>2, <1>a, RunTypes DEF Write, Goto, NoSolver, Runs
    <2>2. \A s \in Solves : tmp'[s].iters = 0 => tmp'[s].trained = {}
      BY <1>2, <1>a, <1>b DEF Write
    <2> QED BY <1>2, <2>1, <2>2 DEF Write
  <1>3. CASE Remove
    BY <1>3, <1>a DEF Remove, Goto, FileOf, Runs
  <1>4. CASE Rename
    <2>1. run'.solver.iters = 0 => run'.solver.trained = {}
      BY <1>4, <1>a, RunTypes DEF Rename, Goto, NoSolver, Runs
    <2>2. \A s \in Solves : \A f \in {file'[s], tmp'[s]} : f.iters = 0 => f.trained = {}
      BY <1>4, <1>a DEF Rename, FileOf
    <2> QED BY <2>1, <2>2
  <1>5. CASE ReadOwn
    <2>1. run'.solver \in {run.solver, [iters |-> file[run.config.solve].iters,
                                        trained |-> file[run.config.solve].trained]}
      BY ZenonT(60), <1>5, <1>a DEF ReadOwn, Goto, Runs
    <2> QED BY <1>5, <1>a, <2>1 DEF ReadOwn, FilesKept
  <1>6. CASE Phase2Slice
    <2>1. PICK n \in SliceSizes(run.config, run.config.iterations - run.solver.iters) :
            run'.solver = Trained(run.solver, n, run)
      BY <1>6, <1>a DEF Phase2Slice, Runs
    <2>2. /\ run.config.iterations \in 1..MaxIters /\ run.solver.iters \in Iters /\ run.config \in Configs
          /\ run.solver.iters < run.config.iterations
      BY <1>6, <1>a DEF Phase2Slice, Phase2Over, Runs, Configs, Iters
    <2>3. n > 0 /\ run.solver.iters + n \in Iters
      BY <2>1, <2>2, SliceType
    <2>4. run.solver.iters + n # 0
      BY <2>2, <2>3, ItersAssumption DEF Iters, SliceSizes
    <2> QED BY <1>6, <2>1, <2>4 DEF Phase2Slice, FilesKept, Trained
  <1>7. ASSUME NEW c \in Configs, SolveStart(c) PROVE NoneAgainstNone'
    BY <1>7 DEF SolveStart, NewRun, NoSolver, FilesKept
  <1>8. CASE StopFile \/ ReadBase \/ Interlock \/ Phase1Slice \/ Phase1Done
    <2>1. run'.solver \in {run.solver, NoSolver}
      BY <1>8, <1>a DEF StopFile, ReadBase, Interlock, Phase1Slice, Phase1Done, Goto, Runs
    <2>2. UNCHANGED <<file, tmp>>
      BY <1>8 DEF StopFile, ReadBase, Interlock, Phase1Slice, Phase1Done, FilesKept
    <2> QED BY <2>1, <2>2 DEF NoSolver
  <1>9. CASE SaveBase \/ Phase2Done \/ Save
    <2>1. run'.solver = run.solver
      BY <1>9, <1>a DEF SaveBase, Phase2Done, Save, Goto, Runs
    <2>2. UNCHANGED <<file, tmp>>
      BY <1>9 DEF SaveBase, Phase2Done, Save, FilesKept
    <2> QED BY <2>1, <2>2
  <1>10. CASE Export \/ Killed
    BY <1>10, RunTypes DEF Export, Killed, FilesKept, NoSolver
  <1>11. CASE UNCHANGED solveVars
    BY <1>11 DEF solveVars
  <1> QED
    BY <1>1, <1>2, <1>3, <1>4, <1>5, <1>6, <1>7, <1>8, <1>9, <1>10, <1>11 DEF SolveNext

\* What is written of a team was trained against the baseline it is stamped with.
LEMMA FilesInductive ==
  SolveTypeOK /\ OfTeams /\ SolverAgainstOne /\ FilesAgainstOne /\ [SolveNext]_solveVars => FilesAgainstOne'
  <1> SUFFICES ASSUME SolveTypeOK, OfTeams, SolverAgainstOne, FilesAgainstOne, [SolveNext]_solveVars,
                      NEW t \in Teams, t \notin moved'
               PROVE  \A f \in {file'[t], tmp'[t], artifact'[t]} : f.trained \subseteq {f.base}
    BY DEF FilesAgainstOne
  <1>a. /\ run \in Runs /\ run.writes \in Solves /\ t \in Solves /\ t # Baseline
        /\ file \in [Solves -> Files] /\ tmp \in [Solves -> Files] /\ artifact \in [Solves -> Files]
    BY SolvesAssumption DEF SolveTypeOK, Runs, Solves
  <1>b. t \notin moved
    BY DEF SolveNext, solveVars, SolveStart, StopFile, ReadOwn, ReadBase, Interlock, Phase1Slice, Phase1Done,
       SaveBase, Phase2Slice, Phase2Done, Save, WriteOpen, Write, Remove, Rename, Export, Killed, FilesKept, history
  <1>c. \A f \in {file[t], tmp[t], artifact[t]} : f.trained \subseteq {f.base}
    BY <1>b DEF FilesAgainstOne
  <1>d. t = run.config.solve /\ run.pc \in InPhase2 =>
          run.solver.trained \subseteq {StampedBase(run)}
    BY <1>a, <1>b DEF SolverAgainstOne, StampedBase, Team
  <1>1. CASE WriteOpen
    BY <1>1, <1>a, <1>c DEF WriteOpen, FileOf
  <1>2. CASE Write
    <2>1. t = run.writes => ToWrite.trained \subseteq {ToWrite.base}
      BY <1>2, <1>a, <1>d DEF Write, OfTeams, Writing, InPhase2, ToWrite
    <2> QED BY <1>2, <1>a, <1>c, <2>1 DEF Write
  <1>3. CASE Remove
    BY <1>3, <1>a, <1>c DEF Remove, FileOf
  <1>4. CASE Rename
    BY <1>4, <1>a, <1>c DEF Rename, FileOf
  <1>5. CASE Export
    <2>1. t = run.config.solve => run.solver.trained \subseteq {StampedBase(run)}
      BY <1>5, <1>d DEF Export, InPhase2
    <2> QED BY <1>5, <1>a, <1>c, <2>1 DEF Export
  <1>6. CASE UNCHANGED <<file, tmp, artifact>>
    BY <1>6, <1>c
  <1> QED
    BY <1>1, <1>2, <1>3, <1>4, <1>5, <1>6
    DEF SolveNext, solveVars, SolveStart, StopFile, ReadOwn, ReadBase, Interlock, Phase1Slice, Phase1Done,
        SaveBase, Phase2Slice, Phase2Done, Save, Killed, FilesKept, history

\* The steps at which the solver or the baseline it answers may change.
LEMMA SolverInductive ==
  SolveTypeOK /\ OfTeams /\ NoneAgainstNone /\ FilesAgainstOne /\ SolverAgainstOne /\ [SolveNext]_solveVars
    => SolverAgainstOne'
  <1> SUFFICES ASSUME SolveTypeOK, OfTeams, NoneAgainstNone, FilesAgainstOne, SolverAgainstOne,
                      [SolveNext]_solveVars
               PROVE  SolverAgainstOne'
    OBVIOUS
  <1> USE DEF SolverAgainstOne, InPhase1, InPhase2, Writing
  <1>a. run \in Runs /\ run.config \in Configs /\ file \in [Solves -> Files]
    BY DEF SolveTypeOK, Runs
  <1>1. ASSUME NEW c \in Configs, SolveStart(c) PROVE SolverAgainstOne'
    BY <1>1 DEF SolveStart, NewRun, NoSolver
  <1>2. CASE StopFile
    <2>1. /\ run'.pc = run.pc /\ run'.solver = run.solver /\ run'.resumed = run.resumed
          /\ run'.config = run.config /\ run'.extras = run.extras /\ run'.before = run.before
          /\ run'.baseline = run.baseline /\ UNCHANGED moved
      BY <1>2, <1>a DEF StopFile, FilesKept, history, Runs
    <2> QED BY <2>1
  <1>3. CASE ReadOwn
    <2> DEFINE f == file[run.config.solve]
    <2>1. run.pc = "own" /\ run.solver = NoSolver /\ UNCHANGED moved
      BY <1>3 DEF ReadOwn, FilesKept, history
    <2>2. \/ run'.pc = "refused"
          \/ /\ run'.pc = IF Team(run.config) THEN "base" ELSE "phase2"
             /\ run'.config = run.config
             /\ \/ /\ run'.resumed /\ run'.extras = f.base
                   /\ run'.solver = [iters |-> f.iters, trained |-> f.trained]
                \/ run'.solver = run.solver /\ run'.resumed = run.resumed
      <3> DEFINE next == IF Team(run.config) THEN "base" ELSE "phase2"
      <3>1. \/ Goto("refused")
            \/ run' = [run EXCEPT !.pc = next, !.resumed = TRUE, !.extras = f.base,
                          !.solver = [iters |-> f.iters, trained |-> f.trained]]
            \/ run' = [run EXCEPT !.pc = next]
        BY <1>3 DEF ReadOwn
      <3> HIDE DEF f, next
      <3>2. \/ run'.pc = "refused"
            \/ /\ run'.pc = next /\ run'.config = run.config
               /\ \/ /\ run'.resumed /\ run'.extras = f.base
                     /\ run'.solver = [iters |-> f.iters, trained |-> f.trained]
                  \/ run'.solver = run.solver /\ run'.resumed = run.resumed
        <4>1. CASE Goto("refused")
          BY <1>a, <4>1 DEF Goto, Runs
        <4>2. CASE run' = [run EXCEPT !.pc = next, !.resumed = TRUE, !.extras = f.base,
                             !.solver = [iters |-> f.iters, trained |-> f.trained]]
          BY <1>a, <4>2 DEF Runs
        <4>3. CASE run' = [run EXCEPT !.pc = next]
          BY <1>a, <4>3 DEF Runs
        <4> QED BY <3>1, <4>1, <4>2, <4>3
      <3> QED BY <3>2 DEF next
    <2>3. Team(run.config) /\ run.config.solve \notin moved => f.trained \subseteq {f.base}
      BY <1>a DEF FilesAgainstOne, Team, Configs, Solves
    <2> HIDE DEF f
    <2> QED BY <2>1, <2>2, <2>3 DEF NoSolver
  <1>4. CASE ReadBase
    <2>1. UNCHANGED moved /\ run.pc = "base"
      BY <1>4 DEF ReadBase, FilesKept, history
    <2>2. \/ run'.pc = "refused"
          \/ /\ run'.pc = "interlock" /\ run'.before = run'.baseline /\ run'.config = run.config
             /\ run'.solver = run.solver /\ run'.resumed = run.resumed /\ run'.extras = run.extras
      <3>1. ASSUME NEW n, run' = [run EXCEPT !.pc = "interlock", !.baseline = n, !.before = n]
            PROVE  /\ run'.pc = "interlock" /\ run'.before = run'.baseline /\ run'.config = run.config
                   /\ run'.solver = run.solver /\ run'.resumed = run.resumed /\ run'.extras = run.extras
        BY <1>a, <3>1 DEF Runs
      <3>2. CASE Goto("refused")
        BY <1>a, <3>2 DEF Goto, Runs
      <3> QED BY <1>4, <3>1, <3>2 DEF ReadBase
    <2> QED BY <2>1, <2>2
  <1>5. CASE Interlock
    <2>1. UNCHANGED moved /\ run.pc = "interlock"
      BY <1>5 DEF Interlock, FilesKept, history
    <2>2. \/ run'.pc = "refused"
          \/ run'.pc = "phase1" /\ run'.solver = NoSolver
          \/ /\ ~Conflicts(run) /\ run'.pc = "phase1" /\ run'.before = run.before /\ run'.config = run.config
             /\ run'.solver = run.solver /\ run'.resumed = run.resumed /\ run'.extras = run.extras
      BY ZenonT(60), <1>5, <1>a DEF Interlock, Goto, Runs
    <2>3. ~Conflicts(run) /\ run.solver.iters > 0 => run.extras = BaseEnd(run.config, run.before)
      BY <1>a, <2>1 DEF Conflicts, Runs, Iters
    <2> QED BY <1>a, <2>1, <2>2, <2>3 DEF NoSolver
  <1>6. CASE Phase1Slice \/ Phase1Done
    <2>1. /\ UNCHANGED moved /\ run.pc = "phase1" /\ run'.pc \in {"phase1", "savebase"}
          /\ run'.before = run.before /\ run'.config = run.config
          /\ run'.solver = run.solver /\ run'.resumed = run.resumed /\ run'.extras = run.extras
      <3>1. CASE Phase1Slice
        BY <3>1, <1>a DEF Phase1Slice, FilesKept, history, Runs
      <3>2. CASE Phase1Done
        BY <3>2, <1>a DEF Phase1Done, Goto, FilesKept, history, Runs
      <3> QED BY <1>6, <3>1, <3>2
    <2> QED BY <2>1
  <1>7. CASE SaveBase
    <2>1. /\ run.pc = "savebase" /\ run'.pc \in {"open", "phase2"} /\ run'.config = run.config
          /\ run'.solver = run.solver /\ run'.baseline = run.baseline
      BY <1>7, <1>a DEF SaveBase, Runs
    <2>2. run.config.solve \notin moved' => run.config.solve \notin moved
      BY <1>7 DEF SaveBase
    <2>3. run.config.solve \notin moved' => ~(run.solver.iters > 0) \/ run.baseline = run.extras
      BY <1>7, <2>1 DEF SaveBase
    <2>4. ~(run.solver.iters > 0) => run.solver.trained = {}
      BY <1>a, ItersAssumption DEF NoneAgainstNone, Runs, Iters
    <2> QED BY <2>1, <2>2, <2>3, <2>4
  <1>8. CASE Phase2Slice
    <2>1. /\ run.pc = "phase2" /\ run'.pc \in {"save", "phase2"} /\ run'.config = run.config
          /\ run'.baseline = run.baseline /\ UNCHANGED moved
          /\ \E n \in SliceSizes(run.config, run.config.iterations - run.solver.iters) :
               run'.solver = Trained(run.solver, n, run)
      BY <1>8, <1>a DEF Phase2Slice, FilesKept, history, Runs
    <2> QED BY <2>1 DEF Trained
  <1>9. CASE Phase2Done \/ Save \/ WriteOpen \/ Write \/ Remove \/ Rename
    <2>1. \/ run' = NoRun
          \/ /\ run.pc \in InPhase2 /\ run'.pc \in InPhase2 /\ run'.config = run.config
             /\ run'.solver = run.solver /\ run'.baseline = run.baseline
      <3>1. CASE Phase2Done \/ Save
        BY ZenonT(60), <3>1, <1>a DEF Phase2Done, Save, Goto, Runs
      <3>2. CASE WriteOpen \/ Write \/ Remove \/ Rename
        BY <3>2, <1>a DEF WriteOpen, Write, Remove, Rename, Goto, history, Runs
      <3> QED BY <1>9, <3>1, <3>2
    <2>2. UNCHANGED moved
      BY <1>9 DEF Phase2Done, Save, WriteOpen, Write, Remove, Rename, FilesKept, history
    <2> QED BY <2>1, <2>2, RunTypes
  <1>10. CASE Export \/ Killed
    BY <1>10, RunTypes DEF Export, Killed
  <1>11. CASE UNCHANGED solveVars
    BY <1>11 DEF solveVars
  <1> QED
    BY <1>1, <1>2, <1>3, <1>4, <1>5, <1>6, <1>7, <1>8, <1>9, <1>10, <1>11 DEF SolveNext

\* What a run holds never falls behind what is on disk.
LEMMA ContinuesInductive ==
  SolveTypeOK /\ OfTeams /\ WholeFiles /\ Continues /\ [SolveNext]_solveVars => Continues'
  <1> SUFFICES ASSUME SolveTypeOK, OfTeams, WholeFiles, Continues, [SolveNext]_solveVars,
                      run'.config.resume # "never"
               PROVE  /\ run'.pc \in InPhase1 \cup InPhase2 /\ ~run'.rebased =>
                           AtMost(file'[run'.config.solve], run'.solver.iters)
                      /\ run'.pc \in (InPhase1 \ {"base"}) \cup InPhase2 /\ Team(run'.config) =>
                           AtMost(file'[Baseline], run'.baseline)
    BY DEF Continues
  <1> DEFINE Goal == /\ run'.pc \in InPhase1 \cup InPhase2 /\ ~run'.rebased =>
                           AtMost(file'[run'.config.solve], run'.solver.iters)
                     /\ run'.pc \in (InPhase1 \ {"base"}) \cup InPhase2 /\ Team(run'.config) =>
                           AtMost(file'[Baseline], run'.baseline)
  <1> SUFFICES Goal
    OBVIOUS
  <1> USE DEF InPhase1, InPhase2, Writing
  <1>a. /\ run \in Runs /\ run.config \in Configs /\ run.config.solve \in Solves /\ Baseline \in Solves
        /\ file \in [Solves -> Files] /\ run.writes \in Solves
    BY DEF SolveTypeOK, Runs, Configs, Solves
  <1>b. ASSUME NEW f \in Files, NEW n \in Iters, NEW k \in Iters, n <= k, AtMost(f, n) PROVE AtMost(f, k)
    BY <1>b DEF AtMost, Files, Iters
  <1>1. ASSUME NEW c \in Configs, SolveStart(c) PROVE Goal
    BY <1>1 DEF SolveStart, NewRun
  <1>2. CASE ReadOwn
    <2> DEFINE f == file[run.config.solve]
    <2>1. UNCHANGED file /\ f \in Files
      BY <1>2, <1>a DEF ReadOwn, FilesKept
    <2>2. \/ run'.pc = "refused"
          \/ /\ run'.pc = IF Team(run.config) THEN "base" ELSE "phase2"
             /\ run'.config = run.config /\ ~Refuses(run.config, f)
             /\ run.config.resume # "never" /\ Usable(f) =>
                  run'.solver = [iters |-> f.iters, trained |-> f.trained]
      BY <1>2, <1>a DEF ReadOwn, Goto, Runs
    <2>3. f.iters <= f.iters
      BY <2>1 DEF Files, Iters
    <2> HIDE DEF f
    <2>4. run'.pc # "refused" => AtMost(f, run'.solver.iters)
      BY <2>2, <2>3 DEF AtMost, Refuses, Usable
    <2>5. run'.pc # "refused" => ~(run'.pc # "base" /\ Team(run'.config))
      BY <2>2
    <2> QED BY <2>1, <2>2, <2>4, <2>5 DEF f
  <1>3. CASE ReadBase
    <2> DEFINE f == file[Baseline]
    <2>1. UNCHANGED file /\ run.pc = "base" /\ f \in Files
      BY <1>3, <1>a DEF ReadBase, FilesKept
    <2>2. \/ run'.pc = "refused"
          \/ /\ run'.pc = "interlock" /\ run'.config = run.config /\ run'.solver = run.solver
             /\ run'.rebased = run.rebased /\ ~Refuses(run.config, f)
             /\ run'.baseline = IF run.config.resume # "never" /\ Usable(f) THEN f.iters ELSE 0
      BY <1>3, <1>a DEF ReadBase, Goto, Runs
    <2>3. f.iters <= f.iters
      BY <2>1 DEF Files, Iters
    <2>4. run'.pc # "refused" => AtMost(f, run'.baseline)
      BY <2>2, <2>3 DEF AtMost, Refuses, Usable
    <2> QED BY <2>1, <2>2, <2>4 DEF Continues
  <1>4. CASE Phase1Slice
    <2>1. PICK n \in SliceSizes(run.config, run.config.baseline - run.baseline) :
            /\ run'.baseline = run.baseline + n /\ run.pc = "phase1" /\ run'.pc \in {"phase1", "savebase"}
            /\ run'.config = run.config /\ run'.solver = run.solver /\ run'.rebased = run.rebased
            /\ UNCHANGED file
      BY <1>4, <1>a DEF Phase1Slice, FilesKept, Runs
    <2>2. /\ run.config.baseline \in 1..MaxIters /\ run.baseline \in Iters
          /\ run.baseline < run.config.baseline
      BY <1>4, <1>a DEF Phase1Slice, Runs, Configs
    <2>3. run'.baseline \in Iters /\ run.baseline <= run'.baseline
      <3>1. run.baseline + n \in Iters /\ n > 0
        BY <2>1, <2>2, <1>a, SliceType
      <3> QED BY <2>1, <2>2, <3>1, ItersAssumption DEF Iters, SliceSizes
    <2>4. (~run.rebased => AtMost(file[run.config.solve], run.solver.iters)) /\ AtMost(file[Baseline], run.baseline)
      BY <2>1 DEF Continues, OfTeams
    <2>5. AtMost(file[Baseline], run'.baseline)
      BY <1>a, <1>b, <2>2, <2>3, <2>4
    <2> QED BY <2>1, <2>4, <2>5
  <1>5. CASE Phase2Slice
    <2>1. PICK n \in SliceSizes(run.config, run.config.iterations - run.solver.iters) :
            /\ run'.solver.iters = run.solver.iters + n /\ run.pc = "phase2"
            /\ run'.pc \in {"phase2", "save"} /\ run'.config = run.config /\ run'.baseline = run.baseline
            /\ run'.rebased = run.rebased /\ UNCHANGED file
      BY <1>5, <1>a DEF Phase2Slice, Trained, FilesKept, Runs
    <2>2. /\ run.config.iterations \in 1..MaxIters /\ run.solver.iters \in Iters
          /\ run.solver.iters < run.config.iterations
      BY <1>5, <1>a DEF Phase2Slice, Phase2Over, Runs, Configs, Iters
    <2>3. run'.solver.iters \in Iters /\ run.solver.iters <= run'.solver.iters
      <3>1. run.solver.iters + n \in Iters /\ n > 0
        BY <2>1, <2>2, <1>a, SliceType
      <3> QED BY <2>1, <2>2, <3>1, ItersAssumption DEF Iters, SliceSizes
    <2>4. (~run.rebased => AtMost(file[run.config.solve], run.solver.iters))
          /\ (Team(run.config) => AtMost(file[Baseline], run.baseline))
      BY <2>1 DEF Continues
    <2>5. ~run.rebased => AtMost(file[run.config.solve], run'.solver.iters)
      BY <1>a, <1>b, <2>2, <2>3, <2>4
    <2> QED BY <2>1, <2>4, <2>5
  <1>6. CASE Interlock
    <2>1. UNCHANGED file /\ run.pc = "interlock"
      BY <1>6 DEF Interlock, FilesKept
    <2>2. \/ run'.pc = "refused"
          \/ /\ run'.config = run.config /\ run'.baseline = run.baseline
             /\ run'.rebased \/ (run'.solver = run.solver /\ run'.rebased = run.rebased)
      BY <1>6, <1>a DEF Interlock, Goto, Runs
    <2> QED BY <2>1, <2>2 DEF Continues
  <1>7. CASE Remove \/ Rename
    <2>1. \/ run' = NoRun
          \/ /\ run'.config = run.config /\ run'.solver = run.solver /\ run'.rebased = run.rebased
             /\ run'.baseline = run.baseline
      BY <1>7, <1>a DEF Remove, Rename, Goto, Runs
    <2>2. CASE run' = NoRun
      BY <2>2, RunTypes
    <2>3. CASE run' # NoRun
      <3>1. /\ ~run.rebased => AtMost(file[run.config.solve], run.solver.iters)
            /\ Team(run.config) => AtMost(file[Baseline], run.baseline)
        BY <1>7, <2>1, <2>3 DEF Remove, Rename, Continues
      <3>2. \A s \in Solves : s # run.writes => file'[s] = file[s]
        BY <1>7, <1>a DEF Remove, Rename
      <3>3. file'[run.writes] \in {FileOf("none"), ToWrite}
        BY <1>7, <1>a, <2>3 DEF Remove, Rename, WholeFiles
      <3>4. run.writes = run.config.solve \/ (run.writes = Baseline /\ Team(run.config))
        BY <1>7 DEF Remove, Rename, OfTeams
      <3>5. run.writes = run.config.solve => AtMost(file'[run.writes], run.solver.iters)
        BY <1>a, <3>3 DEF AtMost, ToWrite, FileOf, Runs, Iters
      <3>6. run.writes # run.config.solve => AtMost(file'[run.writes], run.baseline)
        BY <1>a, <3>3 DEF AtMost, ToWrite, FileOf, Runs, Iters
      <3>7. Team(run.config) => run.config.solve # Baseline
        BY DEF Team
      <3> QED BY <1>a, <2>1, <2>3, <3>1, <3>2, <3>4, <3>5, <3>6, <3>7
    <2> QED BY <2>2, <2>3
  <1>8. CASE StopFile \/ Phase1Done \/ SaveBase
    <2>1. /\ run'.config = run.config /\ run'.solver = run.solver /\ run'.rebased = run.rebased
          /\ run'.baseline = run.baseline /\ UNCHANGED file
          /\ \/ run'.pc = run.pc
             \/ run.pc \in {"phase1", "savebase"}
      BY ZenonT(60), <1>8, <1>a DEF StopFile, Phase1Done, SaveBase, Goto, FilesKept, Runs
    <2> QED BY <2>1 DEF Continues, OfTeams
  <1>9. CASE Phase2Done \/ Save \/ WriteOpen \/ Write
    <2>1. \/ run' = NoRun
          \/ /\ run.pc \in InPhase2 /\ run'.config = run.config /\ run'.solver = run.solver
             /\ run'.rebased = run.rebased /\ run'.baseline = run.baseline /\ UNCHANGED file
      <3>1. CASE Phase2Done \/ Save
        BY <3>1, <1>a DEF Phase2Done, Save, Goto, FilesKept, Runs
      <3>2. CASE WriteOpen \/ Write
        BY <3>2, <1>a DEF WriteOpen, Write, Goto, Runs
      <3> QED BY <1>9, <3>1, <3>2
    <2> QED BY <2>1, RunTypes DEF Continues
  <1>10. CASE Export \/ Killed
    BY <1>10, RunTypes DEF Export, Killed
  <1>11. CASE UNCHANGED solveVars
    BY <1>11 DEF solveVars, Continues
  <1> QED
    BY <1>1, <1>2, <1>3, <1>4, <1>5, <1>6, <1>7, <1>8, <1>9, <1>10, <1>11 DEF SolveNext

\* What a solve was saved with is in place: the checkpoint that is renamed has no less than
\* the one that was removed, unless its run starts over.
LEMMA InPlaceInductive ==
  SolveTypeOK /\ OfTeams /\ WholeFiles /\ Continues /\ AllInPlace /\ [SolveNext]_solveVars => AllInPlace'
  <1> SUFFICES ASSUME SolveTypeOK, OfTeams, WholeFiles, Continues, AllInPlace, [SolveNext]_solveVars,
                      NEW s \in Solves, due'[s] > 0, s \notin torn'
               PROVE  Has(file'[s], due'[s]) \/ Replacing(s)'
    BY DEF AllInPlace, InPlace
  <1>a. /\ run \in Runs /\ run.writes \in Solves /\ due \in [Solves -> Iters]
        /\ file \in [Solves -> Files] /\ tmp \in [Solves -> Files]
    BY DEF SolveTypeOK, Runs
  <1>b. due[s] > 0 /\ s \notin torn => Has(file[s], due[s]) \/ Replacing(s)
    BY DEF AllInPlace, InPlace
  <1>c. ToWrite.is = "ours" /\ ToWrite.iters \in Nat /\ due[s] \in Nat
    BY <1>a, ToWriteType DEF ToWrite, Files, Iters
  <1>1. CASE Remove
    <2>1. /\ run.pc = "remove" /\ due' = due /\ torn' = torn /\ tmp' = tmp
          /\ file' = [file EXCEPT ![run.writes] = FileOf("none")]
          /\ run'.pc = "rename" /\ run'.writes = run.writes /\ run'.config = run.config /\ run'.rebased = run.rebased
      BY <1>1, <1>a DEF Remove, Goto, Runs, history
    <2>2. Has(file[s], due[s])
      BY <1>b, <2>1 DEF Replacing
    <2>3. CASE s # run.writes
      BY <1>a, <2>1, <2>2, <2>3
    <2>4. CASE s = run.writes /\ StartsOver(s)
      BY <2>1, <2>4 DEF Replacing, StartsOver
    <2>5. CASE s = run.writes /\ ~StartsOver(s)
      <3>1. s = run.config.solve \/ (s = Baseline /\ s # run.config.solve /\ Team(run.config))
        BY <2>1, <2>5 DEF OfTeams, Writing, Team
      <3>2. AtMost(file[s], ToWrite.iters)
        BY <2>1, <2>5, <3>1 DEF Continues, InPhase2, Writing, ToWrite, StartsOver
      <3>3. file[s].iters \in Nat /\ file[s].is = "ours" /\ file[s].iters >= due[s]
        BY <1>a, <2>2 DEF Has, Files, Iters
      <3>4. tmp'[s] = ToWrite /\ due'[s] = due[s]
        BY <2>1, <2>5 DEF WholeFiles
      <3>5. Has(tmp'[s], due'[s])
        BY <1>c, <3>2, <3>3, <3>4 DEF Has, AtMost
      <3> QED
        BY <2>1, <2>5, <3>5 DEF Replacing
    <2> QED
      BY <2>3, <2>4, <2>5
  <1>2. CASE Rename
    <2>1. run.pc = "rename" /\ tmp[run.writes] = ToWrite /\ file[run.writes].is = "none"
      BY <1>2 DEF Rename, WholeFiles
    <2>2. CASE s # run.writes
      <3>1. file'[s] = file[s] /\ due'[s] = due[s] /\ s \notin torn
        BY <1>2, <1>a, <2>2 DEF Rename
      <3> QED
        BY <1>b, <2>2, <3>1 DEF Replacing
    <2>3. CASE s = run.writes
      <3>1. /\ file'[s] = ToWrite
            /\ \/ due'[s] = ToWrite.iters
               \/ due'[s] = due[s] /\ ~StartsOver(s) /\ s \notin torn
        BY <1>2, <1>a, <2>1, <2>3 DEF Rename
      <3>2. CASE due'[s] = ToWrite.iters
        BY <1>c, <3>1, <3>2 DEF Has
      <3>3. CASE due'[s] = due[s] /\ ~StartsOver(s) /\ s \notin torn
        BY <1>b, <2>1, <2>3, <3>1, <3>3 DEF Has, Replacing
      <3> QED
        BY <3>1, <3>2, <3>3
    <2> QED
      BY <2>2, <2>3
  <1>3. CASE Killed
    <2>1. file' = file /\ due' = due /\ s \notin torn /\ (run.pc = "rename" => s # run.writes)
      BY <1>3 DEF Killed
    <2> QED
      BY <1>b, <2>1 DEF Replacing
  <1>4. CASE StopFile
    <2>1. /\ file' = file /\ due' = due /\ torn' = torn /\ tmp' = tmp
          /\ run'.pc = run.pc /\ run'.writes = run.writes /\ run'.config = run.config /\ run'.rebased = run.rebased
      BY <1>4, <1>a DEF StopFile, FilesKept, history, Runs
    <2> QED
      BY <1>b, <2>1 DEF Replacing, StartsOver
  <1>5. CASE UNCHANGED solveVars
    BY <1>5, <1>b DEF solveVars, Replacing, StartsOver
  <1>6. CASE run.pc # "rename" /\ UNCHANGED <<file, due, torn>>
    BY <1>6, <1>b DEF Replacing
  <1> QED
    BY <1>1, <1>2, <1>3, <1>4, <1>5, <1>6
    DEF SolveNext, SolveStart, ReadOwn, ReadBase, Interlock, Phase1Slice, Phase1Done,
        SaveBase, Phase2Slice, Phase2Done, Save, WriteOpen, Write, Export, FilesKept, history

-----------------------------------------------------------------------------
(* The theorems.                                                               *)

\* Every step keeps the invariant.
LEMMA SolveStepInv == SolveInv /\ [SolveNext]_solveVars => SolveInv'
  BY SolveTypeInductive, OfTeamsInductive, UntouchedInductive, NoneInductive, FilesInductive,
     SolverInductive, WholeInductive, ContinuesInductive, InPlaceInductive DEF SolveInv

\* Only the last two steps of a write touch a file under its own name: another spot's is
\* removed by a run that starts over, or not at all.
LEMMA ForeignKept ==
  ASSUME SolveInv, [SolveNext]_solveVars, NEW s \in Solves,
         file[s].is = "foreign", file'[s].is # "foreign"
  PROVE  StartsOver(s)
  <1>a. file \in [Solves -> Files] /\ run.writes \in Solves
    BY DEF SolveInv, SolveTypeOK, Runs
  <1>1. CASE Remove
    <2>1. s = run.writes /\ run.pc = "remove"
      BY <1>1, <1>a DEF Remove
    <2>2. s = run.config.solve \/ (s = Baseline /\ s # run.config.solve /\ Team(run.config))
      BY <2>1 DEF SolveInv, OfTeams, Writing, Team
    <2> QED
      BY <2>1, <2>2 DEF SolveInv, Continues, AtMost, InPhase2, Writing, StartsOver
  <1>2. CASE Rename
    BY <1>2, <1>a DEF Rename, SolveInv, WholeFiles
  <1> QED
    BY <1>1, <1>2
    DEF SolveNext, solveVars, SolveStart, StopFile, ReadOwn, ReadBase, Interlock, Phase1Slice, Phase1Done,
        SaveBase, Phase2Slice, Phase2Done, Save, WriteOpen, Write, Export, Killed, FilesKept

LEMMA SolveInvariance == SolveSpec => []SolveInv
  BY SolveInitInv, SolveStepInv, PTL DEF SolveSpec

\* Every variable of SolveRun keeps its type.
THEOREM SolveTypeCorrect == SolveSpec => []SolveTypeOK
  BY SolveInvariance, PTL DEF SolveInv

\* A run that is refused leaves every checkpoint as it found it.
THEOREM RefusedIsUntouched == SolveSpec => []RefusedUntouched
  <1>1. SolveInv => RefusedUntouched
    BY DEF SolveInv, Untouched, RefusedUntouched
  <1> QED
    BY <1>1, SolveInvariance, PTL

\* A team's checkpoint and artifact hold regrets against the one baseline they
\* record, unless a run of it was stopped short of the baseline it was let to
\* go on against.
THEOREM TrainedAgainstOneBaseline == SolveSpec => []TrainedAgainstOne
  <1>1. SolveInv => TrainedAgainstOne
    BY DEF SolveInv, FilesAgainstOne, TrainedAgainstOne
  <1> QED
    BY <1>1, SolveInvariance, PTL

\* What a solve was saved with is under its name, or whole and about to be renamed to it, after
\* any steps: unless its run ended between the removal of the old checkpoint and the renaming of
\* the new one, where the code does lose it.  No other spot's checkpoint is written over.
THEOREM SavedIsKept == SolveSpec => SavedKept
  <1>1. SolveInv /\ [SolveNext]_solveVars
          => [\A s \in Solves :
                /\ InPlace(s)'
                /\ file[s].is = "foreign" /\ file'[s].is # "foreign" => StartsOver(s)]_solveVars
    <2>1. SolveInv' => \A s \in Solves : InPlace(s)'
      BY DEF SolveInv, AllInPlace
    <2> QED
      BY <2>1, SolveStepInv, ForeignKept
  <1> QED
    BY <1>1, SolveInvariance, PTL DEF SolveSpec, SavedKept

-----------------------------------------------------------------------------
(* What the operators of the registry return.                                  *)

\* Of an order, those in a set are an order of them.
LEMMA ThoseFits ==
  ASSUME NEW o \in Orders, NEW S
  PROVE  Those(o, S) \in Orders /\ InOrder(Those(o, S)) = InOrder(o) \cap S
  <1> DEFINE N == Len(o)
             A == Seq(Boards)
             body(n, k) == k \o (IF o[n] \in S THEN <<o[n]>> ELSE <<>>)
             F == [x \in (1 .. N) \X A |-> body(x[1], x[2])]
             Eq(g) == g = [n \in 0 .. N |-> IF n = 0 THEN <<>> ELSE g[n - 1] \o (IF o[n] \in S THEN <<o[n]>> ELSE <<>>)]
             h == CHOOSE g : Eq(g)
  <1>1. /\ o \in A /\ N \in Nat /\ <<>> \in A /\ DOMAIN o = 1 .. N
        /\ \A n \in 1 .. N : o[n] \in Boards
        /\ \A i, j \in 1 .. N : i # j => o[i] # o[j]
    BY DEF Orders
  <1>2. \A n \in 1 .. N, k \in A : body(n, k) \in A
    <2> TAKE n \in 1 .. N, k \in A
    <2>1. <<o[n]>> \in A /\ <<>> \in A
      BY <1>1
    <2> QED
      BY <2>1
  <1>3. F \in [(1 .. N) \X A -> A]
    BY <1>2
  <1>4. PICK g : g \in [0 .. N -> A] /\ Steps(g, N, <<>>, F)
    <2> HIDE DEF F, A, N
    <2> QED
      BY <1>1, <1>3, StepsExist
  <1>5. Eq(g)
    <2>1. \A n \in 0 .. N : g[n] = IF n = 0 THEN <<>> ELSE body(n, g[n - 1])
      <3> TAKE n \in 0 .. N
      <3>1. CASE n = 0
        BY <1>4, <3>1 DEF Steps
      <3>2. CASE n # 0
        <4>1. n \in 1 .. N /\ g[n - 1] \in A
          BY <1>1, <1>4, <3>2
        <4>2. g[n] = F[<<n, g[n - 1]>>]
          BY <1>4, <3>2 DEF Steps
        <4> QED
          BY <4>1, <4>2, <3>2
      <3> QED
        BY <3>1, <3>2
    <2> QED
      BY <1>4, <2>1
  <1>6. Eq(h)
    <2> HIDE DEF Eq
    <2> QED
      BY <1>5
  <1>7. Those(o, S) = h[N]
    BY DEF Those
  <1>8. h[0] = <<>> /\ \A n \in 1 .. N : h[n] = body(n, h[n - 1])
    <2>1. h = [n \in 0 .. N |-> IF n = 0 THEN <<>> ELSE body(n, h[n - 1])]
      <3> HIDE DEF h
      <3> QED
        BY <1>6
    <2> HIDE DEF h, body
    <2>2. \A n \in 0 .. N : h[n] = IF n = 0 THEN <<>> ELSE body(n, h[n - 1])
      BY ONLY <2>1
    <2>3. 0 \in 0 .. N /\ \A n \in 1 .. N : n \in 0 .. N /\ n # 0
      BY <1>1
    <2> QED
      BY ONLY <2>2, <2>3
  \* What was listed so far, in order.
  <1> DEFINE Fine(n, s) == /\ s \in Seq(Boards) /\ InOrder(s) = {o[i] : i \in 1 .. n} \cap S
                           /\ \A i, j \in DOMAIN s : i # j => s[i] # s[j]
             P == {n \in Nat : n <= N => Fine(n, h[n])}
  <1>9. 0 \in P
    <2>1. <<>> \in Seq(Boards) /\ DOMAIN <<>> = {} /\ InOrder(<<>>) = {}
      BY DEF InOrder
    <2>2. {o[i] : i \in 1 .. 0} = {}
      OBVIOUS
    <2>3. h[0] = <<>>
      BY <1>8
    <2> HIDE DEF h
    <2> QED
      BY <2>1, <2>2, <2>3
  <1>10. ASSUME NEW n \in Nat, n \in P PROVE n + 1 \in P
    <2> SUFFICES ASSUME n + 1 <= N PROVE Fine(n + 1, h[n + 1])
      <3> HIDE DEF h, N, Fine
      <3> QED
        OBVIOUS
    <2>1. PICK s : s = h[n]
      OBVIOUS
    <2>2. Fine(n, s)
      <3> HIDE DEF h, Fine, N
      <3> QED
        BY <1>1, <1>10, <2>1
    <2>3. n + 1 \in 1 .. N /\ (n + 1) - 1 = n /\ o[n + 1] \in Boards
      BY <1>1
    <2>4. h[n + 1] = s \o (IF o[n + 1] \in S THEN <<o[n + 1]>> ELSE <<>>)
      <3> HIDE DEF h
      <3> QED
        BY <1>8, <2>1, <2>3
    <2>5. \A i \in 1 .. n : o[i] # o[n + 1]
      BY <1>1, <2>3
    <2>6. {o[i] : i \in 1 .. n + 1} = {o[i] : i \in 1 .. n} \cup {o[n + 1]}
      BY <2>3
    <2> HIDE DEF h
    <2>7. CASE o[n + 1] \notin S
      <3>1. h[n + 1] = s
        BY <2>2, <2>4, <2>7
      <3> QED
        BY <2>2, <2>6, <2>7, <3>1
    <2>8. CASE o[n + 1] \in S
      <3>1. PICK x, t : x = o[n + 1] /\ t = h[n + 1]
        OBVIOUS
      <3>2. t = Append(s, x) /\ x \in Boards /\ s \in Seq(Boards)
        BY <2>2, <2>3, <2>4, <2>8, <3>1
      <3>3. /\ t \in Seq(Boards) /\ DOMAIN s = 1 .. Len(s) /\ Len(s) \in Nat /\ DOMAIN t = 1 .. Len(s) + 1
            /\ t[Len(s) + 1] = x /\ \A i \in 1 .. Len(s) : t[i] = s[i]
        BY <3>2
      <3>4. InOrder(t) = InOrder(s) \cup {x}
        BY <3>3 DEF InOrder
      <3>5. x \notin InOrder(s)
        BY <2>2, <2>5, <3>1
      <3>6. \A i \in DOMAIN s : s[i] # x
        BY <3>5 DEF InOrder
      <3>7. \A i, j \in DOMAIN t : i # j => t[i] # t[j]
        BY <2>2, <3>3, <3>6
      <3>8. InOrder(t) = {o[i] : i \in 1 .. n + 1} \cap S
        BY <2>2, <2>6, <2>8, <3>1, <3>4
      <3> QED
        BY <3>1, <3>3, <3>7, <3>8
    <2> QED
      BY <2>7, <2>8
  <1>11. \A n \in Nat : n \in P
    <2> HIDE DEF P
    <2> QED
      BY <1>9, <1>10, NatInd
  <1>12. Fine(N, h[N])
    <2> HIDE DEF h, Fine, N
    <2> QED
      BY <1>1, <1>11
  <1>13. InOrder(o) = {o[i] : i \in 1 .. N}
    BY <1>1 DEF InOrder
  <1> HIDE DEF h, N
  <1> QED
    BY <1>7, <1>12, <1>13 DEF Orders

\* What is touched is listed, once, and last.
LEMMA TouchedFits ==
  ASSUME NEW o \in Orders, NEW b \in Boards
  PROVE  Touched(o, b) \in Orders /\ InOrder(Touched(o, b)) = InOrder(o) \cup {b}
  <1>1. PICK s : s = Those(o, Boards \ {b})
    OBVIOUS
  <1>2. s \in Orders /\ InOrder(s) = InOrder(o) \cap (Boards \ {b})
    BY <1>1, ThoseFits
  <1>3. InOrder(o) \subseteq Boards
    BY DEF Orders, InOrder
  <1>4. PICK t : t = Append(s, b)
    OBVIOUS
  <1>5. Touched(o, b) = t
    BY <1>1, <1>4 DEF Touched
  <1>6. s \in Seq(Boards) /\ \A i, j \in DOMAIN s : i # j => s[i] # s[j]
    BY <1>2 DEF Orders
  <1>7. /\ t \in Seq(Boards) /\ DOMAIN s = 1 .. Len(s) /\ Len(s) \in Nat /\ DOMAIN t = 1 .. Len(s) + 1
        /\ t[Len(s) + 1] = b /\ \A i \in 1 .. Len(s) : t[i] = s[i]
    BY <1>4, <1>6
  <1>8. \A i \in DOMAIN s : s[i] # b
    BY <1>2 DEF InOrder
  <1>9. \A i, j \in DOMAIN t : i # j => t[i] # t[j]
    BY <1>6, <1>7, <1>8
  <1>10. InOrder(t) = InOrder(s) \cup {b}
    BY <1>7 DEF InOrder
  <1> QED
    BY <1>2, <1>3, <1>5, <1>7, <1>9, <1>10 DEF Orders

\* The first of an order, and what is left without it.
LEMMA HeadFits ==
  ASSUME NEW o \in Orders, o # <<>>
  PROVE  /\ Head(o) \in Boards /\ Head(o) \in InOrder(o)
         /\ Tail(o) \in Orders /\ InOrder(Tail(o)) = InOrder(o) \ {Head(o)}
         /\ Tail(o) # <<>> => Head(Tail(o)) \in InOrder(o) \ {Head(o)}
  <1>1. PICK t : t = Tail(o)
    OBVIOUS
  <1>2. o \in Seq(Boards) /\ \A i, j \in DOMAIN o : i # j => o[i] # o[j]
    BY DEF Orders
  <1>3. /\ Len(o) \in Nat /\ Len(o) >= 1 /\ DOMAIN o = 1 .. Len(o) /\ Head(o) = o[1] /\ t \in Seq(Boards)
        /\ Len(t) = Len(o) - 1 /\ DOMAIN t = 1 .. Len(o) - 1 /\ \A i \in 1 .. Len(o) - 1 : t[i] = o[i + 1]
    BY <1>1, <1>2
  <1>4. 1 \in DOMAIN o
    BY <1>3
  <1>5. Head(o) \in Boards /\ Head(o) \in InOrder(o)
    BY <1>2, <1>3, <1>4 DEF InOrder
  <1>6. \A i, j \in DOMAIN t : i # j => t[i] # t[j]
    <2> TAKE i, j \in DOMAIN t
    <2>1. i + 1 \in DOMAIN o /\ j + 1 \in DOMAIN o /\ (i # j => i + 1 # j + 1)
      BY <1>3
    <2> QED
      BY <1>2, <1>3, <2>1
  <1>7. InOrder(t) \subseteq InOrder(o) \ {Head(o)}
    <2> SUFFICES ASSUME NEW i \in DOMAIN t PROVE t[i] \in InOrder(o) /\ t[i] # Head(o)
      BY DEF InOrder
    <2>1. i + 1 \in DOMAIN o /\ i + 1 # 1 /\ t[i] = o[i + 1]
      BY <1>3
    <2> QED
      BY <1>2, <1>3, <1>4, <2>1 DEF InOrder
  <1>8. InOrder(o) \ {Head(o)} \subseteq InOrder(t)
    <2> SUFFICES ASSUME NEW i \in DOMAIN o, o[i] # o[1] PROVE o[i] \in InOrder(t)
      BY <1>3 DEF InOrder
    <2>1. PICK k : k = i - 1
      OBVIOUS
    <2>2. k \in DOMAIN t /\ k + 1 = i
      BY <1>3, <2>1
    <2>3. t[k] = o[i]
      BY <1>3, <2>2
    <2> QED
      BY <2>2, <2>3 DEF InOrder
  <1>9. t # <<>> => Head(t) \in InOrder(t)
    <2> SUFFICES ASSUME t # <<>> PROVE Head(t) \in InOrder(t)
      OBVIOUS
    <2>1. Len(t) >= 1 /\ Head(t) = t[1]
      BY <1>3
    <2>2. 1 \in DOMAIN t
      BY <1>3, <2>1
    <2> QED
      BY <2>1, <2>2 DEF InOrder
  <1> QED
    BY <1>1, <1>3, <1>5, <1>6, <1>7, <1>8, <1>9 DEF Orders

\* The first of an order, up to some number.
LEMMA FirstFits ==
  ASSUME NEW o \in Orders, NEW k \in 0 .. Len(o)
  PROVE  /\ SubSeq(o, 1, k) \in Orders
         /\ InOrder(SubSeq(o, 1, k)) = {o[i] : i \in 1 .. k}
         /\ InOrder(SubSeq(o, 1, k)) \subseteq InOrder(o)
         /\ k = Len(o) => InOrder(SubSeq(o, 1, k)) = InOrder(o)
         /\ SubSeq(o, 1, k) = <<>> => InOrder(SubSeq(o, 1, k)) = {}
  <1>1. PICK t : t = SubSeq(o, 1, k)
    OBVIOUS
  <1>2. o \in Seq(Boards) /\ \A i, j \in DOMAIN o : i # j => o[i] # o[j]
    BY DEF Orders
  <1>3. /\ Len(o) \in Nat /\ DOMAIN o = 1 .. Len(o) /\ t \in Seq(Boards)
        /\ DOMAIN t = 1 .. k /\ \A i \in 1 .. k : t[i] = o[i]
    BY <1>1, <1>2
  <1>4. 1 .. k \subseteq DOMAIN o /\ (k = Len(o) => 1 .. k = DOMAIN o)
    <2>1. k \in Nat /\ k <= Len(o)
      BY <1>3
    <2>2. \A i \in 1 .. k : i \in 1 .. Len(o)
      BY <1>3, <2>1
    <2> QED
      BY <1>3, <2>2
  <1>5. \A i, j \in DOMAIN t : i # j => t[i] # t[j]
    BY <1>2, <1>3, <1>4
  <1>6. InOrder(t) = {o[i] : i \in 1 .. k}
    BY <1>3 DEF InOrder
  <1>7. InOrder(t) \subseteq InOrder(o) /\ (k = Len(o) => InOrder(t) = InOrder(o))
    BY <1>4, <1>6 DEF InOrder
  <1>8. t = <<>> => InOrder(t) = {}
    BY DEF InOrder
  <1> QED
    BY <1>1, <1>3, <1>5, <1>6, <1>7, <1>8 DEF Orders

-----------------------------------------------------------------------------
(* Sizes.                                                                      *)

\* What some boards take is a sum.
LEMMA BytesIs ==
  ASSUME NEW S \in SUBSET Boards, IsFiniteSet(S)
  PROVE  \E g : Sums(g, BoardBytes, S) /\ Bytes(S) = g[S]
  <1>1. \A b \in S : BoardBytes[b] \in Int
    BY BoardsAssumption
  <1>2. \E g : Sums(g, BoardBytes, S)
    BY <1>1, SumsExist
  <1> DEFINE h == CHOOSE it : Sums(it, BoardBytes, S)
  <1>3. Sums(h, BoardBytes, S)
    BY <1>2
  <1>4. Bytes(S) = h[S]
    BY DEF Sums, Bytes, MapThenSumSet, MapThenFoldSet, SumStep, Picked
  <1> QED
    BY <1>3, <1>4

\* Nothing takes nothing; a part takes its own, and the rest the rest.
LEMMA BytesOf ==
  ASSUME NEW S \in SUBSET Boards, IsFiniteSet(S)
  PROVE  /\ Bytes(S) \in Nat /\ Bytes({}) = 0
         /\ \A A \in SUBSET S : Bytes(A) \in Nat /\ Bytes(S \ A) = Bytes(S) - Bytes(A) /\ Bytes(A) <= Bytes(S)
  <1>1. \A b \in S : BoardBytes[b] \in Int /\ BoardBytes[b] \in Nat
    BY BoardsAssumption
  <1>2. PICK g : Sums(g, BoardBytes, S) /\ Bytes(S) = g[S]
    BY BytesIs
  <1> DEFINE P == {s \in SUBSET S : g[s] \in Nat}
  <1>3. ASSUME NEW s \in SUBSET S, s = {} \/ (Picked(s) \in s /\ s \ {Picked(s)} \in P) PROVE s \in P
    <2>1. g[s] = SumStep(BoardBytes, g, s)
      BY <1>2 DEF Sums
    <2> QED
      BY <1>1, <1>3, <2>1 DEF SumStep
  <1>4. \A s \in SUBSET S : s \in P
    <2> HIDE DEF P
    <2> QED
      BY <1>3, SizeInd
  <1>5. ASSUME NEW A \in SUBSET S PROVE Bytes(A) = g[A]
    <2>1. IsFiniteSet(A) /\ A \in SUBSET Boards
      BY FS_Subset
    <2>2. PICK h : Sums(h, BoardBytes, A) /\ Bytes(A) = h[A]
      BY <2>1, BytesIs
    <2>3. h[A] = g[A]
      BY <1>2, <2>1, <2>2, SumsAgree
    <2> QED
      BY <2>2, <2>3
  <1>6. Bytes({}) = 0
    <2>1. {} \in SUBSET S /\ g[{}] = 0
      BY <1>2 DEF Sums, SumStep
    <2> QED
      BY <1>5, <2>1
  <1>7. ASSUME NEW A \in SUBSET S
        PROVE  Bytes(A) \in Nat /\ Bytes(S \ A) = Bytes(S) - Bytes(A) /\ Bytes(A) <= Bytes(S)
    <2>1. Bytes(A) \in Nat /\ Bytes(S \ A) \in Nat
      BY <1>4, <1>5
    <2>2. g[S] = g[A] + g[S \ A]
      <3> HIDE DEF P
      <3> QED
        BY <1>1, <1>2, SumSplit
    <2>3. Bytes(S) = Bytes(A) + Bytes(S \ A)
      BY <1>2, <1>5, <2>2
    <2>4. PICK x \in Nat, y \in Nat : x = Bytes(A) /\ y = Bytes(S \ A)
      BY <2>1
    <2> QED
      BY <2>3, <2>4
  <1>8. Bytes(S) \in Nat
    BY <1>2, <1>4
  <1> QED
    BY <1>6, <1>7, <1>8

\* As many go as are enough, or all of them.
LEMMA EvictionsFit ==
  ASSUME NEW total, NEW o \in Orders
  PROVE  /\ Evictions(total, o) \in 0 .. Len(o)
         /\ Enough(total, o, Evictions(total, o)) \/ Evictions(total, o) = Len(o)
  <1> DEFINE T == {k \in 0 .. Len(o) : Enough(total, o, k)} \cup {Len(o)}
  <1>1. Len(o) \in Nat
    BY DEF Orders
  <1>2. PICK m \in T : \A x \in T : m <= x
    <2>1. T \subseteq Nat /\ T # {}
      BY <1>1
    <2> HIDE DEF T
    <2> QED
      BY <2>1, NatMin
  <1>3. PICK n : n = Evictions(total, o)
    OBVIOUS
  <1>4. n \in T
    <2>1. n = CHOOSE x \in T : \A y \in T : x <= y
      BY <1>3 DEF Evictions, Min
    <2> HIDE DEF T
    <2> QED
      BY <1>2, <2>1
  <1> QED
    BY <1>1, <1>3, <1>4

-----------------------------------------------------------------------------
(* The inductive invariant of the library: what each process holds in its      *)
(* hands, which boards are between two writes of a process and so may be out   *)
(* of step, and that outside those the registry, the manifests and the index   *)
(* agree with the disk and the registry fits the budget.                       *)

\* Those whose work it is; both are never up at once.
Busy(p) == writer[p].pc \notin {"down", "idle"}
OneUp == \A p, q \in LibraryProcesses : writer[p].pc # "down" /\ writer[q].pc # "down" => p = q

\* A manifest is whole or absent, and has turns only if turns are extracted.
EntryFits(e) == /\ e.is \in {"none", "full"} /\ (e.is = "none" => e = NoEntry)
                /\ e.turns => precompute
ShelfFits == \A b \in Boards : EntryFits(shelf[b])

\* What a process holds in its hands.
WorkFits(p) ==
  LET w == writer[p] IN
  /\ ~Busy(p) => ~Marking(p)
  /\ EntryFits(w.entry) /\ (w.turns => precompute)
  /\ Busy(p) => (p = "script" <=> w.pass = "script")
  /\ w.pc = "sweep" => w.pass = "flop" /\ ~Marking(p)
  /\ w.pc = "enforce" => w.pass = "turn" /\ ~Marking(p)
  /\ w.pc = "touch" => ~Marking(p)
  /\ Marking(p) => p = "watcher" /\ InOrder(w.evicted) \cap disk = {}
  /\ Busy(p) /\ ~Marking(p) => w.board \in disk

\* The boards whose documents may be apart for now.
InFlux(p) ==
  IF Marking(p) THEN InOrder(writer[p].evicted)
  ELSE IF writer[p].pc \in {"read", "write", "indexread", "indexwrite"} THEN {writer[p].board} ELSE {}

Alike(b) == /\ index[b].is = shelf[b].is /\ index[b].turns = shelf[b].turns
            /\ index[b].available = shelf[b].available
Agreed(b) == Alike(b) /\ (index[b].is # "none" => (index[b].available <=> b \in disk))
OthersAgree == \A b \in Boards \ doubt : (\A p \in LibraryProcesses : b \notin InFlux(p)) => Agreed(b)

\* The script changes what is in the library already, and uploads what there is of it.
ScriptFits(p) ==
  LET w == writer[p]  b == w.board IN
  w.pass = "script" /\ b \notin doubt =>
    /\ w.pc \in {"read", "write"} => Agreed(b) /\ w.turns = precompute
    /\ w.pc = "write" => w.entry.is = "full"
    /\ w.pc \in {"indexread", "indexwrite"} => index[b].is = "full" /\ w.turns = w.entry.turns

\* A manifest was read as it is, and once it is written the index has to follow.
DocumentFits(p) ==
  LET w == writer[p]  b == Subject(p) IN
  Busy(p) /\ b \notin doubt =>
    /\ w.pc = "write" => w.entry = shelf[b]
    /\ w.pc \in {"indexread", "indexwrite"} =>
         /\ shelf[b] = w.entry /\ w.entry.is = "full"
         /\ IF Marking(p) THEN ~w.entry.available /\ index[b].is = "full" /\ index[b].turns = w.entry.turns
            ELSE w.entry.available
    /\ w.pc = "touch" => shelf[b].is = "full"

\* An evicted board is marked in both documents, one after the other.
MarksFit(p) ==
  \A b \in InOrder(writer[p].evicted) \ doubt :
    (b # Subject(p) \/ writer[p].pc \in {"save", "read", "write"}) => Alike(b) /\ index[b].is = "full"

RowsFit(p) == writer[p].pc = "indexwrite" => writer[p].rows = index \/ doubt = Boards

\* What a registry lists has been published.
ListedFull(o) == \A b \in InOrder(o) \ doubt : shelf[b].is = "full"
KnownFits(p) == writer[p].pc # "down" => ListedFull(writer[p].known) /\ disk \ lost \subseteq InOrder(writer[p].known)
RegistryFits == ListedFull(registry.order) /\ disk \ lost \subseteq InOrder(registry.order)

WithinBudget == Bytes(disk \ lost) <= MaxBytes

Fits(p) == WorkFits(p) /\ ScriptFits(p) /\ DocumentFits(p) /\ MarksFit(p) /\ RowsFit(p) /\ KnownFits(p)

LibraryInv ==
  /\ LibraryTypeOK /\ IsFiniteSet(disk) /\ OneUp /\ ShelfFits /\ OthersAgree /\ RegistryFits /\ WithinBudget
  /\ \A p \in LibraryProcesses : Fits(p)

-----------------------------------------------------------------------------
(* What a step of one process has to show.                                     *)

\* The records the processes start from.
LEMMA DownFits ==
  /\ Down \in Writers /\ NoEntry \in Listings /\ NoEntries \in [Boards -> Listings] /\ <<>> \in Orders
  /\ InOrder(<<>>) = {} /\ NoEntry.is = "none" /\ NoEntry.turns = FALSE /\ NoEntry.available = FALSE
  /\ Down.pc = "down" /\ Down.evicted = <<>> /\ Down.known = <<>> /\ Down.pass = "flop" /\ Down.entry = NoEntry
  /\ Down.turns = FALSE
  <1>1. <<>> \in Orders
    BY DEF Orders
  <1>2. NoEntry \in Listings /\ NoEntries \in [Boards -> Listings]
    BY DEF NoEntry, NoEntries, Listings
  <1>3. InOrder(<<>>) = {}
    BY DEF InOrder
  <1>4. (CHOOSE b \in Boards : TRUE) \in Boards
    BY BoardsAssumption
  <1>5. Down \in Writers
    BY <1>1, <1>2, <1>4 DEF Down, Writers
  <1> QED
    BY <1>1, <1>2, <1>3, <1>5 DEF Down, NoEntry

\* What is known of the process that moves.
LEMMA ActorIs ==
  ASSUME LibraryInv, NEW p \in LibraryProcesses
  PROVE  /\ writer \in [LibraryProcesses -> Writers] /\ writer[p] \in Writers
         /\ writer[p].board \in Boards /\ writer[p].known \in Orders /\ writer[p].entry \in Listings
         /\ writer[p].turns \in BOOLEAN /\ writer[p].rows \in [Boards -> Listings] /\ writer[p].evicted \in Orders
         /\ writer[p].pass \in {"flop", "turn", "request", "script"}
         /\ Subject(p) \in Boards
         /\ Marking(p) => Subject(p) \in InOrder(writer[p].evicted)
         /\ WorkFits(p) /\ ScriptFits(p) /\ DocumentFits(p) /\ MarksFit(p) /\ RowsFit(p) /\ KnownFits(p)
         /\ writer[p].pc # "down" => \A q \in LibraryProcesses : q # p => writer[q].pc = "down"
  <1>1. writer \in [LibraryProcesses -> Writers] /\ Fits(p) /\ OneUp
    BY DEF LibraryInv, LibraryTypeOK
  <1>2. /\ writer[p] \in Writers
        /\ writer[p].board \in Boards /\ writer[p].known \in Orders /\ writer[p].entry \in Listings
        /\ writer[p].turns \in BOOLEAN /\ writer[p].rows \in [Boards -> Listings] /\ writer[p].evicted \in Orders
        /\ writer[p].pass \in {"flop", "turn", "request", "script"}
    BY <1>1 DEF Writers
  <1>3. Subject(p) \in Boards /\ (Marking(p) => Subject(p) \in InOrder(writer[p].evicted))
    BY <1>2, HeadFits DEF Subject, Marking
  <1>4. writer[p].pc # "down" => \A q \in LibraryProcesses : q # p => writer[q].pc = "down"
    BY <1>1 DEF OneUp
  <1> QED
    BY <1>1, <1>2, <1>3, <1>4 DEF Fits

\* A process that is down has nothing in its hands.
LEMMA OthersFit ==
  ASSUME LibraryInv, NEW q \in LibraryProcesses, writer[q].pc = "down", writer'[q] = writer[q], UNCHANGED precompute
  PROVE  Fits(q)' /\ InFlux(q) = {} /\ InFlux(q)' = {}
  <1>1. WorkFits(q) /\ ~Busy(q) /\ ~Marking(q)
    BY ActorIs DEF WorkFits, Busy
  <1>2. Busy(q)' = Busy(q) /\ Marking(q)' = Marking(q) /\ writer'[q].pc = "down" /\ writer'[q].evicted = <<>>
    BY <1>1 DEF Busy, Marking
  <1>3. WorkFits(q)'
    <2>1. EntryFits(writer[q].entry)' = EntryFits(writer[q].entry)
      BY DEF EntryFits
    <2> QED
      BY <1>1, <1>2, <2>1 DEF WorkFits
  <1>4. ScriptFits(q)' /\ RowsFit(q)' /\ KnownFits(q)'
    BY <1>2 DEF ScriptFits, RowsFit, KnownFits
  <1>5. DocumentFits(q)'
    BY <1>1, <1>2 DEF DocumentFits
  <1>6. MarksFit(q)'
    BY <1>2, DownFits DEF MarksFit
  <1> QED
    BY <1>1, <1>2, <1>3, <1>4, <1>5, <1>6 DEF Fits, InFlux

\* Of the boards that are settled, those are that the process that moves does not hold.
LEMMA SettledAgree ==
  ASSUME LibraryInv, NEW p \in LibraryProcesses, NEW b \in Boards, b \notin doubt, b \notin InFlux(p),
         \A q \in LibraryProcesses : q # p => writer[q].pc = "down"
  PROVE  Agreed(b)
  <1>1. \A q \in LibraryProcesses : q # p => InFlux(q) = {}
    <2> SUFFICES ASSUME NEW q \in LibraryProcesses, q # p PROVE InFlux(q) = {}
      OBVIOUS
    <2>1. WorkFits(q) /\ writer[q].pc = "down"
      BY ActorIs
    <2> QED
      BY <2>1 DEF WorkFits, Busy, InFlux
  <1> QED
    BY <1>1 DEF LibraryInv, OthersAgree

\* A step of one process, while the other is down.
LEMMA ProcessMoves ==
  ASSUME LibraryInv, NEW p \in LibraryProcesses, NEW v \in Writers,
         \A q \in LibraryProcesses : q # p => writer[q].pc = "down",
         writer' = [writer EXCEPT ![p] = v], UNCHANGED precompute,
         disk' \subseteq Boards, IsFiniteSet(disk'), lost' \subseteq Boards, doubt' \subseteq Boards,
         registry' \in [half: BOOLEAN, order: Orders],
         shelf' \in [Boards -> Listings], index' \in [Boards -> Listings],
         used' \in [work: 0..MaxSolves, faults: 0..LibraryMaxFaults],
         ShelfFits', RegistryFits', WithinBudget', Fits(p)',
         \A b \in Boards : b \notin doubt' /\ b \notin InFlux(p)' => Agreed(b)'
  PROVE  LibraryInv'
  <1>1. writer \in [LibraryProcesses -> Writers] /\ precompute \in BOOLEAN
    BY DEF LibraryInv, LibraryTypeOK
  <1>2. writer' \in [LibraryProcesses -> Writers] /\ \A q \in LibraryProcesses : q # p => writer'[q] = writer[q]
    BY <1>1
  <1>3. LibraryTypeOK'
    BY <1>1, <1>2 DEF LibraryTypeOK
  <1>4. \A q \in LibraryProcesses : q # p => Fits(q)'
    BY <1>2, OthersFit
  <1>5. OneUp'
    BY <1>2 DEF OneUp
  <1>6. OthersAgree'
    <2> SUFFICES ASSUME NEW b \in Boards, b \notin doubt', \A q \in LibraryProcesses : b \notin InFlux(q)'
                 PROVE  Agreed(b)'
      BY DEF OthersAgree
    <2> QED
      OBVIOUS
  <1> QED
    BY <1>3, <1>4, <1>5, <1>6 DEF LibraryInv

\* Work and faults are counted.
LEMMA CountsFit ==
  ASSUME LibraryInv, OneMore \/ LibraryFault \/ NoLibraryFault
  PROVE  used' \in [work: 0..MaxSolves, faults: 0..LibraryMaxFaults]
  <1>1. used \in [work: 0..MaxSolves, faults: 0..LibraryMaxFaults] /\ MaxSolves \in Nat /\ LibraryMaxFaults \in Nat
    BY LibraryBoundsAssumption DEF LibraryInv, LibraryTypeOK
  <1>2. CASE OneMore
    <2>1. used.work + 1 \in 0..MaxSolves
      BY <1>1, <1>2 DEF OneMore
    <2> QED
      BY <1>1, <1>2, <2>1 DEF OneMore
  <1>3. CASE LibraryFault
    <2>1. used.faults + 1 \in 0..LibraryMaxFaults
      BY <1>1, <1>3 DEF LibraryFault
    <2> QED
      BY <1>1, <1>3, <2>1 DEF LibraryFault
  <1>4. CASE NoLibraryFault
    BY <1>1, <1>4 DEF NoLibraryFault
  <1> QED
    BY <1>2, <1>3, <1>4

\* Fewer boards take no more.
LEMMA LessIsWithin ==
  ASSUME LibraryInv, disk' \ lost' \subseteq disk \ lost
  PROVE  WithinBudget'
  <1>1. disk \subseteq Boards /\ IsFiniteSet(disk) /\ Bytes(disk \ lost) <= MaxBytes
    BY DEF LibraryInv, LibraryTypeOK, WithinBudget
  <1>2. disk \ lost \in SUBSET Boards /\ IsFiniteSet(disk \ lost)
    BY <1>1, FS_Subset
  <1>3. /\ Bytes(disk \ lost) \in Nat /\ Bytes(disk' \ lost') \in Nat
        /\ Bytes(disk' \ lost') <= Bytes(disk \ lost)
    BY <1>2, BytesOf
  <1>4. Bytes(disk' \ lost') <= MaxBytes
    BY <1>1, <1>3, BoardsAssumption
  <1> QED
    BY <1>4 DEF WithinBudget

\* What does not change the disk and the documents leaves this of them.
LEMMA FilesFit ==
  ASSUME LibraryInv
  PROVE  /\ disk \subseteq Boards /\ IsFiniteSet(disk) /\ lost \subseteq Boards /\ doubt \subseteq Boards
         /\ registry \in [half: BOOLEAN, order: Orders] /\ registry.order \in Orders
         /\ shelf \in [Boards -> Listings] /\ index \in [Boards -> Listings]
         /\ used \in [work: 0..MaxSolves, faults: 0..LibraryMaxFaults] /\ precompute \in BOOLEAN
         /\ ShelfFits /\ RegistryFits /\ WithinBudget
         /\ UNCHANGED shelf /\ UNCHANGED precompute => ShelfFits'
         /\ UNCHANGED <<registry, shelf>> /\ doubt \subseteq doubt' /\ disk' \ lost' \subseteq disk \ lost => RegistryFits'
         /\ disk' \ lost' \subseteq disk \ lost => WithinBudget'
  <1>1. /\ disk \subseteq Boards /\ IsFiniteSet(disk) /\ lost \subseteq Boards /\ doubt \subseteq Boards
        /\ registry \in [half: BOOLEAN, order: Orders] /\ registry.order \in Orders
        /\ shelf \in [Boards -> Listings] /\ index \in [Boards -> Listings]
        /\ used \in [work: 0..MaxSolves, faults: 0..LibraryMaxFaults] /\ precompute \in BOOLEAN
        /\ ShelfFits /\ RegistryFits /\ WithinBudget
    BY DEF LibraryInv, LibraryTypeOK
  <1>2. UNCHANGED shelf /\ UNCHANGED precompute => ShelfFits'
    BY <1>1 DEF ShelfFits, EntryFits
  <1>3. UNCHANGED <<registry, shelf>> /\ doubt \subseteq doubt' /\ disk' \ lost' \subseteq disk \ lost => RegistryFits'
    BY <1>1 DEF RegistryFits, ListedFull
  <1> QED
    BY <1>1, <1>2, <1>3, LessIsWithin

-----------------------------------------------------------------------------
(* The steps.                                                                  *)

\* A process that rests has only its registry.
LEMMA RestedFits ==
  ASSUME LibraryInv, NEW p \in LibraryProcesses
  PROVE  /\ Rested(p) \in Writers /\ Rested(p).pc = "idle" /\ Rested(p).evicted = <<>>
         /\ Rested(p).known = writer[p].known /\ Rested(p).entry = NoEntry /\ Rested(p).turns = FALSE
         /\ Rested(p).pass = "flop"
  <1>1. writer[p].known \in Orders
    BY ActorIs
  <1>2. Rested(p) \in Writers
    BY <1>1, DownFits DEF Rested, Writers
  <1>3. /\ Rested(p).pc = "idle" /\ Rested(p).evicted = <<>> /\ Rested(p).known = writer[p].known
        /\ Rested(p).entry = NoEntry /\ Rested(p).turns = FALSE /\ Rested(p).pass = "flop"
    BY DEF Rested, Down
  <1> QED
    BY <1>2, <1>3

\* A process that comes to rest, or is started, has nothing to show but its registry.
LEMMA IdleFits ==
  ASSUME NEW p \in LibraryProcesses, writer'[p].pc \in {"idle", "down"}, writer'[p].evicted = <<>>,
         writer'[p].entry = NoEntry, writer'[p].turns = FALSE, KnownFits(p)'
  PROVE  Fits(p)' /\ InFlux(p)' = {}
  <1>1. ~Busy(p)' /\ ~Marking(p)' /\ InOrder(writer'[p].evicted) = {}
    BY DownFits DEF Busy, Marking
  <1>2. WorkFits(p)'
    BY <1>1, DownFits DEF WorkFits, EntryFits
  <1>3. ScriptFits(p)' /\ DocumentFits(p)' /\ MarksFit(p)' /\ RowsFit(p)'
    BY <1>1 DEF ScriptFits, DocumentFits, MarksFit, RowsFit
  <1> QED
    BY <1>1, <1>2, <1>3 DEF Fits, InFlux

\* What a process knows is still right when its registry is the same and no board
\* is more to be known.
LEMMA KnownStays ==
  ASSUME LibraryInv, NEW p \in LibraryProcesses, writer'[p].known = writer[p].known, writer[p].pc # "down",
         UNCHANGED shelf, doubt \subseteq doubt', disk' \ lost' \subseteq disk \ lost
  PROVE  KnownFits(p)'
  BY ActorIs DEF KnownFits, ListedFull

LEMMA BoardSolvedInv == ASSUME LibraryInv, NEW b \in Boards, BoardSolved(b) PROVE LibraryInv'
  <1> DEFINE p == "watcher"
             v == [Rested(p) EXCEPT !.pc = "read", !.board = b, !.pass = "flop"]
  <1>1. /\ p \in LibraryProcesses /\ writer[p].pc = "idle" /\ writer' = [writer EXCEPT ![p] = v] /\ OneMore
        /\ disk' = disk \cup {b} /\ lost' = lost \cup {b} /\ UNCHANGED <<registry, shelf, index, doubt, precompute>>
    BY DEF BoardSolved, AtPc, LibraryProcesses
  <1>2. \A q \in LibraryProcesses : q # p => writer[q].pc = "down"
    BY <1>1, ActorIs
  <1>3. /\ v \in Writers /\ v.pc = "read" /\ v.board = b /\ v.pass = "flop" /\ v.evicted = <<>>
        /\ v.entry = NoEntry /\ v.turns = FALSE /\ v.known = writer[p].known
    BY <1>1, RestedFits DEF Writers
  <1>4. writer'[p] = v
    BY <1>1, ActorIs
  <1> HIDE DEF v
  <1>5. ~Marking(p)' /\ Busy(p)' /\ Subject(p)' = b /\ InFlux(p)' = {b}
    BY <1>3, <1>4 DEF Marking, Busy, Subject, InFlux
  <1>6. InFlux(p) = {}
    BY <1>1, ActorIs DEF InFlux, WorkFits, Busy
  <1>7. Fits(p)'
    <2>1. WorkFits(p)'
      BY <1>1, <1>3, <1>4, <1>5, DownFits DEF WorkFits, EntryFits
    <2>2. KnownFits(p)'
      BY <1>1, <1>3, <1>4, KnownStays
    <2>3. ScriptFits(p)' /\ DocumentFits(p)' /\ RowsFit(p)'
      BY <1>3, <1>4 DEF ScriptFits, DocumentFits, RowsFit
    <2>4. MarksFit(p)'
      BY <1>3, <1>4, DownFits DEF MarksFit
    <2> QED
      BY <2>1, <2>2, <2>3, <2>4 DEF Fits
  <1>8. ASSUME NEW c \in Boards, c \notin doubt', c \notin InFlux(p)' PROVE Agreed(c)'
    <2>1. Agreed(c) /\ c # b
      BY <1>1, <1>2, <1>5, <1>6, <1>8, SettledAgree
    <2> QED
      BY <1>1, <2>1 DEF Agreed, Alike
  <1>9. IsFiniteSet(disk') /\ disk' \subseteq Boards /\ lost' \subseteq Boards /\ disk' \ lost' \subseteq disk \ lost
    BY <1>1, FilesFit, FS_AddElement
  <1> QED
    BY <1>1, <1>2, <1>3, <1>7, <1>8, <1>9, FilesFit, CountsFit, ProcessMoves

LEMMA FlopFailsInv == ASSUME LibraryInv, FlopFails PROVE LibraryInv'
  <1> DEFINE p == "watcher"
             v == Rested(p)
  <1>1. /\ p \in LibraryProcesses /\ writer[p].pc = "read" /\ ~Marking(p) /\ writer' = [writer EXCEPT ![p] = v]
        /\ LibraryFault /\ doubt' = doubt \cup {writer[p].board}
        /\ UNCHANGED <<disk, registry, shelf, index, lost, precompute>>
    BY DEF FlopFails, LibraryProcesses
  <1>2. \A q \in LibraryProcesses : q # p => writer[q].pc = "down"
    BY <1>1, ActorIs
  <1>3. /\ v \in Writers /\ v.pc = "idle" /\ v.evicted = <<>> /\ v.entry = NoEntry /\ v.turns = FALSE
        /\ v.known = writer[p].known
    BY <1>1, RestedFits
  <1>a. writer'[p] = v
    BY <1>1, ActorIs
  <1> HIDE DEF v
  <1>4. KnownFits(p)'
    BY <1>1, <1>3, <1>a, KnownStays
  <1>5. Fits(p)' /\ InFlux(p)' = {}
    BY <1>3, <1>4, <1>a, <1>1, IdleFits
  <1>6. ASSUME NEW c \in Boards, c \notin doubt', c \notin InFlux(p)' PROVE Agreed(c)'
    <2>1. c \notin doubt /\ c \notin InFlux(p)
      BY <1>1, <1>6 DEF InFlux
    <2>2. Agreed(c)
      BY <1>2, <1>1, <2>1, SettledAgree
    <2> QED
      BY <1>1, <2>2 DEF Agreed, Alike
  <1>7. doubt' \subseteq Boards
    BY <1>1, ActorIs, FilesFit
  <1> HIDE DEF v
  <1> QED
    BY <1>1, <1>2, <1>3, <1>5, <1>6, <1>7, FilesFit, CountsFit, ProcessMoves

LEMMA RequestedInv == ASSUME LibraryInv, NEW b \in Boards, Requested(b) PROVE LibraryInv'
  <1> DEFINE p == "watcher"
             v == [Rested(p) EXCEPT !.pc = "touch", !.board = b, !.pass = "request"]
  <1>1. /\ p \in LibraryProcesses /\ writer[p].pc = "idle" /\ writer' = [writer EXCEPT ![p] = v] /\ OneMore
        /\ b \in disk /\ shelf[b].is # "none"
        /\ UNCHANGED <<disk, registry, shelf, index, doubt, lost, precompute>>
    BY DEF Requested, AtPc, LibraryProcesses
  <1>2. \A q \in LibraryProcesses : q # p => writer[q].pc = "down"
    BY <1>1, ActorIs
  <1>3. /\ v \in Writers /\ v.pc = "touch" /\ v.board = b /\ v.pass = "request" /\ v.evicted = <<>>
        /\ v.entry = NoEntry /\ v.turns = FALSE /\ v.known = writer[p].known
    BY <1>1, RestedFits DEF Writers
  <1>4. writer'[p] = v
    BY <1>1, ActorIs
  <1> HIDE DEF v
  <1>5. ~Marking(p)' /\ Busy(p)' /\ Subject(p)' = b /\ InFlux(p)' = {}
    BY <1>3, <1>4 DEF Marking, Busy, Subject, InFlux
  <1>6. InFlux(p) = {}
    BY <1>1, ActorIs DEF InFlux, WorkFits, Busy
  <1>7. Fits(p)'
    <2>1. WorkFits(p)'
      BY <1>1, <1>3, <1>4, <1>5, DownFits DEF WorkFits, EntryFits
    <2>2. KnownFits(p)'
      BY <1>1, <1>3, <1>4, KnownStays
    <2>3. ScriptFits(p)' /\ RowsFit(p)'
      BY <1>3, <1>4 DEF ScriptFits, RowsFit
    <2>4. MarksFit(p)'
      BY <1>3, <1>4, DownFits DEF MarksFit
    <2>5. shelf'[b].is = "full"
      BY <1>1, FilesFit DEF ShelfFits, EntryFits
    <2>6. DocumentFits(p)'
      BY <1>3, <1>4, <1>5, <2>5 DEF DocumentFits
    <2> QED
      BY <2>1, <2>2, <2>3, <2>4, <2>6 DEF Fits
  <1>8. ASSUME NEW c \in Boards, c \notin doubt', c \notin InFlux(p)' PROVE Agreed(c)'
    <2>1. Agreed(c)
      BY <1>1, <1>2, <1>6, <1>8, SettledAgree
    <2> QED
      BY <1>1, <2>1 DEF Agreed, Alike
  <1> QED
    BY <1>1, <1>2, <1>3, <1>7, <1>8, FilesFit, CountsFit, ProcessMoves

LEMMA ScriptStartsInv == ASSUME LibraryInv, ScriptStarts PROVE LibraryInv'
  <1> DEFINE p == "script"
             v == [Down EXCEPT !.pc = "idle", !.known = Loaded]
  <1>1. /\ p \in LibraryProcesses /\ writer[p].pc = "down" /\ writer' = [writer EXCEPT ![p] = v] /\ OneMore
        /\ \A q \in LibraryProcesses : writer[q].pc = "down"
        /\ UNCHANGED <<disk, registry, shelf, index, doubt, lost, precompute>>
    BY DEF ScriptStarts, AtPc, LibraryProcesses
  <1>2. /\ v \in Writers /\ v.pc = "idle" /\ v.evicted = <<>> /\ v.entry = NoEntry /\ v.turns = FALSE
        /\ v.known = registry.order
    BY <1>1, DownFits, FilesFit DEF Writers, Loaded
  <1>3. writer'[p] = v
    BY <1>1, ActorIs
  <1> HIDE DEF v
  <1>4. KnownFits(p)'
    BY <1>1, <1>2, <1>3, FilesFit DEF KnownFits, RegistryFits, ListedFull
  <1>5. Fits(p)' /\ InFlux(p)' = {}
    BY <1>1, <1>2, <1>3, <1>4, IdleFits
  <1>6. InFlux(p) = {}
    BY <1>1, ActorIs DEF InFlux, WorkFits, Busy
  <1>7. ASSUME NEW c \in Boards, c \notin doubt', c \notin InFlux(p)' PROVE Agreed(c)'
    <2>1. Agreed(c)
      BY <1>1, <1>6, <1>7, SettledAgree
    <2> QED
      BY <1>1, <2>1 DEF Agreed, Alike
  <1> HIDE DEF v
  <1> QED
    BY <1>1, <1>2, <1>5, <1>7, FilesFit, CountsFit, ProcessMoves

LEMMA WatcherStartsInv == ASSUME LibraryInv, WatcherStarts PROVE LibraryInv'
  <1> DEFINE p == "watcher"
             v == [Down EXCEPT !.pc = "idle", !.known = Loaded]
  <1>1. /\ p \in LibraryProcesses /\ writer[p].pc = "down" /\ writer' = [writer EXCEPT ![p] = v]
        /\ \A q \in LibraryProcesses : writer[q].pc = "down"
        /\ UNCHANGED <<disk, registry, shelf, index, doubt, lost, precompute, used>>
    BY DEF WatcherStarts, AtPc, LibraryProcesses
  <1>2. /\ v \in Writers /\ v.pc = "idle" /\ v.evicted = <<>> /\ v.entry = NoEntry /\ v.turns = FALSE
        /\ v.known = registry.order
    BY <1>1, DownFits, FilesFit DEF Writers, Loaded
  <1>3. writer'[p] = v
    BY <1>1, ActorIs
  <1> HIDE DEF v
  <1>4. KnownFits(p)'
    BY <1>1, <1>2, <1>3, FilesFit DEF KnownFits, RegistryFits, ListedFull
  <1>5. Fits(p)' /\ InFlux(p)' = {}
    BY <1>1, <1>2, <1>3, <1>4, IdleFits
  <1>6. InFlux(p) = {}
    BY <1>1, ActorIs DEF InFlux, WorkFits, Busy
  <1>7. ASSUME NEW c \in Boards, c \notin doubt', c \notin InFlux(p)' PROVE Agreed(c)'
    <2>1. Agreed(c)
      BY <1>1, <1>6, <1>7, SettledAgree
    <2> QED
      BY <1>1, <2>1 DEF Agreed, Alike
  <1> HIDE DEF v
  <1> QED
    BY <1>1, <1>2, <1>5, <1>7, FilesFit, CountsFit, ProcessMoves DEF NoLibraryFault

\* The watcher is stopped between two jobs, or the script comes to its end.
LEMMA StopsInv == ASSUME LibraryInv, WatcherStops \/ ScriptEnds PROVE LibraryInv'
  <1>1. PICK p \in LibraryProcesses :
          /\ writer[p].pc = "idle" /\ writer' = [writer EXCEPT ![p] = Down]
          /\ UNCHANGED <<disk, registry, shelf, index, doubt, lost, precompute, used>>
    BY DEF WatcherStops, ScriptEnds, AtPc, LibraryProcesses
  <1>2. \A q \in LibraryProcesses : q # p => writer[q].pc = "down"
    BY <1>1, ActorIs
  <1>3. writer'[p] = Down
    BY <1>1, ActorIs
  <1>4. KnownFits(p)'
    BY <1>3, DownFits DEF KnownFits
  <1>5. Fits(p)' /\ InFlux(p)' = {}
    BY <1>3, <1>4, DownFits, IdleFits
  <1>6. InFlux(p) = {}
    BY <1>1, ActorIs DEF InFlux, WorkFits, Busy
  <1>7. ASSUME NEW c \in Boards, c \notin doubt', c \notin InFlux(p)' PROVE Agreed(c)'
    <2>1. Agreed(c)
      BY <1>1, <1>2, <1>6, <1>7, SettledAgree
    <2> QED
      BY <1>1, <2>1 DEF Agreed, Alike
  <1> QED
    BY <1>1, <1>2, <1>5, <1>7, DownFits, FilesFit, CountsFit, ProcessMoves DEF NoLibraryFault

LEMMA DiesInv == ASSUME LibraryInv, NEW p \in LibraryProcesses, Dies(p) PROVE LibraryInv'
  <1>1. /\ writer[p].pc \notin {"down", "idle"} /\ writer' = [writer EXCEPT ![p] = Down] /\ LibraryFault
        /\ UNCHANGED registry \/ registry' = Half
        /\ doubt' = doubt \cup {writer[p].board} \cup InOrder(writer[p].evicted)
        /\ lost' = lost \cup (disk \ InOrder(registry'.order))
        /\ UNCHANGED <<disk, shelf, index, precompute>>
    BY DEF Dies
  <1>2. \A q \in LibraryProcesses : q # p => writer[q].pc = "down"
    BY <1>1, ActorIs
  <1>3. writer'[p] = Down
    BY <1>1, ActorIs
  <1>4. KnownFits(p)'
    BY <1>3, DownFits DEF KnownFits
  <1>5. Fits(p)' /\ InFlux(p)' = {}
    BY <1>3, <1>4, DownFits, IdleFits
  <1>6. ASSUME NEW c \in Boards, c \notin doubt', c \notin InFlux(p)' PROVE Agreed(c)'
    <2>1. c \notin doubt /\ c \notin InFlux(p)
      BY <1>1, <1>6 DEF InFlux
    <2>2. Agreed(c)
      BY <1>1, <1>2, <2>1, SettledAgree
    <2> QED
      BY <1>1, <2>2 DEF Agreed, Alike
  <1>7. doubt' \subseteq Boards /\ lost' \subseteq Boards
    <2>1. InOrder(writer[p].evicted) \subseteq Boards
      BY ActorIs DEF InOrder, Orders
    <2> QED
      BY <1>1, <2>1, ActorIs, FilesFit
  <1>8. Half \in [half: BOOLEAN, order: Orders] /\ InOrder(Half.order) = {}
    BY DownFits DEF Half
  <1>b. registry' \in [half: BOOLEAN, order: Orders]
    BY <1>1, <1>8, FilesFit
  <1>9. RegistryFits'
    <2>1. \A b \in InOrder(registry'.order) : b \in InOrder(registry.order)
      BY <1>1, <1>8
    <2>2. disk' \ lost' \subseteq InOrder(registry'.order)
      BY <1>1
    <2> QED
      BY <1>1, <2>1, <2>2, FilesFit DEF RegistryFits, ListedFull
  <1>10. WithinBudget'
    BY <1>1, LessIsWithin
  <1> QED
    BY <1>1, <1>2, <1>5, <1>6, <1>7, <1>b, <1>9, <1>10, DownFits, FilesFit, CountsFit, ProcessMoves

LEMMA ReextractInv == ASSUME LibraryInv, NEW b \in Boards, Reextract(b) PROVE LibraryInv'
  <1> DEFINE p == "script"
  <1>1. /\ p \in LibraryProcesses /\ writer[p].pc = "idle" /\ b \in disk
        /\ UNCHANGED <<disk, registry, shelf, index, lost, precompute>>
    BY DEF Reextract, AtPc, LibraryProcesses
  <1>2. PICK turns \in BOOLEAN :
          /\ writer' = [writer EXCEPT ![p] = [Rested(p) EXCEPT !.pc = "read", !.board = b, !.pass = "script", !.turns = turns]]
          /\ \/ NoLibraryFault /\ UNCHANGED doubt /\ turns = precompute
             \/ LibraryFault /\ doubt' = doubt \cup {b} /\ turns = FALSE
    <2>1. precompute \in BOOLEAN /\ Rested(p) \in Writers /\ Rested(p).turns = FALSE
      BY <1>1, RestedFits, FilesFit
    <2>2. [Rested(p) EXCEPT !.pc = "read", !.board = b, !.pass = "script"]
            = [Rested(p) EXCEPT !.pc = "read", !.board = b, !.pass = "script", !.turns = FALSE]
      BY <2>1 DEF Writers
    <2> QED
      BY <2>1, <2>2 DEF Reextract
  <1>3. PICK v : v = [Rested(p) EXCEPT !.pc = "read", !.board = b, !.pass = "script", !.turns = turns]
    OBVIOUS
  <1>4. /\ v \in Writers /\ v.pc = "read" /\ v.board = b /\ v.pass = "script" /\ v.evicted = <<>>
        /\ v.entry = NoEntry /\ v.turns = turns /\ v.known = writer[p].known
    BY <1>1, <1>3, RestedFits DEF Writers
  <1>5. writer' = [writer EXCEPT ![p] = v] /\ writer'[p] = v
    BY <1>1, <1>2, <1>3, ActorIs
  <1>6. \A q \in LibraryProcesses : q # p => writer[q].pc = "down"
    BY <1>1, ActorIs
  <1>7. ~Marking(p)' /\ Busy(p)' /\ Subject(p)' = b /\ InFlux(p)' = {b}
    BY <1>4, <1>5 DEF Marking, Busy, Subject, InFlux
  <1>8. InFlux(p) = {}
    BY <1>1, ActorIs DEF InFlux, WorkFits, Busy
  <1>9. \A c \in Boards : c \notin doubt' => Agreed(c)'
    <2> SUFFICES ASSUME NEW c \in Boards, c \notin doubt' PROVE Agreed(c)'
      OBVIOUS
    <2>1. Agreed(c)
      BY <1>1, <1>2, <1>6, <1>8, SettledAgree
    <2> QED
      BY <1>1, <2>1 DEF Agreed, Alike
  <1>10. Fits(p)'
    <2>1. WorkFits(p)'
      <3>1. turns => precompute
        BY <1>2
      <3> QED
        BY <1>1, <1>4, <1>5, <1>7, <3>1, DownFits DEF WorkFits, EntryFits
    <2>2. KnownFits(p)'
      BY <1>1, <1>2, <1>4, <1>5, KnownStays
    <2>3. b \notin doubt' => turns = precompute
      BY <1>2
    <2>4. ScriptFits(p)'
      BY <1>1, <1>4, <1>5, <1>9, <2>3 DEF ScriptFits
    <2>5. DocumentFits(p)' /\ RowsFit(p)'
      BY <1>4, <1>5 DEF DocumentFits, RowsFit
    <2>6. MarksFit(p)'
      BY <1>4, <1>5, DownFits DEF MarksFit
    <2> QED
      BY <2>1, <2>2, <2>4, <2>5, <2>6 DEF Fits
  <1>11. doubt' \subseteq Boards /\ doubt \subseteq doubt'
    BY <1>2, FilesFit
  <1> QED
    BY <1>1, <1>2, <1>4, <1>5, <1>6, <1>9, <1>10, <1>11, FilesFit, CountsFit, ProcessMoves

LEMMA ManifestReadInv == ASSUME LibraryInv, NEW p \in LibraryProcesses, ManifestRead(p) PROVE LibraryInv'
  <1> DEFINE w == writer[p]
             b == Subject(p)
  <1>1. w.pc = "read" /\ UNCHANGED <<disk, registry, shelf, index, lost, precompute>>
    BY DEF ManifestRead, AtPc
  <1>2. PICK e, v : /\ v = IF w.pass = "script" /\ e = NoEntry THEN Rested(p) ELSE [w EXCEPT !.pc = "write", !.entry = e]
                    /\ writer' = [writer EXCEPT ![p] = v]
                    /\ \/ NoLibraryFault /\ e = shelf[b] /\ UNCHANGED doubt
                       \/ LibraryFault /\ e = NoEntry /\ doubt' = doubt \cup {b}
    BY ActorIs DEF ManifestRead
  <1>3. \A q \in LibraryProcesses : q # p => writer[q].pc = "down"
    BY <1>1, ActorIs
  <1>4. /\ b \in Boards /\ WorkFits(p) /\ ScriptFits(p) /\ MarksFit(p) /\ w \in Writers
        /\ writer \in [LibraryProcesses -> Writers] /\ InOrder(w.evicted) \subseteq Boards
    BY ActorIs DEF InOrder, Orders
  <1>5. e \in Listings /\ EntryFits(e) /\ (b \notin doubt' => e = shelf[b])
    <2>1. shelf[b] \in Listings /\ EntryFits(shelf[b])
      BY <1>4, FilesFit DEF ShelfFits
    <2>2. NoEntry \in Listings /\ EntryFits(NoEntry)
      BY DownFits DEF EntryFits
    <2> QED
      BY <1>2, <2>1, <2>2
  <1>6. doubt' \subseteq Boards /\ doubt \subseteq doubt' /\ (\A c \in Boards : c # b /\ c \notin doubt => c \notin doubt')
    BY <1>2, <1>4, FilesFit
  <1>7. writer'[p] = v
    BY <1>2, <1>4
  <1>8. ASSUME NEW c \in Boards, c \notin doubt', c \notin InFlux(p) PROVE Agreed(c)'
    <2>1. Agreed(c)
      BY <1>1, <1>3, <1>6, <1>8, SettledAgree
    <2> QED
      BY <1>1, <2>1 DEF Agreed, Alike
  <1>9. CASE w.pass = "script" /\ e = NoEntry
    <2>1. v = Rested(p) /\ v \in Writers
      BY <1>2, <1>9, RestedFits
    <2>2. KnownFits(p)'
      BY <1>1, <1>6, <1>7, <2>1, RestedFits, KnownStays
    <2>3. Fits(p)' /\ InFlux(p)' = {}
      BY <1>7, <2>1, <2>2, RestedFits, IdleFits
    <2>4. ~Marking(p) /\ b = w.board
      BY <1>1, <1>4, <1>9 DEF WorkFits, Busy, Subject, Marking, LibraryProcesses
    <2>5. ASSUME NEW c \in Boards, c \notin doubt' PROVE Agreed(c)'
      <3>1. CASE c = b
        <4>1. Agreed(b)
          BY <1>1, <1>4, <1>6, <1>9, <2>4, <2>5, <3>1 DEF ScriptFits
        <4> QED
          BY <1>1, <3>1, <4>1 DEF Agreed, Alike
      <3>2. CASE c # b
        BY <1>1, <1>8, <2>4, <2>5, <3>2 DEF InFlux
      <3> QED
        BY <3>1, <3>2
    <2> HIDE DEF w, b
    <2> QED
      BY <1>1, <1>2, <1>3, <1>6, <2>1, <2>3, <2>5, FilesFit, CountsFit, ProcessMoves
  <1>10. CASE ~(w.pass = "script" /\ e = NoEntry)
    <2>1. v = [w EXCEPT !.pc = "write", !.entry = e]
      BY <1>2, <1>10
    <2>2. /\ v \in Writers /\ v.pc = "write" /\ v.entry = e /\ v.board = w.board /\ v.known = w.known
          /\ v.pass = w.pass /\ v.turns = w.turns /\ v.evicted = w.evicted
      BY <1>4, <1>5, <2>1 DEF Writers
    <2>3. /\ Marking(p)' = Marking(p) /\ Busy(p) /\ Busy(p)' /\ Subject(p)' = b /\ InFlux(p)' = InFlux(p)
      BY <1>1, <1>7, <2>2 DEF Marking, Busy, Subject, InFlux
    <2>4. WorkFits(p)'
      BY <1>1, <1>4, <1>5, <1>7, <2>2, <2>3 DEF WorkFits, EntryFits
    <2>5. KnownFits(p)'
      BY <1>1, <1>6, <1>7, <2>2, KnownStays
    <2>6. ScriptFits(p)'
      <3> SUFFICES ASSUME w.pass = "script", w.board \notin doubt'
                   PROVE  Agreed(w.board)' /\ w.turns = precompute' /\ e.is = "full"
        BY <1>7, <2>2 DEF ScriptFits
      <3>1. Agreed(w.board) /\ w.turns = precompute
        BY <1>1, <1>4, <1>6 DEF ScriptFits
      <3>2. Agreed(w.board)'
        BY <1>1, <1>7, <2>2, <3>1 DEF Agreed, Alike
      <3>3. e.is = "full"
        BY <1>5, <1>10 DEF EntryFits
      <3> QED
        BY <1>1, <3>1, <3>2, <3>3
    <2>7. DocumentFits(p)'
      BY <1>1, <1>5, <1>7, <2>2, <2>3 DEF DocumentFits
    <2>8. MarksFit(p)'
      <3> SUFFICES ASSUME NEW c \in InOrder(w.evicted), c \notin doubt' PROVE Alike(c)' /\ index'[c].is = "full"
        BY <1>7, <2>2 DEF MarksFit
      <3>1. Alike(c) /\ index[c].is = "full"
        BY <1>1, <1>4, <1>6 DEF MarksFit
      <3> QED
        BY <1>1, <3>1 DEF Alike
    <2>9. RowsFit(p)'
      BY <1>7, <2>2 DEF RowsFit
    <2>10. Fits(p)'
      BY <2>4, <2>5, <2>6, <2>7, <2>8, <2>9 DEF Fits
    <2> HIDE DEF w, b
    <2> QED
      BY <1>1, <1>2, <1>3, <1>6, <1>8, <2>2, <2>3, <2>10, FilesFit, CountsFit, ProcessMoves
  <1> QED
    BY <1>9, <1>10

LEMMA ManifestWriteInv == ASSUME LibraryInv, NEW p \in LibraryProcesses, ManifestWrite(p) PROVE LibraryInv'
  <1> DEFINE w == writer[p]
             b == Subject(p)
  <1>1. w.pc = "write" /\ UNCHANGED <<disk, registry, index, lost, precompute>>
    BY DEF ManifestWrite, AtPc
  <1>a. PICK e : e = IF Marking(p) THEN Unavailable(w.entry) ELSE Merged(w)
    OBVIOUS
  <1>b. PICK v : v = [w EXCEPT !.pc = "indexread", !.entry = e]
    OBVIOUS
  <1>2. /\ writer' = [writer EXCEPT ![p] = v]
        /\ \/ /\ NoLibraryFault /\ UNCHANGED doubt
              /\ shelf' = IF e.is = "none" THEN shelf ELSE [shelf EXCEPT ![b] = e]
           \/ LibraryFault /\ UNCHANGED shelf /\ doubt' = doubt \cup {b}
    <2>1. writer' = [writer EXCEPT ![p].pc = "indexread", ![p].entry = e]
      BY <1>a DEF ManifestWrite
    <2>2. writer' = [writer EXCEPT ![p] = v]
      BY <1>b, <2>1, ActorIs DEF Writers
    <2> QED
      BY <1>a, <2>2 DEF ManifestWrite
  <1>3. \A q \in LibraryProcesses : q # p => writer[q].pc = "down"
    BY <1>1, ActorIs
  <1>4. /\ b \in Boards /\ WorkFits(p) /\ ScriptFits(p) /\ MarksFit(p) /\ DocumentFits(p) /\ KnownFits(p) /\ w \in Writers
        /\ writer \in [LibraryProcesses -> Writers] /\ InOrder(w.evicted) \subseteq Boards
        /\ w.entry \in Listings /\ w.turns \in BOOLEAN /\ precompute \in BOOLEAN
        /\ (Marking(p) => b \in InOrder(w.evicted)) /\ (~Marking(p) => b = w.board)
    BY ActorIs, FilesFit DEF InOrder, Orders, Subject, Marking
  <1>5. /\ e \in Listings /\ EntryFits(e)
        /\ Marking(p) => e.is = w.entry.is /\ e.turns = w.entry.turns /\ e.available = FALSE
        /\ ~Marking(p) => e.is = "full" /\ e.turns = (w.turns \/ w.entry.turns) /\ e.available = TRUE
    <2>1. CASE Marking(p)
      <3>1. e = [w.entry EXCEPT !.available = FALSE]
        BY <1>a, <2>1 DEF Unavailable
      <3>2. e \in Listings /\ e.is = w.entry.is /\ e.turns = w.entry.turns /\ e.available = FALSE
        BY <1>4, <3>1 DEF Listings
      <3>3. EntryFits(w.entry)
        BY <1>4 DEF WorkFits
      <3>4. e = [is |-> w.entry.is, turns |-> w.entry.turns, available |-> FALSE]
        BY <1>4, <3>1 DEF Listings
      <3>5. e.is = "none" => e = NoEntry
        <4>1. w.entry.is = "none" => w.entry.turns = FALSE
          BY <3>3, DownFits DEF EntryFits
        <4> QED
          BY <3>2, <3>4, <4>1 DEF NoEntry
      <3> QED
        BY <2>1, <3>2, <3>3, <3>5 DEF EntryFits
    <2>2. CASE ~Marking(p)
      <3>1. e = [is |-> "full", turns |-> w.turns \/ w.entry.turns, available |-> TRUE]
        BY <1>a, <2>2 DEF Merged
      <3>2. e \in Listings /\ e.is = "full" /\ e.turns = (w.turns \/ w.entry.turns) /\ e.available = TRUE
        BY <3>1 DEF Listings
      <3>3. (w.turns \/ w.entry.turns) => precompute
        BY <1>4 DEF WorkFits, EntryFits
      <3> QED
        BY <2>2, <3>2, <3>3 DEF EntryFits
    <2> QED
      BY <2>1, <2>2
  <1>6. doubt' \subseteq Boards /\ doubt \subseteq doubt'
    BY <1>2, <1>4, FilesFit
  <1>7. writer'[p] = v
    BY <1>2, <1>4
  <1>8. /\ v \in Writers /\ v.pc = "indexread" /\ v.entry = e /\ v.board = w.board /\ v.known = w.known
        /\ v.pass = w.pass /\ v.turns = w.turns /\ v.evicted = w.evicted
    BY <1>b, <1>4, <1>5 DEF Writers
  <1>9. /\ Marking(p)' = Marking(p) /\ Busy(p) /\ Busy(p)' /\ Subject(p)' = b /\ InFlux(p)' = InFlux(p) /\ b \in InFlux(p)
    BY <1>1, <1>4, <1>7, <1>8 DEF Marking, Busy, Subject, InFlux
  <1>10. /\ shelf' \in [Boards -> Listings] /\ \A c \in Boards : c # b => shelf'[c] = shelf[c]
         /\ shelf'[b] \in {e, shelf[b]} /\ (e.is = "none" => shelf'[b] = shelf[b])
         /\ b \notin doubt' /\ e.is # "none" => shelf'[b] = e
    BY <1>2, <1>4, <1>5, FilesFit
  <1>11. ASSUME NEW c \in Boards, c \notin doubt', c \notin InFlux(p)' PROVE Agreed(c)'
    <2>1. Agreed(c) /\ c # b
      BY <1>1, <1>3, <1>6, <1>9, <1>11, SettledAgree
    <2> QED
      BY <1>1, <1>10, <2>1 DEF Agreed, Alike
  <1>12. ShelfFits'
    <2>1. \A c \in Boards : EntryFits(shelf[c])
      BY FilesFit DEF ShelfFits
    <2>2. \A c \in Boards : EntryFits(shelf'[c])
      BY <1>5, <1>10, <2>1
    <2> QED
      BY <1>1, <2>2 DEF ShelfFits, EntryFits
  <1>13. \A c \in Boards : shelf[c].is = "full" => shelf'[c].is = "full"
    BY <1>4, <1>5, <1>10 DEF EntryFits
  <1>14. RegistryFits' /\ KnownFits(p)'
    <2>1. RegistryFits /\ KnownFits(p) /\ InOrder(registry.order) \subseteq Boards /\ InOrder(w.known) \subseteq Boards
      BY <1>4, FilesFit DEF InOrder, Orders, Writers
    <2> QED
      BY <1>1, <1>6, <1>7, <1>8, <1>13, <2>1 DEF RegistryFits, KnownFits, ListedFull
  <1>15. WorkFits(p)'
    BY <1>1, <1>4, <1>5, <1>7, <1>8, <1>9 DEF WorkFits, EntryFits
  <1>16. ASSUME b \notin doubt'
         PROVE  /\ e.is = "full" /\ shelf'[b] = e
                /\ Marking(p) => index[b].is = "full" /\ index[b].turns = e.turns
                /\ w.pass = "script" => index[b].is = "full"
    <2>1. b \notin doubt /\ w.entry = shelf[b]
      BY <1>1, <1>4, <1>6, <1>9, <1>16 DEF DocumentFits
    <2>2. CASE Marking(p)
      <3>1. Alike(b) /\ index[b].is = "full"
        BY <1>1, <1>4, <2>1, <2>2 DEF MarksFit
      <3>2. e.is = "full" /\ e.turns = index[b].turns
        BY <1>5, <2>1, <2>2, <3>1 DEF Alike
      <3>3. shelf'[b] = e
        BY <1>10, <1>16, <3>2
      <3> QED
        BY <2>2, <3>1, <3>2, <3>3
    <2>3. CASE ~Marking(p) /\ w.pass = "script"
      <3>1. Agreed(w.board) /\ w.entry.is = "full" /\ b = w.board
        BY <1>1, <1>4, <2>1, <2>3 DEF ScriptFits
      <3>2. index[b].is = "full"
        BY <2>1, <3>1 DEF Alike, Agreed
      <3>3. e.is = "full"
        BY <1>5, <2>3
      <3>4. shelf'[b] = e
        BY <1>10, <1>16, <3>3
      <3> QED
        BY <2>3, <3>2, <3>3, <3>4
    <2>4. CASE ~Marking(p) /\ w.pass # "script"
      <3>1. e.is = "full"
        BY <1>5, <2>4
      <3> QED
        BY <1>10, <1>16, <2>4, <3>1
    <2> QED
      BY <2>2, <2>3, <2>4
  <1>17. ScriptFits(p)'
    <2> SUFFICES ASSUME w.pass = "script", w.board \notin doubt' PROVE index'[w.board].is = "full" /\ w.turns = e.turns
      BY <1>7, <1>8 DEF ScriptFits
    <2>1. ~Marking(p) /\ b = w.board
      BY <1>4, <1>9 DEF WorkFits, LibraryProcesses
    <2>2. w.turns = precompute
      BY <1>1, <1>4, <1>6 DEF ScriptFits
    <2>3. e.turns = w.turns
      BY <1>4, <1>5, <2>1, <2>2 DEF WorkFits, EntryFits
    <2> QED
      BY <1>1, <1>16, <2>1, <2>3
  <1>18. DocumentFits(p)'
    <2> SUFFICES ASSUME b \notin doubt'
                 PROVE  /\ shelf'[b] = e /\ e.is = "full"
                        /\ IF Marking(p) THEN ~e.available /\ index'[b].is = "full" /\ index'[b].turns = e.turns
                           ELSE e.available
      BY <1>7, <1>8, <1>9 DEF DocumentFits
    <2> QED
      BY <1>1, <1>5, <1>16
  <1>19. MarksFit(p)'
    <2> SUFFICES ASSUME NEW c \in InOrder(w.evicted), c \notin doubt', c # b PROVE Alike(c)' /\ index'[c].is = "full"
      BY <1>7, <1>8, <1>9 DEF MarksFit
    <2>1. Alike(c) /\ index[c].is = "full" /\ c \in Boards
      BY <1>1, <1>4, <1>6 DEF MarksFit
    <2> QED
      BY <1>1, <1>10, <2>1 DEF Alike
  <1>20. RowsFit(p)'
    BY <1>7, <1>8 DEF RowsFit
  <1>21. Fits(p)'
    BY <1>14, <1>15, <1>17, <1>18, <1>19, <1>20 DEF Fits
  <1> HIDE DEF w, b
  <1> QED
    BY <1>1, <1>2, <1>3, <1>6, <1>8, <1>10, <1>11, <1>12, <1>14, <1>21, FilesFit, CountsFit, ProcessMoves

LEMMA IndexReadInv == ASSUME LibraryInv, NEW p \in LibraryProcesses, IndexRead(p) PROVE LibraryInv'
  <1> DEFINE w == writer[p]
             b == Subject(p)
  <1>1. w.pc = "indexread" /\ UNCHANGED <<disk, registry, shelf, index, lost, precompute>>
    BY DEF IndexRead, AtPc
  <1>2. PICK rows : /\ writer' = [writer EXCEPT ![p].pc = "indexwrite", ![p].rows = rows]
                    /\ \/ NoLibraryFault /\ rows = index /\ UNCHANGED doubt
                       \/ LibraryFault /\ rows = NoEntries /\ doubt' = Boards
    BY DEF IndexRead
  <1>3. PICK v : v = [w EXCEPT !.pc = "indexwrite", !.rows = rows]
    OBVIOUS
  <1>4. writer' = [writer EXCEPT ![p] = v] /\ writer'[p] = v
    BY <1>2, <1>3, ActorIs DEF Writers
  <1>5. \A q \in LibraryProcesses : q # p => writer[q].pc = "down"
    BY <1>1, ActorIs
  <1>6. /\ b \in Boards /\ WorkFits(p) /\ ScriptFits(p) /\ MarksFit(p) /\ DocumentFits(p) /\ w \in Writers
        /\ InOrder(w.evicted) \subseteq Boards
    BY ActorIs DEF InOrder, Orders
  <1>7. rows \in [Boards -> Listings] /\ (rows = index \/ doubt' = Boards) /\ doubt' \subseteq Boards /\ doubt \subseteq doubt'
    BY <1>2, FilesFit, DownFits
  <1>8. /\ v \in Writers /\ v.pc = "indexwrite" /\ v.entry = w.entry /\ v.board = w.board /\ v.known = w.known
        /\ v.pass = w.pass /\ v.turns = w.turns /\ v.evicted = w.evicted /\ v.rows = rows
    BY <1>3, <1>6, <1>7 DEF Writers
  <1>9. /\ Marking(p)' = Marking(p) /\ Busy(p) /\ Busy(p)' /\ Subject(p)' = b /\ InFlux(p)' = InFlux(p)
    BY SMTT(40), <1>1, <1>4, <1>8 DEF Marking, Busy, Subject, InFlux
  <1>10. ASSUME NEW c \in Boards, c \notin doubt', c \notin InFlux(p)' PROVE Agreed(c)'
    <2>1. Agreed(c)
      BY <1>1, <1>5, <1>7, <1>9, <1>10, SettledAgree
    <2> QED
      BY <1>1, <2>1 DEF Agreed, Alike
  <1>11. WorkFits(p)'
    BY <1>1, <1>4, <1>6, <1>8, <1>9 DEF WorkFits, EntryFits
  <1>12. KnownFits(p)'
    BY <1>1, <1>4, <1>7, <1>8, KnownStays
  <1>13. ScriptFits(p)'
    BY <1>1, <1>4, <1>6, <1>7, <1>8 DEF ScriptFits
  <1>14. DocumentFits(p)'
    BY <1>1, <1>4, <1>6, <1>7, <1>8, <1>9 DEF DocumentFits
  <1>15. MarksFit(p)'
    <2> SUFFICES ASSUME NEW c \in InOrder(w.evicted), c \notin doubt', c # b PROVE Alike(c)' /\ index'[c].is = "full"
      BY <1>4, <1>8, <1>9 DEF MarksFit
    <2>1. Alike(c) /\ index[c].is = "full"
      BY <1>6, <1>7 DEF MarksFit
    <2> QED
      BY <1>1, <2>1 DEF Alike
  <1>16. RowsFit(p)'
    BY <1>1, <1>4, <1>7, <1>8 DEF RowsFit
  <1>17. Fits(p)'
    BY <1>11, <1>12, <1>13, <1>14, <1>15, <1>16 DEF Fits
  <1> HIDE DEF w, b
  <1> QED
    BY <1>1, <1>2, <1>4, <1>5, <1>7, <1>8, <1>10, <1>17, FilesFit, CountsFit, ProcessMoves

\* An entry that is written says what the manifest says.
LEMMA RowFits ==
  ASSUME LibraryInv, NEW p \in LibraryProcesses, writer[p].pc = "indexwrite", NEW old \in Listings
  PROVE  /\ Row(p, old) \in Listings
         /\ Subject(p) \notin doubt /\ old = index[Subject(p)] =>
              /\ Row(p, old).is = shelf[Subject(p)].is /\ Row(p, old).turns = shelf[Subject(p)].turns
              /\ Row(p, old).available = shelf[Subject(p)].available
              /\ Row(p, old).available <=> Subject(p) \in disk
  <1> DEFINE w == writer[p]
             b == Subject(p)
  <1>1. /\ WorkFits(p) /\ ScriptFits(p) /\ DocumentFits(p) /\ Busy(p) /\ w.entry \in Listings /\ w.turns \in BOOLEAN
        /\ (Marking(p) => b \in InOrder(w.evicted)) /\ (~Marking(p) => b = w.board)
    BY ActorIs DEF Busy, Subject, Marking
  <1>2. PICK r : r = Row(p, old)
    OBVIOUS
  <1>3. CASE Marking(p)
    <2>1. r = [is |-> IF old.is = "none" THEN "bare" ELSE old.is, turns |-> old.turns, available |-> FALSE]
      BY <1>2, <1>3 DEF Row, Listings
    <2>2. r \in Listings
      BY <2>1 DEF Listings
    <2>3. ASSUME b \notin doubt, old = index[b]
          PROVE  /\ r.is = shelf[b].is /\ r.turns = shelf[b].turns /\ r.available = shelf[b].available
                 /\ r.available <=> b \in disk
      <3>1. /\ shelf[b] = w.entry /\ w.entry.is = "full" /\ ~w.entry.available
            /\ index[b].is = "full" /\ index[b].turns = w.entry.turns
        BY <1>1, <1>3, <2>3 DEF DocumentFits
      <3>2. b \notin disk
        BY <1>1, <1>3 DEF WorkFits
      <3>3. w.entry.available = FALSE
        BY <1>1, <3>1 DEF Listings
      <3> QED
        BY <2>1, <2>3, <3>1, <3>2, <3>3
    <2> HIDE DEF w, b
    <2> QED
      BY <1>2, <2>2, <2>3 DEF b
  <1>4. CASE ~Marking(p)
    <2>1. r = [is |-> IF w.pass = "script" THEN (IF old.is = "none" THEN "bare" ELSE old.is) ELSE "full",
               turns |-> TurnStreets(w), available |-> TRUE]
      BY <1>2, <1>4 DEF Row
    <2>2. r \in Listings
      BY <1>1, <2>1 DEF Listings, TurnStreets
    <2>3. ASSUME b \notin doubt, old = index[b]
          PROVE  /\ r.is = shelf[b].is /\ r.turns = shelf[b].turns /\ r.available = shelf[b].available
                 /\ r.available <=> b \in disk
      <3>1. shelf[b] = w.entry /\ w.entry.is = "full" /\ w.entry.available
        BY <1>1, <1>4, <2>3 DEF DocumentFits
      <3>2. w.pass = "script" => index[b].is = "full" /\ w.turns = w.entry.turns
        BY <1>1, <1>4, <2>3 DEF ScriptFits
      <3>3. TurnStreets(w) = w.entry.turns
        BY <3>2 DEF TurnStreets
      <3>4. b \in disk
        BY <1>1, <1>4 DEF WorkFits
      <3>5. w.entry.available = TRUE
        BY <1>1, <3>1 DEF Listings
      <3> QED
        BY <2>1, <2>3, <3>1, <3>2, <3>3, <3>4, <3>5
    <2> HIDE DEF w, b
    <2> QED
      BY <1>2, <2>2, <2>3 DEF b
  <1> QED
    BY <1>3, <1>4

LEMMA IndexWriteInv == ASSUME LibraryInv, NEW p \in LibraryProcesses, IndexWrite(p) PROVE LibraryInv'
  <1> DEFINE w == writer[p]
             b == Subject(p)
  <1>1. w.pc = "indexwrite" /\ UNCHANGED <<disk, registry, shelf, lost, precompute>>
    BY DEF IndexWrite, AtPc
  <1>2. PICK r, v : /\ r = Row(p, w.rows[b]) /\ v = AfterRow(p) /\ writer' = [writer EXCEPT ![p] = v]
                    /\ \/ NoLibraryFault /\ UNCHANGED doubt /\ index' = [w.rows EXCEPT ![b] = r]
                       \/ LibraryFault /\ UNCHANGED index /\ doubt' = doubt \cup {b}
    BY DEF IndexWrite
  <1>3. \A q \in LibraryProcesses : q # p => writer[q].pc = "down"
    BY <1>1, ActorIs
  <1>4. /\ b \in Boards /\ WorkFits(p) /\ MarksFit(p) /\ DocumentFits(p) /\ RowsFit(p) /\ w \in Writers
        /\ InOrder(w.evicted) \subseteq Boards /\ w.rows \in [Boards -> Listings] /\ writer \in [LibraryProcesses -> Writers]
        /\ (Marking(p) => b = Head(w.evicted) /\ w.evicted \in Orders /\ w.evicted # <<>>) /\ (~Marking(p) => b = w.board)
    BY ActorIs DEF InOrder, Orders, Subject, Marking
  <1>5. /\ r \in Listings
        /\ b \notin doubt' => r.is = shelf[b].is /\ r.turns = shelf[b].turns /\ r.available = shelf[b].available
                              /\ (r.available <=> b \in disk)
    <2>1. b \notin doubt' => b \notin doubt /\ w.rows[b] = index[b]
      BY <1>1, <1>2, <1>4 DEF RowsFit
    <2>2. w.rows[b] \in Listings
      BY <1>4
    <2> QED
      BY <1>1, <1>2, <2>1, <2>2, RowFits
  <1>6. /\ doubt' \subseteq Boards /\ doubt \subseteq doubt' /\ index' \in [Boards -> Listings]
        /\ \A c \in Boards : c # b /\ c \notin doubt' => index'[c] = index[c] /\ c \notin doubt
        /\ b \notin doubt' => index'[b] = r /\ b \notin doubt
    BY <1>1, <1>2, <1>4, <1>5, FilesFit DEF RowsFit
  <1>7. writer'[p] = v
    BY <1>2, <1>4
  <1>8. ASSUME NEW c \in Boards, c = b, c \notin doubt' PROVE Agreed(c)'
    <2>1. index'[c] = r /\ UNCHANGED <<shelf, disk>>
      BY <1>1, <1>6, <1>8
    <2> QED
      BY <1>5, <1>8, <2>1 DEF Agreed, Alike
  <1>9. ASSUME NEW c \in Boards, c \notin doubt', c \notin InFlux(p) PROVE Agreed(c)'
    <2>1. Agreed(c) /\ c # b
      <3>1. b \in InFlux(p)
        BY <1>1, <1>4, HeadFits DEF InFlux
      <3> QED
        BY <1>1, <1>3, <1>6, <1>9, <3>1, SettledAgree
    <2> QED
      BY <1>1, <1>6, <1>9, <2>1 DEF Agreed, Alike
  <1>10. v \in Writers /\ Fits(p)' /\ \A c \in Boards : c \notin doubt' /\ c \notin InFlux(p)' => Agreed(c)'
    <2>1. CASE Marking(p) /\ Tail(w.evicted) = <<>>
      <3>1. v = Rested(p) /\ v \in Writers
        BY <1>2, <2>1, RestedFits DEF AfterRow, Unmarked
      <3>2. KnownFits(p)'
        BY <1>1, <1>6, <1>7, <3>1, RestedFits, KnownStays
      <3>3. Fits(p)' /\ InFlux(p)' = {}
        BY <1>7, <3>1, <3>2, RestedFits, IdleFits
      <3>4. InFlux(p) \subseteq {b}
        <4>1. InOrder(Tail(w.evicted)) = InOrder(w.evicted) \ {b}
          BY <1>4, <2>1, HeadFits
        <4>2. InOrder(w.evicted) \subseteq {b}
          BY <2>1, <4>1, DownFits
        <4> QED
          BY <2>1, <4>2 DEF InFlux
      <3> QED
        BY <1>8, <1>9, <3>1, <3>3, <3>4
    <2>2. CASE Marking(p) /\ Tail(w.evicted) # <<>>
      <3>1. v = [w EXCEPT !.pc = "read", !.evicted = Tail(w.evicted)]
        BY <1>2, <2>2 DEF AfterRow, Unmarked
      <3>2. PICK t : t = Tail(w.evicted)
        OBVIOUS
      <3>3. t \in Orders /\ InOrder(t) = InOrder(w.evicted) \ {b} /\ t # <<>>
        BY <1>4, <2>2, <3>2, HeadFits
      <3>4. /\ v \in Writers /\ v.pc = "read" /\ v.entry = w.entry /\ v.board = w.board /\ v.known = w.known
            /\ v.pass = w.pass /\ v.turns = w.turns /\ v.evicted = t
        BY <1>4, <3>1, <3>2, <3>3 DEF Writers
      <3>5. Marking(p)' /\ Busy(p) /\ Busy(p)' /\ InFlux(p)' = InOrder(t) /\ InFlux(p) = InOrder(w.evicted)
        BY <1>1, <1>7, <2>2, <3>3, <3>4 DEF Marking, Busy, InFlux
      <3>6. WorkFits(p)'
        BY <1>1, <1>4, <1>7, <2>2, <3>3, <3>4, <3>5 DEF WorkFits, EntryFits
      <3>7. KnownFits(p)'
        BY <1>1, <1>6, <1>7, <3>4, KnownStays
      <3>8. w.pass # "script"
        BY <1>4, <2>2, <3>5 DEF WorkFits, LibraryProcesses
      <3>9. ScriptFits(p)' /\ DocumentFits(p)' /\ RowsFit(p)'
        BY <1>7, <3>4, <3>8 DEF ScriptFits, DocumentFits, RowsFit
      <3>10. MarksFit(p)'
        <4> SUFFICES ASSUME NEW c \in InOrder(t), c \notin doubt' PROVE Alike(c)' /\ index'[c].is = "full"
          BY <1>7, <3>4 DEF MarksFit
        <4>1. c \in InOrder(w.evicted) /\ c # b /\ c \in Boards
          BY <1>4, <3>3
        <4>2. Alike(c) /\ index[c].is = "full" /\ index'[c] = index[c]
          BY <1>4, <1>6, <4>1 DEF MarksFit
        <4> QED
          BY <1>1, <4>2 DEF Alike
      <3>11. Fits(p)'
        BY <3>6, <3>7, <3>9, <3>10 DEF Fits
      <3> QED
        BY <1>8, <1>9, <3>3, <3>4, <3>5, <3>11
    <2>3. CASE ~Marking(p)
      <3>1. v = [w EXCEPT !.pc = IF w.pass = "flop" THEN "sweep" ELSE "touch", !.rows = NoEntries]
        BY <1>2, <2>3 DEF AfterRow
      <3>2. /\ v \in Writers /\ v.pc = (IF w.pass = "flop" THEN "sweep" ELSE "touch") /\ v.entry = w.entry
            /\ v.board = w.board /\ v.known = w.known /\ v.pass = w.pass /\ v.turns = w.turns /\ v.evicted = w.evicted
        BY <1>4, <3>1, DownFits DEF Writers
      <3>3. ~Marking(p)' /\ Busy(p) /\ Busy(p)' /\ Subject(p)' = b /\ InFlux(p)' = {} /\ InFlux(p) = {b}
        BY <1>1, <1>4, <1>7, <2>3, <3>2 DEF Marking, Busy, Subject, InFlux
      <3>4. WorkFits(p)'
        BY <1>1, <1>4, <1>7, <2>3, <3>2, <3>3 DEF WorkFits, EntryFits
      <3>5. KnownFits(p)'
        BY <1>1, <1>6, <1>7, <3>2, KnownStays
      <3>6. ScriptFits(p)' /\ RowsFit(p)'
        BY <1>7, <3>2 DEF ScriptFits, RowsFit
      <3>7. b \notin doubt' => shelf'[b].is = "full"
        BY <1>1, <1>4, <1>6, <3>3 DEF DocumentFits
      <3>8. DocumentFits(p)'
        BY <1>7, <3>2, <3>3, <3>7 DEF DocumentFits
      <3>9. MarksFit(p)'
        BY <1>7, <2>3, <3>2, DownFits DEF MarksFit, Marking
      <3>10. Fits(p)'
        BY <3>4, <3>5, <3>6, <3>8, <3>9 DEF Fits
      <3> QED
        BY <1>8, <1>9, <3>2, <3>3, <3>10
    <2> QED
      BY <2>1, <2>2, <2>3
  <1> HIDE DEF w, b
  <1> QED
    BY <1>1, <1>2, <1>3, <1>6, <1>10, FilesFit, CountsFit, ProcessMoves

LEMMA SweepInv == ASSUME LibraryInv, Sweep PROVE LibraryInv'
  <1> DEFINE p == "watcher"
             w == writer[p]
  <1>1. /\ p \in LibraryProcesses /\ w.pc = "sweep" /\ (LibraryFault \/ NoLibraryFault)
        /\ UNCHANGED <<disk, registry, shelf, index, doubt, lost, precompute>>
    BY DEF Sweep, AtPc, LibraryProcesses
  <1>2. \A q \in LibraryProcesses : q # p => writer[q].pc = "down"
    BY <1>1, ActorIs
  <1>3. /\ WorkFits(p) /\ w \in Writers /\ writer \in [LibraryProcesses -> Writers] /\ precompute \in BOOLEAN
        /\ ~Marking(p)
    BY <1>1, ActorIs, FilesFit DEF WorkFits
  <1>4. InFlux(p) = {}
    BY <1>1, <1>3 DEF InFlux
  <1>5. ASSUME NEW c \in Boards, c \notin doubt' PROVE Agreed(c)'
    <2>1. Agreed(c)
      BY <1>1, <1>2, <1>4, <1>5, SettledAgree
    <2> QED
      BY <1>1, <2>1 DEF Agreed, Alike
  <1>6. PICK v : /\ writer' = [writer EXCEPT ![p] = v]
                 /\ \/ v = Rested(p)
                    \/ \E turns \in BOOLEAN : /\ turns => precompute
                                              /\ v = [w EXCEPT !.pc = "read", !.pass = "turn", !.turns = turns]
    BY <1>3 DEF Sweep
  <1>7. writer'[p] = v
    BY <1>1, <1>3, <1>6
  <1>8. v \in Writers /\ Fits(p)'
    <2>1. CASE v = Rested(p)
      <3>1. KnownFits(p)'
        BY <1>1, <1>7, <2>1, RestedFits, KnownStays
      <3>2. v \in Writers /\ v.pc = "idle" /\ v.evicted = <<>> /\ v.entry = NoEntry /\ v.turns = FALSE
        BY <1>1, <2>1, RestedFits
      <3> QED
        BY <1>1, <1>7, <3>1, <3>2, IdleFits
    <2>2. ASSUME NEW turns \in BOOLEAN, turns => precompute,
                 v = [w EXCEPT !.pc = "read", !.pass = "turn", !.turns = turns]
          PROVE  v \in Writers /\ Fits(p)'
      <3>1. /\ v \in Writers /\ v.pc = "read" /\ v.entry = w.entry /\ v.board = w.board /\ v.known = w.known
            /\ v.pass = "turn" /\ v.turns = turns /\ v.evicted = w.evicted
        BY <1>3, <2>2 DEF Writers
      <3>2. ~Marking(p)' /\ Busy(p) /\ Busy(p)' /\ w.evicted = <<>>
        BY <1>1, <1>3, <1>7, <3>1 DEF Marking, Busy
      <3>3. WorkFits(p)'
        BY <1>1, <1>3, <1>7, <2>2, <3>1, <3>2 DEF WorkFits, EntryFits, LibraryProcesses
      <3>4. KnownFits(p)'
        BY <1>1, <1>7, <3>1, KnownStays
      <3>5. ScriptFits(p)' /\ DocumentFits(p)' /\ RowsFit(p)'
        BY <1>7, <3>1 DEF ScriptFits, DocumentFits, RowsFit
      <3>6. MarksFit(p)'
        BY <1>7, <3>1, <3>2, DownFits DEF MarksFit
      <3> QED
        BY <3>1, <3>3, <3>4, <3>5, <3>6 DEF Fits
    <2> QED
      BY <1>6, <2>1, <2>2
  <1> HIDE DEF w
  <1> QED
    BY <1>1, <1>2, <1>5, <1>6, <1>8, FilesFit, CountsFit, ProcessMoves

LEMMA TouchInv == ASSUME LibraryInv, NEW p \in LibraryProcesses, Touch(p) PROVE LibraryInv'
  <1> DEFINE w == writer[p]
  <1>1. /\ w.pc = "touch" /\ writer' = [writer EXCEPT ![p].pc = "save", ![p].known = Touched(@, w.board)]
        /\ UNCHANGED <<disk, registry, shelf, index, doubt, lost, precompute, used>>
    BY DEF Touch, AtPc
  <1>2. \A q \in LibraryProcesses : q # p => writer[q].pc = "down"
    BY <1>1, ActorIs
  <1>3. /\ WorkFits(p) /\ DocumentFits(p) /\ KnownFits(p) /\ w \in Writers /\ writer \in [LibraryProcesses -> Writers]
        /\ ~Marking(p) /\ w.known \in Orders /\ w.board \in Boards
    BY <1>1, ActorIs DEF WorkFits
  <1>4. PICK k : k = Touched(w.known, w.board)
    OBVIOUS
  <1>5. k \in Orders /\ InOrder(k) = InOrder(w.known) \cup {w.board}
    BY <1>3, <1>4, TouchedFits
  <1>6. PICK v : v = [w EXCEPT !.pc = "save", !.known = k]
    OBVIOUS
  <1>7. writer' = [writer EXCEPT ![p] = v] /\ writer'[p] = v
    BY <1>1, <1>3, <1>4, <1>6 DEF Writers
  <1>8. /\ v \in Writers /\ v.pc = "save" /\ v.entry = w.entry /\ v.board = w.board /\ v.known = k
        /\ v.pass = w.pass /\ v.turns = w.turns /\ v.evicted = w.evicted
    BY <1>3, <1>5, <1>6 DEF Writers
  <1>9. ~Marking(p)' /\ Busy(p) /\ Busy(p)' /\ w.evicted = <<>> /\ Subject(p) = w.board /\ InFlux(p) = {}
    BY <1>1, <1>3, <1>7, <1>8 DEF Marking, Busy, Subject, InFlux
  <1>10. ASSUME NEW c \in Boards, c \notin doubt' PROVE Agreed(c)'
    <2>1. Agreed(c)
      BY <1>1, <1>2, <1>9, <1>10, SettledAgree
    <2> QED
      BY <1>1, <2>1 DEF Agreed, Alike
  <1>11. WorkFits(p)'
    BY <1>1, <1>3, <1>7, <1>8, <1>9 DEF WorkFits, EntryFits
  <1>12. KnownFits(p)'
    <2>1. w.board \notin doubt => shelf[w.board].is = "full"
      BY <1>1, <1>3, <1>9 DEF DocumentFits
    <2>2. ListedFull(w.known) /\ disk \ lost \subseteq InOrder(w.known)
      BY <1>1, <1>3 DEF KnownFits
    <2>3. \A c \in InOrder(k) : c \notin doubt => shelf[c].is = "full"
      BY <1>5, <2>1, <2>2 DEF ListedFull
    <2>4. disk \ lost \subseteq InOrder(k)
      BY <1>5, <2>2
    <2> QED
      BY <1>1, <1>7, <1>8, <2>3, <2>4 DEF KnownFits, ListedFull
  <1>13. ScriptFits(p)' /\ DocumentFits(p)' /\ RowsFit(p)'
    BY <1>7, <1>8 DEF ScriptFits, DocumentFits, RowsFit
  <1>14. MarksFit(p)'
    BY <1>7, <1>8, <1>9, DownFits DEF MarksFit
  <1>15. Fits(p)'
    BY <1>11, <1>12, <1>13, <1>14 DEF Fits
  <1> HIDE DEF w
  <1> QED
    BY <1>1, <1>2, <1>7, <1>8, <1>10, <1>15, FilesFit, CountsFit, ProcessMoves DEF NoLibraryFault

LEMMA SaveRegistryInv == ASSUME LibraryInv, NEW p \in LibraryProcesses, SaveRegistry(p) PROVE LibraryInv'
  <1> DEFINE w == writer[p]
  <1>1. /\ w.pc = "save" /\ (LibraryFault \/ NoLibraryFault) /\ (UNCHANGED registry \/ registry' = Whole(w.known))
        /\ UNCHANGED <<disk, shelf, index, doubt, lost, precompute>>
    BY DEF SaveRegistry, AtPc
  <1>2. PICK v : /\ writer' = [writer EXCEPT ![p] = v]
                 /\ v = IF Marking(p) THEN [w EXCEPT !.pc = "read"]
                        ELSE IF w.pass = "turn" THEN [w EXCEPT !.pc = "enforce"] ELSE Rested(p)
    BY DEF SaveRegistry
  <1>3. \A q \in LibraryProcesses : q # p => writer[q].pc = "down"
    BY <1>1, ActorIs
  <1>4. /\ WorkFits(p) /\ MarksFit(p) /\ KnownFits(p) /\ w \in Writers /\ writer \in [LibraryProcesses -> Writers]
        /\ w.known \in Orders /\ Busy(p)
    BY <1>1, ActorIs DEF Busy
  <1>5. writer'[p] = v
    BY <1>2, <1>4
  <1>6. ASSUME NEW c \in Boards, c \notin doubt', c \notin InFlux(p) PROVE Agreed(c)'
    <2>1. Agreed(c)
      BY <1>1, <1>3, <1>6, SettledAgree
    <2> QED
      BY <1>1, <2>1 DEF Agreed, Alike
  <1>7. registry' \in [half: BOOLEAN, order: Orders] /\ RegistryFits'
    <2>1. CASE UNCHANGED registry
      BY <1>1, <2>1, FilesFit
    <2>2. CASE registry' = Whole(w.known)
      <3>1. registry' \in [half: BOOLEAN, order: Orders] /\ registry'.order = w.known
        BY <1>4, <2>2 DEF Whole
      <3> QED
        BY <1>1, <1>4, <3>1 DEF RegistryFits, KnownFits, ListedFull
    <2> QED
      BY <1>1, <2>1, <2>2
  <1>8. v \in Writers /\ Fits(p)' /\ InFlux(p)' = InFlux(p)
    <2>1. CASE Marking(p)
      <3>1. v = [w EXCEPT !.pc = "read"]
        BY <1>2, <2>1
      <3>2. /\ v \in Writers /\ v.pc = "read" /\ v.entry = w.entry /\ v.board = w.board /\ v.known = w.known
            /\ v.pass = w.pass /\ v.turns = w.turns /\ v.evicted = w.evicted
        BY <1>4, <3>1 DEF Writers
      <3>3. Marking(p)' /\ Busy(p)' /\ InFlux(p)' = InFlux(p) /\ w.pass # "script"
        BY <1>4, <1>5, <2>1, <3>2 DEF Marking, Busy, InFlux, WorkFits, LibraryProcesses
      <3>4. WorkFits(p)'
        BY <1>1, <1>4, <1>5, <2>1, <3>2, <3>3 DEF WorkFits, EntryFits
      <3>5. KnownFits(p)'
        BY <1>1, <1>5, <3>2, KnownStays
      <3>6. ScriptFits(p)' /\ DocumentFits(p)' /\ RowsFit(p)'
        BY <1>5, <3>2, <3>3 DEF ScriptFits, DocumentFits, RowsFit
      <3>7. MarksFit(p)'
        <4> SUFFICES ASSUME NEW c \in InOrder(w.evicted), c \notin doubt' PROVE Alike(c)' /\ index'[c].is = "full"
          BY <1>5, <3>2 DEF MarksFit
        <4>1. Alike(c) /\ index[c].is = "full"
          BY <1>1, <1>4 DEF MarksFit
        <4> QED
          BY <1>1, <4>1 DEF Alike
      <3> QED
        BY <3>2, <3>3, <3>4, <3>5, <3>6, <3>7 DEF Fits
    <2>2. CASE ~Marking(p) /\ w.pass = "turn"
      <3>1. v = [w EXCEPT !.pc = "enforce"]
        BY <1>2, <2>2
      <3>2. /\ v \in Writers /\ v.pc = "enforce" /\ v.entry = w.entry /\ v.board = w.board /\ v.known = w.known
            /\ v.pass = w.pass /\ v.turns = w.turns /\ v.evicted = w.evicted
        BY <1>4, <3>1 DEF Writers
      <3>3. ~Marking(p)' /\ Busy(p)' /\ InFlux(p)' = {} /\ InFlux(p) = {} /\ w.evicted = <<>>
        BY <1>1, <1>5, <2>2, <3>2 DEF Marking, Busy, InFlux
      <3>4. WorkFits(p)'
        BY <1>1, <1>4, <1>5, <2>2, <3>2, <3>3 DEF WorkFits, EntryFits
      <3>5. KnownFits(p)'
        BY <1>1, <1>5, <3>2, KnownStays
      <3>6. ScriptFits(p)' /\ DocumentFits(p)' /\ RowsFit(p)'
        BY <1>5, <2>2, <3>2 DEF ScriptFits, DocumentFits, RowsFit
      <3>7. MarksFit(p)'
        BY <1>5, <3>2, <3>3, DownFits DEF MarksFit
      <3> QED
        BY <3>2, <3>3, <3>4, <3>5, <3>6, <3>7 DEF Fits
    <2>3. CASE ~Marking(p) /\ w.pass # "turn"
      <3>1. v = Rested(p)
        BY <1>2, <2>3
      <3>2. /\ v \in Writers /\ v.pc = "idle" /\ v.evicted = <<>> /\ v.entry = NoEntry /\ v.turns = FALSE
            /\ v.known = w.known
        BY <3>1, RestedFits
      <3>3. KnownFits(p)'
        BY <1>1, <1>5, <3>2, KnownStays
      <3>4. Fits(p)' /\ InFlux(p)' = {}
        BY <1>5, <3>2, <3>3, IdleFits
      <3>5. InFlux(p) = {}
        BY <1>1, <2>3 DEF InFlux
      <3> QED
        BY <3>2, <3>4, <3>5
    <2> QED
      BY <2>1, <2>2, <2>3
  <1> HIDE DEF w
  <1> QED
    BY <1>1, <1>2, <1>3, <1>6, <1>7, <1>8, FilesFit, CountsFit, ProcessMoves

\* After an eviction what is left of the saves that are known is within the budget.
LEMMA LeftIsWithin ==
  ASSUME NEW P \in SUBSET Boards, IsFiniteSet(P), NEW o \in Orders, InOrder(o) \subseteq P,
         NEW R, R \subseteq InOrder(o) \ InOrder(SubSeq(o, 1, Evictions(Bytes(P), o)))
  PROVE  Bytes(R) <= MaxBytes
  <1> DEFINE n == Evictions(Bytes(P), o)
             G == InOrder(SubSeq(o, 1, n))
  <1>1. n \in 0 .. Len(o) /\ (Enough(Bytes(P), o, n) \/ n = Len(o))
    BY EvictionsFit
  <1>2. G = {o[i] : i \in 1 .. n} /\ G \subseteq InOrder(o) /\ (n = Len(o) => G = InOrder(o))
    BY <1>1, FirstFits
  <1>3. G \in SUBSET P /\ R \in SUBSET (P \ G) /\ P \ G \in SUBSET Boards /\ IsFiniteSet(P \ G)
    BY <1>2, FS_Subset
  <1>4. Bytes(P \ G) \in Nat /\ Bytes(P \ G) = Bytes(P) - Bytes(G) /\ Bytes(R) \in Nat /\ Bytes(R) <= Bytes(P \ G)
    BY <1>3, BytesOf
  <1>5. CASE Enough(Bytes(P), o, n)
    <2>1. Bytes(P) - Bytes(G) <= MaxBytes
      BY <1>2, <1>5 DEF Enough
    <2> QED
      BY <1>4, <2>1, BoardsAssumption
  <1>6. CASE n = Len(o)
    <2>1. R = {}
      BY <1>2, <1>6
    <2>2. Bytes(R) = 0
      BY <2>1, BytesOf
    <2> QED
      BY <2>2, BoardsAssumption
  <1> QED
    BY <1>1, <1>5, <1>6

\* An eviction, with a file that cannot be removed or none.
LEMMA EvictsInv ==
  ASSUME LibraryInv, NEW held, NEW present, NEW order, NEW gone, NEW v, writer["watcher"].pc = "enforce",
         present = Those(writer["watcher"].known, disk),
         order = Those(present, disk \ held),
         gone = SubSeq(order, 1, Evictions(Bytes(InOrder(present)), order)),
         disk' = disk \ InOrder(gone), held \subseteq InOrder(present),
         lost' = (lost \ (InOrder(registry.order) \cap InOrder(writer["watcher"].known))) \cup held,
         writer' = [writer EXCEPT !["watcher"] = v],
         v = IF gone = <<>> THEN Rested("watcher")
             ELSE [writer["watcher"] EXCEPT !.pc = "save", !.evicted = gone, !.entry = NoEntry,
                     !.known = Those(writer["watcher"].known, Boards \ InOrder(gone))],
         LibraryFault \/ NoLibraryFault, UNCHANGED <<registry, shelf, index, doubt, precompute>>
  PROVE  LibraryInv'
  <1> DEFINE p == "watcher"
             w == writer[p]
             G == InOrder(gone)
             O == InOrder(w.known)
  <1>1. p \in LibraryProcesses /\ w.pc = "enforce" /\ UNCHANGED <<registry, shelf, index, doubt, precompute>>
    BY DEF LibraryProcesses
  <1>2. \A q \in LibraryProcesses : q # p => writer[q].pc = "down"
    BY <1>1, ActorIs
  <1>3. /\ WorkFits(p) /\ KnownFits(p) /\ w \in Writers /\ writer \in [LibraryProcesses -> Writers]
        /\ w.known \in Orders /\ ~Marking(p) /\ w.pass = "turn" /\ w.turns \in BOOLEAN
    BY <1>1, ActorIs DEF WorkFits
  <1>4. writer'[p] = v
    BY <1>1, <1>3
  <1>5. InFlux(p) = {}
    BY <1>1, <1>3 DEF InFlux
  <1>6. /\ disk \subseteq Boards /\ IsFiniteSet(disk) /\ lost \subseteq Boards
        /\ ListedFull(w.known) /\ disk \ lost \subseteq O
        /\ ListedFull(registry.order) /\ disk \ lost \subseteq InOrder(registry.order)
    BY <1>1, <1>3, FilesFit DEF KnownFits, RegistryFits
  <1>7. present \in Orders /\ InOrder(present) = O \cap disk
    BY <1>3, ThoseFits
  <1>8. order \in Orders /\ InOrder(order) = (O \cap disk) \ held
    <2>1. order \in Orders /\ InOrder(order) = InOrder(present) \cap (disk \ held)
      BY <1>7, ThoseFits
    <2> QED
      BY <1>7, <2>1
  <1>9. gone \in Orders /\ G \subseteq InOrder(order) /\ (gone = <<>> => G = {})
    <2>1. PICK n : n = Evictions(Bytes(InOrder(present)), order)
      OBVIOUS
    <2>2. n \in 0 .. Len(order)
      BY <1>8, <2>1, EvictionsFit
    <2>3. gone = SubSeq(order, 1, n)
      BY <2>1
    <2>4. /\ SubSeq(order, 1, n) \in Orders /\ InOrder(SubSeq(order, 1, n)) \subseteq InOrder(order)
          /\ SubSeq(order, 1, n) = <<>> => InOrder(SubSeq(order, 1, n)) = {}
      BY <1>8, <2>2, FirstFits
    <2> QED
      BY <2>3, <2>4
  <1>10. G \subseteq O \cap disk
    BY <1>8, <1>9
  <1>11. /\ disk' \subseteq Boards /\ IsFiniteSet(disk') /\ lost' \subseteq Boards /\ disk' \subseteq disk
         /\ disk' = disk \ G
         /\ disk' \ lost' \subseteq InOrder(order) \ G
         /\ disk' \ lost' \subseteq InOrder(registry.order) /\ disk' \ lost' \subseteq O \ G
    <2>1. held \subseteq Boards
      BY <1>6, <1>7
    <2>2. lost' = (lost \ (InOrder(registry.order) \cap O)) \cup held /\ disk' = disk \ G
      OBVIOUS
    <2>3. IsFiniteSet(disk')
      BY <1>6, <2>2, FS_Subset
    <2> HIDE DEF w, G, O
    <2> QED
      BY <1>6, <1>8, <2>1, <2>2, <2>3
  <1>12. WithinBudget'
    <2>1. InOrder(present) \in SUBSET Boards /\ IsFiniteSet(InOrder(present))
      BY <1>6, <1>7, FS_Subset
    <2>2. InOrder(order) \subseteq InOrder(present)
      BY <1>7, <1>8
    <2>3. disk' \ lost' \subseteq InOrder(order) \ InOrder(SubSeq(order, 1, Evictions(Bytes(InOrder(present)), order)))
      BY <1>11
    <2>4. Bytes(disk' \ lost') <= MaxBytes
      BY <1>8, <2>1, <2>2, <2>3, LeftIsWithin
    <2> QED
      BY <2>4 DEF WithinBudget
  <1>13. RegistryFits'
    BY <1>1, <1>6, <1>11 DEF RegistryFits, ListedFull
  <1>14. ASSUME NEW c \in Boards, c \notin doubt' PROVE Alike(c)' /\ (c \notin G => Agreed(c)')
    <2>1. Agreed(c)
      BY <1>1, <1>2, <1>5, <1>14, SettledAgree
    <2>2. c \notin G => (c \in disk' <=> c \in disk)
      BY <1>11
    <2> QED
      BY <1>1, <2>1, <2>2 DEF Agreed, Alike
  <1>a. /\ doubt' \subseteq Boards /\ registry' \in [half: BOOLEAN, order: Orders]
        /\ shelf' \in [Boards -> Listings] /\ index' \in [Boards -> Listings]
        /\ used' \in [work: 0..MaxSolves, faults: 0..LibraryMaxFaults] /\ ShelfFits'
    BY <1>1, FilesFit, CountsFit
  <1>b. ASSUME v \in Writers, Fits(p)', \A c \in Boards : c \notin doubt' /\ c \notin InFlux(p)' => Agreed(c)'
        PROVE  LibraryInv'
    <2>1. writer' = [writer EXCEPT ![p] = v]
      OBVIOUS
    <2> HIDE DEF w, G, O
    <2> QED
      BY ONLY LibraryInv, <1>1, <1>2, <1>11, <1>12, <1>13, <1>a, <1>b, <2>1, ProcessMoves
  <1>15. CASE gone = <<>>
    <2>1. v = Rested(p)
      BY <1>15
    <2>2. /\ v \in Writers /\ v.pc = "idle" /\ v.evicted = <<>> /\ v.entry = NoEntry /\ v.turns = FALSE
          /\ v.known = w.known
      BY <1>1, <2>1, RestedFits
    <2>3. KnownFits(p)'
      BY ZenonT(60), <1>1, <1>4, <1>6, <1>11, <2>2 DEF KnownFits, ListedFull
    <2>4. Fits(p)' /\ InFlux(p)' = {}
      BY <1>1, <1>4, <2>2, <2>3, IdleFits
    <2>5. G = {}
      BY <1>9, <1>15
    <2> HIDE DEF w, G, O
    <2> QED
      BY <1>14, <1>b, <2>2, <2>4, <2>5
  <1>16. CASE gone # <<>>
    <2>1. PICK k : k = Those(w.known, Boards \ G)
      OBVIOUS
    <2>2. k \in Orders /\ InOrder(k) = O \ G
      <3>1. k \in Orders /\ InOrder(k) = O \cap (Boards \ G)
        BY ZenonT(60), <1>3, <2>1, ThoseFits
      <3>2. O \subseteq Boards
        BY <1>3 DEF Orders, InOrder
      <3> QED
        BY <3>1, <3>2
    <2>3. v = [w EXCEPT !.pc = "save", !.evicted = gone, !.entry = NoEntry, !.known = k]
      BY <1>16, <2>1
    <2>4. /\ v \in Writers /\ v.pc = "save" /\ v.entry = NoEntry /\ v.board = w.board /\ v.known = k
          /\ v.pass = w.pass /\ v.turns = w.turns /\ v.evicted = gone
      BY <1>3, <1>9, <2>2, <2>3, DownFits DEF Writers
    <2>5. Marking(p)' /\ Busy(p)' /\ Busy(p) /\ InFlux(p)' = G
      BY <1>1, <1>4, <1>16, <2>4 DEF Marking, Busy, InFlux
    <2>6. WorkFits(p)'
      <3>1. InOrder(gone) \cap disk' = {}
        BY <1>11
      <3>2. EntryFits(NoEntry)' /\ (w.turns => precompute')
        BY <1>1, <1>3, DownFits DEF WorkFits, EntryFits
      <3>3. writer'[p].entry = NoEntry /\ writer'[p].turns = w.turns /\ writer'[p].pc = "save"
            /\ writer'[p].pass = "turn" /\ writer'[p].evicted = gone
        BY <1>3, <1>4, <2>4
      <3> QED
        BY <2>5, <3>1, <3>2, <3>3 DEF WorkFits, EntryFits
    <2>7. KnownFits(p)'
      <3>1. \A c \in InOrder(k) : c \notin doubt => shelf[c].is = "full"
        BY <1>6, <2>2 DEF ListedFull
      <3> QED
        BY ZenonT(60), <1>1, <1>4, <1>11, <2>2, <2>4, <3>1 DEF KnownFits, ListedFull
    <2>8. ScriptFits(p)' /\ DocumentFits(p)' /\ RowsFit(p)'
      BY <1>4, <2>4 DEF ScriptFits, DocumentFits, RowsFit
    <2>9. MarksFit(p)'
      <3> SUFFICES ASSUME NEW c \in InOrder(gone), c \notin doubt' PROVE Alike(c)' /\ index'[c].is = "full"
        BY ZenonT(60), <1>4, <2>4 DEF MarksFit
      <3>1. c \in Boards /\ c \in O
        BY <1>6, <1>10
      <3>2. Alike(c)' /\ shelf[c].is = "full"
        BY <1>1, <1>6, <1>14, <3>1 DEF ListedFull
      <3> QED
        BY <1>1, <3>2 DEF Alike
    <2>10. Fits(p)'
      BY <2>6, <2>7, <2>8, <2>9 DEF Fits
    <2> HIDE DEF w, G, O
    <2> QED
      BY <1>14, <1>b, <2>4, <2>5, <2>10
  <1> QED
    BY <1>15, <1>16

LEMMA EnforceInv == ASSUME LibraryInv, Enforce PROVE LibraryInv'
  <1>1. PICK present : present = Those(writer["watcher"].known, disk)
    OBVIOUS
  <1>2. /\ writer["watcher"].pc = "enforce" /\ (LibraryFault \/ NoLibraryFault)
        /\ UNCHANGED <<registry, shelf, index, doubt, precompute>>
    BY DEF Enforce, AtPc
  <1> DEFINE order(held) == Those(present, disk \ held)
             gone(held) == SubSeq(order(held), 1, Evictions(Bytes(InOrder(present)), order(held)))
             next(held) == IF gone(held) = <<>> THEN Rested("watcher")
                           ELSE [writer["watcher"] EXCEPT !.pc = "save", !.evicted = gone(held), !.entry = NoEntry,
                                   !.known = Those(writer["watcher"].known, Boards \ InOrder(gone(held)))]
  <1>3. PICK held \in SUBSET InOrder(present) :
          /\ disk' = disk \ InOrder(gone(held))
          /\ lost' = (lost \ (InOrder(registry.order) \cap InOrder(writer["watcher"].known))) \cup held
          /\ writer' = [writer EXCEPT !["watcher"] = next(held)]
    BY ZenonT(60), <1>1 DEF Enforce
  <1>4. PICK o : o = order(held)
    OBVIOUS
  <1>5. PICK g : g = SubSeq(o, 1, Evictions(Bytes(InOrder(present)), o))
    OBVIOUS
  <1>6. PICK v : v = IF g = <<>> THEN Rested("watcher")
                     ELSE [writer["watcher"] EXCEPT !.pc = "save", !.evicted = g, !.entry = NoEntry,
                             !.known = Those(writer["watcher"].known, Boards \ InOrder(g))]
    OBVIOUS
  <1>7. disk' = disk \ InOrder(g) /\ writer' = [writer EXCEPT !["watcher"] = v] /\ o = Those(present, disk \ held)
    BY <1>3, <1>4, <1>5, <1>6
  <1>8. held \subseteq InOrder(present)
    OBVIOUS
  <1>9. lost' = (lost \ (InOrder(registry.order) \cap InOrder(writer["watcher"].known))) \cup held
    BY <1>3
  <1> HIDE DEF order, gone, next
  <1> QED
    BY ONLY LibraryInv, <1>1, <1>2, <1>5, <1>6, <1>7, <1>8, <1>9, EvictsInv

\* The library starts empty, with the watcher up.
LEMMA LibraryInitInv == LibraryInit => LibraryInv
  <1> SUFFICES ASSUME LibraryInit PROVE LibraryInv
    OBVIOUS
  <1>1. /\ disk = {} /\ registry = Whole(<<>>) /\ shelf = NoEntries /\ index = NoEntries /\ doubt = {} /\ lost = {}
        /\ precompute \in BOOLEAN /\ used = [work |-> 0, faults |-> 0]
    BY DEF LibraryInit
  <1>2. Whole(<<>>) \in [half: BOOLEAN, order: Orders] /\ Whole(<<>>).order = <<>>
    BY DownFits DEF Whole
  <1>3. used \in [work: 0..MaxSolves, faults: 0..LibraryMaxFaults]
    BY <1>1, LibraryBoundsAssumption
  <1>4. PICK up : up = [Down EXCEPT !.pc = "idle"]
    OBVIOUS
  <1>5. /\ up \in Writers /\ up.pc = "idle" /\ up.evicted = <<>> /\ up.entry = NoEntry /\ up.turns = FALSE
        /\ up.known = <<>>
    BY <1>4, DownFits DEF Writers
  <1>6. writer \in [LibraryProcesses -> Writers] /\ writer["watcher"] = up /\ writer["script"] = Down
    BY <1>4, <1>5, DownFits DEF LibraryInit, LibraryProcesses
  <1>7. ASSUME NEW p \in LibraryProcesses
        PROVE  /\ writer[p].pc \in {"idle", "down"} /\ writer[p].evicted = <<>> /\ writer[p].entry = NoEntry
               /\ writer[p].turns = FALSE /\ writer[p].known = <<>>
    BY <1>5, <1>6, DownFits DEF LibraryProcesses
  <1>8. ASSUME NEW p \in LibraryProcesses PROVE Fits(p)
    <2>1. ~Busy(p) /\ ~Marking(p) /\ InOrder(writer[p].evicted) = {} /\ InOrder(writer[p].known) = {}
      BY <1>7, DownFits DEF Busy, Marking
    <2>2. WorkFits(p)
      BY <1>7, <2>1, DownFits DEF WorkFits, EntryFits
    <2>3. ScriptFits(p) /\ DocumentFits(p) /\ MarksFit(p) /\ RowsFit(p)
      BY <1>7, <2>1 DEF ScriptFits, DocumentFits, MarksFit, RowsFit
    <2>4. KnownFits(p)
      BY <1>1, <2>1 DEF KnownFits, ListedFull
    <2> QED
      BY <2>2, <2>3, <2>4 DEF Fits
  <1>9. OneUp
    BY <1>6, DownFits DEF OneUp, LibraryProcesses
  <1>10. ShelfFits /\ OthersAgree
    <2>1. \A b \in Boards : shelf[b] = NoEntry /\ index[b] = NoEntry
      BY <1>1 DEF NoEntries
    <2> QED
      BY <2>1, DownFits DEF ShelfFits, EntryFits, OthersAgree, Agreed, Alike
  <1>11. RegistryFits
    BY <1>1, <1>2, DownFits DEF RegistryFits, ListedFull
  <1>12. IsFiniteSet(disk) /\ WithinBudget
    <2>1. disk \ lost = {} /\ IsFiniteSet({}) /\ {} \in SUBSET Boards
      BY <1>1, FS_EmptySet
    <2>2. Bytes({}) = 0
      BY <2>1, BytesOf
    <2> QED
      BY <1>1, <2>1, <2>2, BoardsAssumption DEF WithinBudget
  <1>13. LibraryTypeOK
    BY <1>1, <1>2, <1>3, <1>6, DownFits DEF LibraryTypeOK
  <1> QED
    BY <1>8, <1>9, <1>10, <1>11, <1>12, <1>13 DEF LibraryInv

\* Every step keeps the invariant.
LEMMA LibraryStepInv == LibraryInv /\ [LibraryNext]_libraryVars => LibraryInv'
  <1> SUFFICES ASSUME LibraryInv, [LibraryNext]_libraryVars PROVE LibraryInv'
    OBVIOUS
  <1>1. ASSUME NEW b \in Boards, BoardSolved(b) \/ Requested(b) \/ Reextract(b) PROVE LibraryInv'
    BY <1>1, BoardSolvedInv, RequestedInv, ReextractInv
  <1>2. ASSUME NEW p \in LibraryProcesses,
               \/ ManifestRead(p) \/ ManifestWrite(p) \/ IndexRead(p) \/ IndexWrite(p)
               \/ Touch(p) \/ SaveRegistry(p) \/ Dies(p)
        PROVE  LibraryInv'
    BY <1>2, ManifestReadInv, ManifestWriteInv, IndexReadInv, IndexWriteInv, TouchInv, SaveRegistryInv, DiesInv
  <1>3. CASE FlopFails \/ ScriptStarts \/ ScriptEnds \/ Sweep \/ Enforce \/ WatcherStops \/ WatcherStarts
    BY <1>3, FlopFailsInv, ScriptStartsInv, StopsInv, SweepInv, EnforceInv, WatcherStartsInv
  <1>4. CASE UNCHANGED libraryVars
    <2>1. UNCHANGED <<disk, registry, shelf, index, writer, doubt, lost, precompute, used>>
      BY <1>4 DEF libraryVars
    <2>2. LibraryTypeOK' /\ IsFiniteSet(disk') /\ OneUp' /\ ShelfFits' /\ RegistryFits' /\ WithinBudget'
      BY <2>1, FilesFit DEF LibraryInv, LibraryTypeOK, OneUp
    <2>3. \A b \in Boards : Alike(b)' = Alike(b) /\ Agreed(b)' = Agreed(b)
      BY <2>1 DEF Alike, Agreed
    <2>4. \A p \in LibraryProcesses : /\ Busy(p)' = Busy(p) /\ Marking(p)' = Marking(p) /\ Subject(p)' = Subject(p)
                                      /\ InFlux(p)' = InFlux(p)
      BY <2>1 DEF Busy, Marking, Subject, InFlux
    <2>5. OthersAgree'
      BY <2>1, <2>3, <2>4 DEF LibraryInv, OthersAgree
    <2>6. ASSUME NEW p \in LibraryProcesses PROVE Fits(p)'
      <3>1. WorkFits(p) /\ ScriptFits(p) /\ DocumentFits(p) /\ MarksFit(p) /\ RowsFit(p) /\ KnownFits(p)
            /\ writer[p].board \in Boards /\ InOrder(writer[p].evicted) \subseteq Boards
        BY ActorIs DEF InOrder, Orders
      <3>2. WorkFits(p)' /\ RowsFit(p)' /\ KnownFits(p)'
        BY <2>1, <2>4, <3>1 DEF WorkFits, RowsFit, KnownFits, EntryFits, ListedFull
      <3>3. ScriptFits(p)' /\ MarksFit(p)'
        BY <2>1, <2>3, <2>4, <3>1 DEF ScriptFits, MarksFit
      <3>4. DocumentFits(p)'
        BY <2>1, <2>4, <3>1 DEF DocumentFits
      <3> QED
        BY <3>2, <3>3, <3>4 DEF Fits
    <2> QED
      BY <2>2, <2>5, <2>6 DEF LibraryInv
  <1> QED
    BY <1>1, <1>2, <1>3, <1>4 DEF LibraryNext

LEMMA LibraryInvariance == LibrarySpec => []LibraryInv
  BY LibraryInitInv, LibraryStepInv, PTL DEF LibrarySpec

\* Every variable of BoardLibrary keeps its type.
THEOREM LibraryTypeCorrect == LibrarySpec => []LibraryTypeOK
  <1>1. LibraryInv => LibraryTypeOK
    BY DEF LibraryInv
  <1> QED
    BY <1>1, LibraryInvariance, PTL

\* Between two jobs the index, the manifests and the disk agree on every board
\* that no fault has touched, and the saves are within their budget.
THEOREM LibraryIsSound == LibrarySpec => []LibrarySound
  <1>1. LibraryInv => LibrarySound
    <2> SUFFICES ASSUME LibraryInv PROVE LibrarySound
      OBVIOUS
    <2>1. BudgetHeld
      BY DEF LibraryInv, WithinBudget, BudgetHeld
    <2>2. ASSUME AtRest, NEW b \in Boards \ doubt PROVE Agreed(b)
      <3>1. \A p \in LibraryProcesses : b \notin InFlux(p)
        BY <2>2, ActorIs DEF AtRest, InFlux, WorkFits, Busy
      <3> QED
        BY <3>1 DEF LibraryInv, OthersAgree
    <2>3. LibraryAgrees
      BY <2>2 DEF LibraryAgrees, Agreed, Alike
    <2> QED
      BY <2>1, <2>3 DEF LibrarySound
  <1> QED
    BY <1>1, LibraryInvariance, PTL

-----------------------------------------------------------------------------
(* The composition.                                                            *)

\* A step of the composition is a step of one part, or of none.
LEMMA PartsStep ==
  [StoredNext]_storedVars => /\ [Next]_vars /\ [SolveNext]_solveVars /\ [LibraryNext]_libraryVars
                             /\ UNCHANGED part
  <1> SUFFICES ASSUME [StoredNext]_storedVars
               PROVE  [Next]_vars /\ [SolveNext]_solveVars /\ [LibraryNext]_libraryVars /\ UNCHANGED part
    OBVIOUS
  <1>1. CASE UNCHANGED storedVars
    BY <1>1 DEF storedVars, vars, solveVars, libraryVars
  <1>2. CASE StoredNext
    BY <1>2 DEF StoredNext, OthersIdle, Idles, Moves
  <1> QED
    BY <1>1, <1>2

\* The composition implements each of its parts.
THEOREM StoredImplementsParts == StoredSpec => Spec /\ SolveSpec /\ LibrarySpec
  <1>1. StoredInit => Init /\ SolveInit /\ LibraryInit
    BY DEF StoredInit
  <1> QED
    BY <1>1, PartsStep, PTL DEF StoredSpec, Spec, SolveSpec, LibrarySpec

\* In the composition too the manifest is truthful and keeps its streets, and a
\* request leaves the watched prefix only when served.
THEOREM StoredStreets == StoredSpec => []ManifestTruthful /\ []ArchivedWasServed /\ StreetsKept
  BY StoredImplementsParts, ManifestIsTruthful, ArchivedOnlyWhenServed, StreetsAreKept

\* In the composition too a team answers one baseline, a refused run has touched
\* nothing, and what was saved stays but for a run that ended between removal and renaming.
THEOREM StoredSolves == StoredSpec => []TrainedAgainstOne /\ []RefusedUntouched /\ SavedKept
  BY StoredImplementsParts, TrainedAgainstOneBaseline, RefusedIsUntouched, SavedIsKept

\* In the composition too the saves are within their budget, and between two jobs
\* the index, the manifests and the disk agree on every board no fault has touched.
THEOREM StoredLibrary == StoredSpec => []LibrarySound
  BY StoredImplementsParts, LibraryIsSound

\* Every variable of every part keeps its type, in the composition.
THEOREM StoredTyped == StoredSpec => []StoredTypeOK
  <1>1. StoredInit => part \in Parts
    BY DEF StoredInit
  <1>2. part \in Parts /\ [StoredNext]_storedVars => (part \in Parts)'
    BY PartsStep
  <1>3. TypeOK /\ SolveTypeOK /\ LibraryTypeOK /\ part \in Parts => StoredTypeOK
    BY DEF StoredTypeOK
  <1>4. StoredSpec => [](part \in Parts)
    BY <1>1, <1>2, PTL DEF StoredSpec
  <1> QED
    BY <1>3, <1>4, StoredImplementsParts, NodeTypeCorrect, SolveTypeCorrect, LibraryTypeCorrect, PTL

=============================================================================
