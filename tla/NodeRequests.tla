----------------------------- MODULE NodeRequests -----------------------------
(* On-demand streets: a page asks for a street of a solved board, the API      *)
(* stores the request as a blob and pushes a message for it, and the Pio       *)
(* watcher, which drains the queue and now and then lists the blobs, extracts  *)
(* the street from the board's local .cfr (solving the board again if the file *)
(* was evicted), publishes it in the board's manifest and archives the blob.   *)
(*                                                                             *)
(* One board, whose manifest exists; its flop and turns are left out, so the   *)
(* streets here are those a re-solve does not extract.  The watcher is one     *)
(* thread: a step of it is what it does between two calls to storage.          *)
EXTENDS Integers, FiniteSets

CONSTANTS
  Requests,    \* request blobs ever posted
  Streets,     \* streets of the board that are asked for
  MaxDequeue,  \* WATCHER_QUEUE_MAX_DEQUEUE
  Faults,      \* what may go wrong
  MaxFaults,   \* bound: faults, UTC midnights among them
  MaxEvictions \* bound: evictions of the board's .cfr

FaultKinds == {"crash", "enqueue", "receive", "solve", "giveup", "upload", "reread", "misread",
               "archive", "delete", "midnight"}
\* Those that are taken for an answer, or lose one, and the day's end.
Grave == {"solve", "giveup", "upload", "reread", "misread", "midnight"}

ASSUME FaultsAssumption == Faults \subseteq FaultKinds
ASSUME BoundsAssumption == MaxDequeue \in Nat \ {0} /\ MaxFaults \in Nat /\ MaxEvictions \in Nat

VARIABLES
  request,   \* the request blobs, and the day's directory they are in
  message,   \* the queue's messages, one per request
  manifest,  \* the board's manifest: what it says of each street
  bundle,    \* the streets whose bundle is in storage
  cfr,       \* is the board's .cfr on the watcher's disk?
  watcher,   \* the watcher's process
  budget     \* faults, the grave kinds among them, and evictions so far

vars == <<request, message, manifest, bundle, cfr, watcher, budget>>

\* A blob that was copied to noderequests-processed and not deleted is in both.
RequestRows == [at: {"none", "watched", "both", "archived"}, street: Streets, today: BOOLEAN]
Messages == [at: {"none", "visible", "hidden", "parked"}, count: 0..MaxDequeue]
Entries == {"none", "resolving", "extracted"}
\* push is its WATCHER_NODEREQ_QUEUE, hand the group in work, read the manifest in
\* memory, pending the streets to extract.
Processes == [pc: {"drain", "reconcile", "group", "resolve", "extract", "publish", "archive",
                   "delete", "down"},
              push: BOOLEAN, via: {"push", "list"}, hand: SUBSET Requests, seen: SUBSET Requests,
              read: [Streets -> Entries], pending: SUBSET Streets]

Nothing == [s \in Streets |-> "none"]
Fresh(push) == [pc |-> "drain", push |-> push, via |-> "push", hand |-> {}, seen |-> {},
                read |-> Nothing, pending |-> {}]

\* Mutation: what is there at the start counts as seen.
StartedSeeded == {[Fresh(p) EXCEPT !.seen = {i \in Requests : request[i].at \in {"watched", "both"}}] : p \in BOOLEAN}
Started == {Fresh(p) : p \in BOOLEAN}

Init == /\ request \in [Requests -> [at: {"none"}, street: Streets, today: {TRUE}]]
        /\ message = [i \in Requests |-> [at |-> "none", count |-> 0]]
        /\ manifest = Nothing
        /\ bundle = {}
        /\ cfr = TRUE
        /\ watcher \in Started
        /\ budget = [faults |-> 0, kinds |-> {}, evictions |-> 0]

Exists(i) == request[i].at \in {"watched", "both"}
Fault(kind) == /\ kind \in Faults /\ budget.faults < MaxFaults
               /\ budget' = [budget EXCEPT !.faults = @ + 1, !.kinds = @ \cup ({kind} \cap Grave)]
NoFault == UNCHANGED budget
Then(pc) == watcher' = [watcher EXCEPT !.pc = pc]
\* The end of a group, and of the pass it was found by.
Loop == [watcher EXCEPT !.pc = "drain", !.hand = {}, !.read = Nothing, !.pending = {}]

-----------------------------------------------------------------------------
(* The API.                                                                    *)

\* The blob is written, then the message sent; if that fails, the request is
\* accepted all the same.
Post(i) ==
  /\ request[i].at = "none"
  /\ request' = [request EXCEPT ![i].at = "watched", ![i].today = TRUE]
  /\ \/ NoFault /\ message' = [message EXCEPT ![i].at = "visible"]
     \/ Fault("enqueue") /\ UNCHANGED message
  /\ UNCHANGED <<manifest, bundle, cfr, watcher>>

-----------------------------------------------------------------------------
(* The queue (a library's) and the calendar.                                   *)

\* The visibility timeout of a message that was received and not deleted.
Reappear(i) ==
  /\ message[i].at = "hidden"
  /\ message' = [message EXCEPT ![i].at = "visible"]
  /\ UNCHANGED <<request, manifest, bundle, cfr, watcher, budget>>

\* Midnight and its grace have passed: what was posted is yesterday's.
Midnight ==
  /\ (\E i \in Requests : Exists(i)) /\ Fault("midnight")
  /\ request' = [i \in Requests |-> [request[i] EXCEPT !.today = ~Exists(i)]]
  /\ UNCHANGED <<message, manifest, bundle, cfr, watcher>>

-----------------------------------------------------------------------------
(* The watcher: how requests are found.                                        *)

\* Mutation: a message is poison one delivery too late.
PoisonLate(count) == count > MaxDequeue
Poison(count) == count >= MaxDequeue

\* drain_noderequest_queue: one message, which is parked, dropped or worked on.
Receive(i) ==
  /\ watcher.pc = "drain" /\ watcher.push /\ message[i].at = "visible"
  /\ LET count == message[i].count + 1 IN
       \/ /\ Poison(count)
          /\ message' = [message EXCEPT ![i] = [at |-> "parked", count |-> count]]
          /\ UNCHANGED watcher
       \/ /\ ~Poison(count)
          /\ message' = [message EXCEPT ![i] = [at |-> "hidden", count |-> count]]
          /\ watcher' = [watcher EXCEPT !.via = "push", !.hand = {i},
                           !.pc = IF i \in watcher.seen \/ ~Exists(i) THEN "delete" ELSE "group",
                           !.seen = IF Exists(i) THEN @ ELSE @ \cup {i}]
  /\ UNCHANGED <<request, manifest, bundle, cfr, budget>>

\* The queue is empty, or cannot be read, or is turned off.
DrainEnds ==
  /\ watcher.pc = "drain"
  /\ \/ watcher.push /\ (\A i \in Requests : message[i].at # "visible") /\ NoFault
     \/ watcher.push /\ Fault("receive")
     \/ ~watcher.push /\ NoFault
  /\ Then("reconcile")
  /\ UNCHANGED <<request, message, manifest, bundle, cfr>>

\* The listing: what is in today's directory and was not seen by this process.
Unseen == {i \in Requests : Exists(i) /\ request[i].today /\ i \notin watcher.seen}
\* Mutation: with a queue there is nothing to list.
UnseenPull == IF watcher.push THEN {} ELSE Unseen
Listed == Unseen

Reconcile ==
  LET new == Listed IN
  /\ watcher.pc = "reconcile"
  /\ watcher' = IF new = {} THEN [watcher EXCEPT !.pc = "drain"]
                ELSE [watcher EXCEPT !.pc = "group", !.via = "list", !.hand = new, !.seen = @ \cup new]
  /\ UNCHANGED <<request, message, manifest, bundle, cfr, budget>>

\* The listing's time has not come.
SkipReconcile ==
  /\ watcher.pc = "reconcile" /\ watcher.push
  /\ Then("drain")
  /\ UNCHANGED <<request, message, manifest, bundle, cfr, budget>>

-----------------------------------------------------------------------------
(* The watcher: how a group of requests is served.                             *)

\* Mutation: what is already there is extracted again.
PendingAll(read) == {request[i].street : i \in watcher.hand}
\* Mutation: a street that is being solved again is left to whoever solves it.
PendingUnmarked(read) == {s \in {request[i].street : i \in watcher.hand} : read[s] = "none"}
Pending(read) == {s \in {request[i].street : i \in watcher.hand} : read[s] # "extracted"}

\* A listed blob that cannot be read now counts as invalid, and is archived.
Misread(i) ==
  /\ watcher.pc = "group" /\ watcher.via = "list" /\ i \in watcher.hand
  /\ Fault("misread")
  /\ request' = [request EXCEPT ![i].at = "archived"]
  /\ watcher' = IF watcher.hand = {i} THEN Loop ELSE [watcher EXCEPT !.hand = @ \ {i}]
  /\ UNCHANGED <<message, manifest, bundle, cfr>>

\* The manifest is read.  If the .cfr is gone, the streets are shown as being
\* solved again.
GroupRead ==
  LET pending == Pending(manifest)
      read == IF cfr THEN manifest
              ELSE [s \in Streets |-> IF s \in pending THEN "resolving" ELSE manifest[s]] IN
  /\ watcher.pc = "group"
  /\ \/ NoFault /\ manifest' = read
     \/ manifest # read /\ Fault("upload") /\ UNCHANGED manifest
  /\ watcher' = [watcher EXCEPT !.read = read, !.pending = pending,
                   !.pc = IF pending = {} THEN "archive" ELSE IF cfr THEN "extract" ELSE "resolve"]
  /\ UNCHANGED <<request, message, bundle, cfr>>

\* There is nothing to serve it from: the manifest cannot be read, no .cfr came
\* of the solve, or no extract of the .cfr.  A return like any other.
GroupGivesUp ==
  /\ watcher.pc \in {"group", "resolve", "extract"} /\ Fault("giveup")
  /\ Then("archive")
  /\ UNCHANGED <<request, message, manifest, bundle, cfr>>

\* An exception leaves the group: its blobs stay, and so does its message.
GroupFails ==
  /\ watcher.pc \in {"resolve", "extract"} /\ Fault("solve")
  /\ watcher' = Loop
  /\ UNCHANGED <<request, message, manifest, bundle, cfr>>

\* process_gametree_json merges what it publishes into the manifest, and starts
\* anew one that it cannot read; then the manifest is read again, if it can be.
Resolve ==
  /\ watcher.pc = "resolve"
  /\ cfr' = TRUE
  /\ LET Read(m) == watcher' = [watcher EXCEPT !.pc = "extract", !.read = m] IN
       \/ NoFault /\ UNCHANGED manifest /\ Read(manifest)
       \/ Fault("reread") /\ manifest' = Nothing /\ Read(Nothing)
       \/ Fault("reread") /\ UNCHANGED manifest /\ Read(watcher.read)
  /\ UNCHANGED <<request, message, bundle>>

\* Mutation: an upload that failed is published too.
MarkedPending(read, ok) == [s \in Streets |-> IF s \in watcher.pending THEN "extracted" ELSE read[s]]
Marked(read, ok) == [s \in Streets |-> IF s \in ok THEN "extracted" ELSE read[s]]

\* The streets are extracted and their bundles uploaded, one or another failing.
Extract ==
  /\ watcher.pc = "extract"
  /\ \E ok \in SUBSET watcher.pending :
       /\ IF ok = watcher.pending THEN NoFault ELSE Fault("upload")
       /\ bundle' = bundle \cup ok
       /\ watcher' = [watcher EXCEPT !.pc = "publish", !.read = Marked(@, ok)]
  /\ UNCHANGED <<request, message, manifest, cfr>>

Publish ==
  /\ watcher.pc = "publish"
  /\ \/ NoFault /\ manifest' = watcher.read
     \/ Fault("upload") /\ UNCHANGED manifest
  /\ Then("archive")
  /\ UNCHANGED <<request, message, bundle, cfr>>

\* Only a message has to be deleted.
AfterArchive == IF watcher.via = "push" THEN [watcher EXCEPT !.pc = "delete"] ELSE Loop

\* archive_request_blob, of every blob of the group; a move that fails leaves
\* the blob where it was, in both prefixes at worst.
Archive ==
  /\ watcher.pc = "archive"
  /\ \/ NoFault /\ request' = [i \in Requests |-> IF i \in watcher.hand
                                                    THEN [request[i] EXCEPT !.at = "archived"] ELSE request[i]]
     \/ /\ Fault("archive")
        /\ \E i \in watcher.hand, left \in {"watched", "both"} :
             request' = [k \in Requests |->
               IF k = i THEN [request[k] EXCEPT !.at = IF @ = "both" THEN @ ELSE left]
               ELSE IF k \in watcher.hand THEN [request[k] EXCEPT !.at = "archived"] ELSE request[k]]
  /\ watcher' = [AfterArchive EXCEPT !.seen = @ \cup watcher.hand]
  /\ UNCHANGED <<message, manifest, bundle, cfr>>

Delete ==
  /\ watcher.pc = "delete"
  /\ message' = [i \in Requests |-> IF i \in watcher.hand THEN [message[i] EXCEPT !.at = "none"] ELSE message[i]]
  /\ watcher' = Loop
  /\ UNCHANGED <<request, manifest, bundle, cfr, budget>>

-----------------------------------------------------------------------------
(* The watcher: the rest of its life.                                          *)

\* Between two drains it may solve another board, and evict this one's .cfr.
Evict ==
  /\ watcher.pc = "reconcile" /\ cfr /\ budget.evictions < MaxEvictions
  /\ cfr' = FALSE
  /\ budget' = [budget EXCEPT !.evictions = @ + 1]
  /\ UNCHANGED <<request, message, manifest, bundle, watcher>>

\* The process ends: it is killed, or the queue's client raises on a deletion,
\* which nothing catches before main's finally exits.
Crash ==
  /\ watcher.pc # "down"
  /\ Fault("crash") \/ (watcher.pc = "delete" /\ Fault("delete"))
  /\ watcher' = [Fresh(watcher.push) EXCEPT !.pc = "down"]
  /\ UNCHANGED <<request, message, manifest, bundle, cfr>>

Restart ==
  /\ watcher.pc = "down"
  /\ watcher' \in Started
  /\ UNCHANGED <<request, message, manifest, bundle, cfr, budget>>

-----------------------------------------------------------------------------
Work == \/ \E i \in Requests : Receive(i)
        \/ DrainEnds \/ GroupRead \/ Resolve \/ Extract \/ Publish \/ Archive \/ Delete \/ Restart
Trouble == GroupFails \/ GroupGivesUp \/ Crash \/ \E i \in Requests : Misread(i)

Next == \/ \E i \in Requests : Post(i) \/ Reappear(i)
        \/ Work \/ Reconcile \/ SkipReconcile \/ Trouble \/ Evict \/ Midnight

Spec == Init /\ [][Next]_vars

\* The watcher works on and is restarted, messages reappear, and the listing's
\* timer is not overtaken for ever.
Fairness == /\ WF_vars(Work) /\ SF_vars(Reconcile)
            /\ \A i \in Requests : WF_vars(Reappear(i))
FairSpec == Spec /\ Fairness

-----------------------------------------------------------------------------
(* Properties.                                                                 *)

\* Every variable keeps its type.
TypeOK == /\ request \in [Requests -> RequestRows]
          /\ message \in [Requests -> Messages]
          /\ manifest \in [Streets -> Entries]
          /\ bundle \subseteq Streets
          /\ cfr \in BOOLEAN
          /\ watcher \in Processes
          /\ budget \in [faults: 0..MaxFaults, kinds: SUBSET Grave, evictions: 0..MaxEvictions]

\* What the manifest calls extracted a page can load: the bundles go first,
\* and only those whose upload succeeded are entered.
ManifestTruthful == \A s \in Streets : manifest[s] = "extracted" => s \in bundle

\* No fault of these kinds has happened.
Without(kinds) == budget.kinds \cap kinds = {}

\* A street that is in the library stays there: eviction, re-solves and crashes
\* never take it out of the manifest again, unless the manifest was there and
\* could not be read when it was merged into.
StreetsKept ==
  [][Without({"reread"})' => \A s \in Streets : manifest[s] = "extracted" => manifest'[s] = "extracted"]_vars

\* A request is out of the watched prefix only when its street is published:
\* blobs of a failed group stay put, those of one that gave up, or whose uploads
\* failed, do not.
ArchivedWasServed ==
  Without({"misread", "giveup", "upload", "reread"}) =>
    \A i \in Requests : request[i].at = "archived" => manifest[request[i].street] = "extracted"

\* A request the API has accepted is served in the end: by its message, or by
\* the listing if there is none, whatever crashes or is delivered again, short of
\* a failure that is taken for an answer and of midnight.
EveryRequestServed ==
  \A i \in Requests :
    Exists(i) ~> \/ manifest[request[i].street] = "extracted"
                 \/ ~Without({"misread", "giveup", "solve", "upload", "reread", "midnight"})
=============================================================================
