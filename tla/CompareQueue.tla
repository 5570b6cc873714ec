----------------------------- MODULE CompareQueue -----------------------------
(* The engine-compare queue: an owner queues solves, stops them and deletes    *)
(* them; the compare watcher claims one at a time, runs its child processes    *)
(* and reports, and learns of a Stop from the answers to its reports.          *)
(*                                                                             *)
(* Handlers that read a row, decide and save are two actions, as in            *)
(* SolveQueue.  What the result of a solve replaces is SolveLineage's subject: *)
(* here every job is a lineage of its own.                                     *)
EXTENDS Integers, Sequences

CONSTANTS
  Watchers,     \* machines that run engine_compare_watcher (one, by its README)
  Users,        \* browser tabs of the jobs' owner
  Nobody,       \* a null WatcherId
  Modes,        \* the kinds of job queued, of those Children knows
  MaxAttempts,  \* Watcher:MaxAttempts
  MaxJobs,      \* bound: rows ever inserted
  MaxFaults,    \* bound: lost requests, outages, crashes and failed steps
  Overlap       \* may two handlers be between their read and their save?

\* The child processes of a job, in order.  `solve' and `resolve' are htsolver
\* (`resolve' the second, sampled core), the others turn its artifact into what
\* is uploaded.
Children == [compare |-> <<"solve", "extract">>,
             twocores |-> <<"solve", "resolve", "extract", "reextract">>,
             multiway |-> <<"solve", "extract">>,
             pushfold |-> <<"solve", "dump">>,
             publish |-> <<"solve">>]

ASSUME BoundsAssumption == MaxAttempts \in Nat \ {0} /\ MaxJobs \in Nat /\ MaxFaults \in Nat
ASSUME OverlapAssumption == Overlap \in BOOLEAN
ASSUME NullAssumption == Nobody \notin Watchers /\ Watchers \cap Users = {}
ASSUME ModesAssumption == Modes \subseteq DOMAIN Children

Jobs == 1..MaxJobs          \* row ids, in CreatedAtUtc order
NoJob == 0

Active == {"Claimed", "Running", "Uploading"}
Terminal == {"Done", "Failed", "Cancelled"}
StageAfter == [Claimed |-> "Running", Running |-> "Uploading", Uploading |-> "Done"]

VARIABLES
  job,       \* the EngineCompareJobs table
  blob,      \* the jobs whose result is in storage
  call,      \* the HTTP requests in flight, by slot
  watcher,   \* the watcher processes
  faults     \* faults so far

vars == <<job, blob, call, watcher, faults>>

Slots == (Watchers \X {"main", "beat", "late"}) \cup (Users \X {"main"})

Rows == [status: Active \cup Terminal \cup {"absent", "Queued", "gone"}, mode: DOMAIN Children,
         owner: Watchers \cup {Nobody}, attempts: Nat, fresh: BOOLEAN,
         stop: BOOLEAN, result: BOOLEAN]
Calls == [at: {"free", "sent", "sweep", "pop", "blobs", "save", "reply"},
          kind: {"claim", "report", "publish", "cancel", "delete"},
          job: Jobs \cup {NoJob}, to: Active \cup Terminal \cup {"beat"}, result: BOOLEAN,
          stop: BOOLEAN, conflict: BOOLEAN,
          swept: [Jobs -> {"kept", "Queued", "Failed", "Cancelled"}]]
Steps == {"idle", "claiming", "claimed", "reporting", "running", "stopping",
          "solved", "uploading", "closing", "down"}
\* What of a job's children is still to run.
Plans == {SubSeq(Children[mode], i, Len(Children[mode])) : mode \in DOMAIN Children, i \in 1..5}
\* requested, applied and disowned are the fields of Cancellation; `out' is how
\* the handler ended: by its last statement or by an exception.
Processes == [pc: Steps, job: Jobs \cup {NoJob}, mode: DOMAIN Children, todo: Plans,
              requested: BOOLEAN, applied: BOOLEAN, disowned: BOOLEAN, artifact: BOOLEAN,
              out: {"result", "Cancelled", "Failed"}]

Absent == [status |-> "absent", mode |-> "compare", owner |-> Nobody, attempts |-> 0,
           fresh |-> FALSE, stop |-> FALSE, result |-> FALSE]
Unswept == [j \in Jobs |-> "kept"]
Free == [at |-> "free", kind |-> "claim", job |-> NoJob, to |-> "beat", result |-> FALSE,
         stop |-> FALSE, conflict |-> FALSE, swept |-> Unswept]
Idle == [pc |-> "idle", job |-> NoJob, mode |-> "compare", todo |-> <<>>, requested |-> FALSE,
         applied |-> FALSE, disowned |-> FALSE, artifact |-> FALSE, out |-> "result"]

Init == /\ job = [j \in Jobs |-> Absent]
        /\ blob = {}
        /\ call = [s \in Slots |-> Free]
        /\ watcher = [w \in Watchers |-> Idle]
        /\ faults = 0

-----------------------------------------------------------------------------
(* The API.                                                                    *)

MidHandler == {s \in Slots : call[s].at \in {"sweep", "blobs", "save"}}
Arrived(s, kind) == /\ call[s].at = "sent" /\ call[s].kind = kind
                    /\ Overlap \/ MidHandler = {}

\* The answer stays for a client that waits for it, and is dropped otherwise.
Answered(s, c) == [call EXCEPT ![s] = IF s[2] # "late" THEN [c EXCEPT !.at = "reply"] ELSE Free]

\* Mutation: the owner's wish is not looked at.
VerdictRequeues(row) == IF row.attempts >= MaxAttempts THEN "Failed" ELSE "Queued"
\* What the sweep makes of a silent claim.
Verdict(row) == IF row.stop THEN "Cancelled"
                ELSE IF row.attempts >= MaxAttempts THEN "Failed" ELSE "Queued"
Stale(row) == row.status \in Active /\ ~row.fresh

SweepRead(s) ==
  /\ Arrived(s, "claim")
  /\ LET swept == [j \in Jobs |-> IF Stale(job[j]) THEN Verdict(job[j]) ELSE "kept"] IN
       call' = [call EXCEPT ![s].at = IF swept = Unswept THEN "pop" ELSE "sweep",
                            ![s].swept = swept]
  /\ UNCHANGED <<job, blob, watcher, faults>>

\* One SaveChanges: it fails as a whole if a row has gone, and the claim with it.
SweepSave(s) ==
  LET swept == call[s].swept IN
  /\ call[s].at = "sweep"
  /\ IF \E j \in Jobs : swept[j] # "kept" /\ job[j].status = "gone"
       THEN call' = Answered(s, Free) /\ UNCHANGED job
       ELSE /\ job' = [j \in Jobs |-> IF swept[j] = "kept" THEN job[j]
                                      ELSE [job[j] EXCEPT !.owner = Nobody, !.status = swept[j]]]
            /\ call' = [call EXCEPT ![s].at = "pop", ![s].swept = Unswept]
  /\ UNCHANGED <<blob, watcher, faults>>

QueuedRows == {j \in Jobs : job[j].status = "Queued"}

ClaimNext(s) ==
  /\ call[s].at = "pop" /\ (Overlap \/ MidHandler = {})
  /\ \/ QueuedRows = {} /\ call' = Answered(s, call[s]) /\ UNCHANGED job
     \/ \E j \in QueuedRows :
          /\ \A k \in QueuedRows : j <= k
          /\ job' = [job EXCEPT ![j].status = "Claimed", ![j].owner = s[1], ![j].fresh = TRUE,
                                ![j].attempts = @ + 1]
          /\ call' = Answered(s, [call[s] EXCEPT !.job = j])
  /\ UNCHANGED <<blob, watcher, faults>>

IsValidTransition(current, next) ==
  current \in Active /\ (next \in {"Failed", "Cancelled"} \/ next = StageAfter[current])

Claimant(row, w) == row.status \notin Terminal /\ row.owner = w

\* A report is refused with a conflict (409), unless the row is gone (404).
ReportRead(s) ==
  LET c == call[s]  row == job[c.job] IN
  /\ Arrived(s, "report")
  /\ call' = IF row.status = "gone" THEN Answered(s, c)
             ELSE IF Claimant(row, s[1]) /\ (c.to = "beat" \/ IsValidTransition(row.status, c.to))
               THEN [call EXCEPT ![s].at = "save", ![s].stop = row.stop]
               ELSE Answered(s, [c EXCEPT !.conflict = TRUE])
  /\ UNCHANGED <<job, blob, watcher, faults>>

\* Mutations: a heartbeat's missing status is written too; the paths are not.
ReportedAnyway(row, c) == [row EXCEPT !.fresh = TRUE, !.status = c.to, !.result = @ \/ c.result]
ReportedBare(row, c) == [row EXCEPT !.fresh = TRUE, !.status = IF c.to = "beat" THEN @ ELSE c.to]
Reported(row, c) == [row EXCEPT !.fresh = TRUE, !.status = IF c.to = "beat" THEN @ ELSE c.to,
                                !.result = @ \/ c.result]

\* A save on a row that has gone fails, and the answer carries nothing.
ReportSave(s) ==
  LET c == call[s] IN
  /\ c.at = "save" /\ c.kind = "report"
  /\ IF job[c.job].status = "gone"
       THEN call' = Answered(s, [c EXCEPT !.stop = FALSE]) /\ UNCHANGED job
       ELSE call' = Answered(s, c) /\ job' = [job EXCEPT ![c.job] = Reported(@, c)]
  /\ UNCHANGED <<blob, watcher, faults>>

\* PublishArtifact: the claimant's artifact becomes a library entry ...
PublishRead(s) ==
  LET c == call[s] IN
  /\ Arrived(s, "publish")
  /\ IF job[c.job].status # "gone" /\ Claimant(job[c.job], s[1])
       THEN call' = [call EXCEPT ![s].at = "save"] /\ blob' = blob \cup {c.job}
       ELSE call' = Answered(s, [c EXCEPT !.conflict = TRUE]) /\ UNCHANGED blob
  /\ UNCHANGED <<job, watcher, faults>>

\* ... and its coordinates go into the row.
PublishSave(s) ==
  LET c == call[s] IN
  /\ c.at = "save" /\ c.kind = "publish"
  /\ IF job[c.job].status = "gone"
       THEN call' = Answered(s, [c EXCEPT !.conflict = TRUE]) /\ UNCHANGED job
       ELSE /\ call' = Answered(s, c)
            /\ job' = [job EXCEPT ![c.job].fresh = TRUE, ![c.job].result = TRUE]
  /\ UNCHANGED <<blob, watcher, faults>>

\* Cancel: a queued job is over at once, an active one is marked.
CancelRead(s) ==
  LET row == job[call[s].job] IN
  /\ Arrived(s, "cancel")
  /\ call' = [call EXCEPT ![s] =
       IF row.status \in Terminal \cup {"gone"} THEN Free
       ELSE [@ EXCEPT !.at = "save", !.to = IF row.status = "Queued" THEN "Cancelled" ELSE "beat"]]
  /\ UNCHANGED <<job, blob, watcher, faults>>

CancelSave(s) ==
  LET c == call[s] IN
  /\ c.at = "save" /\ c.kind = "cancel"
  /\ IF job[c.job].status = "gone" THEN UNCHANGED job
     ELSE job' = [job EXCEPT ![c.job].stop = TRUE,
                             ![c.job].status = IF c.to = "Cancelled" THEN c.to ELSE @]
  /\ call' = [call EXCEPT ![s] = Free]
  /\ UNCHANGED <<blob, watcher, faults>>

\* Mutation: a running job may be deleted.
MayDeleteAny(row) == row.status # "gone"
MayDelete(row) == row.status \in Terminal

\* Delete: the blobs the row points at go first, then the row.
DeleteRead(s) ==
  LET row == job[call[s].job] IN
  /\ Arrived(s, "delete")
  /\ call' = [call EXCEPT ![s] = IF MayDelete(row)
                                   THEN [@ EXCEPT !.at = "blobs",
                                                  !.result = row.result /\ row.mode # "publish"]
                                   ELSE Free]
  /\ UNCHANGED <<job, blob, watcher, faults>>

DeleteBlobs(s) ==
  /\ call[s].at = "blobs"
  /\ blob' = IF call[s].result THEN blob \ {call[s].job} ELSE blob
  /\ call' = [call EXCEPT ![s].at = "save"]
  /\ UNCHANGED <<job, watcher, faults>>

DeleteSave(s) ==
  /\ call[s].at = "save" /\ call[s].kind = "delete"
  /\ job' = [job EXCEPT ![call[s].job] = [Absent EXCEPT !.status = "gone", !.mode = job[call[s].job].mode]]
  /\ call' = [call EXCEPT ![s] = Free]
  /\ UNCHANGED <<blob, watcher, faults>>

-----------------------------------------------------------------------------
(* The owner.                                                                  *)

\* Create: one insert.
Create(j, mode) ==
  /\ job[j].status = "absent" /\ \A k \in Jobs : k < j => job[k].status # "absent"
  /\ job' = [job EXCEPT ![j] = [Absent EXCEPT !.status = "Queued", !.mode = mode]]
  /\ UNCHANGED <<blob, call, watcher, faults>>

Ask(u, kind, j) ==
  /\ call[<<u, "main">>] = Free /\ job[j].status \notin {"absent", "gone"}
  /\ call' = [call EXCEPT ![<<u, "main">>] = [Free EXCEPT !.at = "sent", !.kind = kind, !.job = j]]
  /\ UNCHANGED <<job, blob, watcher, faults>>

-----------------------------------------------------------------------------
(* The watcher.                                                                *)

Send(w, c) == call' = [call EXCEPT ![<<w, "main">>] = [c EXCEPT !.at = "sent"]]
Report(w, to) == [Free EXCEPT !.kind = "report", !.job = watcher[w].job, !.to = to]
Become(w, p) == watcher' = [watcher EXCEPT ![w] = p]

Poll(w) ==
  /\ watcher[w].pc = "idle"
  /\ Become(w, [Idle EXCEPT !.pc = "claiming"])
  /\ Send(w, Free)
  /\ UNCHANGED <<job, blob, faults>>

\* The statuses a handler reports as it goes.
ReportStage(w) ==
  /\ \E step \in {<<"claimed", "Running">>, <<"solved", "Uploading">>} :
       watcher[w].pc = step[1] /\ Send(w, Report(w, step[2]))
  /\ Become(w, [watcher[w] EXCEPT !.pc = "reporting"])
  /\ UNCHANGED <<job, blob, faults>>

\* Mutation: the answer's cancelRequested is not read.
ObservedConflicts(p, c) == [p EXCEPT !.disowned = @ \/ c.conflict, !.requested = @ \/ c.conflict]
\* Cancellation.observe.
Observed(p, c) == [p EXCEPT !.disowned = @ \/ c.conflict, !.requested = @ \/ c.conflict \/ c.stop]

Hear(w) ==
  /\ call[<<w, "beat">>].at = "reply"
  /\ Become(w, Observed(watcher[w], call[<<w, "beat">>]))
  /\ call' = [call EXCEPT ![<<w, "beat">>] = Free]
  /\ UNCHANGED <<job, blob, faults>>

\* What the watcher does when a request of its own is over; c.at = "reply" if it
\* was answered.  Only the first report of a job is observed.
After(w, c) ==
  LET p == watcher[w]  answered == c.at = "reply" IN
  IF c.kind = "claim"
    THEN IF answered /\ c.job # NoJob
           THEN [Idle EXCEPT !.pc = "claimed", !.job = c.job, !.mode = job[c.job].mode,
                             !.todo = Children[job[c.job].mode]]
           ELSE Idle
  ELSE IF c.kind = "publish"
    THEN [p EXCEPT !.pc = "closing", !.out = IF answered /\ ~c.conflict THEN @ ELSE "Failed"]
  ELSE IF c.to = "Running" /\ ~(answered /\ c.conflict)
    THEN [(IF answered THEN Observed(p, c) ELSE p) EXCEPT !.pc = "running"]
  ELSE IF c.to = "Uploading" THEN [p EXCEPT !.pc = "uploading"]
  ELSE Idle

\* The heartbeat thread runs until the handler ends or raises.
Beating(w) ==
  LET c == call[<<w, "main">>] IN
  /\ watcher[w].pc \notin {"idle", "claiming", "down"} /\ watcher[w].out = "result"
  /\ c.at = "reply" => After(w, c) # Idle

\* The heartbeat thread, and any keepalive report of the handler.
Beat(w) ==
  /\ Beating(w) /\ call[<<w, "beat">>] = Free
  /\ call' = [call EXCEPT ![<<w, "beat">>] = [Report(w, "beat") EXCEPT !.at = "sent"]]
  /\ UNCHANGED <<job, blob, watcher, faults>>

\* A job is left only when its heartbeat thread has ended.
Leaves(w, p) == Become(w, p) /\ (p = Idle => call[<<w, "beat">>] = Free)

Receive(w) ==
  /\ call[<<w, "main">>].at = "reply"
  /\ Leaves(w, After(w, call[<<w, "main">>]))
  /\ call' = [call EXCEPT ![<<w, "main">>] = Free]
  /\ UNCHANGED <<job, blob, faults>>

Child(p) == Head(p.todo)
Engine(p) == Child(p) \in {"solve", "resolve"}

\* The child left what it was run for.  A solve whose job was taken away is
\* dropped, and a stopped first solve is not followed by the second core's.
Advanced(p) ==
  LET todo == IF p.applied /\ p.todo = Children.twocores THEN <<"extract">> ELSE Tail(p.todo) IN
  IF Engine(p) /\ p.disowned THEN [p EXCEPT !.pc = "closing", !.out = "Cancelled"]
  ELSE [p EXCEPT !.todo = todo, !.artifact = @ \/ Engine(p),
                 !.pc = IF todo = <<>> THEN "solved" ELSE "running"]

\* Mutation: a killed child is taken for a failed one.
MissingFails(p) == "Failed"
\* The child left nothing: which exception the handler raises.
Missing(p) ==
  IF p.applied /\ (Engine(p) \/ (Child(p) = "extract" /\ p.mode # "multiway"))
    THEN "Cancelled" ELSE "Failed"
Raised(p, out) == [p EXCEPT !.pc = "closing", !.out = out]

ChildSucceeds(w) ==
  /\ watcher[w].pc = "running"
  /\ Become(w, Advanced(watcher[w]))
  /\ UNCHANGED <<job, blob, call, faults>>

\* The child fails, or runs into its time limit.
ChildFails(w) ==
  /\ faults < MaxFaults /\ watcher[w].pc \in {"running", "stopping"}
  /\ \E out \in {Missing(watcher[w]), "Failed"} : Become(w, Raised(watcher[w], out))
  /\ faults' = faults + 1
  /\ UNCHANGED <<job, blob, call>>

\* dump-json is run without a cancellation.
Stoppable(p) == p.requested /\ Child(p) # "dump"

\* run_streamed notices the request: htsolver is asked through its stop file,
\* any other stoppable child is killed, its output written or not.
ApplyStop(w) ==
  LET p == [watcher[w] EXCEPT !.applied = TRUE] IN
  /\ watcher[w].pc = "running" /\ Stoppable(watcher[w])
  /\ IF Engine(p) THEN Become(w, [p EXCEPT !.pc = "stopping"])
     ELSE \E next \in {Advanced(p), Raised(p, Missing(p))} : Become(w, next)
  /\ UNCHANGED <<job, blob, call, faults>>

\* The engine writes what it has, or is killed at the end of its grace.
EngineStops(w) ==
  /\ watcher[w].pc = "stopping"
  /\ \E next \in {Advanced(watcher[w]), Raised(watcher[w], Missing(watcher[w]))} : Become(w, next)
  /\ UNCHANGED <<job, blob, call, faults>>

\* The result goes to storage, or to the API to be published.
Upload(w) ==
  /\ watcher[w].pc = "uploading"
  /\ \/ /\ watcher[w].mode # "publish"
        /\ blob' = blob \cup {watcher[w].job}
        /\ Become(w, [watcher[w] EXCEPT !.pc = "closing"])
        /\ UNCHANGED call
     \/ /\ watcher[w].mode = "publish"
        /\ Send(w, [Free EXCEPT !.kind = "publish", !.job = watcher[w].job])
        /\ Become(w, [watcher[w] EXCEPT !.pc = "reporting"])
        /\ UNCHANGED blob
  /\ UNCHANGED <<job, faults>>

UploadFails(w) ==
  /\ faults < MaxFaults /\ watcher[w].pc = "uploading" /\ watcher[w].mode # "publish"
  /\ Become(w, Raised(watcher[w], "Failed"))
  /\ faults' = faults + 1
  /\ UNCHANGED <<job, blob, call>>

TerminalStatus(p) == IF p.applied THEN "Cancelled" ELSE "Done"

\* The last report: with the result inside the heartbeat's scope, with what an
\* exception says after it.
Close(w) ==
  LET p == watcher[w] IN
  /\ p.pc = "closing"
  /\ IF p.out = "result"
       THEN Send(w, [Report(w, TerminalStatus(p)) EXCEPT !.result = p.mode # "publish"])
       ELSE call[<<w, "beat">>] = Free /\ Send(w, Report(w, p.out))
  /\ Become(w, [p EXCEPT !.pc = "reporting"])
  /\ UNCHANGED <<job, blob, faults>>

\* A request or its answer is lost, or the API dies serving it.
Lose(w) ==
  LET c == call[<<w, "main">>] IN
  /\ faults < MaxFaults /\ c.at # "free"
  /\ Leaves(w, After(w, [c EXCEPT !.at = "free"]))
  /\ call' = [call EXCEPT ![<<w, "main">>] = Free]
  /\ faults' = faults + 1
  /\ UNCHANGED <<job, blob>>

\* The thread is waited for two seconds: it may be left with its request out.
LoseBeat(w) ==
  LET c == call[<<w, "beat">>] IN
  /\ faults < MaxFaults /\ c.at # "free"
  /\ \E kept \in {Free, c} :
       /\ kept # Free => c.at # "reply" /\ call[<<w, "late">>] = Free
       /\ call' = [call EXCEPT ![<<w, "beat">>] = Free,
                               ![<<w, "late">>] = IF kept = Free THEN @ ELSE kept]
  /\ faults' = faults + 1
  /\ UNCHANGED <<job, blob, watcher>>

\* The client's timeout: the request is still on its way or being served.
GiveUp(w) ==
  LET c == call[<<w, "main">>] IN
  /\ faults < MaxFaults /\ c.at \notin {"free", "reply"} /\ call[<<w, "late">>] = Free
  /\ Leaves(w, After(w, [c EXCEPT !.at = "free"]))
  /\ call' = [call EXCEPT ![<<w, "main">>] = Free, ![<<w, "late">>] = c]
  /\ faults' = faults + 1
  /\ UNCHANGED <<job, blob>>

Crash(w) ==
  LET c == call[<<w, "main">>] IN
  /\ faults < MaxFaults /\ watcher[w].pc # "down"
  /\ Become(w, [Idle EXCEPT !.pc = "down"])
  /\ \E kept \in {Free, c} :
       /\ kept # Free => c.at # "reply" /\ call[<<w, "late">>] = Free
       /\ call' = [call EXCEPT ![<<w, "main">>] = Free, ![<<w, "beat">>] = Free,
                               ![<<w, "late">>] = IF kept = Free THEN @ ELSE kept]
  /\ faults' = faults + 1
  /\ UNCHANGED <<job, blob>>

Restart(w) ==
  /\ watcher[w].pc = "down"
  /\ Become(w, Idle)
  /\ UNCHANGED <<job, blob, call, faults>>

\* The API dies serving the owner's request.
Abort(u) ==
  /\ faults < MaxFaults /\ call[<<u, "main">>].at \in {"blobs", "save"}
  /\ call' = [call EXCEPT ![<<u, "main">>] = Free]
  /\ faults' = faults + 1
  /\ UNCHANGED <<job, blob, watcher>>

\* The claim timeout passes; with the owner at work that takes an outage.
AtWork(j) == \E w \in Watchers : /\ job[j].owner = w
                                 /\ watcher[w].job = j \/ call[<<w, "main">>].job = j

AgeOut(j) ==
  /\ job[j].status \in Active /\ job[j].fresh
  /\ AtWork(j) => faults < MaxFaults
  /\ job' = [job EXCEPT ![j].fresh = FALSE]
  /\ faults' = IF AtWork(j) THEN faults + 1 ELSE faults
  /\ UNCHANGED <<blob, call, watcher>>

-----------------------------------------------------------------------------
Serve(s) == \/ SweepRead(s) \/ SweepSave(s) \/ ClaimNext(s)
            \/ ReportRead(s) \/ ReportSave(s) \/ PublishRead(s) \/ PublishSave(s)
            \/ CancelRead(s) \/ CancelSave(s)
            \/ DeleteRead(s) \/ DeleteBlobs(s) \/ DeleteSave(s)
Work(w) == Poll(w) \/ ReportStage(w) \/ Receive(w) \/ ApplyStop(w) \/ EngineStops(w)
           \/ Upload(w) \/ Close(w) \/ Restart(w)
Fault(w) == Lose(w) \/ LoseBeat(w) \/ GiveUp(w) \/ Crash(w) \/ ChildFails(w) \/ UploadFails(w)

Next == \/ \E s \in Slots : Serve(s)
        \/ \E w \in Watchers : Work(w) \/ ChildSucceeds(w) \/ Beat(w) \/ Hear(w) \/ Fault(w)
        \/ \E j \in Jobs : AgeOut(j) \/ \E mode \in Modes : Create(j, mode)
        \/ \E u \in Users : Abort(u) \/ \E kind \in {"cancel", "delete"}, j \in Jobs : Ask(u, kind, j)

Spec == Init /\ [][Next]_vars

\* The API serves what reaches it; a watcher goes on, beats and is restarted.
\* A solve may run for ever unless it is stopped; the steps after it do not.
Fairness == /\ \A s \in Slots : WF_vars(Serve(s))
            /\ \A w \in Watchers : /\ WF_vars(Work(w)) /\ WF_vars(Beat(w)) /\ WF_vars(Hear(w))
                                   /\ WF_vars(ChildSucceeds(w) /\ ~Engine(watcher[w]))
            /\ \A j \in Jobs : WF_vars(AgeOut(j) /\ ~AtWork(j))
FairSpec == Spec /\ Fairness
-----------------------------------------------------------------------------
(* Properties.                                                                 *)

\* Every variable keeps its type.
TypeOK == /\ job \in [Jobs -> Rows]
          /\ blob \subseteq Jobs
          /\ call \in [Slots -> Calls]
          /\ watcher \in [Watchers -> Processes]
          /\ faults \in 0..MaxFaults

\* A stop may be saved between a sweep's read and its save, or over what a sweep
\* has saved since the Cancel read: the stopped job is then in the queue, to be
\* claimed and stopped once more.  There is no other way back, and it closes: once
\* the job is out of the queue and no sweep in flight holds it as one to queue,
\* nothing that overlaps ever queues it, until its owner deletes it.
StopSettled(j) == /\ job[j].stop /\ job[j].status # "Queued"
                  /\ \A s \in Slots : call[s].at = "sweep" => call[s].swept[j] # "Queued"
StoppedForGood ==
  [][\A j \in Jobs : StopSettled(j) => StopSettled(j)' \/ job'[j].status = "gone"]_vars

\* What a row says of its result is true.  A job that is Done has one in storage,
\* until its owner deletes it: the upload comes before the report, and no other
\* path ends in Done.  A deleted job leaves nothing there: only finished jobs are
\* deleted, and a finished job's watcher uploads nothing more.
Deleting(j) == \E u \in Users : LET c == call[<<u, "main">>] IN
  c.at = "save" /\ c.kind = "delete" /\ c.job = j
ResultsAccounted ==
  \A j \in Jobs :
    /\ job[j].status = "Done" => job[j].result /\ (j \notin blob => faults > 0 \/ Deleting(j))
    /\ job[j].status = "gone" /\ job[j].mode # "publish" /\ faults = 0 => j \notin blob

\* A stopped job whose engine wrote its artifact ends with that result, unless
\* its claim was lost ("stopping keeps the work").
StoppedSolveKept ==
  \A s \in Slots : LET c == call[s] IN
    c.at = "save" /\ c.kind = "report" /\ c.to = "Cancelled" /\ s[2] = "main"
      /\ watcher[s[1]].artifact /\ ~watcher[s[1]].disowned
    => c.result \/ job[c.job].result

\* No job fails unless something failed: a Stop is not a failure.  Of the modes
\* whose handler asks, when an output is missing, whether a stop was applied.
FailsOnlyByFault ==
  faults = 0 => \A j \in Jobs : job[j].mode \in {"compare", "pushfold", "publish"}
                                => job[j].status # "Failed"

\* A stop, once asked for, ends the job, however long the solve would run and
\* whatever requests are lost: the heartbeats bring it to the watcher, or the
\* sweep finds the claim silent.
StopEnds == \A j \in Jobs : job[j].stop ~> job[j].status \in Terminal \cup {"gone"}
=============================================================================
