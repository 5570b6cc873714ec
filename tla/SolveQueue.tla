------------------------------ MODULE SolveQueue ------------------------------
(* The SolveJobs queue: the table of solve jobs, the API requests that change  *)
(* it (submit, claim, report), and the Pio watchers that claim jobs and report *)
(* their progress over HTTP.                                                   *)
(*                                                                             *)
(* A handler that reads rows, decides and then saves (Entity Framework, no row *)
(* version, no transaction around the two) is two actions: one that reads and  *)
(* decides, one that saves the columns it changed.  The queue pop is a single  *)
(* UPDATE and is one action.  Time is reduced to what the sweep asks of it: a  *)
(* claimed row is `fresh' until its last heartbeat is older than the claim     *)
(* timeout.                                                                    *)
EXTENDS Integers, FiniteSets

CONSTANTS
  Watchers,      \* solver machines, each with its own watcher id
  Users,         \* people submitting game trees
  Sims,          \* identities (folder, line, position, icm, board) of a solve
  Nobody, NoSim, \* a null WatcherId; an upload that never dedupes
  MaxAttempts,   \* Watcher:MaxAttempts
  MaxJobs,       \* bound: rows ever inserted
  MaxFaults,     \* bound: requests lost or abandoned, outages and crashes
  Overlap        \* may two handlers be between their read and their save?

ASSUME BoundsAssumption == MaxAttempts \in Nat \ {0} /\ MaxJobs \in Nat /\ MaxFaults \in Nat
ASSUME OverlapAssumption == Overlap \in BOOLEAN
ASSUME WatchersAssumption == IsFiniteSet(Watchers)
ASSUME NullAssumption == Nobody \notin Watchers /\ NoSim \notin Sims /\ Watchers \cap Users = {}

Jobs == 1..MaxJobs          \* row ids, in CreatedAtUtc order
NoJob == 0

Active == {"Claimed", "Solving", "Extracting", "Uploading"}
Terminal == {"Done", "Failed"}
Open == Active \cup {"Queued"}
\* The stage that may follow each active one; Failed may follow them all.
StageAfter == [Claimed |-> "Solving", Solving |-> "Extracting",
               Extracting |-> "Uploading", Uploading |-> "Done"]

VARIABLES
  job,       \* the SolveJobs table
  call,      \* the HTTP requests in flight, by slot
  watcher,   \* the watcher processes
  faults     \* faults so far

vars == <<job, call, watcher, faults>>

\* A watcher has one request it waits for, one of its heartbeat thread, and
\* possibly one it gave up on that the API may still serve.
Slots == (Watchers \X {"main", "beat", "late"}) \cup (Users \X {"main"})

Rows == [status: Open \cup Terminal \cup {"absent"}, owner: Watchers \cup {Nobody},
         attempts: Nat, fresh: BOOLEAN, sim: Sims \cup {NoSim}]
Calls == [at: {"free", "sent", "sweep", "pop", "save", "reply"},
          kind: {"claim", "report", "submit"},
          job: Jobs \cup {NoJob}, turn: Nat, to: Active \cup Terminal \cup {"beat"},
          sim: Sims \cup {NoSim}, stale: SUBSET Jobs, spent: SUBSET Jobs]
Processes == [pc: {"idle", "claiming", "working", "reporting", "down"},
              job: Jobs \cup {NoJob}, turn: Nat, stage: Active]

Absent == [status |-> "absent", owner |-> Nobody, attempts |-> 0, fresh |-> FALSE, sim |-> NoSim]
Free == [at |-> "free", kind |-> "claim", job |-> NoJob, turn |-> 0, to |-> "beat",
         sim |-> NoSim, stale |-> {}, spent |-> {}]
Idle == [pc |-> "idle", job |-> NoJob, turn |-> 0, stage |-> "Claimed"]

Init == /\ job = [j \in Jobs |-> Absent]
        /\ call = [s \in Slots |-> Free]
        /\ watcher = [w \in Watchers |-> Idle]
        /\ faults = 0

-----------------------------------------------------------------------------
(* The API.  `s' is the slot of the request a handler serves.                  *)

\* Handlers between a read and the save that depends on it.
MidHandler == {s \in Slots : call[s].at \in {"sweep", "save"}}
MayRun == Overlap \/ MidHandler = {}

Arrived(s, kind) == call[s].at = "sent" /\ call[s].kind = kind /\ MayRun

\* The answer stays for a client that waits for it, and is dropped otherwise.
Answered(s, c) == [call EXCEPT ![s] = IF s[2] = "main" THEN [c EXCEPT !.at = "reply"] ELSE Free]

\* Mutation: later stages forgotten.
StaleRowsClaimedOnly == {j \in Jobs : job[j].status = "Claimed" /\ ~job[j].fresh}
StaleRows == {j \in Jobs : job[j].status \in Active /\ ~job[j].fresh}
\* Mutation: one attempt too many.
SpentRowsOffByOne == {j \in StaleRows : job[j].attempts > MaxAttempts}
SpentRows == {j \in StaleRows : job[j].attempts >= MaxAttempts}

\* RequeueStaleClaimsAsync, the query and the decision for each row.
SweepRead(s) ==
  /\ Arrived(s, "claim")
  /\ call' = [call EXCEPT ![s] = [@ EXCEPT !.at = IF StaleRows = {} THEN "pop" ELSE "sweep",
                                           !.stale = StaleRows, !.spent = SpentRows]]
  /\ UNCHANGED <<job, watcher, faults>>

\* Mutation: the owner is not cleared.
SweptOwned(j, spent) == [job[j] EXCEPT !.status = IF j \in spent THEN "Failed" ELSE "Queued"]
Swept(j, spent) == [job[j] EXCEPT !.owner = Nobody,
                                  !.status = IF j \in spent THEN "Failed" ELSE "Queued"]

\* RequeueStaleClaimsAsync, SaveChanges: only Status and WatcherId are written.
SweepSave(s) ==
  /\ call[s].at = "sweep"
  /\ job' = [j \in Jobs |-> IF j \in call[s].stale THEN Swept(j, call[s].spent) ELSE job[j]]
  /\ call' = [call EXCEPT ![s] = [@ EXCEPT !.at = "pop", !.stale = {}, !.spent = {}]]
  /\ UNCHANGED <<watcher, faults>>

QueuedRows == {j \in Jobs : job[j].status = "Queued"}
\* Priority is 0 in every row the code inserts, so the order is by age.
IsNext(j) == j \in QueuedRows /\ \A k \in QueuedRows : j <= k

\* Mutation: the attempt is not counted.
ClaimedUncounted(j, w) == [job[j] EXCEPT !.status = "Claimed", !.owner = w, !.fresh = TRUE]
Claimed(j, w) == [job[j] EXCEPT !.status = "Claimed", !.owner = w, !.fresh = TRUE,
                                !.attempts = @ + 1]

\* ClaimNextAsync: one UPDATE.
ClaimNext(s) ==
  /\ call[s].at = "pop" /\ MayRun
  /\ \/ /\ QueuedRows = {}
        /\ call' = Answered(s, call[s])
        /\ UNCHANGED job
     \/ \E j \in QueuedRows :
          /\ IsNext(j)
          /\ job' = [job EXCEPT ![j] = Claimed(j, s[1])]
          /\ call' = Answered(s, [call[s] EXCEPT !.job = j, !.turn = job[j].attempts + 1])
  /\ UNCHANGED <<watcher, faults>>

\* Mutation: stages may be skipped.
IsForwardOnly(current, next) == current \in Active /\ next \notin {current, "Claimed"}

IsValidTransition(current, next) ==
  /\ current \in Active
  /\ next = "Failed" \/ next = StageAfter[current]

\* The conflict check of Report and its transition check.
Accepts(row, c, w) == /\ row.status \notin Terminal
                      /\ row.owner = w
                      /\ c.to = "beat" \/ IsValidTransition(row.status, c.to)

ReportRead(s) ==
  /\ Arrived(s, "report")
  /\ call' = IF Accepts(job[call[s].job], call[s], s[1])
               THEN [call EXCEPT ![s].at = "save"]
               ELSE Answered(s, call[s])
  /\ UNCHANGED <<job, watcher, faults>>

\* Mutation: a keepalive's missing status is saved.
ReportedAnyway(row, to) == [row EXCEPT !.fresh = TRUE, !.status = to]
\* Report, SaveChanges: LastHeartbeatUtc, and Status when one was reported.
Reported(row, to) == [row EXCEPT !.fresh = TRUE, !.status = IF to = "beat" THEN @ ELSE to]

ReportSave(s) ==
  /\ call[s].at = "save" /\ call[s].kind = "report"
  /\ job' = [job EXCEPT ![call[s].job] = Reported(@, call[s].to)]
  /\ call' = Answered(s, call[s])
  /\ UNCHANGED <<watcher, faults>>

Duplicates(sim) == {j \in Jobs : sim # NoSim /\ job[j].sim = sim /\ job[j].status \in Open}

\* CreateOrDedupeJobAsync, the lookup: an open identical job is handed back.
SubmitRead(s) ==
  /\ Arrived(s, "submit")
  /\ call' = [call EXCEPT ![s] = IF Duplicates(@.sim) # {} THEN Free ELSE [@ EXCEPT !.at = "save"]]
  /\ UNCHANGED <<job, watcher, faults>>

InsertedRow(sim) == [Absent EXCEPT !.status = "Queued", !.sim = sim]

\* CreateOrDedupeJobAsync, the insert.  Bounded by MaxJobs.
SubmitSave(s) ==
  /\ call[s].at = "save" /\ call[s].kind = "submit"
  /\ \E j \in Jobs : /\ job[j] = Absent
                     /\ \A k \in Jobs : k < j => job[k] # Absent
                     /\ job' = [job EXCEPT ![j] = InsertedRow(call[s].sim)]
  /\ call' = [call EXCEPT ![s] = Free]
  /\ UNCHANGED <<watcher, faults>>

-----------------------------------------------------------------------------
(* The clients.                                                                *)

Submit(u, sim) ==
  /\ call[<<u, "main">>] = Free
  /\ \E j \in Jobs : job[j] = Absent
  /\ call' = [call EXCEPT ![<<u, "main">>] = [Free EXCEPT !.at = "sent", !.kind = "submit", !.sim = sim]]
  /\ UNCHANGED <<job, watcher, faults>>

\* main's claim poll: claim_next is called when no job is being worked on.
Poll(w) ==
  /\ watcher[w].pc = "idle"
  /\ watcher' = [watcher EXCEPT ![w].pc = "claiming"]
  /\ call' = [call EXCEPT ![<<w, "main">>] = [Free EXCEPT !.at = "sent"]]
  /\ UNCHANGED <<job, faults>>

Report(w, to) == [Free EXCEPT !.at = "sent", !.kind = "report", !.job = watcher[w].job,
                              !.turn = watcher[w].turn, !.to = to]

\* The heartbeat thread runs from the Solving report to the final one.
Beating(w) == watcher[w].pc \in {"working", "reporting"} /\ watcher[w].stage # "Claimed"

Beat(w) ==
  /\ Beating(w)
  /\ call[<<w, "beat">>] = Free
  /\ call' = [call EXCEPT ![<<w, "beat">>] = Report(w, "beat")]
  /\ UNCHANGED <<job, watcher, faults>>

\* process_claimed_job: the next stage of the solve is reported, or, once the
\* solve has begun, its failure.
ReportStage(w) ==
  /\ watcher[w].pc = "working"
  /\ \E to \in {StageAfter[watcher[w].stage]} \cup
               {x \in {"Failed"} : watcher[w].stage # "Claimed"} :
       call' = [call EXCEPT ![<<w, "main">>] = Report(w, to)]
  /\ watcher' = [watcher EXCEPT ![w].pc = "reporting"]
  /\ UNCHANGED <<job, faults>>

\* What a watcher does once a claim or a report of its own is over, whatever
\* came of it: report() swallows refusals and errors alike, so the pipeline
\* goes on to its next stage.
Resumed(w, c) ==
  IF c.kind = "claim"
    THEN IF c.at = "reply" /\ c.job # NoJob
           THEN [pc |-> "working", job |-> c.job, turn |-> c.turn, stage |-> "Claimed"]
           ELSE Idle
    ELSE IF c.to \in Terminal THEN Idle ELSE [watcher[w] EXCEPT !.pc = "working", !.stage = c.to]

Receive(w) ==
  LET c == call[<<w, "main">>] IN
  /\ c.at = "reply"
  /\ watcher' = [watcher EXCEPT ![w] = Resumed(w, c)]
  /\ call' = [call EXCEPT ![<<w, "main">>] = Free]
  /\ UNCHANGED <<job, faults>>

\* The request never reaches the API, or its answer never the watcher.
Lose(w) ==
  LET c == call[<<w, "main">>] IN
  /\ faults < MaxFaults /\ c.at \in {"sent", "reply"}
  /\ watcher' = [watcher EXCEPT ![w] = Resumed(w, [c EXCEPT !.at = "free"])]
  /\ call' = [call EXCEPT ![<<w, "main">>] = Free]
  /\ faults' = faults + 1
  /\ UNCHANGED job

\* The client's timeout: the request is still on its way or being served.
GiveUp(w) ==
  LET c == call[<<w, "main">>] IN
  /\ faults < MaxFaults /\ c.at \in {"sent", "sweep", "pop", "save"}
  /\ call[<<w, "late">>] = Free
  /\ watcher' = [watcher EXCEPT ![w] = Resumed(w, [c EXCEPT !.at = "free"])]
  /\ call' = [call EXCEPT ![<<w, "main">>] = Free, ![<<w, "late">>] = c]
  /\ faults' = faults + 1
  /\ UNCHANGED job

\* The process dies; a request it had sent may still be served.
Crash(w) ==
  /\ faults < MaxFaults /\ watcher[w].pc # "down"
  /\ watcher' = [watcher EXCEPT ![w] = [Idle EXCEPT !.pc = "down"]]
  /\ \E kept \in {Free} \cup {c \in {call[<<w, "main">>]} : c.at \in {"sent", "sweep", "pop", "save"}} :
       /\ kept # Free => call[<<w, "late">>] = Free
       /\ call[<<w, "main">>].at \in {"sweep", "pop", "save"} => kept # Free
       /\ call' = [call EXCEPT ![<<w, "main">>] = Free,
                               ![<<w, "late">>] = IF kept = Free THEN @ ELSE kept]
  /\ faults' = faults + 1
  /\ UNCHANGED job

\* PioClient's constructor raises outside process_claimed_job's try: the
\* exception leaves main's loop, and the finally there exits the process.
PioFailsToStart(w) ==
  /\ faults < MaxFaults
  /\ watcher[w].pc = "working" /\ watcher[w].stage = "Solving"
  /\ watcher' = [watcher EXCEPT ![w] = [Idle EXCEPT !.pc = "down"]]
  /\ faults' = faults + 1
  /\ UNCHANGED <<job, call>>

Restart(w) ==
  /\ watcher[w].pc = "down"
  /\ watcher' = [watcher EXCEPT ![w] = Idle]
  /\ UNCHANGED <<job, call, faults>>

\* The claim a watcher holds, a job and the attempt it was given for: of the job
\* it works on, or of the one that a claim's answer is bringing it.
NoClaim == <<NoJob, 0>>
Held(w) == LET c == call[<<w, "main">>] IN
  IF watcher[w].pc \in {"working", "reporting"} THEN <<watcher[w].job, watcher[w].turn>>
  ELSE IF c.at = "reply" /\ c.kind = "claim" THEN <<c.job, c.turn>> ELSE NoClaim

\* The claim timeout passes without a heartbeat.  With the owner at work on
\* the row it takes an outage; a row nobody works on goes silent by itself.
AtWork(j) == \E w \in Watchers : job[j].owner = w /\ Held(w)[1] = j

AgeOut(j) ==
  /\ job[j].status \in Active /\ job[j].fresh
  /\ AtWork(j) => faults < MaxFaults
  /\ job' = [job EXCEPT ![j].fresh = FALSE]
  /\ faults' = IF AtWork(j) THEN faults + 1 ELSE faults
  /\ UNCHANGED <<call, watcher>>

-----------------------------------------------------------------------------
Serve(s) == SweepRead(s) \/ SweepSave(s) \/ ClaimNext(s) \/ ReportRead(s) \/ ReportSave(s)
            \/ SubmitRead(s) \/ SubmitSave(s)
Work(w) == Poll(w) \/ ReportStage(w) \/ Receive(w) \/ Restart(w)
Fault(w) == Lose(w) \/ GiveUp(w) \/ Crash(w) \/ PioFailsToStart(w)

Next == \/ \E s \in Slots : Serve(s)
        \/ \E w \in Watchers : Work(w) \/ Beat(w) \/ Fault(w)
        \/ \E u \in Users, sim \in Sims \cup {NoSim} : Submit(u, sim)
        \/ \E j \in Jobs : AgeOut(j)

Spec == Init /\ [][Next]_vars

\* The API serves what reaches it, a watcher keeps polling and working and is
\* restarted when it goes down, and a silent claim ages.
Fairness == /\ \A s \in Slots : WF_vars(Serve(s))
            /\ \A w \in Watchers : WF_vars(Work(w))
            /\ \A j \in Jobs : WF_vars(AgeOut(j) /\ ~AtWork(j))
FairSpec == Spec /\ Fairness
-----------------------------------------------------------------------------
(* Properties.                                                                 *)

\* The abstract queue, read off the table.
Lifecycle == INSTANCE JobLifecycle WITH
  status <- [j \in Jobs |-> job[j].status], owner <- [j \in Jobs |-> job[j].owner],
  attempts <- [j \in Jobs |-> job[j].attempts], heard <- [j \in Jobs |-> job[j].fresh]

\* Handlers whose reads and saves do not overlap implement the atomic queue: no
\* interleaving of requests, losses and crashes makes a row do anything else.
ImplementsLifecycle == Lifecycle!Spec

\* Every variable keeps its type.
TypeOK == /\ job \in [Jobs -> Rows]
          /\ call \in [Slots -> Calls]
          /\ watcher \in [Watchers -> Processes]
          /\ faults \in 0..MaxFaults

\* Two watchers never hold the same claim, and none holds a claim from an attempt
\* that has not been counted: what the atomic pop of ClaimNextAsync is for.
\* True whatever the sweeps and reports around it do.
ClaimsDistinct ==
  \A w \in Watchers : Held(w)[1] # NoJob =>
    /\ \A v \in Watchers : Held(v) = Held(w) => v = w
    /\ Held(w)[2] <= job[Held(w)[1]].attempts

\* However claims are lost and swept, a job is handed out at most MaxAttempts
\* times; its row names a claimer while it is claimed and nobody while it is
\* queued, so that the owner check of Report lets in the current claimer only.
ClaimsAccounted ==
  \A j \in Jobs : /\ job[j].attempts <= MaxAttempts
                  /\ job[j].status \in Active => job[j].owner \in Watchers
                  /\ job[j].status = "Queued" => job[j].owner = Nobody

\* Sweeps overlap: one may save, long after it read, over a row that another has
\* queued again and a watcher has claimed, or even finished.  Each so hands the job
\* out once more than MaxAttempts allows, but only once: a row past its attempts is
\* spent for every sweep that reads it then, so the excess is bounded by the claim
\* requests there can be, however many requests are lost and processes die.
Sweepers == Watchers \X {"main", "late"}
HandOutsBounded == \A j \in Jobs : job[j].attempts < MaxAttempts + Cardinality(Sweepers)

\* Every queued job ends Done or Failed, though claims and reports are lost and
\* watchers crash: sweeps run only inside claims, so this needs a watcher that
\* comes back to polling.
EveryJobEnds == \A j \in Jobs : job[j].status = "Queued" ~> job[j].status \in Terminal
=============================================================================
