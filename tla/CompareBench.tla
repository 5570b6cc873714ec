------------------------------ MODULE CompareBench ------------------------------
(***************************************************************************)
(* The compare page (SolverCompare.tsx): it queues a job for the watcher,  *)
(* polls it and can stop it, opens the jobs that are listed, and shows the *)
(* payloads of the one that was opened last, part by part as they arrive.  *)
(* The server and the watcher are those of CompareQueue, here only a       *)
(* status per job; the node that is looked at is not modelled.             *)
(***************************************************************************)
EXTENDS Naturals, FiniteSets

CONSTANTS Jobs,       \* jobs the server has or will have
          Queued,     \* those of them that are submitted from this page
          Files,      \* payload files that can be dropped on the page
          SpotOf,     \* the spot of a job or file: its tree_hash
          PartsOf,    \* its payloads: "ht" and maybe "sampled", "pio"
          Legacy,     \* jobs whose payload is the JSON dump of old
          MaxOpened,  \* bound: results opened
          MaxDropped, \* bound: times that files are dropped
          MaxFailures \* bound: requests that fail

ASSUME BenchAssumption ==
    /\ Queued \subseteq Jobs /\ Legacy \subseteq Jobs /\ Jobs \cap Files = {}
    /\ \A j \in Jobs \cup Files : PartsOf[j] \subseteq {"ht", "sampled", "pio"}
    /\ MaxOpened \in Nat /\ MaxDropped \in Nat /\ MaxFailures \in Nat

NoJob == 0
Parts == {"ht", "sampled", "pio"}
Terminal == {"Done", "Failed", "Cancelled"}
Statuses == Terminal \cup {"none", "Active"}

VARIABLES
  status,     \* on the server: the job's status, and whether it has a payload
  loaded,     \* per part, the job or file it came from
  dump,       \* multiwayDump: the job it came from
  selected,   \* loadedJobRef
  loads,      \* loadJobResult calls: job and stage
  pipeline,   \* the job of the cost panel
  benchError, \* an error is shown
  solve,      \* submitJob: its stage and its job
  stopping,   \* stopRequested
  stops,      \* stop requests on their way
  opened,     \* results opened so far
  dropped,    \* times that files were dropped so far
  failures    \* requests failed so far

benchVars == <<status, loaded, dump, selected, loads, pipeline, benchError,
               solve, stopping, stops, opened, dropped, failures>>
viewVars == <<loaded, dump, pipeline>>

Nothing == [p \in Parts |-> NoJob]
NoSolve == [stage |-> "idle", job |-> NoJob]

BenchInit ==
    /\ status = [j \in Jobs |-> IF j \in Queued THEN [is |-> "none", payload |-> FALSE]
                                ELSE [is |-> "Done", payload |-> TRUE]]
    /\ loaded = Nothing /\ dump = NoJob /\ selected = NoJob /\ loads = {}
    /\ pipeline = NoJob /\ benchError = FALSE
    /\ solve = NoSolve /\ stopping = FALSE /\ stops = {}
    /\ opened = 0 /\ dropped = 0 /\ failures = 0

MayFailNow == failures < MaxFailures /\ failures' = failures + 1

-----------------------------------------------------------------------------
(* Opening a result: loadJobResult. *)

Shown(l) == {l[p] : p \in Parts} \ {NoJob}

\* Mutation: every payload merges beside what is there.
AcceptedBeside(l, j, part) == [l EXCEPT ![part] = j]
\* acceptPayload: beside a payload of the same spot, or on an empty page.
Accepted(l, j, part) ==
    IF \E k \in Shown(l) : SpotOf[k] = SpotOf[j] THEN [l EXCEPT ![part] = j]
    ELSE [Nothing EXCEPT ![part] = j]

\* Mutation: the old view stays.
DumpAfterKept(d) == d
\* The two views are alternatives.
DumpAfter(d) == NoJob

AcceptPart(j, part) == /\ loaded' = Accepted(loaded, j, part)
                       /\ dump' = DumpAfter(dump) /\ benchError' = FALSE

\* Mutation: a job that was abandoned still has its say.
IsCurrentAlways(j) == TRUE
\* "a newer job took over"
IsCurrent(j) == selected = j

Load(j, stage) == [job |-> j, stage |-> stage]
\* The part that is fetched after this one, in the order they are fetched.
StageAfter(j, stage) ==
    CASE stage = "ht" -> "paint"
      [] stage = "paint" /\ "sampled" \in PartsOf[j] -> "sampled"
      [] stage \in {"paint", "sampled"} /\ "pio" \in PartsOf[j] -> "pio"
      [] OTHER -> "end"
Proceeds(l) == LET next == StageAfter(l.job, l.stage)
               IN loads' = (loads \ {l}) \cup (IF next = "end" THEN {} ELSE {Load(l.job, next)})

\* A job of the list (which may lag behind) that has ended and has a payload.
OpenListed(j) ==
    /\ status[j].is \in {"Done", "Cancelled"} /\ status[j].payload
    /\ opened < MaxOpened /\ opened' = opened + 1
    /\ Load(j, "ht") \notin loads
    /\ selected' = j /\ loads' = loads \cup {Load(j, "ht")} /\ benchError' = FALSE
    /\ UNCHANGED <<status, viewVars, solve, stopping, stops, dropped, failures>>

PartArrives(l) ==
    /\ l \in loads /\ l.stage # "paint"
    /\ IF ~IsCurrent(l.job)
       THEN loads' = loads \ {l} /\ UNCHANGED <<viewVars, benchError>>
       ELSE IF l.job \in Legacy
       THEN /\ loads' = loads \ {l} /\ loaded' = Nothing /\ dump' = l.job /\ pipeline' = l.job
            /\ UNCHANGED benchError
       ELSE AcceptPart(l.job, l.stage) /\ Proceeds(l) /\ UNCHANGED pipeline
    /\ UNCHANGED <<status, selected, solve, stopping, stops, opened, dropped, failures>>
\* Two animation frames later: the cost panel, whatever has been opened since.
Painted(l) == /\ l \in loads /\ l.stage = "paint"
              /\ pipeline' = l.job /\ Proceeds(l)
              /\ UNCHANGED <<status, loaded, dump, selected, benchError, solve, stopping,
                             stops, opened, dropped, failures>>
PartFails(l) == /\ l \in loads /\ l.stage # "paint" /\ MayFailNow
                /\ loads' = loads \ {l} /\ benchError' = TRUE
                /\ UNCHANGED <<status, viewVars, selected, solve, stopping, stops, opened, dropped>>

\* loadFiles: the parts of one spot, dropped together.
DropFiles(f) ==
    /\ dropped < MaxDropped /\ dropped' = dropped + 1
    /\ pipeline' = NoJob
    /\ loaded' = [p \in Parts |-> IF p \in PartsOf[f] THEN f
                                  ELSE IF \E k \in Shown(loaded) : SpotOf[k] = SpotOf[f]
                                       THEN loaded[p] ELSE NoJob]
    /\ dump' = DumpAfter(dump) /\ benchError' = FALSE
    /\ UNCHANGED <<status, selected, loads, solve, stopping, stops, opened, failures>>

-----------------------------------------------------------------------------
(* Solving: submitJob and stopJob. *)

Submit == /\ solve.stage = "idle" /\ \E j \in Queued : status[j].is = "none"
          /\ solve' = [NoSolve EXCEPT !.stage = "posting"]
          /\ stopping' = FALSE /\ pipeline' = NoJob /\ dump' = NoJob /\ benchError' = FALSE
          /\ UNCHANGED <<status, loaded, selected, loads, stops, opened, dropped, failures>>

Created(j) == /\ solve.stage = "posting" /\ status[j].is = "none"
              /\ status' = [status EXCEPT ![j].is = "Active"]
              /\ solve' = [stage |-> "polling", job |-> j]
              /\ UNCHANGED <<viewVars, selected, loads, benchError, stopping, stops,
                             opened, dropped, failures>>

\* The watcher and the server (external): the job ends, with a payload unless it fails
\* or is stopped before it has one.
JobEnds(j, is, payload) ==
    /\ status[j].is = "Active" /\ (is = "Done" => payload) /\ (is = "Failed" => ~payload)
    /\ status' = [status EXCEPT ![j] = [is |-> is, payload |-> payload]]
    /\ UNCHANGED <<viewVars, selected, loads, benchError, solve, stopping, stops,
                   opened, dropped, failures>>

\* A poll of the loop, 3 s after the last; a terminal status ends the loop, refreshes
\* the list and opens the result, if there is one.
PollReads ==
    /\ solve.stage = "polling" /\ status[solve.job].is # "Active"
    /\ IF status[solve.job].payload
       THEN /\ solve' = [solve EXCEPT !.stage = "loading"]
            /\ selected' = solve.job /\ benchError' = FALSE
            /\ loads' = loads \cup {Load(solve.job, "ht")}
       ELSE /\ solve' = NoSolve /\ benchError' = TRUE
            /\ UNCHANGED <<selected, loads>>
    /\ UNCHANGED <<status, viewVars, stopping, stops, opened, dropped, failures>>

\* Mutation: a poll that fails is not the end of the loop.
LostPollForgiven(s) == s
\* Mutation: the job stays in hand.
LostPollKeepsJob(s) == [s EXCEPT !.stage = "idle"]
\* The finally of submitJob.
LostPoll(s) == NoSolve
PollFails == /\ solve.stage \in {"posting", "polling"} /\ MayFailNow
             /\ solve' = LostPoll(solve) /\ benchError' = TRUE
             /\ \/ UNCHANGED status
                \/ \E j \in Queued : /\ solve.stage = "posting" /\ status[j].is = "none"
                                    /\ status' = [status EXCEPT ![j].is = "Active"]
             /\ UNCHANGED <<viewVars, selected, loads, stopping, stops, opened, dropped>>

\* 20 minutes after the click: the page stops asking, the job goes on.
DeadlinePasses == /\ solve.stage = "polling" /\ status[solve.job].is = "Active"
                  /\ solve' = NoSolve
                  /\ UNCHANGED <<status, viewVars, selected, loads, benchError, stopping,
                                 stops, opened, dropped, failures>>

\* submitJob awaits the result it opened.
ResultLoaded == /\ solve.stage = "loading" /\ \A l \in loads : l.job # solve.job
                /\ solve' = NoSolve
                /\ UNCHANGED <<status, viewVars, selected, loads, benchError, stopping,
                               stops, opened, dropped, failures>>

PressStop == /\ solve.stage = "polling" /\ ~stopping
             /\ stopping' = TRUE /\ stops' = stops \cup {solve.job} /\ benchError' = FALSE
             /\ UNCHANGED <<status, viewVars, selected, loads, solve, opened, dropped, failures>>
StopAnswered(j) == /\ j \in stops /\ stops' = stops \ {j}
                   /\ UNCHANGED <<status, viewVars, selected, loads, benchError, solve,
                                  stopping, opened, dropped, failures>>
StopFails(j) == /\ j \in stops /\ stops' = stops \ {j} /\ MayFailNow
                /\ stopping' = FALSE /\ benchError' = TRUE
                /\ UNCHANGED <<status, viewVars, selected, loads, solve, opened, dropped>>

BenchNext == \/ \E j \in Jobs : OpenListed(j) \/ Created(j) \/ StopAnswered(j) \/ StopFails(j)
             \/ \E l \in loads : PartArrives(l) \/ Painted(l) \/ PartFails(l)
             \/ \E f \in Files : DropFiles(f)
             \/ Submit \/ PollReads \/ PollFails \/ DeadlinePasses \/ ResultLoaded \/ PressStop
             \/ \E j \in Jobs, is \in Terminal, payload \in BOOLEAN : JobEnds(j, is, payload)

BenchSpec == BenchInit /\ [][BenchNext]_benchVars

\* Requests are answered, frames are drawn, timers run.
ALoadProceeds == \E l \in loads : PartArrives(l) \/ Painted(l) \/ PartFails(l)

-----------------------------------------------------------------------------
(* Type correctness of the page. *)
BenchTypeOK ==
    /\ status \in [Jobs -> [is : Statuses, payload : BOOLEAN]]
    /\ loaded \in [Parts -> Jobs \cup Files \cup {NoJob}] /\ dump \in Jobs \cup {NoJob}
    /\ selected \in Jobs \cup {NoJob} /\ pipeline \in Jobs \cup {NoJob}
    /\ loads \subseteq [job : Jobs, stage : {"ht", "paint", "sampled", "pio"}]
    /\ benchError \in BOOLEAN /\ stopping \in BOOLEAN /\ stops \subseteq Jobs
    /\ solve \in [stage : {"idle", "posting", "polling", "loading"}, job : Jobs \cup {NoJob}]
    /\ solve.stage \in {"idle", "posting"} <=> solve.job = NoJob
    /\ opened \in 0 .. MaxOpened /\ dropped \in 0 .. MaxDropped /\ failures \in 0 .. MaxFailures

(* "a mismatched pair can never render as a meaningless side-by-side         *)
(* comparison": in whatever order results, their parts and files arrive.    *)
OneSpotShown == \A j, k \in Shown(loaded) : SpotOf[j] = SpotOf[k]

(* "The two views are alternatives, never a stack" (acceptPayload).         *)
NeverStacked == dump = NoJob \/ loaded = Nothing

(* Once every fetch has ended and none has failed, the page shows all of    *)
(* the result that was opened last, if no file was dropped. (A click on      *)
(* Solve takes the JSON dump of an old job off the page.)                   *)
NewestIsShown ==
    loads = {} /\ failures = 0 /\ selected # NoJob /\ dropped = 0 =>
      IF selected \in Legacy THEN loaded = Nothing /\ dump \in {selected, NoJob}
      ELSE \A p \in PartsOf[selected] : loaded[p] = selected

(* A solve that was started stops being waited for: with its result, its    *)
(* error, or the deadline. (Stopping and polling do not hang on each other.)*)
SolveOwed == solve.stage # "idle"
=============================================================================
